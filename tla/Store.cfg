SPECIFICATION UsedSpec

CONSTANTS
  None = None
  q1 = q1
  q2 = q2
  q3 = q3
  j1 = j1
  j2 = j2
  o1 = o1
  o2 = o2
  o3 = o3
  d1 = d1
  d2 = d2
  RequestId = {q1, q2, q3}
  Request <- MCConflicts
  Result <- MCResults
  Holder = {h1, h2}
  Duration = {1}
  MaxTime = 2

INVARIANTS
  EveryRowDecodes
  OneLivePerRevision

PROPERTIES
  AcceptedIsFinal
  LeaseIsExclusive

CHECK_DEADLOCK FALSE
