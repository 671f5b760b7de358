SPECIFICATION Spec

CONSTANTS
  None = None
  s1 = s1
  s2 = s2
  p1 = p1
  r1 = r1
  v1 = v1
  Source <- MCSources
  InitialSources = {}
  Proposal = {p1}
  MapReference = {r1}
  MapSize = {1, 2}
  MaxLectures = 2
  Document <- MCDocument
  Policy = {v1}
  IssueDigest = {}
  BlockerCode = {}
  MaxRevision = 10
  MaxAttempt = 2
  Holder = {h1}
  Duration = {1}
  MaxTime = 1
  Thread = {t1, t2}
  QualityMode = "review"
  MaxRequests = 2
  MaxAbandoned = 1
  Start <- StartAnywhere

INVARIANTS
  AcceptedIsRecorded
  LiveRequestsAreCurrent
  ReopenedByVerdict
  OperationsAdvanceOnce

CONSTRAINT Budget

SYMMETRY Threads

CHECK_DEADLOCK FALSE
