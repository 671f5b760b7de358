SPECIFICATION Spec

CONSTANTS
  None = None
  s1 = s1
  s2 = s2
  s3 = s3
  s4 = s4
  x1 = x1
  x2 = x2
  x3 = x3
  x4 = x4
  da = da
  db = db
  InitialSources <- MCInitial
  Source <- MCFreshSources
  Proposal = {p1}
  MapReference = {m1}
  MapSize = {1}
  MaxLectures = 1
  Document <- MCOneLecture
  Policy = {v1}
  Verdict = {"passed"}
  OwnerDecision = {"approved"}
  IssueDigest = {}
  BlockerCode = {}
  MaxRevision = 21
  MaxAttempt = 1

INVARIANTS
  ListedReopenIsAccepted

CHECK_DEADLOCK FALSE
