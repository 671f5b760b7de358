SPECIFICATION Spec

CONSTANTS
  None = None
  s1 = s1
  s2 = s2
  s3 = s3
  s4 = s4
  x1 = x1
  x2 = x2
  x3 = x3
  x4 = x4
  da = da
  db = db
  InitialSources <- MCInitial
  Source <- MCNewSources
  Proposal = {p1}
  MapReference = {m1}
  MapSize = {1, 2}
  MaxLectures = 2
  Document <- MCTwoTexts
  Policy = {v1}
  Verdict = {"passed"}
  OwnerDecision = {"approved", "rejected"}
  IssueDigest = {}
  BlockerCode = {}
  MaxRevision = 18
  MaxAttempt = 2

INVARIANTS
  SnapshotsAreValid
  PlanInForce

PROPERTIES
  StopsAreTransparent
  ImplementsCourseProduction

CHECK_DEADLOCK FALSE
