SPECIFICATION FairSpec

CONSTANTS
  None = None
  s1 = s1
  s2 = s2
  p1 = p1
  r1 = r1
  v1 = v1
  Source <- MCSources
  InitialSources = {}
  Proposal = {p1}
  MapReference = {r1}
  MapSize = {1}
  MaxLectures = 1
  Document <- MCDocumentOne
  Policy = {v1}
  IssueDigest = {s1}
  BlockerCode = {"private_artifact_unavailable"}
  MaxRevision = 9
  MaxAttempt = 2
  Holder = {h1}
  Duration = {1}
  MaxTime = 0
  Thread = {t1}
  QualityMode = "review"
  MaxRequests = 2
  MaxAbandoned = 1
  Start <- StartLate

PROPERTIES
  ValidationFollows
  CorrectionsFollow
  JobCatchesUp

CHECK_DEADLOCK FALSE
