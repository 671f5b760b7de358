SPECIFICATION FairSpec

CONSTANTS
  None = None
  s1 = s1
  s2 = s2
  p1 = p1
  r1 = r1
  v1 = v1
  Source <- MCSources
  InitialSources = {}
  Proposal = {p1}
  MapReference = {r1}
  MapSize = {1}
  MaxLectures = 1
  Document <- MCDocumentOne
  Policy = {v1}
  IssueDigest = {}
  BlockerCode = {}
  MaxRevision = 6
  MaxAttempt = 2
  Holder = {h1}
  Duration = {1}
  MaxTime = 1
  Thread = {t1}
  QualityMode = "fast"
  MaxRequests = 2
  MaxAbandoned = 1
  Start <- StartProduction

PROPERTY ValidationFollows

CHECK_DEADLOCK FALSE
