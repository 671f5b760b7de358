SPECIFICATION Spec

CONSTANTS
  None = None
  s1 = s1
  s2 = s2
  s3 = s3
  s4 = s4
  x1 = x1
  x2 = x2
  x3 = x3
  x4 = x4
  da = da
  db = db
  InitialSources <- MCInitial
  Source <- MCSources
  Proposal = {p1, p2}
  MapReference = {m1}
  MapSize = {1, 2}
  MaxLectures = 2
  Document <- MCMisplaced
  Policy = {v1, v2}
  Verdict = {"rejected", "passed"}
  OwnerDecision = {"approved", "rejected"}
  IssueDigest = {e1}
  BlockerCode = {"private_artifact_unavailable", "external_prerequisite_unavailable"}
  MaxRevision = 11
  MaxAttempt = 3

INVARIANTS
  SnapshotsAreValid
  AcceptedOnEvidence
  EvidenceCoversTheWork
  ContinuationIsAvailable
  ListedActionsAreAnswerable

PROPERTIES
  CandidatesAreArchived
  StepsAreListed

CHECK_DEADLOCK FALSE
