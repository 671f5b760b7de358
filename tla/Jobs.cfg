SPECIFICATION Spec

CONSTANTS
  None = None
  Thread = {t1, t2}
  i1 = i1
  d1 = d1
  Source <- MCSource
  Settings = {"fast", "review"}
  InitialSettings = {"fast"}
  Document = {p1}
  MaxMetadata = 2
  MaxRevision = 3
  MaxBuilds = 2

INVARIANTS
  OneJobPerCourse
  BuiltIsReviewed
  ServedIsCurrent

PROPERTIES
  NothingIsLost
  BuildIsKept

SYMMETRY Threads

CHECK_DEADLOCK FALSE
