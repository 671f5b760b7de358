SPECIFICATION FairSpec

CONSTANTS
  None = None
  Caller = {c1, c2}
  Association = {a1}
  Reference <- MCReferences
  Request <- MCRequests
  MaxRevision = 2
  MaxOutages = 1

INVARIANTS
  ReferencesResolve
  ReceiptsAreLinear
  RepeatsAreRecognised

PROPERTIES
  StoresOnlyGrow
  ImplementsDecisionLog
  InitializationCompletes

CHECK_DEADLOCK FALSE
