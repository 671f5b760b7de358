SPECIFICATION Spec

CONSTANTS
  None = None
  Job = {j1, j2}
  Tab = {t1}
  HolderOf <- MCHolderOf
  Slot = {f1, f2}
  Demo = synthetic
  Review = {2}
  MaxRevision = 0
  MaxRequests = 1

INVARIANT AnswersReachTheirRequest

SYMMETRY Interchangeable

CHECK_DEADLOCK FALSE
