SPECIFICATION Spec

CONSTANTS
  None = None
  Job = {j1}
  Tab = {t1}
  HolderOf <- MCHolderOf
  Slot = {f1, f2}
  Demo = synthetic
  Review = {2}
  MaxRevision = 1
  MaxRequests = 2

INVARIANTS
  OnlyReopeningRebinds
  MixedPromptsAreNotAnswered
  SavedIsAccepted

SYMMETRY Interchangeable

CHECK_DEADLOCK FALSE
