SPECIFICATION Spec
CONSTANTS
  Scripts <- AllScripts
  Lost <- AllLost
  Silent <- AllSilent
  External <- Elsewhere
  Objects = {o1, o2}
  NULL = NULL
  MaxSlots = 2
SYMMETRY Addresses
INVARIANTS
  IdsRefer
  HeldAreLive
  CopiesReturned
  FailureReported
CHECK_DEADLOCK FALSE
