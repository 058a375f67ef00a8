SPECIFICATION Spec
CONSTANTS
  a = a
  b = b
  root = root
  Names <- TwoNames
  Root <- root
  Sizes = {0, 1, 2}
  MaxAddr = 7
  MaxWrites = 4
  MaxFaults = 1
INVARIANTS StorageDisjoint StoredAsWritten FlushedIsOnDisk ClosedIsComplete
CHECK_DEADLOCK FALSE
