SPECIFICATION Spec
CONSTANTS
  a = a
  b = b
  root = root
  Names <- TwoNames
  Root <- root
  Sizes = {0, 1, 2}
  MaxAddr = 7
  MaxWrites = 4
  MaxFaults = 0
INVARIANT RefusedSliceHarmless
CHECK_DEADLOCK FALSE
