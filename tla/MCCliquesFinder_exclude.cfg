SPECIFICATION Spec
CONSTANTS
  BlockBits = 2
  HOMOS_STRUCTURE_SIZE = 5
  Arguments <- CentreExcluded
  MaxCalls = 1
  KernelLimit = 5
CHECK_DEADLOCK FALSE
INVARIANT OnlySought
