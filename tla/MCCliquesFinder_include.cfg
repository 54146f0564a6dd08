SPECIFICATION Spec
CONSTANTS
  BlockBits = 2
  HOMOS_STRUCTURE_SIZE = 5
  Arguments <- CentreIncluded
  MaxCalls = 1
  KernelLimit = 5
CHECK_DEADLOCK FALSE
INVARIANT AsManyAsPossible
