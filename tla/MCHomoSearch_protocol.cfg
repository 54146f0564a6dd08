CONSTANTS
  BlockBits = 2
  HOMOS_STRUCTURE_SIZE = 5
  Arguments <- FewArguments
  MaxCalls = 2
  HookReturns = {TRUE, FALSE}
SPECIFICATION MCSpec
PROPERTIES
  DrivesConditions
  Terminates
CHECK_DEADLOCK FALSE
