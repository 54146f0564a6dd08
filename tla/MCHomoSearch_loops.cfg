CONSTANTS
  BlockBits = 2
  HOMOS_STRUCTURE_SIZE = 3
  Arguments <- LoopsExchanged
  MaxCalls = 1
  HookReturns = {FALSE}
SPECIFICATION Spec
INVARIANT Sound
CHECK_DEADLOCK FALSE
