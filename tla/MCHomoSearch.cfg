CONSTANTS
  BlockBits = 2
  HOMOS_STRUCTURE_SIZE = 5
  Arguments <- MCArguments
  MaxCalls = 2
  HookReturns = {TRUE, FALSE}
SPECIFICATION MCSpec
INVARIANTS
  TypeOK
  Sound
  Complete
  Irredundant
  StopsWhenTold
  MapConsistent
  ForwardChecked
  StabFixesVals
CHECK_DEADLOCK FALSE
