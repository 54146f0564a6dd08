SPECIFICATION MCSpec
CONSTANTS
  BlockBits = 2
  HOMOS_STRUCTURE_SIZE = 6
  Arguments <- MCArguments
  MaxCalls = 2
  KernelLimit = 5
CHECK_DEADLOCK FALSE
INVARIANTS TypeOK OnlySought AsManyAsPossible NoneTwice BannedIsDone LevelsInStep
PROPERTY Terminates
