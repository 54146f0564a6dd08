CONSTANTS
  HOMOS_STRUCTURE_SIZE = 6
  Inputs <- MCInputs
  MaxCalls = 2
SPECIFICATION MCSpec
INVARIANTS
  TypeOK
  GeneratorsFit
  Stabilises
  ChainConsistent
  HigherLevelsFinished
PROPERTIES
  ResiduesEnlarge
CHECK_DEADLOCK FALSE
