CONSTANTS
  BlockBits = 2
  HOMOS_STRUCTURE_SIZE = 3
  Masks <- MCMasks
  Searches <- MCSearches
  MaxSearches = 2
SPECIFICATION MCSpec
INVARIANTS
  TypeOK
  RowZeroComplete
  RowsAboveEmpty
  HeightCountsPushes
  LevelsNarrow
PROPERTY ImplementsStack
CHECK_DEADLOCK FALSE
