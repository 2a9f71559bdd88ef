CONSTANTS
  PK_NROWS = 4
  SYS_N = 5
  BITS = 2
  FirstMatrices <- All
  NextMatrices <- Next2
  MaxTries = 2
SPECIFICATION Spec
INVARIANTS RowsReduced KeyCorrect FreshReads NoRace
