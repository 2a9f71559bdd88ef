CONSTANTS
  NBuffers = 2
  MaxBlock = 4
  PageSize = 8
  ShaBlock = 3
  LenField = 1
  AesBlock = 2
  IntLimit = 6
  MaxByte = 3
  MaxSessions = 2
  MaxBytes <- TwoMessages
SPECIFICATION Spec
INVARIANT ResultsExpected
CHECK_DEADLOCK FALSE
