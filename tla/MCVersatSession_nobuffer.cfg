CONSTANTS
  NBuffers = 2
  MaxBlock = 4
  PageSize = 8
  ShaBlock = 3
  LenField = 1
  AesBlock = 2
  IntLimit = 8
  MaxByte = 3
  MaxSessions = 3
  MaxBytes <- ThreeShort
SPECIFICATION Spec
INVARIANT BeginReturnsBuffer
CHECK_DEADLOCK FALSE
