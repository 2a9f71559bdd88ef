CONSTANTS
  NBuffers = 2
  MaxBlock = 5
  PageSize = 4
  ShaBlock = 2
  LenField = 1
  AesBlock = 2
  IntLimit = 8
  MaxByte = 3
  MaxSessions = 2
  MaxBytes <- LongThenShort
SPECIFICATION Spec
INVARIANTS TypeOK BufferRoom DigestCorrect EncryptionComplete BufferAccounting BlocksFollowMode DecryptionComplete
PROPERTY CallReturns
CHECK_DEADLOCK FALSE
