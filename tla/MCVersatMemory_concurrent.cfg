CONSTANTS
  p1 = p1
  p2 = p2
  Proc = {p1, p2}
  PageCount = 4
  PageSize = 8
  PageOffset = 64
  NBuffers = 2
  MaxBlockSizes = {5}
SPECIFICATION Spec
INVARIANT ConcurrentAccess
