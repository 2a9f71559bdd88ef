CONSTANTS
  p1 = p1
  p2 = p2
  Proc = {p1, p2}
  PageCount = 3
  PageSize = 8
  PageOffset = 64
  NBuffers = 2
  MaxBlockSizes = {8, 9}
SPECIFICATION Spec
INVARIANTS PagesAccounted AddressesRight
PROPERTIES GrantsSpec AllocationEnds
