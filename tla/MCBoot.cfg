CONSTANTS
  SUBSECTOR_SIZE = 4
  FLASH_FIRMWARE_OFFSET = 4
  INT = 2
  FlashSize = 20
  MemSize = 24
  Lists <- SomeLists
  HostSizes <- SomeSizes
  MaxBoots = 3
SPECIFICATION Spec
INVARIANTS ListRead FilesLoaded StartsRight
CHECK_DEADLOCK FALSE
