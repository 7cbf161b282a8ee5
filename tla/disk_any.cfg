CONSTANTS
  Sectors = {0, 1}
  Contents <- MCContents
  Tries = 2
  BLOCK_SZ = 3
  Bytes = {0, 1}
  MaxLen = 4
SPECIFICATION SpecAny
PROPERTY
  ImplementsFlatDisk
