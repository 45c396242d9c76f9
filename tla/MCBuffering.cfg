CONSTANTS
  Byte <- MCByte
  RamSize = 2
  FlashSize = 5
  Chunks <- MCChunks
SPECIFICATION Spec
PROPERTY ImplementsByteBuffer
