\* The same, with every write of bits that are there
CONSTANTS
  Sizes <- BufferSizes3
  MaxBufs = 2
  ByteBits = 3
  MaxCount = 9
  MaxWrites = 1
  AnyWrite = TRUE
SPECIFICATION BitsSpec
PROPERTY WritesLowBits
CHECK_DEADLOCK FALSE
