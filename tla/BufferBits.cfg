\* Bytes of three bits and integers of three bytes; up to three buffers, empty
\* ones included; writes where set() is sound
CONSTANTS
  Sizes <- BufferSizes3
  MaxBufs = 3
  ByteBits = 3
  MaxCount = 9
  MaxWrites = 1
  AnyWrite = FALSE
SPECIFICATION BitsSpec
INVARIANTS MovesAddUp SkipsAddUp PeeksNext SetsWhereSound
