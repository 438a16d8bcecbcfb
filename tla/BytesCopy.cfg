\* The sequences of BufferAlgorithms.cfg
CONSTANTS
  Sizes <- BufferSizesOf
  MaxBufs = 3
  MaxCopy = 6
  HoldMax = 2
  EndAt = 5
  Hint = 2
  ItemSize = 2
  PartSize = 2
  MaxItems = 4
SPECIFICATION Spec
INVARIANT CopiesContents
CHECK_DEADLOCK FALSE
