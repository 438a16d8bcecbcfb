\* Sequences of up to three buffers on either side, a transformer that keeps
\* back up to two bytes, items of two bytes.  The loops end by themselves.
CONSTANTS
  Sizes <- BufferSizesOf
  MaxBufs = 3
  MaxCopy = 6
  HoldMax = 2
  EndAt = 5
  Hint = 2
  ItemSize = 2
  PartSize = 2
  MaxItems = 4
SPECIFICATION Spec
INVARIANTS PassedInOrder ItemsDecoded EndsDoneOrStuck
PROPERTY Returns
CHECK_DEADLOCK FALSE
