\* Buffers that grow and buffers that cannot, a pipe that fills up, and
\* transformers that keep back a byte.  The users may stop.
CONSTANTS
  Byte <- Stream
  Blank = 0
  Quantum = 1
  HoldMax = 1
  EndAt = 3
  Hint = 1
  Kinds <- DynBuffers
  MaxSize = 4
  FixedSize = 1
  Cap = 2
  MaxAsked = 2
  MaxBytes = 4
  MaxRoom = 2
SPECIFICATION Spec
INVARIANTS EachByteOnce NothingLost NoAssertionFires
PROPERTIES LosesOnlyWhenStuck ShortOnlyWhenStuck CallsReturn
CHECK_DEADLOCK FALSE
