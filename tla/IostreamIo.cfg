\* Streams of two-byte chars: a commit may leave half a char behind, and an
\* area may end in one
CONSTANTS
  Byte <- Stream
  Blank = 0
  Quantum = 2
  MaxAlloc = 3
  Kinds <- Growable
  MaxSize = 6
  MaxWindow = 4
  CharSize = 2
  StreamLen = 6
SPECIFICATION Spec
INVARIANTS SinkLosesNothing SourceLosesNothing NoAssertionFires
PROPERTIES EmptyOnlyAtEnd CommitReturns StreamDrained
