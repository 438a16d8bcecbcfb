\* Growable buffers with a quantum of headroom under max_size(), and bounded
\* ones that reach it
CONSTANTS
  Byte <- Stream
  Blank = 0
  Quantum = 2
  MaxAlloc = 2
  Kinds <- DynBuffers
  MaxAsked = 6
  MaxWindow = 4
  MaxBytes = 6
SPECIFICATION Spec
INVARIANTS StreamIntact ViewIsWriteArea NoAssertionFires
PROPERTIES PrepareYields CopyFills ImplementsByteQueue
