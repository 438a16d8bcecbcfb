\* Two objects, two allocators, arrays of up to three bytes, copies of up to
\* three buffers
CONSTANTS
  Objects = {a, b}
  Allocs = {new, pool}
  Byte = {0, 1}
  Garbage = Garbage
  Gone = Gone
  AnyMove = FALSE
  MaxSize = 3
  MaxBufs = 3
SYMMETRY Interchangeable
SPECIFICATION Spec
INVARIANT OwnedOnce
PROPERTY ImplementsByteArrays
