\* Every pair of areas in four cells
CONSTANTS
  Byte = {0, 1, 2}
  MemSize = 4
SPECIFICATION Spec
INVARIANTS CopiesAsCalled StaysInAreas
