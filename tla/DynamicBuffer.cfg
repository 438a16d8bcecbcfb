\* Every kind of buffer, windows of up to 5 bytes, storage growing by 2
CONSTANTS
  Byte = {0, 1}
  Blank = 0
  Quantum = 2
  Kinds <- AllKinds
  MaxSize = 9
  MaxWindow = 5
SPECIFICATION Spec
INVARIANTS TypeOK WindowInStore NoAssertionFires StorageBounded
PROPERTIES StorageGrowsOnlyWhenFull ImplementsByteWindow CallsStepTheWindow
