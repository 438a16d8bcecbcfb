\* A shifting buffer over a container whose max_size() leaves no room for a
\* quantum above the largest window
CONSTANTS
  Byte = {0, 1}
  Blank = 0
  Quantum = 2
  Kinds <- OverContainer
  MaxSize = 5
  MaxWindow = 5
SPECIFICATION Spec
PROPERTY SafeGrowGrows
