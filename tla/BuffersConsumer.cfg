\* Up to three operands; a vector of two
CONSTANTS
  Operands <- UpToThree
  Concatenation <- buffers_cat
  BytesOfOperands <- BytesOfAll
  BeginOf <- begin
  EndOf <- end
  Increment <- increment
  Dereference <- dereference
  Iterators <- LoopOver
  SmallSize = 2
  MaxClamp = 7
SPECIFICATION ConsumerSpec
INVARIANTS ConsumesAsOne OperandsAhead VectorFilled
