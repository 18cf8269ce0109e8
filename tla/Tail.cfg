SPECIFICATION Spec
CONSTANTS
  BufferSize = 1
  MaxLine = 3
  MaxTrouble = 2
INVARIANTS SentInOrder NoneLeftOut SentWhole
PROPERTIES Delivered StopReturns
\* after Stop nothing is left to do
CHECK_DEADLOCK FALSE
