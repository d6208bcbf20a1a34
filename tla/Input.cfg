SPECIFICATION Spec
CONSTANTS
  Reader = {r1, r2}
  Other = other
  SerialSize = 3
  TextSize = 3
  TmpSize = 2
  FifoSize = 3
  Threshold = 2
  ReadSizes = {1}
  MaxTyped = 4
INVARIANTS
  BytesInOrder
  StopsOnlyOnFullBuffer
PROPERTY LineIsHeard
