SPECIFICATION Spec
CONSTANTS
  NoBase = NoBase
  ScratchSize = 20
  VectorAlign = 4
  MaxBuffers = 4
  Menu <- MCMenu
INVARIANTS AutoClearOfEarlier VectorsAligned
CHECK_DEADLOCK FALSE
