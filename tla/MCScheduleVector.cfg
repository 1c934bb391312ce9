CONSTANTS
  Banks = 2
  VLen = 2
  SlotLimit <- TwoAlus
  DivBusy = 4
  FpAddLatency = 2
  FpMulLatency = 3
  MatrixLatency = 3
  JumpBubble = 3
  MemGap = 0
  ValuGap = 2
  MatrixGap = 0
  None = None
  Ops <- VectorDivision
  Labels <- OneLabel
  MaxItems = 3
  Regs <- FourRegs
  MaxClock = 18
SPECIFICATION RunSpec
INVARIANT OperandsFresh
