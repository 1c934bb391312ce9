CONSTANTS
  Banks = 2
  VLen = 2
  SlotLimit <- TwoAlus
  DivBusy = 4
  FpAddLatency = 2
  FpMulLatency = 3
  MatrixLatency = 3
  JumpBubble = 3
  MemGap = 0
  ValuGap = 2
  MatrixGap = 0
  None = None
  Ops <- AllOps
  Labels <- OneLabel
  MaxItems = 4
  Regs <- FourRegs
  MaxClock = 14
SPECIFICATION RunSpec
INVARIANTS OperandsFresh PortsFree NewestWins ReadsServed RawRespected SlotsExclusive VectorsReadAlone LabelsSplit WaitsBetween
