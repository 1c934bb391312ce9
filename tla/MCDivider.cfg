CONSTANTS
  Width = 3
  d1 = d1
  d2 = d2
  Dests <- TwoDests
  Operations <- EveryPair
  None = None
SPECIFICATION Spec
INVARIANTS SlotFree RemainderFits
PROPERTY DividesInTime
