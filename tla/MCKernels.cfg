SPECIFICATION LiveSpec
CONSTANTS
  NoBase = NoBase
  None = None
  ScratchSize = 110
  VectorAlign = 2
  VLen = 2
  ImmBits = 6
  WordBits = 8
  InWords = 2
  OutWords = 4
  ThisCore = 3
  Fills <- MCFills
  Jobs <- MCJobs
INVARIANTS ResultAsMeant
PROPERTIES StoresFinal Halts
CHECK_DEADLOCK FALSE
