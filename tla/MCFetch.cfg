\* Every straight, branching and looping program: order, draining and termination.
SPECIFICATION LiveSpec
CONSTANTS
  Depth = 10
  Immediates = 10
  Programs <- AllPrograms
INVARIANTS
  SlotIsDue
  BranchPcIsTwoAhead
  HaltedMeansDrained
  NoBundleHeldByMatrix
  MatrixWaitsForTransfer
PROPERTIES
  ExecutesInOrder
  EveryRunHalts
