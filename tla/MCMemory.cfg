\* Loads, stores, barriers and transfers in a safe order, copies anywhere.
SPECIFICATION LiveSpec
CONSTANTS
  StoreDepth = 2
  LoadSlots = 1
  StoreSlots = 1
  Vlen = 1
  Dests <- TwoDests
  Addrs <- TwoAddrs
  Vals <- TwoVals
  MaxReads = 2
  MaxBeats = 2
  Bundles <- SafeBundles
  Liberties = {}
INVARIANTS
  TypeOK
  WaitMeansWritten
  OutstandingBounded
  NoOrphanReads
  CompletionsFit
PROPERTIES
  KeepsContract
  CopyStarts
  BundlesNeverHang
