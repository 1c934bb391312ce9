SPECIFICATION HLiveSpec
CONSTANTS
  c1 = c1
  c2 = c2
  p1 = p1
  p2 = p2
  None = None
  Depth = 4
  Cores <- MCCores
  Images <- MCImages
  Counts <- Two
  Timeouts = TRUE
INVARIANTS LoadMeansLoaded HaltedMeansRan
PROPERTY CallsReturn
