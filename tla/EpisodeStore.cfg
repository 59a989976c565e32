SPECIFICATION FairSpec
CONSTANTS
  Stores = {s1, s2}
  Episodes = {e1}
  None = None
  MaxLines = 3
  LiveBeside = TRUE
  DiskFails = TRUE
  MaxFaults = 2
INVARIANTS
  ChainIntact
  Sealed
PROPERTIES
  KeepsLog
  IndexCatchesUp
