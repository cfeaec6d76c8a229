SPECIFICATION LoomSpec
CONSTANTS
  RoadWords = 2
  Pad = 6
  FreeLists = 3
  CellBlock = 2
  Flush = 2
  Shapes <- MCTight
INVARIANT MallocFits
\* A behaviour ends at its bounds.
CHECK_DEADLOCK FALSE
