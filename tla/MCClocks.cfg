SPECIFICATION ClocksSpec
CONSTANTS
  MaxNow = 3
  Retries = 1
  MaxCalls = 2
  MaxCrash = 1
  MaxWakes = 2
  MaxGifts = 2
  Packet = {p1, p2}
  Addr = {"ip"}
  AddrTTL = 2
  LaneTTL = 2
  MaxForwards = 1
  MaxFails = 1
  MaxAsks = 2
  MaxMoves = 2
INVARIANTS TimerIsHeld ForwardsAgree
PROPERTIES TimerFires GalaxyIsReached LaneCatchesUp
\* A king that has bailed stops, and so does the clock at its bound.
CHECK_DEADLOCK FALSE
