CONSTANTS
  life = life
  wyrd = wyrd
  ovum = ovum
  crud = crud
  Job = {life, wyrd, ovum, crud}
  MaxEve = 5
  Crud = crud
  Outcomes = {"done", "swap", "bail"}
  ReplayFails = FALSE
  MaxWord = 9
  MaxDep = 2
  PlayBatch = 1
  ReadBatch = 2
  Lif = 1
  Pill <- ShortPill
  Wyrd = wyrd
  Ova = {ovum}
  WorkBatch = 2
  MaxOva = 2
  MaxWall = 1
  Tils = {0}
  Peps = {FALSE}
  Downgrades = TRUE
  ExitStates = {"work"}
  Faults = {"king", "serf", "write"}
SPECIFICATION PierSpec
INVARIANT NoAssertionFails
INVARIANT KernelIsReplayable
PROPERTY WallsHoldEvents
PROPERTY ShipPromise
CHECK_DEADLOCK FALSE
