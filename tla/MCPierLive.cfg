CONSTANTS
  life = life
  wyrd = wyrd
  ovum = ovum
  crud = crud
  Job = {life, wyrd, ovum, crud}
  MaxEve = 5
  Crud = crud
  Outcomes = {"done"}
  ReplayFails = TRUE
  MaxWord = 9
  MaxDep = 0
  PlayBatch = 1
  ReadBatch = 2
  Lif = 1
  Pill <- LongPill
  Wyrd = wyrd
  Ova = {ovum}
  WorkBatch = 2
  MaxOva = 1
  MaxWall = 1
  Tils = {0, 2}
  Peps = {TRUE, FALSE}
  Downgrades = FALSE
  ExitStates = {"work"}
  Faults = {"king", "serf", "read"}
SPECIFICATION LiveSpec
INVARIANT ReplayIsOrderly
PROPERTY StartEnds
PROPERTY ExitCompletesDown
PROPERTY EffectsAreReleased
PROPERTY SavesHappen
CHECK_DEADLOCK FALSE
