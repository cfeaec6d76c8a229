CONSTANTS
  life = life
  wyrd = wyrd
  ovum = ovum
  crud = crud
  Job = {life, wyrd, ovum, crud}
  MaxEve = 4
  Crud = crud
  Outcomes = {"done"}
  ReplayFails = FALSE
  MaxWord = 9
  MaxDep = 0
  PlayBatch = 1
  ReadBatch = 2
  Lif = 1
  Pill <- ShortPill
  Wyrd = wyrd
  Ova = {ovum}
  WorkBatch = 2
  MaxOva = 1
  MaxWall = 1
  Tils = {0}
  Peps = {FALSE}
  Downgrades = FALSE
  ExitStates = {"work"}
  Faults = {"serf"}
SPECIFICATION LiveSpec
PROPERTY BailEnds
CHECK_DEADLOCK FALSE
