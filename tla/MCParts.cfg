SPECIFICATION PartsSpec
CONSTANTS
  Job = {j1, crud}
  MaxEve = 4
  Crud = crud
  Outcomes = {"done", "swap", "bail"}
  ReplayFails = TRUE
  MaxWord = 9
  MaxDep = 3
  Base = 2
  Msg <- Messages
  MaxSent = 3
  Modes = {"sync", "async"}
INVARIANTS LogIsContiguous BooksAgree PleasMatchWrits KingKnowsKernel SnapIsPrefix MessagesInOrder
PROPERTIES PromiseSpec PlannedBecomesDurable SnapNeverRegresses ExitCompletes MessagesArrive
\* A log whose process hangs, and a pipe at its last message, stop.
CHECK_DEADLOCK FALSE
