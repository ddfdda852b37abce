CONSTANTS
  Workers = {w1, w2}
  Ui = ui
  Callers = {w1, w2, ui}
  MaxToken = 3
  CanCancel = TRUE
  Game = Game
  Free = Free
  Ops = {"Start", "Stop", "Reset", "LoadCore", "LoadGame", "Cancel"}
  Faults = {"rom", "core", "timeout"}
  MaxQueue = 4
SPECIFICATION SwitchLiveSpec
INVARIANTS SingleFlightUntilCancel
PROPERTIES SuccessIsMine EveryRequestAnswered
CHECK_DEADLOCK FALSE
