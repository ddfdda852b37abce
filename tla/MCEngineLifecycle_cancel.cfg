CONSTANTS
  Callers = {c1}
  Game = Game
  Free = Free
  Ops = {"Start", "Cancel"}
  Faults = {}
  MaxQueue = 1
SPECIFICATION HSpec
PROPERTY CancelReturnsToInit
CHECK_DEADLOCK FALSE
