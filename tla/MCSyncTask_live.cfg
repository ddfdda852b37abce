CONSTANTS
  Callers = {c1, c2}
  Game = Game
  Free = Free
  Tasks = {k1}
  Ops = {"Start", "Stop", "Reset", "LoadCore", "LoadGame", "Cancel"}
  TaskOps = {"SaveState", "SetFilesDir"}
  Faults = {"timeout", "render"}
  MaxQueue = 1
SPECIFICATION SyncLiveSpec
INVARIANTS NoOrphanBody
PROPERTIES TaskAnswered MutexReleased LoopEndsWithTasks
CHECK_DEADLOCK FALSE
