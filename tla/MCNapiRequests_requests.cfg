CONSTANTS
  Js = js
  Workers = {w1}
  Callers = {w1, js}
  Requests = {r1, r2}
  Asked <- MCAsked
  NapiFaults = {"setup", "status", "result", "reason", "teardown"}
  WaitTarget = "STOPPED"
  Game = Game
  Free = Free
  Ops = {"Start", "Stop", "Reset", "LoadCore", "LoadGame", "Pause", "Resume", "Cancel"}
  Faults = {"timeout"}
  MaxQueue = 1
SPECIFICATION NapiSpec
INVARIANTS GateHasHolder NothingLeaked
SYMMETRY Contexts
VIEW Seen
CHECK_DEADLOCK FALSE
