CONSTANTS
  Callers = {c1, c2}
  Game = Game
  Free = Free
  Ops = {"Start", "Stop", "Reset", "LoadCore", "LoadGame", "Pause", "Resume", "Cancel"}
  Faults = {"timeout", "thread", "render", "core", "rom", "audio"}
  MaxQueue = 1
SPECIFICATION HSpec
INVARIANTS TearDownAlone SpawnOnlyWhenJoined FreshSession PolledStopIsTrue PolledRunIsOpen PolledStateMatches
PROPERTY ImplementsProtocol
CHECK_DEADLOCK FALSE
