CONSTANTS
  Windows = {w1, w2}
  NoWindow = NoWindow
  MaxEvents = 2
  MaxStarts = 1
  MaxOverlap = 0
SPECIFICATION LiveSpec
INVARIANTS
  QuietSessionIsCurrent
PROPERTIES
  CurrentWindowShowsGame
  DestroyedWindowLetGo
  StopJoins
CHECK_DEADLOCK FALSE
