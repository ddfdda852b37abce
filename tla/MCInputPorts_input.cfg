CONSTANTS
  Ports = {0, 1}
  k1 = k1
  k2 = k2
  Keyboards = {k1, k2}
  Mouse = mouse
  Others = {}
  Keys = {z}
  Buttons = {a}
SPECIFICATION Spec
INVARIANTS OnePortPerDevice PressedByTheSource ButtonsFollowKeys
SYMMETRY Interchangeable
CHECK_DEADLOCK FALSE
