SPECIFICATION Spec
CONSTANTS
  kPi = 4
  Places <- Floor
  Origins <- Start
  Goals <- Behind
  Offsets = {}
  Angles = {}
  MaxLag = 1
  MaxYaw = 4
  MaxCalls = 1
  Timely = TRUE
  MaxLost = 0
  Supervised = TRUE
INVARIANTS
  CloseStops
CHECK_DEADLOCK FALSE
