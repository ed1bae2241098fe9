SPECIFICATION Spec
CONSTANTS
  kPi = 4
  Places <- Floor
  Origins <- Moved
  Goals <- Behind
  Offsets <- Beside
  Angles = {}
  MaxLag = 1
  MaxYaw = 4
  MaxCalls = 1
  Timely = FALSE
  MaxLost = 0
  Supervised = FALSE
INVARIANTS
  UsesResetFrame
CHECK_DEADLOCK FALSE
