SPECIFICATION FairSpec
CONSTANTS
  kPi = 4
  Places <- Floor
  Origins <- Moved
  Goals <- Behind
  Offsets <- Beside
  Angles = {9}
  MaxLag = 1
  MaxYaw = 11
  MaxCalls = 1
  Timely = TRUE
  MaxLost = 2
  Supervised = FALSE
INVARIANTS
  TypeOK
  QuietWhenIdle
  ArrivesNear
  AccumulatedExact
  TurnsEnough
PROPERTIES
  ConstructionEnds
  MovementEnds
CHECK_DEADLOCK FALSE
