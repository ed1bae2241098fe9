SPECIFICATION MotionSpec
CONSTANTS
  Requested = {2, 9}
  Durations = {1, 5}
  kMinDuration = 4
  kGrace = 2
  MaxDelay = 2
  kEnableRetries = 1
  kDisableRetries = 1
  MaxCalls = 4
  Joint = 2
  Positions <- Range6
  Home = 5
  Targets <- BothEnds
  MaxStale = 1
INVARIANTS
  MotionTypeOK
PROPERTIES
  NoJump
CHECK_DEADLOCK FALSE
