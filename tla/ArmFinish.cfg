SPECIFICATION FairSpec
CONSTANTS
  Requested = {1, 2, 9}
  Durations = {1, 3}
  kMinDuration = 2
  kGrace = 2
  MaxDelay = 2
  kEnableRetries = 2
  kDisableRetries = 2
  MaxCalls = 4
INVARIANTS
  TypeOK
  DisabledAfterClose
  FinalTargetPublished
  FailureReported
PROPERTIES
  CallsReturn
  MotionsForward
CHECK_DEADLOCK FALSE
