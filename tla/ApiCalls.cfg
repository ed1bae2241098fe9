SPECIFICATION Spec
CONSTANTS
  MaxCalls = 2
  MaxMissing = 1
CHECK_DEADLOCK FALSE

INVARIANTS
  TypeOK
  RequestUnderstood
  OlderPeerUnderstood
  OutKeptOnError
  OutIsReply
  DetectionsOfReply
