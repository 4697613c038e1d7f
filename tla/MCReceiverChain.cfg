CONSTANTS
  MAX_MESSAGE_KEYS = 2
  MAX_FUTURE = 3
  MaxSent = 6
SPECIFICATION Spec
INVARIANTS
  TypeOK
  AtMostOnce
  SkippedKept
  LoopAgrees
PROPERTIES
  ChannelSpec
CHECK_DEADLOCK FALSE
