CONSTANTS
  PRE_KEY_MEDIUM_MAX_VALUE = 6
  UINT_RANGE = 8
  REGISTRATION_RANGE = 3
  ARCHIVED_STATES_MAX_LENGTH = 0
  Start = 0
  BatchSize = 2
  Sender = {s1, s2}
  Outcomes = {"ok", "callback", "store", "remove"}
  MaxKeys = 7
  MaxMessages = 2
  MaxSigned = 1
  None = None
SPECIFICATION Spec
INVARIANTS
  TypeOK
  Available
PROPERTIES
  LastResortKept
  NeverAgain
CHECK_DEADLOCK FALSE
