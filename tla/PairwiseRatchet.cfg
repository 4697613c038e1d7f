CONSTANTS
  MAX_MESSAGE_KEYS = 2000
  MAX_FUTURE = 2000
  MAX_RECEIVER_CHAINS = 5
  ARCHIVED_STATES_MAX_LENGTH = 40
  None = None
  Party = {alice, bob}
  Outcomes = {"ok"}
  PreKeys = 1
  FallbackIds = {None}
  MaxBundles = 1
  MaxMessages = 3
  MaxReinstalls = 0
SPECIFICATION Spec
SYMMETRY PartySymmetry
INVARIANTS
  NothingLost
  DuplicateReported
CHECK_DEADLOCK FALSE
