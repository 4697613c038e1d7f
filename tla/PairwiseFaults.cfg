CONSTANTS
  MAX_MESSAGE_KEYS = 2000
  MAX_FUTURE = 2000
  MAX_RECEIVER_CHAINS = 5
  ARCHIVED_STATES_MAX_LENGTH = 40
  None = None
  Party = {alice, bob}
  Outcomes = {"ok", "callback", "store", "identity", "remove"}
  PreKeys = 1
  FallbackIds = {16777215}
  MaxBundles = 2
  MaxMessages = 2
  MaxReinstalls = 0
SPECIFICATION Spec
SYMMETRY PartySymmetry
INVARIANTS
  OnceUnlessRebuilt
  NoKeyReuse
  NothingLost
CHECK_DEADLOCK FALSE
