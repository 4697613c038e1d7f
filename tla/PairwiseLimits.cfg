CONSTANTS
  MAX_MESSAGE_KEYS = 1
  MAX_FUTURE = 2
  MAX_RECEIVER_CHAINS = 1
  ARCHIVED_STATES_MAX_LENGTH = 1
  None = None
  Party = {alice, bob}
  Outcomes = {"ok"}
  PreKeys = 1
  FallbackIds = {None}
  MaxBundles = 2
  MaxMessages = 2
  MaxReinstalls = 1
SPECIFICATION Spec
SYMMETRY PartySymmetry
INVARIANTS
  TypeOK
  OnceUnlessRebuilt
  NoKeyReuse
PROPERTIES
  IdentityPinned
CHECK_DEADLOCK FALSE
