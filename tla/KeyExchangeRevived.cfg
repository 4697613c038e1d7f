CONSTANTS
  MAX_MESSAGE_KEYS = 2000
  MAX_FUTURE = 2000
  MAX_RECEIVER_CHAINS = 5
  ARCHIVED_STATES_MAX_LENGTH = 40
  None = None
  Party = {alice, bob}
  Outcomes = {"ok"}
  PreKeys = 0
  FallbackIds = {None}
  MaxBundles = 1
  MaxMessages = 2
  MaxReinstalls = 0
  Values = {1, 2}
  Sequences = {1}
  MaxProcess = 1
  MaxDelivered = 1
SPECIFICATION ExchangeSpec
SYMMETRY PartySymmetry
INVARIANTS
  DuplicateMeansReceived
CHECK_DEADLOCK FALSE
