CONSTANTS
  MAX_MESSAGE_KEYS = 2000
  MAX_FUTURE = 2000
  MAX_RECEIVER_CHAINS = 5
  ARCHIVED_STATES_MAX_LENGTH = 40
  None = None
  Party = {alice, bob}
  Outcomes = {"ok", "identity"}
  PreKeys = 0
  FallbackIds = {None}
  MaxBundles = 0
  MaxMessages = 1
  MaxReinstalls = 0
  Values = {1, 2, 3}
  Sequences = {1, 2}
  MaxProcess = 2
  MaxDelivered = 2
SPECIFICATION ExchangeSpec
SYMMETRY PartySymmetry
INVARIANTS
  ExchangeAgreed
PROPERTIES
  ResponseCompletes
CHECK_DEADLOCK FALSE
