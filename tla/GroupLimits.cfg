CONSTANTS
  MAX_MESSAGE_KEYS = 1
  MAX_FUTURE = 2
  MAX_STATES = 2
  None = None
  Receiver = {bob}
  SenderKeyIds = {k1, k2}
  GroupOutcomes = {"ok","callback","store"}
  MaxCreated = 3
  MaxMessages = 3
  MaxAgain = 0
SPECIFICATION Spec
SYMMETRY SenderKeyIdSymmetry
INVARIANTS
  TypeOK
  AtMostOnce
  NoKeyReuse
  NothingLost
  DuplicateReported
CHECK_DEADLOCK FALSE
