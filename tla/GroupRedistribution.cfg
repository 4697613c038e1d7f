CONSTANTS
  MAX_MESSAGE_KEYS = 2000
  MAX_FUTURE = 2000
  MAX_STATES = 5
  None = None
  Receiver = {bob}
  SenderKeyIds = {1}
  GroupOutcomes = {"ok"}
  MaxCreated = 1
  MaxMessages = 2
  MaxAgain = 1
SPECIFICATION Spec
INVARIANTS
  DuplicateReported
CHECK_DEADLOCK FALSE
