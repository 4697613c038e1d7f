CONSTANTS
  None = None
  Thread = {t1, t2}
  x1 = x1
  x2 = x2
  y = y
  a = a
  b = b
  Cipher = {x1, x2, y}
  Address = {a, b}
  Message = {m}
  MaxCalls = 3
  CallbacksApart = TRUE
  Uses <- MCUses
  AddressOf <- MCAddressOf
SPECIFICATION FairSpec
INVARIANTS
  TypeOK
  Exclusive
  FlagExact
  NoKeyReuse
  ReadOnce
PROPERTIES
  AtomicSpec
  CallsReturn
CHECK_DEADLOCK FALSE
