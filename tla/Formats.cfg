CONSTANTS
  None = None
  VARINT_BITS = 5
  VARINT_MAX = 3
  FIXED64_BYTES = 4
  DJB_KEY_LEN = 1
  HASH_PRIME = 262139
  HASH_FACTOR = 4099
  CHUNK_MODULUS = 10
  HKDF_COUNTER = 8
  Descriptors <- MCDescriptors
  Keys <- MCKeys
  Words <- MCWords
  Texts <- MCTexts
  Noise <- MCNoise
  MaxChanges = 1
SPECIFICATION Spec
INVARIANTS RoundTrip Authenticated ConcatenationMerges Canonical FingerprintsAgree HkdfStandard
CHECK_DEADLOCK FALSE
