---------------------------- MODULE Fingerprint ----------------------------
(***************************************************************************)
(* The fingerprints two users compare, fingerprint.c.  A string is its     *)
(* bytes without the terminating zero.  A number of the display text is    *)
(* printed with a fixed number of digits: texts are sequences of numbers,  *)
(* and strcmp compares them number by number.                              *)
(***************************************************************************)
EXTENDS KeyRecords

CONSTANT CHUNK_MODULUS   \* a number of the display text is below it (100000)

ASSUME FingerprintAssumption == CHUNK_MODULUS \in Nat \ {0}

FINGERPRINT_VERSION == 0

\* signal_protocol_str_deserialize_protobuf and strdup: a string ends at its first
\* zero byte.
CString(data) ==
  LET zero == SelectInSeq(data, LAMBDA b : b = 0)
  IN IF zero = 0 THEN data ELSE SubSeq(data, 1, zero - 1)

\* strcmp(s, t) <= 0, for texts of the same length
RECURSIVE NotAfter(_, _)
NotAfter(s, t) ==
  s = <<>> \/ Head(s) < Head(t) \/ (Head(s) = Head(t) /\ NotAfter(Tail(s), Tail(t)))

\* The hashing loop: the identity key is hashed in again every time.
RECURSIVE HashLoop(_, _, _)
HashLoop(data, key, n) == IF n = 0 THEN data ELSE HashLoop(Sha512Digest(data \o key), key, n - 1)

\* fingerprint_generator_create_display_string: the numbers of the first bytes
DisplayString(iterations, identifier, key) ==
  LET hash == HashLoop(<<0, FINGERPRINT_VERSION>> \o EcPublicKeySerialize(key) \o identifier,
                       EcPublicKeySerialize(key), iterations)
  IN [i \in 1..DIGEST_LEN |-> hash[i] % CHUNK_MODULUS]

\* Mutant: the local fingerprint always comes first.
DisplayableLocalFirst(local, remote) ==
  [local_fingerprint |-> local, remote_fingerprint |-> remote, display_text |-> local \o remote]

\* displayable_fingerprint_create
DisplayableCreate(local, remote) ==
  [local_fingerprint |-> local, remote_fingerprint |-> remote,
   display_text |-> IF NotAfter(local, remote) THEN local \o remote ELSE remote \o local]

\* scannable_fingerprint_create
ScannableCreate(version, local_id, local_key, remote_id, remote_key) ==
  IF None \in {local_id, local_key, remote_id, remote_key} THEN Failed("SG_ERR_INVAL")
  ELSE Made([version |-> version, local_stable_identifier |-> CString(local_id),
             local_identity_key |-> local_key, remote_stable_identifier |-> CString(remote_id),
             remote_identity_key |-> remote_key])

\* fingerprint_generator_create_for
FingerprintCreateFor(iterations, local_id, local_key, remote_id, remote_key) ==
  [displayable |-> DisplayableCreate(DisplayString(iterations, local_id, local_key),
                                     DisplayString(iterations, remote_id, remote_key)),
   scannable |-> ScannableCreate(FINGERPRINT_VERSION, local_id, local_key, remote_id,
                                 remote_key).message]

\* scannable_fingerprint_serialize
ScannableSerialize(s) ==
  Serialized(Packed(CombinedFingerprint,
    Structure(<<s.version,
      Structure(<<EcPublicKeySerialize(s.local_identity_key), s.local_stable_identifier>>),
      Structure(<<EcPublicKeySerialize(s.remote_identity_key), s.remote_stable_identifier>>)>>)))

\* The fields of a fingerprint that was unpacked: its key, or None.
DataKey(data) ==
  IF data = None \/ data.values[1] = None THEN None ELSE DecodePoint(data.values[1])
DataIdentifier(data) == IF data = None THEN None ELSE data.values[2]

\* A key that is there and is not a public key.
BadKey(data) == data # None /\ data.values[1] # None /\ ~IsPoint(data.values[1])

ScannableRead(s) ==
  IF s = None THEN Failed("SG_ERR_INVALID_PROTO_BUF")
  ELSE IF BadKey(s.values[2]) \/ BadKey(s.values[3]) THEN Failed("SG_ERR_INVALID_KEY")
  ELSE ScannableCreate(OrZero(s.values[1]), DataIdentifier(s.values[2]), DataKey(s.values[2]),
                       DataIdentifier(s.values[3]), DataKey(s.values[3]))

\* scannable_fingerprint_deserialize
ScannableDeserialize(data) == ScannableRead(Unpack(CombinedFingerprint, data))

\* scannable_fingerprint_compare
ScannableCompare(s, other) ==
  CASE other.version # s.version -> "SG_ERR_FP_VERSION_MISMATCH"
    [] other.version = s.version /\
       (s.local_stable_identifier # other.remote_stable_identifier \/
        s.remote_stable_identifier # other.local_stable_identifier) -> "SG_ERR_FP_IDENT_MISMATCH"
    [] OTHER -> IF s.local_identity_key = other.remote_identity_key /\
                   s.remote_identity_key = other.local_identity_key THEN "match" ELSE "differ"
=============================================================================
