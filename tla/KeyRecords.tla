----------------------------- MODULE KeyRecords -----------------------------
(***************************************************************************)
(* The keys that are stored as bytes: pre keys and signed pre keys         *)
(* (session_pre_key.c) and the identity (ratchet.c).                       *)
(***************************************************************************)
EXTENDS Wire

\* Every serialize function: the packed structure, or an error.
Serialized(packed) ==
  IF packed = None THEN Failed("SG_ERR_INVALID_PROTO_BUF") ELSE Made(packed)

\* ec_key_pair_create
KeyPair(public, private) == [public |-> public, private |-> private]

AreKeys(public, private) == IsPoint(public) /\ IsPrivatePoint(private)

-----------------------------------------------------------------------------
(* session_pre_key *)

\* session_pre_key_create
SessionPreKey(id, pair) == [id |-> id, key_pair |-> pair]

\* session_pre_key_serialize
SessionPreKeySerialize(k) ==
  Serialized(Packed(PreKeyRecordStructure,
    Structure(<<k.id, EcPublicKeySerialize(k.key_pair.public), k.key_pair.private>>)))

SessionPreKeyRead(s) ==
  IF s = None THEN Failed("SG_ERR_INVALID_PROTO_BUF")
  ELSE IF ~(Has(s, 1..3) /\ AreKeys(s.values[2], s.values[3])) THEN Failed("SG_ERR_INVALID_KEY")
  ELSE Made(SessionPreKey(s.values[1], KeyPair(DecodePoint(s.values[2]), s.values[3])))

\* session_pre_key_deserialize
SessionPreKeyDeserialize(data) == SessionPreKeyRead(Unpack(PreKeyRecordStructure, data))

-----------------------------------------------------------------------------
(* session_signed_pre_key *)

\* session_signed_pre_key_create; it asserts that the signature is not empty.
SessionSignedPreKey(id, timestamp, pair, signature) ==
  IF signature = <<>> THEN Failed("assert")
  ELSE Made([id |-> id, timestamp |-> timestamp, key_pair |-> pair, signature |-> signature])

\* session_signed_pre_key_serialize
SessionSignedPreKeySerialize(k) ==
  Serialized(Packed(SignedPreKeyRecordStructure,
    Structure(<<k.id, EcPublicKeySerialize(k.key_pair.public), k.key_pair.private, k.signature,
                k.timestamp>>)))

SessionSignedPreKeyRead(s) ==
  IF s = None THEN Failed("SG_ERR_INVALID_PROTO_BUF")
  ELSE IF ~(Has(s, 1..5) /\ AreKeys(s.values[2], s.values[3])) THEN Failed("SG_ERR_INVALID_KEY")
  ELSE SessionSignedPreKey(s.values[1], s.values[5],
                           KeyPair(DecodePoint(s.values[2]), s.values[3]), s.values[4])

\* session_signed_pre_key_deserialize
SessionSignedPreKeyDeserialize(data) ==
  SessionSignedPreKeyRead(Unpack(SignedPreKeyRecordStructure, data))

-----------------------------------------------------------------------------
(* ratchet_identity_key_pair *)

\* ratchet_identity_key_pair_serialize
IdentityKeyPairSerialize(k) ==
  Serialized(Packed(IdentityKeyPairStructure,
    Structure(<<EcPublicKeySerialize(k.public), k.private>>)))

IdentityKeyPairRead(s) ==
  IF s = None THEN Failed("SG_ERR_INVALID_PROTO_BUF")
  ELSE IF ~(Has(s, 1..2) /\ AreKeys(s.values[1], s.values[2])) THEN Failed("SG_ERR_INVALID_KEY")
  ELSE Made(KeyPair(DecodePoint(s.values[1]), s.values[2]))

\* ratchet_identity_key_pair_deserialize and ratchet_identity_key_pair_create
IdentityKeyPairDeserialize(data) == IdentityKeyPairRead(Unpack(IdentityKeyPairStructure, data))
=============================================================================
