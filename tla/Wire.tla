-------------------------------- MODULE Wire --------------------------------
(***************************************************************************)
(* The five messages of protocol.c as bytes: a version byte, a protocol    *)
(* buffer and, for two of them, a MAC or a signature at the end.  A create *)
(* or deserialize function gives a result code and, if that is "ok", the   *)
(* message.  Allocation is taken to succeed.                               *)
(***************************************************************************)
EXTENDS Curve, ProtobufSchema

CURRENT_VERSION == 3        \* CIPHERTEXT_CURRENT_VERSION
UNSUPPORTED_VERSION == 1    \* CIPHERTEXT_UNSUPPORTED_VERSION

\* The version byte has the version of the message in its upper half and the
\* newest supported one in its lower half.
NIBBLE == 2^((VARINT_BITS + 1) \div 2)
VersionByte(version, supported) == version * NIBBLE + supported
VersionOf(data) == data[1] \div NIBBLE

Failed(code) == [result |-> code, message |-> None]
Made(message) == [result |-> "ok", message |-> message]

\* The packed form of a structure that has the values, None if it does not have the
\* size that was computed for it.
Packed(desc, structure) ==
  LET data == Pack(desc, structure)
  IN IF Len(data) = GetPackedSize(desc, structure) THEN data ELSE None

Structure(values) == [values |-> values, unknown |-> <<>>]

\* The part of a message after its version byte and before the n bytes at its end.
Body(data, n) == SubSeq(data, 2, Len(data) - n)

\* The checks every format makes before it unpacks the data: min bytes at least, and
\* the current version.
Refused(data, min) ==
  CASE Len(data) <= min -> "SG_ERR_INVAL"
    [] Len(data) > min /\ VersionOf(data) < CURRENT_VERSION -> "SG_ERR_LEGACY_MESSAGE"
    [] Len(data) > min /\ VersionOf(data) > CURRENT_VERSION -> "SG_ERR_INVALID_VERSION"
    [] OTHER -> "ok"

\* Whether a structure that was unpacked has the fields at these positions.
Has(structure, fields) == \A i \in fields : structure.values[i] # None

\* A field that is not there reads as zero.
OrZero(v) == IF v = None THEN 0 ELSE v

-----------------------------------------------------------------------------
(* key_exchange_message *)

FLAG_BITS == 5

\* Mutant: the flags take a bit less than the sequence is shifted by.
KeyExchangeIdShifted(m) == ((m.sequence * 2^(FLAG_BITS - 1)) % 2^WORD_BITS) + m.flags

\* The sequence and the flags share a word.
KeyExchangeId(m) == ((m.sequence * 2^FLAG_BITS) % 2^WORD_BITS) + m.flags

KeyExchangeStructure(m) ==
  Structure(<<KeyExchangeId(m), EcPublicKeySerialize(m.base_key),
              EcPublicKeySerialize(m.ratchet_key), EcPublicKeySerialize(m.identity_key),
              IF m.version >= 3 THEN m.base_key_signature ELSE None>>)

\* key_exchange_message_serialize, then key_exchange_message_create
KeyExchangeSerialized(m, packed) ==
  IF packed = None THEN Failed("SG_ERR_INVALID_PROTO_BUF")
  ELSE Made(m @@ [serialized |-> <<VersionByte(m.version, m.supported_version)>> \o packed])

KeyExchangeCreate(version, sequence, flags, base, signature, ratchet, identity) ==
  LET m == [supported_version |-> CURRENT_VERSION, version |-> version, sequence |-> sequence,
            flags |-> flags, base_key |-> base, base_key_signature |-> signature,
            ratchet_key |-> ratchet, identity_key |-> identity]
  IN KeyExchangeSerialized(m, Packed(KeyExchangeMessage, KeyExchangeStructure(m)))

\* The message in a structure that has every field.  The last step of the function
\* copies the data over the buffer it allocated for it instead of into that buffer:
\* what serialized holds afterwards is not the message.
KeyExchangeRead(data, v) ==
  IF Len(v[5]) # DIGEST_LEN THEN Failed("SG_ERR_INVALID_MESSAGE")
  ELSE IF ~(IsPoint(v[2]) /\ IsPoint(v[3]) /\ IsPoint(v[4])) THEN Failed("SG_ERR_INVALID_KEY")
  ELSE Made([supported_version |-> data[1] % NIBBLE, version |-> VersionOf(data),
             sequence |-> v[1] \div 2^FLAG_BITS, flags |-> v[1] % 2^FLAG_BITS,
             base_key |-> DecodePoint(v[2]), base_key_signature |-> v[5],
             ratchet_key |-> DecodePoint(v[3]), identity_key |-> DecodePoint(v[4]),
             serialized |-> None])

KeyExchangeUnpacked(data, s) ==
  IF s = None THEN Failed("SG_ERR_INVALID_PROTO_BUF")
  ELSE IF ~Has(s, 1..5) THEN Failed("SG_ERR_INVALID_MESSAGE")
  ELSE KeyExchangeRead(data, s.values)

\* key_exchange_message_deserialize
KeyExchangeDeserialize(data) ==
  IF Refused(data, 1) # "ok" THEN Failed(Refused(data, 1))
  ELSE KeyExchangeUnpacked(data, Unpack(KeyExchangeMessage, Body(data, 0)))

-----------------------------------------------------------------------------
(* signal_message *)

\* Mutant: the version byte is not authenticated.
MacWithoutVersion(version, sender, receiver, key, data) ==
  HmacSha256(key, (IF version >= 3 THEN EcPublicKeySerialize(sender) \o EcPublicKeySerialize(receiver)
                   ELSE <<>>) \o Tail(data))

\* signal_message_get_mac
SignalMessageGetMac(version, sender, receiver, key, data) ==
  HmacSha256(key, (IF version >= 3 THEN EcPublicKeySerialize(sender) \o EcPublicKeySerialize(receiver)
                   ELSE <<>>) \o data)

\* signal_message_create, once signal_message_serialize has packed the structure
SignalMessageSealed(m, key, sender, receiver, packed) ==
  IF packed = None THEN Failed("SG_ERR_INVALID_PROTO_BUF")
  ELSE LET data == <<VersionByte(m.message_version, CURRENT_VERSION)>> \o packed
       IN Made(m @@ [serialized |->
            data \o SignalMessageGetMac(m.message_version, sender, receiver, key, data)])

SignalMessageCreate(version, key, ratchet, counter, previous, ciphertext, sender, receiver) ==
  SignalMessageSealed(
    [message_type |-> "signal", message_version |-> version, sender_ratchet_key |-> ratchet,
     counter |-> counter, previous_counter |-> previous, ciphertext |-> ciphertext],
    key, sender, receiver,
    Packed(SignalMessage, Structure(<<EcPublicKeySerialize(ratchet), counter, previous, ciphertext>>)))

SignalMessageRead(data, v) ==
  IF ~IsPoint(v[1]) THEN Failed("SG_ERR_INVALID_KEY")
  ELSE Made([message_type |-> "signal", message_version |-> VersionOf(data),
             sender_ratchet_key |-> DecodePoint(v[1]), counter |-> v[2],
             previous_counter |-> OrZero(v[3]), ciphertext |-> v[4], serialized |-> data])

SignalMessageUnpacked(data, s) ==
  IF s = None THEN Failed("SG_ERR_INVALID_PROTO_BUF")
  ELSE IF ~Has(s, {1, 2, 4}) THEN Failed("SG_ERR_INVALID_MESSAGE")
  ELSE SignalMessageRead(data, s.values)

\* signal_message_deserialize: older versions than the current one are accepted.
SignalMessageDeserialize(data) ==
  CASE Len(data) <= 1 + DIGEST_LEN -> Failed("SG_ERR_INVAL")
    [] Len(data) > 1 + DIGEST_LEN /\ VersionOf(data) <= UNSUPPORTED_VERSION ->
         Failed("SG_ERR_LEGACY_MESSAGE")
    [] Len(data) > 1 + DIGEST_LEN /\ VersionOf(data) > CURRENT_VERSION ->
         Failed("SG_ERR_INVALID_MESSAGE")
    [] OTHER -> SignalMessageUnpacked(data, Unpack(SignalMessage, Body(data, DIGEST_LEN)))

\* signal_message_copy
SignalMessageCopy(m) == SignalMessageDeserialize(m.serialized)

\* signal_message_verify_mac
SignalMessageVerifyMac(m, sender, receiver, key) ==
  LET n == Len(m.serialized) - DIGEST_LEN
  IN SubSeq(m.serialized, n + 1, Len(m.serialized)) =
       SignalMessageGetMac(m.message_version, sender, receiver, key, SubSeq(m.serialized, 1, n))

-----------------------------------------------------------------------------
(* pre_key_signal_message *)

\* pre_key_signal_message_create, once pre_key_signal_message_serialize has packed
\* the structure
PreKeyMessageSerialized(m, packed) ==
  IF packed = None THEN Failed("SG_ERR_INVALID_PROTO_BUF")
  ELSE Made(m @@ [serialized |-> <<VersionByte(m.version, CURRENT_VERSION)>> \o packed])

\* pre_key is the id of a one-time pre key, or None.
PreKeyMessageCreate(version, registration, pre_key, signed_pre_key, base, identity, message) ==
  PreKeyMessageSerialized(
    [message_type |-> "pre_key", version |-> version, registration_id |-> registration,
     pre_key_id |-> pre_key, signed_pre_key_id |-> signed_pre_key, base_key |-> base,
     identity_key |-> identity, message |-> message],
    Packed(PreKeySignalMessage,
           Structure(<<pre_key, EcPublicKeySerialize(base), EcPublicKeySerialize(identity),
                       message.serialized, registration, signed_pre_key>>)))

PreKeyMessageInner(data, v, inner) ==
  IF inner.result # "ok" THEN inner
  ELSE IF inner.message.message_version # VersionOf(data) THEN Failed("SG_ERR_INVALID_VERSION")
  ELSE Made([message_type |-> "pre_key", version |-> VersionOf(data),
             registration_id |-> OrZero(v[5]), pre_key_id |-> v[1], signed_pre_key_id |-> v[6],
             base_key |-> DecodePoint(v[2]), identity_key |-> DecodePoint(v[3]),
             message |-> inner.message, serialized |-> data])

PreKeyMessageUnpacked(data, s) ==
  IF s = None THEN Failed("SG_ERR_INVALID_PROTO_BUF")
  ELSE IF ~Has(s, {2, 3, 4, 6}) THEN Failed("SG_ERR_INVALID_MESSAGE")
  ELSE IF ~(IsPoint(s.values[2]) /\ IsPoint(s.values[3])) THEN Failed("SG_ERR_INVALID_KEY")
  ELSE PreKeyMessageInner(data, s.values, SignalMessageDeserialize(s.values[4]))

\* pre_key_signal_message_deserialize
PreKeyMessageDeserialize(data) ==
  IF Refused(data, 1) # "ok" THEN Failed(Refused(data, 1))
  ELSE PreKeyMessageUnpacked(data, Unpack(PreKeySignalMessage, Body(data, 0)))

\* pre_key_signal_message_copy
PreKeyMessageCopy(m) == PreKeyMessageDeserialize(m.serialized)

-----------------------------------------------------------------------------
(* sender_key_message *)

\* sender_key_message_create, once the structure is packed: sender_key_message_-
\* serialize appends the signature of the version byte and the structure.
SenderKeyMessageSigned(m, key, packed) ==
  IF packed = None THEN Failed("SG_ERR_INVALID_PROTO_BUF")
  ELSE LET data == <<VersionByte(CURRENT_VERSION, CURRENT_VERSION)>> \o packed
       IN Made(m @@ [serialized |-> data \o CalculateSignature(key, data)])

SenderKeyMessageCreate(id, iteration, ciphertext, key) ==
  SenderKeyMessageSigned(
    [message_type |-> "sender_key", message_version |-> CURRENT_VERSION, key_id |-> id,
     iteration |-> iteration, ciphertext |-> ciphertext],
    key, Packed(SenderKeyMessage, Structure(<<id, iteration, ciphertext>>)))

SenderKeyMessageUnpacked(data, s) ==
  IF s = None THEN Failed("SG_ERR_INVALID_PROTO_BUF")
  ELSE IF ~Has(s, 1..3) THEN Failed("SG_ERR_INVALID_MESSAGE")
  ELSE Made([message_type |-> "sender_key", message_version |-> VersionOf(data),
             key_id |-> s.values[1], iteration |-> s.values[2], ciphertext |-> s.values[3],
             serialized |-> data])

\* sender_key_message_deserialize
SenderKeyMessageDeserialize(data) ==
  IF Refused(data, 1 + DIGEST_LEN) # "ok" THEN Failed(Refused(data, 1 + DIGEST_LEN))
  ELSE SenderKeyMessageUnpacked(data, Unpack(SenderKeyMessage, Body(data, DIGEST_LEN)))

\* sender_key_message_copy
SenderKeyMessageCopy(m) == SenderKeyMessageDeserialize(m.serialized)

\* sender_key_message_verify_signature
SenderKeyMessageVerify(m, key) ==
  LET n == Len(m.serialized) - DIGEST_LEN
  IN VerifySignature(key, SubSeq(m.serialized, 1, n), SubSeq(m.serialized, n + 1, Len(m.serialized)))

-----------------------------------------------------------------------------
(* sender_key_distribution_message *)

\* sender_key_distribution_message_create, once sender_key_distribution_message_-
\* serialize has packed the structure
DistributionSerialized(m, packed) ==
  IF packed = None THEN Failed("SG_ERR_INVALID_PROTO_BUF")
  ELSE Made(m @@ [serialized |-> <<VersionByte(CURRENT_VERSION, CURRENT_VERSION)>> \o packed])

DistributionCreate(id, iteration, chain_key, signature_key) ==
  DistributionSerialized(
    [message_type |-> "distribution", id |-> id, iteration |-> iteration,
     chain_key |-> chain_key, signature_key |-> signature_key],
    Packed(SenderKeyDistributionMessage,
           Structure(<<id, iteration, chain_key, EcPublicKeySerialize(signature_key)>>)))

DistributionUnpacked(data, s) ==
  IF s = None THEN Failed("SG_ERR_INVALID_PROTO_BUF")
  ELSE IF ~Has(s, 1..4) THEN Failed("SG_ERR_INVALID_MESSAGE")
  ELSE IF ~IsPoint(s.values[4]) THEN Failed("SG_ERR_INVALID_KEY")
  ELSE Made([message_type |-> "distribution", id |-> s.values[1], iteration |-> s.values[2],
             chain_key |-> s.values[3], signature_key |-> DecodePoint(s.values[4]),
             serialized |-> data])

\* sender_key_distribution_message_deserialize
DistributionDeserialize(data) ==
  IF Refused(data, 1) # "ok" THEN Failed(Refused(data, 1))
  ELSE DistributionUnpacked(data, Unpack(SenderKeyDistributionMessage, Body(data, 0)))

\* sender_key_distribution_message_copy
DistributionCopy(m) == DistributionDeserialize(m.serialized)
=============================================================================
