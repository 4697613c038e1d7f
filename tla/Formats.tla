------------------------------ MODULE Formats ------------------------------
(***************************************************************************)
(* Everything the library turns into bytes, and what it makes of bytes     *)
(* that were changed on the way.  A behaviour encodes one value, with the  *)
(* create or serialize function of its format; then bytes of the encoding  *)
(* are replaced, dropped or added, or a second encoding is put after the   *)
(* first.                                                                  *)
(***************************************************************************)
EXTENDS Fingerprint, Hkdf

CONSTANTS Descriptors,   \* names of the structures that are packed by themselves
          Keys,          \* keys, as bytes
          Words,         \* values of a word
          Texts,         \* ciphertexts and other bytes
          Noise,         \* values a byte is replaced by
          MaxChanges     \* changes to an encoding

VARIABLES format,    \* what was encoded
          value,     \* the value that was encoded
          wire,      \* the bytes, possibly changed
          changes    \* the number of changes so far

vars == <<format, value, wire, changes>>

Messages == {"key_exchange", "signal", "pre_key", "sender_key", "distribution"}
Records == {"session_pre_key", "signed_pre_key", "identity", "scannable"}

Init == format = "none" /\ value = None /\ wire = <<>> /\ changes = 0

-----------------------------------------------------------------------------
(* Encoding *)

\* A value is encoded; a create function keeps the encoding in the message.
Encode(f, v, data) ==
  /\ format = "none"
  /\ format' = f /\ value' = v /\ wire' = data
  /\ UNCHANGED changes

EncodeMessage(f, made) == Encode(f, made, made.message.serialized)

CreateKeyExchange ==
  \E key \in Keys, sequence \in {0, 1, 2^(WORD_BITS - FLAG_BITS) - 1}, flags \in {1, 2, 6} :
    EncodeMessage("key_exchange",
      KeyExchangeCreate(CURRENT_VERSION, sequence, flags, key, CalculateSignature(key, key), key, key))

\* The key of the MAC, the identities of the sender and the receiver
MacKey == <<1>>
Sender == <<2>>
Receiver == <<3>>

CreateSignalMessage ==
  \E version \in {2, CURRENT_VERSION}, key \in Keys, counter \in Words, previous \in Words, text \in Texts :
    EncodeMessage("signal",
      SignalMessageCreate(version, MacKey, key, counter, previous, text, Sender, Receiver))

\* The message in a pre key message is one that was created for the same session.
CreatePreKeyMessage ==
  \E pre_key \in Words \union {None}, signed \in Words, key \in Keys :
    EncodeMessage("pre_key",
      PreKeyMessageCreate(CURRENT_VERSION, 0, pre_key, signed, key, Sender,
        SignalMessageCreate(CURRENT_VERSION, MacKey, key, 0, 0, <<>>, Sender, Receiver).message))

CreateSenderKeyMessage ==
  \E id \in Words, iteration \in Words, text \in Texts :
    EncodeMessage("sender_key", SenderKeyMessageCreate(id, iteration, text, Sender))

CreateDistribution ==
  \E id \in Words, iteration \in Words, text \in Texts :
    EncodeMessage("distribution", DistributionCreate(id, iteration, text, Sender))

EncodeRecord(f, v, serialized) == Encode(f, Made(v), serialized.message)

StorePreKey ==
  \E id \in Words, key \in Keys :
    LET k == SessionPreKey(id, KeyPair(key, key))
    IN EncodeRecord("session_pre_key", k, SessionPreKeySerialize(k))

StoreSignedPreKey ==
  \E id \in Words, time \in {0, 2^(2 * WORD_BITS) - 1}, key \in Keys :
    LET k == SessionSignedPreKey(id, time, KeyPair(key, key), CalculateSignature(Sender, key)).message
    IN EncodeRecord("signed_pre_key", k, SessionSignedPreKeySerialize(k))

StoreIdentity ==
  \E key \in Keys :
    EncodeRecord("identity", KeyPair(key, key), IdentityKeyPairSerialize(KeyPair(key, key)))

\* A user's fingerprint for another one, to be scanned by the other
CreateFingerprint ==
  \E local_key \in Keys, remote_key \in Keys, local_id \in Texts, remote_id \in Texts, n \in 0..2 :
    LET s == FingerprintCreateFor(n, local_id, local_key, remote_id, remote_key).scannable
    IN EncodeRecord("scannable", s, ScannableSerialize(s))

\* The values a field may have.  A message is one that has no field, or each scalar
\* one with a value that is not empty, or with one that is.
Scalar(type) ==
  CASE type = "uint32" -> Words
    [] type = "int32" -> {-1, 1, -(2^(WORD_BITS - 1))}
    [] type = "fixed64" -> {1, 2^(2 * WORD_BITS) - 1}
    [] type = "bool" -> BOOLEAN
    [] type = "bytes" -> Texts

Filling(desc, data, number, truth) ==
  [MessageInit(desc) EXCEPT !.values =
     [i \in DOMAIN desc.fields |->
        CASE desc.fields[i].type = "message" -> @[i]
          [] desc.fields[i].type = "bytes" -> data
          [] desc.fields[i].type = "bool" -> truth
          [] OTHER -> number]]

Full(desc) == Filling(desc, <<1>>, 1, TRUE)
Empty(desc) == Filling(desc, <<>>, 0, FALSE)

\* A message with a field of a later schema
Later(desc) ==
  [MessageInit(desc) EXCEPT !.unknown = <<[tag |-> 15, wire |-> VARINT, data |-> <<1>>]>>]

FieldValues(field) ==
  CASE field.label = "repeated" ->
         {<<Full(field.descriptor)>>, <<MessageInit(field.descriptor), Full(field.descriptor)>>}
    [] field.label # "repeated" /\ field.type = "message" ->
         {MessageInit(field.descriptor), Full(field.descriptor), Empty(field.descriptor),
          Later(field.descriptor)}
    [] OTHER -> Scalar(field.type)

\* The messages of a descriptor that have one field
Singles(desc) ==
  {Later(desc)} \union
  UNION {{[MessageInit(desc) EXCEPT !.values[i] = v] : v \in FieldValues(desc.fields[i])}
         : i \in DOMAIN desc.fields}

PackStructure ==
  \E name \in Descriptors : \E m \in Singles(Schema[name]) :
    Encode("structure", [name |-> name, parts |-> <<m>>], Pack(Schema[name], m))

\* The longest output RFC 5869 has: its blocks are numbered with a byte, from 1
LongestSecrets == (HKDF_COUNTER - 1) * DIGEST_LEN

\* Secrets derived with the HKDF of a version, from the shortest output to the longest
DeriveSecrets ==
  \E version \in {2, CURRENT_VERSION}, salt \in Keys,
     len \in 0..(DIGEST_LEN + 1) \union (LongestSecrets - DIGEST_LEN - 1)..LongestSecrets :
    Encode("secrets", [version |-> version, salt |-> salt, len |-> len],
           HkdfDeriveSecrets(version, MacKey, salt, <<0>>, len))

Create ==
  \/ CreateKeyExchange
  \/ CreateSignalMessage
  \/ CreatePreKeyMessage
  \/ CreateSenderKeyMessage
  \/ CreateDistribution
  \/ StorePreKey
  \/ StoreSignedPreKey
  \/ StoreIdentity
  \/ CreateFingerprint
  \/ PackStructure
  \/ DeriveSecrets

-----------------------------------------------------------------------------
(* Changes *)

\* A second structure follows the first: its fields are merged into it.
Join ==
  /\ format = "structure" /\ changes = 0 /\ Len(value.parts) = 1
  /\ \E m \in Singles(Schema[value.name]) :
       /\ value' = [value EXCEPT !.parts = Append(@, m)]
       /\ wire' = wire \o Pack(Schema[value.name], m)
  /\ UNCHANGED <<format, changes>>

Change(data) ==
  /\ wire' = data /\ data # wire
  /\ changes' = changes + 1
  /\ UNCHANGED <<format, value>>

Replace == \E i \in DOMAIN wire, b \in Noise : Change([wire EXCEPT ![i] = b])

DropOne == \E i \in DOMAIN wire : Change(RemoveAt(wire, i))

Insert == \E i \in 1..(Len(wire) + 1), b \in Noise : Change(InsertAt(wire, i, b))

\* Bytes that are under way or stored may change.
Changeable ==
  /\ format \notin {"none", "secrets"} /\ changes < MaxChanges
  /\ format = "structure" => Len(value.parts) = 1

Next == Create \/ Join \/ (Changeable /\ (Replace \/ DropOne \/ Insert))

Spec == Init /\ [][Next]_vars

-----------------------------------------------------------------------------
(* What the library reads *)

Deserialized(f, data) ==
  CASE f = "key_exchange" -> KeyExchangeDeserialize(data)
    [] f = "signal" -> SignalMessageDeserialize(data)
    [] f = "pre_key" -> PreKeyMessageDeserialize(data)
    [] f = "sender_key" -> SenderKeyMessageDeserialize(data)
    [] f = "distribution" -> DistributionDeserialize(data)
    [] f = "session_pre_key" -> SessionPreKeyDeserialize(data)
    [] f = "signed_pre_key" -> SessionSignedPreKeyDeserialize(data)
    [] f = "identity" -> IdentityKeyPairDeserialize(data)
    [] f = "scannable" -> ScannableDeserialize(data)

-----------------------------------------------------------------------------
(* Properties *)

\* Every message, stored key and scannable fingerprint is read back as the value that
\* was written, the bytes kept with a message included: only a key exchange message
\* that was read does not keep them.
RoundTrip ==
  changes = 0 /\ format \in Messages \union Records =>
    Deserialized(format, wire) =
      IF format = "key_exchange" THEN [value EXCEPT !.message.serialized = None] ELSE value

\* A message that was changed on its way and still is one has a MAC or a signature
\* that does not verify, and so has an unchanged message under the identities in the
\* other order (signal_message_verify_mac, sender_key_message_verify_signature); what
\* a changed pre key message carries verifies only if that part was not changed.
MacCovers(m, original) ==
  SignalMessageVerifyMac(m, Sender, Receiver, MacKey) <=> m.serialized = original.serialized

Authenticated ==
  LET d == Deserialized(format, wire)
  IN format \in {"signal", "pre_key", "sender_key"} /\ d.result = "ok" =>
       CASE format = "signal" ->
              /\ MacCovers(d.message, value.message)
              /\ SignalMessageVerifyMac(d.message, Receiver, Sender, MacKey) =>
                   d.message.message_version < 3
         [] format = "pre_key" -> MacCovers(d.message.message, value.message.message)
         [] format = "sender_key" ->
              SenderKeyMessageVerify(d.message, Sender) <=> wire = value.message.serialized

\* A message in which the empty bytes inside its own messages are taken out
RECURSIVE Nonempty(_, _, _)
Nonempty(desc, m, nested) ==
  [m EXCEPT !.values = [i \in DOMAIN desc.fields |->
     CASE desc.fields[i].label = "repeated" ->
            [j \in DOMAIN @[i] |-> Nonempty(desc.fields[i].descriptor, @[i][j], TRUE)]
       [] desc.fields[i].label # "repeated" /\ desc.fields[i].type = "message" /\ @[i] # None ->
            Nonempty(desc.fields[i].descriptor, @[i], TRUE)
       [] OTHER -> IF nested /\ desc.fields[i].type = "bytes" /\ @[i] = <<>> THEN None ELSE @[i]]]

\* A field of the latter of two messages replaces the one of the former; messages are
\* merged and lists appended.  The unknown fields inside the messages of the former
\* are lost when the latter has the same messages.
RECURSIVE Overlaid(_, _, _)
Overlaid(desc, e, l) ==
  [values |-> [i \in DOMAIN desc.fields |->
     CASE desc.fields[i].label = "repeated" -> e.values[i] \o l.values[i]
       [] desc.fields[i].label # "repeated" /\ l.values[i] = None -> e.values[i]
       [] desc.fields[i].type = "message" /\ None \notin {e.values[i], l.values[i]} ->
            Overlaid(desc.fields[i].descriptor, [e.values[i] EXCEPT !.unknown = <<>>], l.values[i])
       [] OTHER -> l.values[i]],
   unknown |-> e.unknown \o l.unknown]

\* protobuf_c_message_unpack reads back what protobuf_c_message_pack wrote, and two
\* encodings one after the other as the second message laid over the first, except
\* that merge_messages takes empty bytes for bytes that are not there, and keeps the
\* unknown fields of the second only.
ConcatenationMerges ==
  format = "structure" /\ changes = 0 =>
    LET desc == Schema[value.name]
        read == Unpack(desc, wire)
    IN IF Len(value.parts) = 1 THEN read = value.parts[1]
       ELSE Nonempty(desc, read, FALSE) =
              Overlaid(desc, Nonempty(desc, value.parts[1], FALSE), Nonempty(desc, value.parts[2], FALSE))

\* Whatever bytes unpacking accepts, the structure it makes of them is packed in the
\* size computed for it and unpacked as the same structure, unknown fields included.
Canonical ==
  format = "structure" =>
    LET m == Unpack(Schema[value.name], wire)
    IN m # None => /\ Packed(Schema[value.name], m) # None
                   /\ Unpack(Schema[value.name], Pack(Schema[value.name], m)) = m

\* The two users see the same text, and each one's scan of the other's fingerprint
\* matches, unless one of them has another key for the other
\* (displayable_fingerprint_create, scannable_fingerprint_compare).
FingerprintsAgree ==
  format = "scannable" /\ changes = 0 =>
    LET s == value.message
        Theirs(n, key) == FingerprintCreateFor(n, s.remote_stable_identifier, s.remote_identity_key,
                                               s.local_stable_identifier, key)
        Ours(n) == FingerprintCreateFor(n, s.local_stable_identifier, s.local_identity_key,
                                        s.remote_stable_identifier, s.remote_identity_key)
    IN /\ \A n \in 0..2 : Theirs(n, s.local_identity_key).displayable.display_text =
                             Ours(n).displayable.display_text
       /\ \A key \in Keys :
            ScannableCompare(Theirs(0, key).scannable, ScannableDeserialize(wire).message) =
              IF key = s.local_identity_key THEN "match" ELSE "differ"

\* The blocks T(1), T(2), ... of RFC 5869, numbered from offset
Block(prk, info, offset) ==
  LET T[n \in 0..HKDF_COUNTER] ==
        IF n = 0 THEN <<>> ELSE HmacSha256(prk, T[n - 1] \o info \o <<n - 1 + offset>>)
  IN T

\* The output of hkdf_derive_secrets is the first bytes of those blocks, numbered from
\* 1 as the RFC has it for version 3 and from 0 for version 2, for every length the RFC
\* allows but those that take all HKDF_COUNTER - 1 blocks: there the counter of version
\* 3 wraps before it reaches the end, and hkdf_expand does not return.
HkdfStandard ==
  format = "secrets" =>
    LET T == Block(HmacSha256(value.salt, MacKey), <<0>>, value.version - 2)
        Returns == value.version = 2 \/ value.len <= LongestSecrets - DIGEST_LEN
    IN IF Returns
       THEN /\ Len(wire) = value.len
            /\ \A i \in DOMAIN wire :
                 wire[i] = T[(i - 1) \div DIGEST_LEN + 1][((i - 1) % DIGEST_LEN) + 1]
       ELSE wire = None
=============================================================================
