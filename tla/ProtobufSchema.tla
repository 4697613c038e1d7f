--------------------------- MODULE ProtobufSchema ---------------------------
(***************************************************************************)
(* The descriptors that protobuf-c generated from the library's three      *)
(* schemas: LocalStorageProtocol.pb-c.c (what is stored), Whisper-         *)
(* TextProtocol.pb-c.c (what is sent) and FingerprintProtocol.pb-c.c.  A   *)
(* descriptor has the fields in the order of their numbers, and the ranges *)
(* of consecutive numbers with the position at which each range starts,    *)
(* ended by the number of fields.                                          *)
(***************************************************************************)
EXTENDS Naturals, Sequences, TLC

Optional(id, type) == [id |-> id, label |-> "optional", type |-> type]

OptionalMessage(id, descriptor) ==
  [id |-> id, label |-> "optional", type |-> "message", descriptor |-> descriptor]

Repeated(id, descriptor) ==
  [id |-> id, label |-> "repeated", type |-> "message", descriptor |-> descriptor]

NumberRange(first, index) == [start_value |-> first, orig_index |-> index]

Descriptor(fields, ranges) == [fields |-> fields, ranges |-> ranges]

-----------------------------------------------------------------------------
(* LocalStorageProtocol *)

SessionStructure__Chain__ChainKey ==
  Descriptor(<<Optional(1, "uint32"), Optional(2, "bytes")>>,   \* index, key
             <<NumberRange(1, 0), NumberRange(0, 2)>>)

\* index, cipherKey, macKey, iv
SessionStructure__Chain__MessageKey ==
  Descriptor(<<Optional(1, "uint32"), Optional(2, "bytes"), Optional(3, "bytes"),
               Optional(4, "bytes")>>,
             <<NumberRange(1, 0), NumberRange(0, 4)>>)

\* senderRatchetKey, senderRatchetKeyPrivate, chainKey, messageKeys
SessionStructure__Chain ==
  Descriptor(<<Optional(1, "bytes"), Optional(2, "bytes"),
               OptionalMessage(3, SessionStructure__Chain__ChainKey),
               Repeated(4, SessionStructure__Chain__MessageKey)>>,
             <<NumberRange(1, 0), NumberRange(0, 4)>>)

\* Mutant: the ranges do not skip the number 6.
PendingKeyExchangeOneRange ==
  Descriptor(<<Optional(1, "uint32"), Optional(2, "bytes"), Optional(3, "bytes"),
               Optional(4, "bytes"), Optional(5, "bytes"), Optional(7, "bytes"),
               Optional(8, "bytes")>>,
             <<NumberRange(1, 0), NumberRange(0, 7)>>)

\* sequence, the local base, ratchet and identity keys with their private parts
SessionStructure__PendingKeyExchange ==
  Descriptor(<<Optional(1, "uint32"), Optional(2, "bytes"), Optional(3, "bytes"),
               Optional(4, "bytes"), Optional(5, "bytes"), Optional(7, "bytes"),
               Optional(8, "bytes")>>,
             <<NumberRange(1, 0), NumberRange(7, 5), NumberRange(0, 7)>>)

\* preKeyId, baseKey, signedPreKeyId
SessionStructure__PendingPreKey ==
  Descriptor(<<Optional(1, "uint32"), Optional(2, "bytes"), Optional(3, "int32")>>,
             <<NumberRange(1, 0), NumberRange(0, 3)>>)

\* sessionVersion, the identities, rootKey, previousCounter, senderChain,
\* receiverChains, pendingKeyExchange, pendingPreKey, the registration ids,
\* needsRefresh, aliceBaseKey
SessionStructure ==
  Descriptor(<<Optional(1, "uint32"), Optional(2, "bytes"), Optional(3, "bytes"),
               Optional(4, "bytes"), Optional(5, "uint32"),
               OptionalMessage(6, SessionStructure__Chain),
               Repeated(7, SessionStructure__Chain),
               OptionalMessage(8, SessionStructure__PendingKeyExchange),
               OptionalMessage(9, SessionStructure__PendingPreKey),
               Optional(10, "uint32"), Optional(11, "uint32"), Optional(12, "bool"),
               Optional(13, "bytes")>>,
             <<NumberRange(1, 0), NumberRange(0, 13)>>)

\* currentSession, previousSessions
RecordStructure ==
  Descriptor(<<OptionalMessage(1, SessionStructure), Repeated(2, SessionStructure)>>,
             <<NumberRange(1, 0), NumberRange(0, 2)>>)

\* id, publicKey, privateKey
PreKeyRecordStructure ==
  Descriptor(<<Optional(1, "uint32"), Optional(2, "bytes"), Optional(3, "bytes")>>,
             <<NumberRange(1, 0), NumberRange(0, 3)>>)

\* id, publicKey, privateKey, signature, timestamp
SignedPreKeyRecordStructure ==
  Descriptor(<<Optional(1, "uint32"), Optional(2, "bytes"), Optional(3, "bytes"),
               Optional(4, "bytes"), Optional(5, "fixed64")>>,
             <<NumberRange(1, 0), NumberRange(0, 5)>>)

\* publicKey, privateKey
IdentityKeyPairStructure ==
  Descriptor(<<Optional(1, "bytes"), Optional(2, "bytes")>>, <<NumberRange(1, 0), NumberRange(0, 2)>>)

\* iteration, seed
SenderKeyStateStructure__SenderChainKey ==
  Descriptor(<<Optional(1, "uint32"), Optional(2, "bytes")>>, <<NumberRange(1, 0), NumberRange(0, 2)>>)

\* iteration, seed
SenderKeyStateStructure__SenderMessageKey ==
  Descriptor(<<Optional(1, "uint32"), Optional(2, "bytes")>>, <<NumberRange(1, 0), NumberRange(0, 2)>>)

\* public, private
SenderKeyStateStructure__SenderSigningKey ==
  Descriptor(<<Optional(1, "bytes"), Optional(2, "bytes")>>, <<NumberRange(1, 0), NumberRange(0, 2)>>)

\* senderKeyId, senderChainKey, senderSigningKey, senderMessageKeys
SenderKeyStateStructure ==
  Descriptor(<<Optional(1, "uint32"),
               OptionalMessage(2, SenderKeyStateStructure__SenderChainKey),
               OptionalMessage(3, SenderKeyStateStructure__SenderSigningKey),
               Repeated(4, SenderKeyStateStructure__SenderMessageKey)>>,
             <<NumberRange(1, 0), NumberRange(0, 4)>>)

\* senderKeyStates
SenderKeyRecordStructure ==
  Descriptor(<<Repeated(1, SenderKeyStateStructure)>>, <<NumberRange(1, 0), NumberRange(0, 1)>>)

-----------------------------------------------------------------------------
(* WhisperTextProtocol *)

\* ratchetKey, counter, previousCounter, ciphertext
SignalMessage ==
  Descriptor(<<Optional(1, "bytes"), Optional(2, "uint32"), Optional(3, "uint32"),
               Optional(4, "bytes")>>,
             <<NumberRange(1, 0), NumberRange(0, 4)>>)

\* preKeyId, baseKey, identityKey, message, registrationId, signedPreKeyId
PreKeySignalMessage ==
  Descriptor(<<Optional(1, "uint32"), Optional(2, "bytes"), Optional(3, "bytes"),
               Optional(4, "bytes"), Optional(5, "uint32"), Optional(6, "uint32")>>,
             <<NumberRange(1, 0), NumberRange(0, 6)>>)

\* id, baseKey, ratchetKey, identityKey, baseKeySignature
KeyExchangeMessage ==
  Descriptor(<<Optional(1, "uint32"), Optional(2, "bytes"), Optional(3, "bytes"),
               Optional(4, "bytes"), Optional(5, "bytes")>>,
             <<NumberRange(1, 0), NumberRange(0, 5)>>)

\* id, iteration, ciphertext
SenderKeyMessage ==
  Descriptor(<<Optional(1, "uint32"), Optional(2, "uint32"), Optional(3, "bytes")>>,
             <<NumberRange(1, 0), NumberRange(0, 3)>>)

\* id, iteration, chainKey, signingKey
SenderKeyDistributionMessage ==
  Descriptor(<<Optional(1, "uint32"), Optional(2, "uint32"), Optional(3, "bytes"),
               Optional(4, "bytes")>>,
             <<NumberRange(1, 0), NumberRange(0, 4)>>)

-----------------------------------------------------------------------------
(* FingerprintProtocol *)

\* publicKey, identifier
FingerprintData ==
  Descriptor(<<Optional(1, "bytes"), Optional(2, "bytes")>>, <<NumberRange(1, 0), NumberRange(0, 2)>>)

\* version, localFingerprint, remoteFingerprint
CombinedFingerprint ==
  Descriptor(<<Optional(1, "uint32"), OptionalMessage(2, FingerprintData),
               OptionalMessage(3, FingerprintData)>>,
             <<NumberRange(1, 0), NumberRange(0, 3)>>)

-----------------------------------------------------------------------------
(* The functions generated for a structure call the codec with the         *)
(* structure's descriptor.                                                 *)

LocalStorageProtocol ==
  [ChainKey |-> SessionStructure__Chain__ChainKey,
   MessageKey |-> SessionStructure__Chain__MessageKey,
   Chain |-> SessionStructure__Chain,
   PendingKeyExchange |-> SessionStructure__PendingKeyExchange,
   PendingPreKey |-> SessionStructure__PendingPreKey,
   SessionStructure |-> SessionStructure,
   RecordStructure |-> RecordStructure,
   PreKeyRecordStructure |-> PreKeyRecordStructure,
   SignedPreKeyRecordStructure |-> SignedPreKeyRecordStructure,
   IdentityKeyPairStructure |-> IdentityKeyPairStructure,
   SenderChainKey |-> SenderKeyStateStructure__SenderChainKey,
   SenderMessageKey |-> SenderKeyStateStructure__SenderMessageKey,
   SenderSigningKey |-> SenderKeyStateStructure__SenderSigningKey,
   SenderKeyStateStructure |-> SenderKeyStateStructure,
   SenderKeyRecordStructure |-> SenderKeyRecordStructure]

WhisperTextProtocol ==
  [SignalMessage |-> SignalMessage,
   PreKeySignalMessage |-> PreKeySignalMessage,
   KeyExchangeMessage |-> KeyExchangeMessage,
   SenderKeyMessage |-> SenderKeyMessage,
   SenderKeyDistributionMessage |-> SenderKeyDistributionMessage]

FingerprintProtocol ==
  [FingerprintData |-> FingerprintData,
   CombinedFingerprint |-> CombinedFingerprint]

Schema == LocalStorageProtocol @@ WhisperTextProtocol @@ FingerprintProtocol
=============================================================================
