---------------------------- MODULE SessionState ----------------------------
(***************************************************************************)
(* A session state: the double ratchet between two identities.  The        *)
(* cryptography is symbolic.  A key pair is named by one value, used for   *)
(* its public and its private half; the result of a Diffie-Hellman         *)
(* agreement is the set of the two keys; a root key or a chain key is the  *)
(* sequence of secrets it was derived from, so that two keys are equal     *)
(* exactly when they were derived from the same secrets in the same order. *)
(* Registration ids and needs_refresh, which no decision of the protocol   *)
(* reads, are left out.                                                    *)
(***************************************************************************)
EXTENDS MessageKeys, Structures

CONSTANT MAX_RECEIVER_CHAINS   \* receiver chains kept per state (5)

ASSUME ReceiverChainsAssumption == MAX_RECEIVER_CHAINS \in Nat \ {0}

CIPHERTEXT_CURRENT_VERSION == 3

\* session_state_create
EmptyState ==
  [version |-> 2, local |-> None, remote |-> None, root |-> None,
   previous_counter |-> 0, sender |-> None, receivers |-> <<>>,
   pending_key_exchange |-> None, pending_pre_key |-> None, alice_base |-> None]

-----------------------------------------------------------------------------
(* Key derivation *)

\* curve_calculate_agreement
Agreement(theirs, ours) == {theirs, ours}

\* ratchet_root_key_create_chain: the new root key and the new chain key.
CreateChain(root, theirs, ours) == Append(root, Agreement(theirs, ours))

\* ratchet_chain_key_get_message_keys
GetMessageKeys(kdf, index) == <<kdf, index>>

\* ratcheting_session_calculate_derived_keys: the first root and chain key.
CalculateDerivedKeys(secret) == <<secret>>

-----------------------------------------------------------------------------
(* The receiver chains *)

\* session_state_find_receiver_chain: its position, 0 if there is none.
FindReceiverChain(state, ephemeral) ==
  SelectInSeq(state.receivers, LAMBDA chain : chain.ratchet = ephemeral)

\* Mutant: no receiver chain is dropped.
AddReceiverChainUnbounded(state, ephemeral, kdf) ==
  [state EXCEPT !.receivers =
     Append(@, [ratchet |-> ephemeral, kdf |-> kdf, index |-> 0, keys |-> <<>>])]

\* session_state_add_receiver_chain
AddReceiverChain(state, ephemeral, kdf) ==
  [state EXCEPT !.receivers =
     Newest(Append(@, [ratchet |-> ephemeral, kdf |-> kdf, index |-> 0, keys |-> <<>>]),
            MAX_RECEIVER_CHAINS)]

\* session_state_set_sender_chain
SetSenderChain(state, ratchet, kdf) ==
  [state EXCEPT !.sender = [ratchet |-> ratchet, kdf |-> kdf, index |-> 0]]

\* session_state_set_sender_chain_key with ratchet_chain_key_create_next
AdvanceSenderChain(state) == [state EXCEPT !.sender.index = @ + 1]

-----------------------------------------------------------------------------
(* Session initialisation.  us and them are the identity keys; a one-time  *)
(* pre key that is not used is None.                                       *)

\* The master secret as Alice computes it, and as Bob does.
AliceSecret(us, base, them, theirSigned, theirOneTime) ==
  <<Agreement(theirSigned, us), Agreement(them, base), Agreement(theirSigned, base)>>
    \o (IF theirOneTime = None THEN <<>> ELSE <<Agreement(theirOneTime, base)>>)

BobSecret(us, signed, oneTime, them, theirBase) ==
  <<Agreement(them, signed), Agreement(theirBase, us), Agreement(theirBase, signed)>>
    \o (IF oneTime = None THEN <<>> ELSE <<Agreement(theirBase, oneTime)>>)

\* ratcheting_session_alice_initialize; sending is the ratchet key it generates.
AliceInitialize(state, us, base, them, theirSigned, theirOneTime, theirRatchet, sending) ==
  LET derived == CalculateDerivedKeys(AliceSecret(us, base, them, theirSigned, theirOneTime))
      chain == CreateChain(derived, theirRatchet, sending)
  IN [SetSenderChain(AddReceiverChain(state, theirRatchet, derived), sending, chain)
        EXCEPT !.version = CIPHERTEXT_CURRENT_VERSION, !.remote = them, !.local = us, !.root = chain]

\* ratcheting_session_bob_initialize
BobInitialize(state, us, signed, oneTime, ratchet, them, theirBase) ==
  LET derived == CalculateDerivedKeys(BobSecret(us, signed, oneTime, them, theirBase))
  IN [SetSenderChain(state, ratchet, derived)
        EXCEPT !.version = CIPHERTEXT_CURRENT_VERSION, !.remote = them, !.local = us, !.root = derived]

-----------------------------------------------------------------------------
(* Serialization: a field that is absent gets its value in a new state.    *)

\* session_state_serialize_prepare_chain_chain_key
SerializeChainKey(chain) == [index |-> chain.index, key |-> chain.kdf]

\* session_state_serialize_prepare_message_keys
SerializeMessageKeys(kdf, counter) == [index |-> counter, keys |-> GetMessageKeys(kdf, counter)]

\* session_state_serialize_prepare_chain_message_keys_list
SerializeMessageKeysList(chain) ==
  [i \in DOMAIN chain.keys |-> SerializeMessageKeys(chain.kdf, chain.keys[i])]

\* session_state_serialize_prepare_sender_chain: both halves of the ratchet key.
SerializeSenderChain(chain) ==
  [ratchet |-> chain.ratchet, ratchetPrivate |-> chain.ratchet, chainKey |-> SerializeChainKey(chain)]

\* session_state_serialize_prepare_receiver_chain
SerializeReceiverChain(chain) ==
  [ratchet |-> chain.ratchet, chainKey |-> SerializeChainKey(chain),
   messageKeys |-> SerializeMessageKeysList(chain)]

\* session_state_serialize_prepare_pending_key_exchange
SerializePendingKeyExchange(exchange) == Present(exchange)

\* session_state_serialize_prepare_pending_pre_key: the pre key id is optional.
SerializePendingPreKey(pending) == Present(pending)

\* session_state_serialize_prepare
SerializeState(state) ==
  Present([state EXCEPT
             !.sender = IfThere(SerializeSenderChain, @),
             !.receivers = [i \in DOMAIN @ |-> SerializeReceiverChain(@[i])],
             !.pending_key_exchange = IfThere(SerializePendingKeyExchange, @),
             !.pending_pre_key = IfThere(SerializePendingPreKey, @)])

\* session_state_deserialize_protobuf_sender_chain
DeserializeSenderChain(structure) ==
  [ratchet |-> structure.ratchet, kdf |-> structure.chainKey.key,
   index |-> structure.chainKey.index]

\* session_state_deserialize_protobuf_receiver_chain
DeserializeReceiverChain(structure) ==
  [ratchet |-> structure.ratchet, kdf |-> structure.chainKey.key,
   index |-> structure.chainKey.index,
   keys |-> [i \in DOMAIN structure.messageKeys |-> structure.messageKeys[i].index]]

\* session_state_deserialize_protobuf_pending_key_exchange
DeserializePendingKeyExchange(structure) ==
  Filled(structure, [sequence |-> 0, base |-> None, ratchet |-> None, identity |-> None])

\* session_state_deserialize_protobuf_pending_pre_key
DeserializePendingPreKey(structure) ==
  Filled(structure, [pre_key_id |-> None, signed_pre_key_id |-> 0, base |-> None])

\* session_state_deserialize_protobuf
DeserializeState(structure) ==
  [Filled(structure, EmptyState) EXCEPT
     !.sender = IfThere(DeserializeSenderChain, @),
     !.receivers = [i \in DOMAIN @ |-> DeserializeReceiverChain(@[i])],
     !.pending_key_exchange = IfThere(DeserializePendingKeyExchange, @),
     !.pending_pre_key = IfThere(DeserializePendingPreKey, @)]
=============================================================================
