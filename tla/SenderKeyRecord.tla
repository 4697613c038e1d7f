--------------------------- MODULE SenderKeyRecord ---------------------------
(***************************************************************************)
(* The sender keys of one group and one sender: sender_key.c,              *)
(* sender_key_state.c and sender_key_record.c.  A sender key is a chain    *)
(* named by the seed it started from; the seed at an iteration and the     *)
(* message key of an iteration are determined by the name and the number.  *)
(* A record is the list of its states, the one added last first.           *)
(***************************************************************************)
EXTENDS MessageKeys, Structures

CONSTANT MAX_STATES   \* states kept per record (5)

ASSUME StatesAssumption == MAX_STATES \in Nat \ {0}

\* sender_chain_key_create_message_key
CreateMessageKey(seed, iteration) == <<seed, iteration>>

\* sender_chain_key_create_next with sender_key_state_set_chain_key
CreateNext(state) == [state EXCEPT !.iteration = @ + 1]

\* sender_key_state_create
SenderKeyState(id, iteration, seed, public, private) ==
  [id |-> id, iteration |-> iteration, seed |-> seed, public |-> public,
   private |-> private, keys |-> <<>>]

\* sender_key_record_add_sender_key_state_impl
AddSenderKeyState(record, state) ==
  SubSeq(<<state>> \o record, 1, Min({Len(record) + 1, MAX_STATES}))

\* sender_key_record_set_sender_key_state
SetSenderKeyState(record, state) == AddSenderKeyState(<<>>, state)

\* sender_key_record_get_sender_key_state_by_id: its position, 0 if there is none.
GetSenderKeyStateById(record, id) == SelectInSeq(record, LAMBDA state : state.id = id)

\* group_cipher_get_sender_key: on the list of sender_key_state_add_sender_message_key
\* and sender_key_state_remove_sender_message_key, the algorithm of the session cipher.
GetSenderKey(state, iteration) ==
  LET r == GetOrCreateMessageKeys([index |-> state.iteration, keys |-> state.keys], iteration)
  IN [err |-> r.err, state |-> [state EXCEPT !.iteration = r.index, !.keys = r.keys]]

-----------------------------------------------------------------------------

\* sender_key_state_serialize_prepare: only a sender has the private signing key.
SerializeSenderKeyState(state) ==
  [senderKeyId |-> state.id,
   senderChainKey |-> [iteration |-> state.iteration, seed |-> state.seed],
   senderSigningKey |-> Present([public |-> state.public, private |-> state.private]),
   senderMessageKeys |->
     [i \in DOMAIN state.keys |->
        [iteration |-> state.keys[i], seed |-> CreateMessageKey(state.seed, state.keys[i])]]]

\* sender_key_state_deserialize_protobuf
DeserializeSenderKeyState(structure) ==
  LET signing == Filled(structure.senderSigningKey, [public |-> None, private |-> None])
  IN [SenderKeyState(structure.senderKeyId, structure.senderChainKey.iteration,
                     structure.senderChainKey.seed, signing.public, signing.private)
        EXCEPT !.keys = [i \in DOMAIN structure.senderMessageKeys |->
                           structure.senderMessageKeys[i].iteration]]

\* sender_key_record_serialize
SerializeSenderKeyRecord(record) ==
  [i \in DOMAIN record |-> SerializeSenderKeyState(record[i])]

\* sender_key_record_deserialize
DeserializeSenderKeyRecord(structure) ==
  [i \in DOMAIN structure |-> DeserializeSenderKeyState(structure[i])]

\* signal_protocol_sender_key_load_key: an empty record if nothing is stored.
LoadSenderKey(stored) == IF stored = None THEN <<>> ELSE DeserializeSenderKeyRecord(stored)
=============================================================================
