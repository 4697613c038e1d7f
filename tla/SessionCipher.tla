---------------------------- MODULE SessionCipher ----------------------------
(***************************************************************************)
(* Encryption and decryption on a session record, and the building of      *)
(* sessions from pre keys: what session_cipher.c and session_builder.c     *)
(* compute between loading a record and storing it.  A result carries a    *)
(* code and, when that is "SUCCESS", the record after the call.            *)
(*                                                                         *)
(* A MAC is the message key it is computed with and the two identities: it *)
(* verifies exactly when the receiver derives the same three.              *)
(***************************************************************************)
EXTENDS SessionRecord

Failure(err) == [err |-> err]

\* signal_message_get_mac
Mac(kdf, counter, senderId, receiverId) ==
  <<GetMessageKeys(kdf, counter), senderId, receiverId>>

\* signal_message_verify_mac, by the receiver in the given state
VerifyMac(m, kdf, state) == m.mac = Mac(kdf, m.counter, state.remote, state.local)

-----------------------------------------------------------------------------
(* Encryption *)

\* signal_message_create with what session_cipher_encrypt takes from the state
SignalMessageCreate(state, body) ==
  [version |-> state.version, ratchet |-> state.sender.ratchet,
   counter |-> state.sender.index, previous_counter |-> state.previous_counter,
   mac |-> Mac(state.sender.kdf, state.sender.index, state.local, state.remote),
   body |-> body]

\* pre_key_signal_message_create
PreKeySignalMessageCreate(state, message) ==
  [type |-> "pre_key", message |-> message, version |-> state.version,
   identity |-> state.local, pending |-> state.pending_pre_key]

\* The message session_cipher_encrypt hands out: wrapped with the pre keys it used
\* until the other side has answered.
EncryptedMessage(state, body) ==
  LET message == SignalMessageCreate(state, body)
  IN IF state.pending_pre_key = None THEN [type |-> "signal", message |-> message]
     ELSE PreKeySignalMessageCreate(state, message)

\* Mutant: the chain key is not advanced.
EncryptSameKey(record, body) ==
  IF record.state.sender = None THEN Failure("UNKNOWN")
  ELSE [err |-> "SUCCESS", record |-> record, message |-> EncryptedMessage(record.state, body)]

\* session_cipher_encrypt between load and store
EncryptRecord(record, body) ==
  IF record.state.sender = None THEN Failure("UNKNOWN")
  ELSE [err |-> "SUCCESS",
        record |-> [record EXCEPT !.state = AdvanceSenderChain(@)],
        message |-> EncryptedMessage(record.state, body)]

-----------------------------------------------------------------------------
(* Decryption.  fresh is the key pair a ratchet step generates.            *)

\* Mutant: the new sending chain is derived from the old root key.
GetOrCreateChainKeyOldRoot(state, theirs, fresh) ==
  IF FindReceiverChain(state, theirs) # 0 THEN state
  ELSE LET receiver == CreateChain(state.root, theirs, state.sender.ratchet)
           sender == CreateChain(state.root, theirs, fresh)
       IN SetSenderChain([AddReceiverChain(state, theirs, receiver) EXCEPT
                            !.root = sender,
                            !.previous_counter = Max({state.sender.index - 1, 0})],
                         fresh, sender)

\* session_cipher_get_or_create_chain_key
GetOrCreateChainKey(state, theirs, fresh) ==
  IF FindReceiverChain(state, theirs) # 0 THEN state
  ELSE LET receiver == CreateChain(state.root, theirs, state.sender.ratchet)
           sender == CreateChain(receiver, theirs, fresh)
       IN SetSenderChain([AddReceiverChain(state, theirs, receiver) EXCEPT
                            !.root = sender,
                            !.previous_counter = Max({state.sender.index - 1, 0})],
                         fresh, sender)

\* The end of a decryption: r is the result of finding the message key in the i-th
\* chain of ratcheted, the state after the ratchet step.
UseMessageKeys(state, ratcheted, i, r, m) ==
  CASE r.err # "SUCCESS" -> Failure(r.err)
    [] r.err = "SUCCESS" /\ ~VerifyMac(m, ratcheted.receivers[i].kdf, state) ->
         Failure("INVALID_MESSAGE")
    [] OTHER ->
         [err |-> "SUCCESS",
          state |-> [ratcheted EXCEPT !.receivers[i].index = r.index,
                                      !.receivers[i].keys = r.keys,
                                      !.pending_pre_key = None]]

DecryptInChain(state, ratcheted, i, m) ==
  UseMessageKeys(state, ratcheted, i,
                 GetOrCreateMessageKeys(ratcheted.receivers[i], m.counter), m)

DecryptRatcheted(state, ratcheted, m) ==
  DecryptInChain(state, ratcheted, FindReceiverChain(ratcheted, m.ratchet), m)

\* session_cipher_decrypt_from_state_and_signal_message
DecryptFromState(state, m, fresh) ==
  IF state.sender = None \/ m.version # state.version THEN Failure("INVALID_MESSAGE")
  ELSE DecryptRatcheted(state, GetOrCreateChainKey(state, m.ratchet, fresh), m)

\* session_state_copy: through the serialized form.
CopyState(state) == DeserializeState(SerializeState(state))

\* The outcome of the first attempt that did not fail with INVALID_MESSAGE, the i-th;
\* the state that decrypts becomes the current one.
FirstConclusive(record, attempts, i) ==
  CASE i = 0 -> Failure("INVALID_MESSAGE")
    [] i # 0 /\ attempts[i].err # "SUCCESS" -> attempts[i]
    [] i = 1 /\ attempts[i].err = "SUCCESS" ->
         [err |-> "SUCCESS", record |-> [record EXCEPT !.state = attempts[i].state]]
    [] OTHER ->
         [err |-> "SUCCESS",
          record |-> PromoteState([record EXCEPT !.previous = RemoveAt(@, i - 1)],
                                  attempts[i].state)]

Search(record, attempts) ==
  FirstConclusive(record, attempts, SelectInSeq(attempts, LAMBDA a : a.err # "INVALID_MESSAGE"))

Attempts(states, m, fresh) ==
  [i \in DOMAIN states |-> DecryptFromState(CopyState(states[i]), m, fresh)]

\* session_cipher_decrypt_from_record_and_signal_message: the current state, then
\* the archived ones; any failure but INVALID_MESSAGE ends the search.
DecryptFromRecord(record, m, fresh) ==
  Search(record, Attempts(<<record.state>> \o record.previous, m, fresh))
=============================================================================
