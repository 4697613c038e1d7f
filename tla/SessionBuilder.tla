--------------------------- MODULE SessionBuilder ---------------------------
(***************************************************************************)
(* The building of sessions from pre keys (session_builder.c): Alice from  *)
(* Bob's published bundle, Bob from Alice's first messages.                *)
(***************************************************************************)
EXTENDS SessionCipher

\* The id of the last resort pre key, which is never used up.
PRE_KEY_MEDIUM_MAX_VALUE == 16777215

\* The state a new session is built in: the fresh record's own, or a new one
\* after the current state has been archived.
MakeRoom(record) == IF record.fresh THEN record ELSE ArchiveCurrentState(record)

\* session_builder_process_pre_key_bundle between load and store; base and
\* sending are the key pairs it generates.
ProcessPreKeyBundle(record, us, bundle, base, sending) ==
  LET pending == [pre_key_id |-> bundle.pre_key_id,
                  signed_pre_key_id |-> bundle.signed_pre_key_id, base |-> base]
  IN [MakeRoom(record) EXCEPT !.state =
        [AliceInitialize(@, us, base, bundle.identity, bundle.signed_pre_key,
                         bundle.pre_key, bundle.signed_pre_key, sending)
           EXCEPT !.pending_pre_key = pending, !.alice_base = base]]

\* session_builder_process_pre_key_signal_message_v3.  signed and oneTime are the
\* pre keys in the store, by id; used is the one-time pre key to remove afterwards.
ProcessPreKeySignalMessage(record, us, signed, oneTime, m) ==
  IF HasSessionState(record, m.version, m.pending.base)
  THEN [err |-> "SUCCESS", used |-> None, record |-> record]
  ELSE IF \/ m.pending.signed_pre_key_id \notin DOMAIN signed
          \/ m.pending.pre_key_id \notin DOMAIN oneTime \union {None}
  THEN Failure("INVALID_KEY_ID")
  ELSE LET key == signed[m.pending.signed_pre_key_id]
           id == m.pending.pre_key_id
       IN [err |-> "SUCCESS",
           used |-> IF id = PRE_KEY_MEDIUM_MAX_VALUE THEN None ELSE id,
           record |-> [MakeRoom(record) EXCEPT !.state =
             [BobInitialize(@, us, key, IF id = None THEN None ELSE oneTime[id],
                            key, m.identity, m.pending.base)
                EXCEPT !.alice_base = m.pending.base]]]
=============================================================================
