------------------------------ MODULE PreKeys ------------------------------
(***************************************************************************)
(* The pre keys of one installation: key_helper.c makes them, the          *)
(* application stores and publishes them, other parties use them for the   *)
(* first messages of their sessions, session_cipher.c and                  *)
(* session_builder.c look them up by id and remove the one-time ones.      *)
(*                                                                         *)
(* Ids are used again: one-time pre keys have the ids below                *)
(* PRE_KEY_MEDIUM_MAX_VALUE, in a circle, and the last resort pre key has  *)
(* that value for its id.  A key pair is represented by a number: the      *)
(* one-time pre keys by 1, 2, ... in the order in which they are stored,   *)
(* the last resort pre key by 0.                                           *)
(***************************************************************************)
EXTENDS Naturals, FiniteSets

CONSTANTS PRE_KEY_MEDIUM_MAX_VALUE,
          UINT_RANGE,      \* how many values an unsigned int has
          REGISTRATION_RANGE,
          ARCHIVED_STATES_MAX_LENGTH,
          Start,           \* the start of the first batch
          BatchSize,       \* how many pre keys the application generates at once
          Sender,          \* the parties that send first messages
          Outcomes,        \* how calls may end
          MaxKeys,         \* how many one-time pre keys are stored
          MaxMessages,     \* how many first messages are sent
          MaxSigned,       \* the last id of a signed pre key
          None

MAX == PRE_KEY_MEDIUM_MAX_VALUE

\* A batch never has more keys than there are ids, nor than there are ids between
\* the last unsigned int and 0.
ASSUME PreKeysAssumption ==
  /\ MAX \in Nat /\ MAX > 1
  /\ UINT_RANGE \in Nat /\ MAX < UINT_RANGE
  /\ REGISTRATION_RANGE \in Nat \ {0}
  /\ Start \in {0, 1}
  /\ BatchSize \in 1..(MAX - 1) /\ BatchSize <= UINT_RANGE % (MAX - 1)
  /\ ARCHIVED_STATES_MAX_LENGTH \in Nat
  /\ MaxKeys \in Nat /\ MaxMessages \in Nat /\ MaxSigned \in Nat
  /\ Outcomes \subseteq {"ok", "callback", "store", "remove"}
  /\ None \notin Nat

VARIABLES preKeys,        \* the pre key store: the key pair of each id in it
          signedPreKeys,  \* the ids in the signed pre key store
          registration,   \* the local registration id, 0 if there is none
          made,           \* how many one-time pre keys have been stored
          next,           \* the start of the next batch
          server,         \* the published one-time pre keys: the key pair of each id
          signed,         \* the id of the published signed pre key
          sent,           \* the first messages, each of which has its own base key
          sessions,       \* sessions[s]: the base keys of the states in the record of s
          spent           \* the one-time pre keys that were removed

vars == <<preKeys, signedPreKeys, registration, made, next, server, signed, sent, sessions,
          spent>>

-----------------------------------------------------------------------------
(* key_helper.c *)

\* signal_protocol_key_helper_generate_registration_id
RegistrationId(random) == (random % REGISTRATION_RANGE) + 1

\* Mutant: the ids of one-time pre keys go up to the one of the last resort pre key.
PreKeyIdToMax(start, i) == (((start + UINT_RANGE - 1 + i) % UINT_RANGE) % MAX) + 1

\* Mutant: the ids of one-time pre keys skip the last one.
PreKeyIdShort(start, i) == (((start + UINT_RANGE - 1 + i) % UINT_RANGE) % (MAX - 2)) + 1

\* The id of the pre key with index i in a batch: start - 1 is an unsigned int.
PreKeyId(start, i) == (((start + UINT_RANGE - 1 + i) % UINT_RANGE) % (MAX - 1)) + 1

\* The ids of the first n keys of a batch, and the index of the key with an id
BatchIds(start, n) == {PreKeyId(start, i) : i \in 0..(n - 1)}
BatchIndex(start, n, id) == CHOOSE i \in 0..(n - 1) : PreKeyId(start, i) = id

\* signal_protocol_key_helper_generate_pre_keys, and the keys of the batch added to those
\* of a store, where they take the place of keys with the same ids
AddPreKeys(keys, start, n) ==
  [id \in DOMAIN keys \union BatchIds(start, n) |->
     IF id \in BatchIds(start, n) THEN made + 1 + BatchIndex(start, n, id) ELSE keys[id]]

\* signal_protocol_key_helper_generate_last_resort_pre_key, added to a store
AddLastResort(keys) == [id \in DOMAIN keys \union {MAX} |-> IF id = MAX THEN 0 ELSE keys[id]]

-----------------------------------------------------------------------------
(* The application *)

Init ==
  /\ preKeys = [id \in {} |-> 0]
  /\ signedPreKeys = {}
  /\ registration = 0
  /\ made = 0
  /\ next = Start
  /\ server = [id \in {} |-> 0]
  /\ signed = None
  /\ sent = {}
  /\ sessions = [s \in Sender |-> {}]
  /\ spent = {}

\* A client is set up: SignalKeyHelper reports a failure of the random function as a
\* registration id of 0.
Install(random) ==
  /\ signed = None
  /\ registration' = IF random = None THEN 0 ELSE RegistrationId(random)
  /\ preKeys' = AddLastResort(preKeys)
  /\ signedPreKeys' = {0}
  /\ signed' = 0
  /\ UNCHANGED <<made, next, server, sent, sessions, spent>>

\* A batch is generated, stored and published.  The store may fail after n keys; the
\* next batch then continues after those.
Generate(n) ==
  /\ signed # None
  /\ made + n <= MaxKeys
  /\ preKeys' = AddPreKeys(preKeys, next, n)
  /\ server' = AddPreKeys(server, next, n)
  /\ made' = made + n
  /\ next' = PreKeyId(next, n - 1) + 1
  /\ UNCHANGED <<signedPreKeys, registration, signed, sent, sessions, spent>>

\* The signed pre key is replaced; the old one is kept for messages on their way.
RotateSigned ==
  /\ signed # None /\ signed < MaxSigned
  /\ signed' = signed + 1
  /\ signedPreKeys' = signedPreKeys \union {signed + 1}
  /\ UNCHANGED <<preKeys, registration, made, next, server, sent, sessions, spent>>

\* signal_protocol_signed_pre_key_remove_key
RemoveSigned(id) ==
  /\ id # signed
  /\ signedPreKeys' = signedPreKeys \ {id}
  /\ UNCHANGED <<preKeys, registration, made, next, server, signed, sent, sessions, spent>>

\* signal_protocol_session_delete_session
DeleteSession(s) ==
  /\ sessions[s] # {}
  /\ sessions' = [sessions EXCEPT ![s] = {}]
  /\ UNCHANGED <<preKeys, signedPreKeys, registration, made, next, server, signed, sent, spent>>

\* A party builds a session with the published keys and sends its first message.  The
\* server gives away a one-time pre key once, and the last resort pre key, or none, when
\* there is no other.
Send(s, id) ==
  /\ signed # None
  /\ Cardinality(sent) < MaxMessages
  /\ id \in IF DOMAIN server = {} THEN {MAX, None} ELSE DOMAIN server
  /\ sent' = sent \union {[from |-> s, base |-> Cardinality(sent), id |-> id,
                           key |-> IF id \in {MAX, None} THEN 0 ELSE server[id], signed |-> signed]}
  /\ server' = [i \in DOMAIN server \ {id} |-> server[i]]
  /\ UNCHANGED <<preKeys, signedPreKeys, registration, made, next, signed, sessions, spent>>

-----------------------------------------------------------------------------
(* The first message of a session arrives. *)

\* session_builder_process_pre_key_signal_message_v3, and the decryption with the session
\* it makes, which fails unless both parties have used the same keys
Result(m) ==
  IF m.base \in sessions[m.from] THEN "DUPLICATE_MESSAGE"
  ELSE IF m.signed \notin signedPreKeys THEN "INVALID_KEY_ID"
  ELSE IF m.id # None /\ m.id \notin DOMAIN preKeys THEN "INVALID_KEY_ID"
  ELSE IF registration = 0 THEN "UNKNOWN"
  ELSE IF m.id # None /\ preKeys[m.id] # m.key THEN "INVALID_MESSAGE"
  ELSE "SUCCESS"

\* Mutant: the last resort pre key is removed too.
RemovesLastResort(m) == m.id # None

\* The pre key of a message is removed, unless it is the last resort pre key.
Removes(m) == m.id \notin {None, MAX}

\* Mutant: the key stays in the store.
KeepKey(keys, id) == keys

\* signal_protocol_pre_key_remove_key
RemoveKey(keys, id) == [i \in DOMAIN keys \ {id} |-> keys[i]]

\* session_record_archive_current_state keeps so many of the states of a record.  Which ones
\* depends on the messages read with them since.
Kept(states) ==
  {kept \in SUBSET states :
     \/ kept = states /\ Cardinality(states) <= ARCHIVED_STATES_MAX_LENGTH
     \/ Cardinality(states) > ARCHIVED_STATES_MAX_LENGTH
        /\ Cardinality(kept) = ARCHIVED_STATES_MAX_LENGTH}

\* session_cipher_decrypt_pre_key_signal_message: the session is stored after the callback
\* of the application, and the pre key is removed after that.
Receive(m, outcome) ==
  /\ Result(m) = "SUCCESS"
  /\ outcome \in {"ok", "callback", "store"} \union (IF Removes(m) THEN {"remove"} ELSE {})
  /\ IF outcome \in {"ok", "remove"}
     THEN \E kept \in Kept(sessions[m.from]) :
            sessions' = [sessions EXCEPT ![m.from] = kept \union {m.base}]
     ELSE UNCHANGED sessions
  /\ IF outcome = "ok" /\ Removes(m)
     THEN preKeys' = RemoveKey(preKeys, m.id) /\ spent' = spent \union {m.key}
     ELSE UNCHANGED <<preKeys, spent>>
  /\ UNCHANGED <<signedPreKeys, registration, made, next, server, signed, sent>>

Next ==
  \/ \E random \in 0..(UINT_RANGE - 1) \union {None} : Install(random)
  \/ \E n \in 1..BatchSize : Generate(n)
  \/ RotateSigned
  \/ \E id \in signedPreKeys : RemoveSigned(id)
  \/ \E s \in Sender : DeleteSession(s)
  \/ \E s \in Sender, id \in 1..MAX \union {None} : Send(s, id)
  \/ \E m \in sent, outcome \in Outcomes : Receive(m, outcome)

Spec == Init /\ [][Next]_vars

-----------------------------------------------------------------------------

Ids == 1..(MAX - 1)

\* Every variable has its type; the ids of one-time pre keys are different from the one of
\* the last resort pre key, and no unsigned int makes an id of 0.
TypeOK ==
  /\ DOMAIN preKeys \subseteq Ids \union {MAX}
  /\ \A id \in DOMAIN preKeys : IF id = MAX THEN preKeys[id] = 0 ELSE preKeys[id] \in 1..made
  /\ signedPreKeys \subseteq 0..MaxSigned
  /\ registration \in 0..REGISTRATION_RANGE
  /\ made \in Nat
  /\ next \in 0..MAX
  /\ DOMAIN server \subseteq Ids /\ \A id \in DOMAIN server : server[id] \in 1..made
  /\ signed \in 0..MaxSigned \union {None}
  /\ IsFiniteSet(sent)
  /\ \A m \in sent : /\ m.from \in Sender /\ m.base \in Nat
                     /\ \/ m.id \in Ids /\ m.key \in 1..made
                        \/ m.id \in {MAX, None} /\ m.key = 0
  /\ sessions \in [Sender -> SUBSET Nat]
  /\ spent \subseteq 1..made

\* The last resort pre key stays in the store for the length of the install, however many
\* one-time pre keys are generated after it and whatever messages it is used for.
LastResortKept ==
  [][(MAX \in DOMAIN preKeys) =>
       (MAX \in DOMAIN preKeys') /\ preKeys'[MAX] = preKeys[MAX]]_vars

\* A one-time pre key that session_cipher_decrypt_pre_key_signal_message has removed never
\* makes a session again, also if the session was deleted, the message arrives again and
\* another key has got its id.
NeverAgain ==
  [][\A m \in sent :
       m.base \in sessions'[m.from] \ sessions[m.from] => m.key \notin spent]_vars

\* After how many keys the id of a key is used again: the first key of a batch that starts
\* at 0 is outside the circle.
Distance(key) == IF Start = 0 /\ key = 1 THEN UINT_RANGE % (MAX - 1) ELSE MAX - 1

Outstanding ==
  {[id |-> id, key |-> server[id]] : id \in DOMAIN server}
  \union {[id |-> m.id, key |-> m.key] : m \in {n \in sent : n.id \in Ids /\ n.key \notin spent}}

\* A one-time pre key that was published can be found by its id until it is used, or until
\* its id has come round again: nothing else takes it out of the store.
Available ==
  \A k \in Outstanding :
    \/ k.id \in DOMAIN preKeys /\ preKeys[k.id] = k.key
    \/ made >= k.key + Distance(k.key)
=============================================================================
