--------------------------- MODULE PairwiseSession ---------------------------
(***************************************************************************)
(* Two parties with a session between them: their stores, the pre key      *)
(* server, the network, and the calls their applications make.  Every call *)
(* of session_cipher.c and session_builder.c runs under the global lock,   *)
(* so a call is one step; what remains of a call that fails or crashes on  *)
(* the way is one of its outcomes:                                         *)
(*   "ok"        the call succeeds;                                        *)
(*   "callback"  the decryption callback returns an error;                 *)
(*   "store"     the session store fails;                                  *)
(*   "identity"  the identity store fails;                                 *)
(*   "remove"    removing the one-time pre key fails.                      *)
(* The network keeps every message ever sent: one that is never received   *)
(* is lost, one received again is duplicated, and any order is possible.   *)
(* The application's decryption callback keeps the plaintext it is given.  *)
(***************************************************************************)
EXTENDS SessionBuilder

CONSTANTS Party,          \* the two parties
          Outcomes,       \* the outcomes of a call that are considered
          PreKeys,        \* one-time pre keys a party publishes
          FallbackIds,    \* pre key ids in a bundle when those are used up
          MaxBundles,     \* bound: bundles a party processes
          MaxMessages,    \* bound: messages a party sends
          MaxReinstalls   \* bound: times a party starts over

ASSUME PairwiseAssumption ==
  /\ \E a, b \in Party : a # b /\ Party = {a, b}
  /\ Outcomes \subseteq {"ok", "callback", "store", "identity", "remove"}
  /\ FallbackIds \subseteq {None, PRE_KEY_MEDIUM_MAX_VALUE}
  /\ PreKeys \in Nat /\ MaxBundles \in Nat /\ MaxMessages \in Nat /\ MaxReinstalls \in Nat

VARIABLES sessions,    \* the stored session record with the other party, serialized
          preKeys,     \* ids of the pre keys in the store
          saved,       \* the identity stored for the other party
          install,     \* how often the party has started over
          generated,   \* how many key pairs it has generated
          published,   \* ids of its one-time pre keys on the server
          bundles,     \* how many bundles it has processed
          net,         \* every message ever sent
          returned,    \* how often the decryption calls returned each plaintext
          kept         \* the plaintexts the callback was given and kept

vars == <<sessions, preKeys, saved, install, generated, published, bundles, net, returned, kept>>

-----------------------------------------------------------------------------
(* The values of the stores *)

\* The plaintexts: the n-th one a party sends.
Bodies == Party \X (1..MaxMessages)

Peer(p) == CHOOSE q \in Party : q # p

Key(p, kind, n) == <<p, kind, n>>

Keys == Party \X STRING \X Nat

\* Root and chain keys: a master secret, then the agreements of the ratchet steps.
Kdfs == Seq(Seq(SUBSET Keys) \union SUBSET Keys)

\* What the structures of a stored record hold.
StoredChainKeys == [index : Nat, key : Kdfs]

StoredSenders == [ratchet : Keys, ratchetPrivate : Keys, chainKey : StoredChainKeys]

StoredReceivers ==
  [ratchet : Keys, chainKey : StoredChainKeys,
   messageKeys : Seq([index : Nat, keys : Kdfs \X Nat])]

StoredPreKeys ==
  [pre_key_id : Nat, signed_pre_key_id : Nat, base : Keys]
    \union [signed_pre_key_id : Nat, base : Keys]

StoredStates ==
  UNION {[fields -> UNION {Nat, Keys, Kdfs, StoredSenders, Seq(StoredReceivers), StoredPreKeys}] :
           fields \in SUBSET DOMAIN EmptyState}

StoredRecords == [current : StoredStates, previous : Seq(StoredStates)]

ASSUME NoneAssumption ==
  /\ None \notin Nat /\ None \notin Keys /\ None \notin Kdfs /\ None \notin StoredSenders
  /\ None \notin Seq(StoredReceivers) /\ None \notin StoredPreKeys /\ None \notin StoredRecords

-----------------------------------------------------------------------------

\* signal_protocol_identity_get_key_pair
Identity(p) == Key(p, "identity", install[p])

PreKeyIds(n) == {10 * n + i : i \in 1..PreKeys}

\* The stored pre keys, by id; every installation has one signed pre key.
SignedPreKeys(p) == [id \in {install[p]} |-> Key(p, "signed", id)]

OneTimePreKeys(p) == [id \in preKeys[p] |-> Key(p, "onetime", id)]

NewKeyPair(p) == Key(p, "generated", generated[p] + 1)

Init ==
  /\ sessions = [p \in Party |-> None]
  /\ preKeys = [p \in Party |-> PreKeyIds(0) \union (FallbackIds \ {None})]
  /\ saved = [p \in Party |-> None]
  /\ install = [p \in Party |-> 0]
  /\ generated = [p \in Party |-> 0]
  /\ published = [p \in Party |-> PreKeyIds(0)]
  /\ bundles = [p \in Party |-> 0]
  /\ net = {}
  /\ returned = [p \in Party |-> [body \in Bodies |-> 0]]
  /\ kept = [p \in Party |-> {}]

-----------------------------------------------------------------------------

\* Mutant: every identity is trusted.
AnyIdentityTrusted(p, identity) == TRUE

\* is_trusted_identity as signal_protocol.h asks for it: trust on first use.
IsTrustedIdentity(p, identity) == saved[p] \in {None, identity}

\* session_builder_process_pre_key_bundle with a bundle fetched from the server,
\* which hands out each one-time pre key once.
ProcessBundle(p, id, outcome) ==
  LET q == Peer(p)
      bundle == [identity |-> Identity(q), signed_pre_key_id |-> install[q],
                 signed_pre_key |-> Key(q, "signed", install[q]), pre_key_id |-> id,
                 pre_key |-> IF id = None THEN None ELSE Key(q, "onetime", id)]
      record == ProcessPreKeyBundle(LoadSession(sessions[p]), Identity(p), bundle,
                                    NewKeyPair(p), Key(p, "generated", generated[p] + 2))
  IN /\ bundles[p] < MaxBundles
     /\ id \in (IF published[q] = {} THEN FallbackIds ELSE {Min(published[q])})
     /\ IsTrustedIdentity(p, Identity(q))
     /\ outcome \in {"ok", "store", "identity"}
     /\ bundles' = [bundles EXCEPT ![p] = @ + 1]
     /\ published' = [published EXCEPT ![q] = @ \ {id}]
     /\ IF outcome = "store" THEN UNCHANGED <<sessions, generated>>
        ELSE /\ sessions' = [sessions EXCEPT ![p] = SerializeRecord(record)]
             /\ generated' = [generated EXCEPT ![p] = @ + 2]
     /\ saved' = IF outcome = "ok" THEN [saved EXCEPT ![p] = Identity(q)] ELSE saved
     /\ UNCHANGED <<preKeys, install, net, returned, kept>>

\* The party a message comes from: its plaintext names it.
Sender(m) == m.message.body[1]

SentBy(p) == {m \in net : Sender(m) = p}

\* Mutant: the message is handed out although the session could not be stored.
ReleasedUnstored == {"ok", "store"}

\* The outcomes of session_cipher_encrypt that hand the message out.
ReleasedOutcomes == {"ok"}

\* session_cipher_encrypt for the n-th message of p: the message is handed out once
\* the session is stored.
Encrypt(p, n, outcome) ==
  LET r == EncryptRecord(LoadSession(sessions[p]), <<p, n>>)
  IN /\ {m.message.body : m \in SentBy(p)} = {p} \X (1..(n - 1))
     /\ outcome \in {"ok", "store"}
     /\ r.err = "SUCCESS"
     /\ sessions' = IF outcome = "ok" THEN [sessions EXCEPT ![p] = SerializeRecord(r.record)]
                    ELSE sessions
     /\ net' = IF outcome \in ReleasedOutcomes THEN net \union {r.message} ELSE net
     /\ UNCHANGED <<preKeys, saved, install, generated, published, bundles, returned, kept>>

\* Mutant: the session is stored before the callback is called.
StoredBeforeCallback == {"ok", "callback", "remove"}

\* The outcomes of a decryption after which the session has been stored: the
\* callback and the store come before the removal of the one-time pre key.
StoredOutcomes == {"ok", "remove"}

\* The outcomes of a decryption after which the one-time pre key is gone.
RemovedOutcomes == {"ok"}

\* The last steps of a decryption: the callback, the store of the session, the
\* removal of the one-time pre key that was used, the return of the plaintext.
Complete(p, m, record, used, outcome) ==
  /\ outcome \in {"ok", "callback", "store"} \union (IF used = None THEN {} ELSE {"remove"})
  /\ kept' = IF outcome = "callback" THEN kept
             ELSE [kept EXCEPT ![p] = @ \union {m.message.body}]
  /\ IF outcome \in StoredOutcomes
     THEN /\ sessions' = [sessions EXCEPT ![p] = SerializeRecord(record)]
          /\ generated' = [generated EXCEPT ![p] =
                             IF record.state.sender.ratchet = NewKeyPair(p) THEN @ + 1 ELSE @]
     ELSE UNCHANGED <<sessions, generated>>
  /\ preKeys' = IF outcome \in RemovedOutcomes THEN [preKeys EXCEPT ![p] = @ \ {used}] ELSE preKeys
  /\ returned' = IF outcome = "ok" THEN [returned EXCEPT ![p][m.message.body] = @ + 1]
                 ELSE returned

\* session_cipher_decrypt_signal_message up to the callback
SignalResult(p, m) ==
  IF sessions[p] = None THEN Failure("NO_SESSION")
  ELSE DecryptFromRecord(LoadSession(sessions[p]), m.message, NewKeyPair(p))

\* session_builder_process_pre_key_signal_message on the loaded record
BuilderResult(p, m) ==
  IF ~IsTrustedIdentity(p, m.identity) THEN Failure("UNTRUSTED_IDENTITY")
  ELSE ProcessPreKeySignalMessage(LoadSession(sessions[p]), Identity(p), SignedPreKeys(p),
                                  OneTimePreKeys(p), m)

\* session_cipher_decrypt_pre_key_signal_message up to the callback
PreKeyResult(p, m) ==
  LET built == BuilderResult(p, m)
  IN IF built.err # "SUCCESS" THEN built
     ELSE DecryptFromRecord(built.record, m.message, NewKeyPair(p))

\* session_cipher_decrypt_signal_message with one of the outcomes
DecryptSignal(p, m, outcomes) ==
  LET r == SignalResult(p, m)
  IN /\ m.type = "signal"
     /\ r.err = "SUCCESS"
     /\ \E outcome \in outcomes : Complete(p, m, r.record, None, outcome)
     /\ UNCHANGED <<saved, install, published, bundles, net>>

\* session_cipher_decrypt_pre_key_signal_message with one of the outcomes: the
\* builder saves the identity before the message is decrypted.
DecryptPreKey(p, m, outcomes) ==
  LET built == BuilderResult(p, m)
      r == PreKeyResult(p, m)
  IN /\ m.type = "pre_key"
     /\ built.err = "SUCCESS"
     /\ saved' = [saved EXCEPT ![p] = m.identity]
     /\ IF r.err = "SUCCESS"
        THEN \E outcome \in outcomes : Complete(p, m, r.record, built.used, outcome)
        ELSE UNCHANGED <<sessions, generated, preKeys, returned, kept>>
     /\ UNCHANGED <<install, published, bundles, net>>

\* The application starts over with a new identity, new pre keys and empty stores.
Reinstall(p) ==
  LET n == install[p] + 1
  IN /\ n <= MaxReinstalls
     /\ install' = [install EXCEPT ![p] = n]
     /\ sessions' = [sessions EXCEPT ![p] = None]
     /\ saved' = [saved EXCEPT ![p] = None]
     /\ preKeys' = [preKeys EXCEPT ![p] = PreKeyIds(n) \union (FallbackIds \ {None})]
     /\ published' = [published EXCEPT ![p] = PreKeyIds(n)]
     /\ UNCHANGED <<generated, bundles, net, returned, kept>>

\* The user accepts the other party's new identity: the application calls
\* signal_protocol_identity_save_identity itself.
AcceptIdentity(p) ==
  /\ saved[p] \notin {None, Identity(Peer(p))}
  /\ saved' = [saved EXCEPT ![p] = Identity(Peer(p))]
  /\ UNCHANGED <<sessions, preKeys, install, generated, published, bundles, net, returned, kept>>

Receive(p, m, outcomes) == DecryptSignal(p, m, outcomes) \/ DecryptPreKey(p, m, outcomes)

Next ==
  \E p \in Party :
    \/ \E outcome \in Outcomes :
         \/ \E id \in published[Peer(p)] \union FallbackIds : ProcessBundle(p, id, outcome)
         \/ \E n \in 1..MaxMessages : Encrypt(p, n, outcome)
    \/ \E m \in SentBy(Peer(p)) : Receive(p, m, Outcomes)
    \/ Reinstall(p)
    \/ AcceptIdentity(p)

Spec == Init /\ [][Next]_vars

\* The code a decryption of m by its receiver would return in this state.
Result(m) ==
  LET p == Peer(Sender(m))
  IN IF m.type = "signal" THEN SignalResult(p, m).err ELSE PreKeyResult(p, m).err

\* The transport offers every message until the call that decrypts it succeeds:
\* weak fairness of that call, with its enabling condition written out.
Redelivery ==
  \A p \in Party, n \in 1..MaxMessages :
    \/ []<>~(\E m \in SentBy(Peer(p)) : m.message.body = <<Peer(p), n>> /\ Result(m) = "SUCCESS")
    \/ []<><<\E m \in SentBy(Peer(p)) : m.message.body = <<Peer(p), n>> /\ Receive(p, m, {"ok"})>>_vars

FairSpec == Spec /\ Redelivery

-----------------------------------------------------------------------------

AllStates(p) ==
  LET record == LoadSession(sessions[p])
  IN {record.state} \union Range(record.previous)

\* The types of the stores, and the limits that session_state.c and
\* session_record.c keep on every stored record.
TypeOK ==
  /\ \A p \in Party :
       /\ Len(LoadSession(sessions[p]).previous) <= ARCHIVED_STATES_MAX_LENGTH
       /\ \A state \in AllStates(p) :
            /\ Len(state.receivers) <= MAX_RECEIVER_CHAINS
            /\ \A i \in DOMAIN state.receivers :
                 Len(state.receivers[i].keys) <= MAX_MESSAGE_KEYS
       /\ saved[p] \in {None} \union {Key(Peer(p), "identity", n) : n \in 0..MaxReinstalls}
       /\ generated[p] \in Nat
  /\ \A m \in net : m.type \in {"signal", "pre_key"} /\ m.message.body \in Bodies

\* The session of a pre key message can be built again when no state of it is left:
\* it used no one-time pre key that was removed (the removal may have failed), and
\* there have been more sessions than a record has room for.
Rebuildable(m) ==
  /\ m.type = "pre_key"
  /\ m.pending.pre_key_id \in {None, PRE_KEY_MEDIUM_MAX_VALUE} \/ "remove" \in Outcomes
  /\ bundles[Sender(m)] + bundles[Peer(Sender(m))] > ARCHIVED_STATES_MAX_LENGTH + 1

\* No plaintext is returned twice by session_cipher_decrypt_signal_message or
\* session_cipher_decrypt_pre_key_signal_message, whatever is received again, whatever
\* chains, keys and states have been evicted and whichever steps of a call fail, except
\* that of a pre key message whose session was evicted and could be built again: there
\* the SG_ERR_DUPLICATE_MESSAGE of session_cipher.h is not returned.
OnceUnlessRebuilt ==
  \A m \in net : returned[Peer(Sender(m))][m.message.body] > 1 => Rebuildable(m)

\* No two messages are ever encrypted with the same message key: a message leaves
\* session_cipher_encrypt only after the advanced chain key has been stored.
NoKeyReuse == \A m1, m2 \in net : m1.message.mac[1] = m2.message.mac[1] => m1 = m2

\* Every message sent can still be decrypted, or its plaintext has been given to
\* the application: in no order of arrival and after no failed call is a session,
\* a chain, a message key or a one-time pre key gone too early.  (A receiver that
\* has started over, or does not trust the sender's identity, refuses it.)
NothingLost ==
  \A m \in net :
    \/ m.message.body \in kept[Peer(Sender(m))]
    \/ m.message.mac[3] # Identity(Peer(Sender(m)))
    \/ Result(m) \in {"SUCCESS", "UNTRUSTED_IDENTITY"}

\* The library never replaces a saved identity by itself: a pre key message or a
\* bundle with another one is refused (session_builder.c) until the application
\* has saved that identity, or has started over.
IdentityPinned ==
  [][\A p \in Party :
       saved[p] # None /\ saved'[p] # saved[p]
         => AcceptIdentity(p) \/ install'[p] # install[p]]_vars

\* session_cipher.h: a message that has already been received is reported as a
\* duplicate.
DuplicateReported ==
  \A m \in net :
    returned[Peer(Sender(m))][m.message.body] > 0 => Result(m) = "DUPLICATE_MESSAGE"

\* If messages are offered until they are decrypted, the receiving application
\* gets the plaintext of every message sent, also when both parties open sessions
\* at the same time and calls keep failing in between.
EventuallyRead ==
  \A p \in Party, n \in 1..MaxMessages :
    (\E m \in net : m.message.body = <<p, n>>) ~> (<<p, n>> \in kept[Peer(p)])
=============================================================================
