---------------------------- MODULE GroupSession ----------------------------
(***************************************************************************)
(* One sender of a group and its receivers: group_cipher.c and             *)
(* group_session_builder.c.  The store is keyed by group and sender, so    *)
(* the records of different senders never meet.  Every call runs under the *)
(* global lock and is one step, with an outcome: "ok", "callback" (the     *)
(* decryption callback fails) or "store" (the sender key store fails).     *)
(* The network keeps every message, and every distribution message, ever   *)
(* sent: any of them may be lost, received again or out of order.          *)
(***************************************************************************)
EXTENDS SenderKeyRecord

CONSTANTS Receiver,       \* the receiving members
          SenderKeyIds,   \* the ids the random generator may draw
          GroupOutcomes,  \* the outcomes of a call that are considered
          MaxCreated,     \* bound: sender keys the sender generates
          MaxMessages,    \* bound: messages it sends
          MaxAgain        \* bound: distributions processed when one is processed again

ASSUME GroupAssumption ==
  /\ GroupOutcomes \subseteq {"ok", "callback", "store"}
  /\ MaxCreated \in Nat /\ MaxMessages \in Nat

\* The n-th sender key the sender generates: its seed and its signing key pair.
Seed(n) == <<"seed", n>>

SigningKey(n) == <<"signing", n>>

Seeds == {"seed"} \X Nat

SigningKeys == {"signing"} \X Nat

\* The states that are stored.
StoredStates ==
  [senderKeyId : SenderKeyIds,
   senderChainKey : [iteration : Nat, seed : Seeds],
   senderSigningKey : [public : SigningKeys] \union [public : SigningKeys, private : SigningKeys],
   senderMessageKeys : Seq([iteration : Nat, seed : Seeds \X Nat])]

ASSUME NoneAssumption == None \notin SigningKeys /\ None \notin Seq(StoredStates)

VARIABLES own,             \* the sender's stored record, serialized
          records,         \* the receivers' stored records, serialized
          created,         \* sender keys generated
          distributions,   \* every distribution message handed out
          net,             \* every message ever sent
          joined,          \* the distributions each receiver processed, last first
          returned,        \* how often the decryption calls returned each plaintext
          kept             \* the plaintexts the callback was given and kept

vars == <<own, records, created, distributions, net, joined, returned, kept>>

Init ==
  /\ own = None
  /\ records = [r \in Receiver |-> None]
  /\ created = 0
  /\ distributions = {}
  /\ net = {}
  /\ joined = [r \in Receiver |-> <<>>]
  /\ returned = [r \in Receiver |-> [body \in 1..MaxMessages |-> 0]]
  /\ kept = [r \in Receiver |-> {}]

-----------------------------------------------------------------------------
(* The sender *)

\* sender_key_distribution_message_create, from the first state of the record
Distribution(state) ==
  [id |-> state.id, iteration |-> state.iteration, seed |-> state.seed,
   signature_key |-> state.public]

\* group_session_builder_create_session: a new sender key if the record is empty,
\* otherwise the current one from the iteration it has reached.
CreateSession(id) ==
  LET record == LoadSenderKey(own)
      n == created + 1
      new == SetSenderKeyState(record, SenderKeyState(id, 0, Seed(n), SigningKey(n),
                                                      SigningKey(n)))
  IN /\ IF record = <<>>
        THEN /\ n <= MaxCreated
             /\ created' = n
             /\ own' = SerializeSenderKeyRecord(new)
             /\ distributions' = distributions \union {Distribution(new[1])}
        ELSE /\ distributions' = distributions \union {Distribution(record[1])}
             /\ UNCHANGED <<own, created>>
     /\ UNCHANGED <<records, net, joined, returned, kept>>

\* Mutant: the message is handed out although the sender key could not be stored.
GroupReleasedUnstored == {"ok", "store"}

\* The outcomes of group_cipher_encrypt that hand the message out.
GroupReleasedOutcomes == {"ok"}

\* group_cipher_encrypt.  The bodies stand for the plaintexts and are numbered in the
\* order of the messages.
Encrypt(body, outcome) ==
  LET record == LoadSenderKey(own)
      state == record[1]
      message == [id |-> state.id, iteration |-> state.iteration,
                  key |-> CreateMessageKey(state.seed, state.iteration),
                  signature |-> state.private, body |-> body]
  IN /\ {m.body : m \in net} = 1..(body - 1)
     /\ outcome \in {"ok", "store"}
     /\ record # <<>>
     /\ state.private # None
     /\ own' = IF outcome = "ok"
               THEN SerializeSenderKeyRecord([record EXCEPT ![1] = CreateNext(@)])
               ELSE own
     /\ net' = IF outcome \in GroupReleasedOutcomes THEN net \union {message} ELSE net
     /\ UNCHANGED <<records, created, distributions, joined, returned, kept>>

\* The application deletes the sender's record, to change the key when a member
\* leaves or because it starts over.
DeleteSenderKey ==
  /\ own # None
  /\ own' = None
  /\ UNCHANGED <<records, created, distributions, net, joined, returned, kept>>

-----------------------------------------------------------------------------
(* The receivers *)

\* group_session_builder_process_session.  The record does not tell a distribution
\* it has seen before from a new one.
ProcessSession(r, d) ==
  /\ (\E i \in DOMAIN joined[r] : joined[r][i].seed = d.seed) => Len(joined[r]) <= MaxAgain
  /\ records' = [records EXCEPT ![r] =
       SerializeSenderKeyRecord(
         AddSenderKeyState(LoadSenderKey(@),
                           SenderKeyState(d.id, d.iteration, d.seed, d.signature_key, None)))]
  /\ joined' = [joined EXCEPT ![r] = <<d>> \o @]
  /\ UNCHANGED <<own, created, distributions, net, returned, kept>>

Failure(err) == [err |-> err]

\* sender_key_message_verify_signature
VerifySignature(m, state) == m.signature = state.public

\* The end of group_cipher_decrypt up to the callback: sender is the result of
\* finding the message key in the i-th state.
UseSenderKey(record, i, sender) ==
  IF sender.err # "SUCCESS" THEN Failure(sender.err)
  ELSE [err |-> "SUCCESS", record |-> [record EXCEPT ![i] = sender.state]]

\* group_cipher_decrypt once the state with the message's id has been found
DecryptInState(record, i, m) ==
  IF i = 0 \/ ~VerifySignature(m, record[i]) THEN Failure("INVALID_MESSAGE")
  ELSE UseSenderKey(record, i, GetSenderKey(record[i], m.iteration))

\* group_cipher_decrypt up to the callback
DecryptRecord(record, m) ==
  IF record = <<>> THEN Failure("NO_SESSION")
  ELSE DecryptInState(record, GetSenderKeyStateById(record, m.id), m)

\* The outcomes of group_cipher_decrypt after which the record has been stored.
GroupStoredOutcomes == {"ok"}

\* group_cipher_decrypt of message m
Decrypt(r, m, outcome) ==
  LET d == DecryptRecord(LoadSenderKey(records[r]), m)
  IN /\ d.err = "SUCCESS"
     /\ kept' = IF outcome = "callback" THEN kept ELSE [kept EXCEPT ![r] = @ \union {m.body}]
     /\ records' = IF outcome \in GroupStoredOutcomes
                   THEN [records EXCEPT ![r] = SerializeSenderKeyRecord(d.record)] ELSE records
     /\ returned' = IF outcome = "ok" THEN [returned EXCEPT ![r][m.body] = @ + 1] ELSE returned
     /\ UNCHANGED <<own, created, distributions, net, joined>>

Next ==
  \/ \E id \in SenderKeyIds : CreateSession(id)
  \/ \E body \in 1..MaxMessages, outcome \in GroupOutcomes : Encrypt(body, outcome)
  \/ DeleteSenderKey
  \/ \E r \in Receiver :
       \/ \E d \in distributions : ProcessSession(r, d)
       \/ \E m \in net, outcome \in GroupOutcomes : Decrypt(r, m, outcome)

Spec == Init /\ [][Next]_vars

-----------------------------------------------------------------------------

\* The code group_cipher_decrypt of m would return to r in this state.
Result(r, m) == DecryptRecord(LoadSenderKey(records[r]), m).err

\* The distributions whose states the record of r still has room for.
Recent(r) == Range(SubSeq(joined[r], 1, Min({Len(joined[r]), MAX_STATES})))

\* r was given the sender key of m from m's iteration or an earlier one, and none
\* of its other recent keys drew the same id.
Joined(r, m) ==
  /\ \E d \in Recent(r) : d.seed = m.key[1] /\ d.iteration <= m.iteration
  /\ \A d \in Recent(r) : d.id = m.id => d.seed = m.key[1]

\* m is neither too far ahead of the chain of r nor so far behind that its key may
\* have been evicted: the key before the chain's iteration has been used, and there
\* is room for those of the MAX_MESSAGE_KEYS iterations before that one.
InReach(r, m) ==
  LET record == LoadSenderKey(records[r])
      i == GetSenderKeyStateById(record, m.id)
  IN i # 0 => m.iteration - record[i].iteration \in (-MAX_MESSAGE_KEYS - 1)..MAX_FUTURE

\* The types of the stores, and the limits that sender_key_record.c and
\* sender_key_state.c keep on every stored record.
TypeOK ==
  /\ created \in 0..MaxCreated
  /\ own \in {None} \union Seq(StoredStates)
  /\ own # None => Len(own) = 1
  /\ records \in [Receiver -> {None} \union Seq(StoredStates)]
  /\ \A r \in Receiver :
       LET record == LoadSenderKey(records[r])
       IN /\ Len(record) <= MAX_STATES
          /\ \A i \in DOMAIN record :
               Len(record[i].keys) <= MAX_MESSAGE_KEYS /\ record[i].private = None

\* group_cipher_decrypt returns no plaintext twice, whatever is received again and
\* whichever steps of a call fail, as long as a receiver processes the
\* distribution of a sender key once.
AtMostOnce ==
  \A r \in Receiver, body \in 1..MaxMessages : returned[r][body] <= 1

\* No two messages are encrypted with the same message key: a message leaves
\* group_cipher_encrypt only after the advanced chain key has been stored.
NoKeyReuse == \A m1, m2 \in net : m1.key = m2.key => m1 = m2

\* A member reads every message of the sender keys it has been given, from the
\* iteration it was given them at and in whatever order they arrive, also after
\* the sender has changed its key and after calls that failed, as long as it
\* processes the distribution of a sender key once: only messages more than
\* MAX_FUTURE ahead of its chain are refused, and only keys of messages more than
\* MAX_MESSAGE_KEYS + 1 behind it are evicted.
NothingLost ==
  \A r \in Receiver, m \in net :
    Joined(r, m) /\ InReach(r, m) => m.body \in kept[r] \/ Result(r, m) = "SUCCESS"

\* group_cipher.h: a message that has already been received is reported as a
\* duplicate (while its sender key is one the record has room for).
DuplicateReported ==
  \A r \in Receiver, m \in net :
    Joined(r, m) /\ returned[r][m.body] > 0 => Result(r, m) = "DUPLICATE_MESSAGE"
=============================================================================
