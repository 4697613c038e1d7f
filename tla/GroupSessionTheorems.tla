---------------------- MODULE GroupSessionTheorems ----------------------
(***************************************************************************)
(* GroupSession for every number of sender keys, messages and receivers,   *)
(* every limit, whatever ids the keys draw, whichever calls fail, however  *)
(* often the sender deletes its record and in whatever order messages and  *)
(* distribution messages arrive: the limits of the stored records, no key  *)
(* is used for two messages, and, when a receiver processes the            *)
(* distribution of a sender key once, no plaintext is returned twice,      *)
(* repeated messages are reported and no message in reach is lost.         *)
(***************************************************************************)
EXTENDS GroupSessionProofs, NaturalsInduction, WellFoundedInduction

\* Leaves without a prover of their own: SMT, again with more time, then Zenon.
USE SMTT(10), SMTT(20), SMTT(30), ZenonT(10)

\* A set of numbers that is not empty has a least element.
LEMMA LeastElement ==
  ASSUME NEW I \in SUBSET Nat, I # {}
  PROVE  Min(I) \in I /\ \A j \in I : Min(I) <= j
  <1> DEFINE R == OpToRel(<, Nat)
  <1>1. PICK x \in I : \A y \in I : ~(<<y, x>> \in R)
    BY NatLessThanWellFounded, WFMin, Zenon
  <1>2. \A y \in I : x <= y
    <2> SUFFICES ASSUME NEW y \in I, y < x PROVE FALSE
      OBVIOUS
    <2>1. <<y, x>> \in R
      BY DEF OpToRel
    <2>2. QED
      BY <1>1, <2>1, Zenon
  <1>3. QED
    BY <1>2, Zenon DEF Min

\* sender_key_record_get_sender_key_state_by_id finds the first state with the id, if
\* there is one.
LEMMA StateFound ==
  ASSUME NEW record \in Seq(States), NEW id
  PROVE  LET i == GetSenderKeyStateById(record, id)
         IN \/ i \in 1..Len(record) /\ record[i].id = id
            \/ i = 0 /\ \A j \in 1..Len(record) : record[j].id # id
<1>. DEFINE I == {j \in 1..Len(record) : record[j].id = id}
<1>1. GetSenderKeyStateById(record, id) = IF I = {} THEN 0 ELSE Min(I)
  BY DEF GetSenderKeyStateById, SelectInSeq
<1>2. CASE I # {}
  <2>1. I \in SUBSET Nat
    OBVIOUS
  <2>2. Min(I) \in I
    <3>. HIDE DEF I
    <3>. QED
      BY <1>2, <2>1, LeastElement
  <2>. QED
    BY <1>1, <1>2, <2>2
<1>3. CASE I = {}
  BY <1>1, <1>3
<1>. QED
  BY <1>2, <1>3

\* group_cipher_decrypt up to the callback: it succeeds only with a state that has the
\* message's id and signing key, when the key of its iteration can be taken.
LEMMA DecryptResult ==
  ASSUME NEW record \in Seq(States), NEW m \in Messages,
         \A i \in 1..Len(record) : ChainOK(Chain(record[i]))
  PROVE  LET i == GetSenderKeyStateById(record, m.id)
             d == DecryptRecord(record, m)
             taken == GetOrCreateMessageKeys(Chain(record[i]), m.iteration)
             new == [record[i] EXCEPT !.iteration = taken.index, !.keys = taken.keys]
         IN /\ i \notin 1..Len(record) \/ record[i].public # m.signature
                 => d.err \in {"NO_SESSION", "INVALID_MESSAGE"}
            /\ i \in 1..Len(record) /\ record[i].public = m.signature
                 => /\ d.err = taken.err
                    /\ d.err = "SUCCESS" => d.record = [record EXCEPT ![i] = new]
<1>. DEFINE i == GetSenderKeyStateById(record, m.id)
            d == DecryptRecord(record, m)
            taken == GetOrCreateMessageKeys(Chain(record[i]), m.iteration)
            new == [record[i] EXCEPT !.iteration = taken.index, !.keys = taken.keys]
            inner == DecryptInState(record, i, m)
            sender == GetSenderKey(record[i], m.iteration)
            use == UseSenderKey(record, i, sender)
<1>1. i \in 1..Len(record) \/ i = 0
  BY StateFound
<1>2. d = IF record = <<>> THEN Failure("NO_SESSION") ELSE inner
  BY DEF DecryptRecord
<1>3. inner = IF i = 0 \/ m.signature # record[i].public THEN Failure("INVALID_MESSAGE") ELSE use
  BY DEF DecryptInState, VerifySignature
<1>4. sender.err = taken.err /\ sender.state = new
  BY DEF GetSenderKey, Chain
<1>5. use = IF sender.err # "SUCCESS" THEN Failure(sender.err)
            ELSE [err |-> "SUCCESS", record |-> [record EXCEPT ![i] = sender.state]]
  BY DEF UseSenderKey
<1>6. \A err : Failure(err).err = err
  BY DEF Failure
<1>. HIDE DEF i, d, taken, new, inner, sender, use
<1>7. ASSUME i \notin 1..Len(record) \/ record[i].public # m.signature
      PROVE  d.err \in {"NO_SESSION", "INVALID_MESSAGE"}
  BY <1>1, <1>2, <1>3, <1>6, <1>7
<1>8. ASSUME i \in 1..Len(record), record[i].public = m.signature
      PROVE  /\ d.err = taken.err
             /\ d.err = "SUCCESS" => d.record = [record EXCEPT ![i] = new]
  <2>1. d = use
    BY <1>2, <1>3, <1>8
  <2>. QED
    BY <1>4, <1>5, <1>6, <2>1
<1>. QED
  BY <1>7, <1>8 DEF i, d, taken, new

LEMMA DecryptEffect ==
  ASSUME TypeInv, NEW r \in Receiver, MatchInv(r), NEW m \in net, NEW outcome \in GroupOutcomes,
         Decrypt(r, m, outcome)
  PROVE  Decrypted(r, m, outcome)
<1>. DEFINE record == Record(r)
            i == GetSenderKeyStateById(record, m.id)
            d == DecryptRecord(record, m)
            taken == GetOrCreateMessageKeys(Chain(record[i]), m.iteration)
            new == [record[i] EXCEPT !.iteration = taken.index, !.keys = taken.keys]
<1>1. /\ m \in Messages /\ record \in Seq(States)
      /\ records \in [Receiver -> {None} \union Seq(StoredStates)]
  BY DEF TypeInv
<1>2. \A j \in 1..Len(record) : ChainOK(Chain(record[j]))
  BY DEF MatchInv
<1>3. /\ d.err = "SUCCESS"
      /\ kept' = IF outcome = "callback" THEN kept ELSE [kept EXCEPT ![r] = @ \union {m.body}]
      /\ records' = IF outcome = "ok" THEN [records EXCEPT ![r] = SerializeSenderKeyRecord(d.record)]
                    ELSE records
      /\ returned' = IF outcome = "ok" THEN [returned EXCEPT ![r][m.body] = @ + 1]
                     ELSE returned
      /\ UNCHANGED <<own, created, distributions, net, joined>>
  BY DEF Decrypt, GroupStoredOutcomes, Record
<1>. HIDE DEF record
<1>4. /\ i \notin 1..Len(record) \/ record[i].public # m.signature
           => d.err \in {"NO_SESSION", "INVALID_MESSAGE"}
      /\ i \in 1..Len(record) /\ record[i].public = m.signature
           => /\ d.err = taken.err
              /\ d.err = "SUCCESS" => d.record = [record EXCEPT ![i] = new]
  BY <1>1, <1>2, DecryptResult, Zenon
<1>5. i \in 1..Len(record) \/ i = 0
  BY <1>1, StateFound
<1>6. i \in 1..Len(record) => record[i].id = m.id
  BY <1>1, StateFound
<1>. HIDE DEF i, d
<1>7. /\ i \in 1..Len(record) /\ record[i].public = m.signature
      /\ taken.err = "SUCCESS" /\ d.record = [record EXCEPT ![i] = new]
  <2>. HIDE DEF taken, new
  <2>. QED
    BY <1>3, <1>4
<1>8. KeyTaken(Chain(record[i]), m.iteration, taken)
  <2>1. ChainOK(Chain(record[i])) /\ m.iteration \in Nat
    BY <1>1, <1>2, <1>7 DEF Messages
  <2>. DEFINE chain == Chain(record[i])
  <2>. HIDE DEF chain
  <2>2. GetOrCreateMessageKeys(chain, m.iteration).err = "SUCCESS" /\ ChainOK(chain)
    BY <1>7, <2>1 DEF chain
  <2>3. KeyTaken(chain, m.iteration, GetOrCreateMessageKeys(chain, m.iteration))
    BY <2>1, <2>2, GetOrCreateEffect
  <2>. QED
    BY <2>3 DEF chain
<1>9. taken.index \in Nat /\ taken.keys \in Seq(Nat)
  BY <1>8 DEF KeyTaken, ChainOK
<1>. HIDE DEF taken
<1>10. record[i] \in States
  BY <1>1, <1>7
<1>11. StateUsed(record[i], m, new)
  <2>1. /\ new \in States /\ new.iteration = taken.index /\ new.keys = taken.keys
        /\ new.id = record[i].id /\ new.seed = record[i].seed /\ new.public = record[i].public
        /\ new.private = record[i].private
    BY <1>9, <1>10, Zenon DEF States
  <2>. HIDE DEF new
  <2>2. Chain(new).index = taken.index /\ Chain(new).keys = taken.keys
    BY <2>1 DEF Chain
  <2>3. KeyTaken(Chain(record[i]), m.iteration, Chain(new))
    BY <1>8, <2>2 DEF KeyTaken, ChainOK
  <2>. QED
    BY <2>1, <2>3 DEF StateUsed
<1>. HIDE DEF new
<1>12. new \in States
  BY <1>11 DEF StateUsed
<1>13. d.record \in Seq(States)
  BY <1>1, <1>7, <1>12
<1>14. /\ SerializeSenderKeyRecord(d.record) \in Seq(StoredStates)
       /\ LoadSenderKey(SerializeSenderKeyRecord(d.record)) = d.record
  BY <1>13, RecordRead
<1>15. /\ records' \in [Receiver -> {None} \union Seq(StoredStates)]
       /\ outcome = "ok" => Record(r)' = d.record
       /\ outcome # "ok" => Record(r)' = record
  BY <1>1, <1>3, <1>14 DEF Record, record
<1>16. ASSUME NEW q \in Receiver, q # r PROVE Record(q)' = Record(q)
  BY <1>1, <1>3, <1>16 DEF Record
<1>17. Record(r)' \in Seq(States)
  BY <1>1, <1>13, <1>15
<1>18. Own' = Own
  BY <1>3 DEF Own
<1>19. \E j \in 1..Len(record) : \E n \in States :
         /\ record[j].id = m.id /\ record[j].public = m.signature
         /\ StateUsed(record[j], m, n)
         /\ outcome = "ok" => Record(r)' = [record EXCEPT ![j] = n]
  BY <1>6, <1>7, <1>11, <1>12, <1>15
<1>20. /\ kept' = kept \/ kept' = [kept EXCEPT ![r] = @ \union {m.body}]
       /\ outcome = "ok" => kept' = [kept EXCEPT ![r] = @ \union {m.body}]
       /\ outcome # "ok" => records' = records /\ returned' = returned
       /\ outcome = "ok" => returned' = [returned EXCEPT ![r][m.body] = @ + 1]
  BY <1>3
<1>. QED
  BY <1>1, <1>3, <1>15, <1>16, <1>17, <1>18, <1>19, <1>20, Zenon DEF record, Decrypted

-----------------------------------------------------------------------------
(* The invariant *)

LEMMA IInvKept == IInv /\ [Next]_vars => IInv'
<1>. SUFFICES ASSUME IInv, [Next]_vars PROVE IInv'
  OBVIOUS
<1>1. SenderInv /\ TypeInv /\ created \in Nat /\ kept \in [Receiver -> SUBSET Nat]
  BY DEF IInv, SenderInv, TypeInv
<1>2. \A r \in Receiver : MatchInv(r) /\ ReachInv(r)
  BY DEF IInv
<1>3. ASSUME NEW id \in SenderKeyIds, CreateSession(id) PROVE IInv'
  <2>1. SenderInv'
    BY <1>1, <1>3, CreateKeepsSender
  <2>2. /\ CreatedNew(id) \/ CreatedAgain
        /\ UNCHANGED <<records, net, joined, returned, kept>>
    BY <1>1, <1>3, CreateEffect
  <2>3. /\ distributions \subseteq distributions'
        /\ Own' = Own \/ Own'[1].seed = Seed(created + 1)
    BY <2>2 DEF CreatedNew, CreatedAgain, Own
  <2>4. ASSUME NEW r \in Receiver PROVE MatchInv(r)' /\ ReachInv(r)'
    BY <1>1, <1>2, <2>2, <2>3, KeyStepKeepsMatch
  <2>. QED
    BY <1>1, <2>1, <2>2, <2>4 DEF IInv
<1>4. ASSUME NEW body \in 1..MaxMessages, NEW outcome \in GroupOutcomes,
             Encrypt(body, outcome)
      PROVE  IInv'
  <2>1. /\ UNCHANGED <<own, net>> \/ \E m : Sent(m)
        /\ UNCHANGED <<records, created, distributions, joined, returned, kept>>
    BY <1>1, <1>4, EncryptEffect
  <2>2. CASE UNCHANGED <<own, net>>
    <3>1. Own' = Own /\ \A r \in Receiver : Record(r)' = Record(r)
      BY <2>1, <2>2 DEF Own, Record
    <3>2. SenderInv'
      BY <1>1, <2>1, <2>2, <3>1
         DEF SenderInv, TypeInv, KeyInv, IdInv, NetInv, NoKeyReuse
    <3>3. ASSUME NEW r \in Receiver PROVE MatchInv(r)' /\ ReachInv(r)'
      BY <1>2, <2>1, <2>2, <3>1, UntouchedKeepsMatch
    <3>. QED
      BY <1>1, <2>1, <3>2, <3>3 DEF IInv
  <2>3. ASSUME NEW m, Sent(m) PROVE IInv'
    <3>1. SenderInv'
      BY <1>1, <2>1, <2>3, EncryptKeepsSender
    <3>2. ASSUME NEW r \in Receiver PROVE MatchInv(r)' /\ ReachInv(r)'
      BY <1>1, <1>2, <2>1, <2>3, EncryptKeepsMatch
    <3>. QED
      BY <1>1, <2>1, <3>1, <3>2 DEF IInv
  <2>. QED
    BY <2>1, <2>2, <2>3
<1>5. CASE DeleteSenderKey
  <2>1. SenderInv' /\ Own' = <<>>
    BY <1>1, <1>5, DeleteKeepsSender
  <2>2. UNCHANGED <<records, created, distributions, net, joined, returned, kept>>
    BY <1>5 DEF DeleteSenderKey
  <2>3. ASSUME NEW r \in Receiver PROVE MatchInv(r)' /\ ReachInv(r)'
    BY <1>1, <1>2, <2>1, <2>2, KeyStepKeepsMatch
  <2>. QED
    BY <1>1, <2>1, <2>2, <2>3 DEF IInv
<1>6. ASSUME NEW r \in Receiver, NEW d \in distributions, ProcessSession(r, d) PROVE IInv'
  <2>1. /\ Record(r)' \in Seq(States)
        /\ records' \in [Receiver -> {None} \union Seq(StoredStates)]
        /\ \A q \in Receiver : q # r => Record(q)' = Record(q) /\ joined'[q] = joined[q]
        /\ joined' \in [Receiver -> Seq(Distributions)] /\ Own' = Own
        /\ UNCHANGED <<own, created, distributions, net, returned, kept>>
    BY <1>1, <1>6, ProcessEffect, Zenon
  <2>2. SenderInv'
    BY <1>1, <2>1, ReceiverKeepsSender, Zenon
  <2>3. ASSUME NEW q \in Receiver PROVE MatchInv(q)' /\ ReachInv(q)'
    <3>1. CASE q = r
      BY <1>1, <1>2, <1>6, <3>1, ProcessKeepsMatch
    <3>2. CASE q # r
      BY <1>2, <2>1, <3>2, UntouchedKeepsMatch, Zenon
    <3>. QED
      BY <3>1, <3>2
  <2>. QED
    BY <1>1, <2>1, <2>2, <2>3 DEF IInv
<1>7. ASSUME NEW r \in Receiver, NEW m \in net, NEW outcome \in GroupOutcomes,
             Decrypt(r, m, outcome)
      PROVE  IInv'
  <2>1. Decrypted(r, m, outcome)
    BY <1>1, <1>2, <1>7, DecryptEffect
  <2>2. /\ Record(r)' \in Seq(States) /\ m \in Messages
        /\ records' \in [Receiver -> {None} \union Seq(StoredStates)]
        /\ \A q \in Receiver : q # r => Record(q)' = Record(q)
        /\ kept' = kept \/ kept' = [kept EXCEPT ![r] = @ \union {m.body}]
        /\ Own' = Own /\ UNCHANGED <<own, created, distributions, net, joined>>
    BY <2>1 DEF Decrypted
  <2>3. joined' \in [Receiver -> Seq(Distributions)]
    BY <1>1, <2>2 DEF TypeInv
  <2>4. SenderInv'
    BY <1>1, <2>2, <2>3, ReceiverKeepsSender, Zenon
  <2>5. m.body \in Nat
    BY <2>2 DEF Messages
  <2>6. /\ kept' \in [Receiver -> SUBSET Nat]
        /\ \A q \in Receiver : q # r => kept'[q] = kept[q]
    BY <1>1, <2>2, <2>5
  <2>7. ASSUME NEW q \in Receiver PROVE MatchInv(q)' /\ ReachInv(q)'
    <3>1. CASE q = r
      BY <1>1, <1>2, <2>1, <3>1, DecryptKeepsMatch
    <3>2. CASE q # r
      BY <1>2, <2>2, <2>6, <3>2, UntouchedKeepsMatch
    <3>. QED
      BY <3>1, <3>2
  <2>. QED
    BY <2>4, <2>6, <2>7 DEF IInv
<1>8. CASE UNCHANGED vars
  <2>1. UNCHANGED <<own, records, created, distributions, net, joined, returned, kept>>
    BY <1>8 DEF vars
  <2>2. Own' = Own /\ \A r \in Receiver : Record(r)' = Record(r)
    BY <2>1 DEF Own, Record
  <2>3. SenderInv'
    BY <1>1, <2>1, <2>2 DEF SenderInv, TypeInv, KeyInv, IdInv, NetInv, NoKeyReuse
  <2>4. ASSUME NEW r \in Receiver PROVE MatchInv(r)' /\ ReachInv(r)'
    BY <1>2, <2>1, <2>2, UntouchedKeepsMatch
  <2>. QED
    BY <1>1, <2>1, <2>3, <2>4 DEF IInv
<1>. QED
  BY <1>3, <1>4, <1>5, <1>6, <1>7, <1>8 DEF Next

\* The limits that sender_key_record.c and sender_key_state.c keep: the sender's record has
\* one state, a receiver's at most MAX_STATES, each with at most MAX_MESSAGE_KEYS keys and
\* without the private signing key, after every sequence of calls.
THEOREM GroupTypes == Spec => []TypeOK
<1>1. IInv => TypeOK
  <2>1. SUFFICES ASSUME IInv PROVE TypeOK
    OBVIOUS
  <2>2. /\ created \in 0..MaxCreated /\ own \in {None} \union Seq(StoredStates)
        /\ own # None => Len(own) = 1
        /\ records \in [Receiver -> {None} \union Seq(StoredStates)]
    BY <2>1 DEF IInv, SenderInv, TypeInv
  <2>3. ASSUME NEW r \in Receiver
        PROVE  /\ Len(Record(r)) <= MAX_STATES
               /\ \A i \in DOMAIN Record(r) :
                    Len(Record(r)[i].keys) <= MAX_MESSAGE_KEYS /\ Record(r)[i].private = None
    <3>1. MatchInv(r) /\ Record(r) \in Seq(States) /\ joined[r] \in Seq(Distributions)
      BY <2>1 DEF IInv, SenderInv, TypeInv
    <3>2. Len(Record(r)) <= MAX_STATES /\ DOMAIN Record(r) = 1..Len(Record(r))
      <4>1. Len(Record(r)) = IF Len(joined[r]) <= MAX_STATES THEN Len(joined[r]) ELSE MAX_STATES
        BY <3>1 DEF MatchInv
      <4>. QED
        BY <3>1, <4>1, StatesAssumption
    <3>3. ASSUME NEW i \in 1..Len(Record(r))
          PROVE  Len(Record(r)[i].keys) <= MAX_MESSAGE_KEYS /\ Record(r)[i].private = None
      <4>1. Record(r)[i].private = None /\ ChainOK(Chain(Record(r)[i]))
        BY <3>1 DEF MatchInv
      <4>2. Chain(Record(r)[i]).keys = Record(r)[i].keys
        BY DEF Chain
      <4>. QED
        BY <4>1, <4>2 DEF ChainOK
    <3>. QED
      BY <3>2, <3>3
  <2>. QED
    BY <2>2, <2>3 DEF TypeOK, Record
<1>2. Init => IInv
  BY InitHolds
<1>. QED
  BY <1>1, <1>2, IInvKept, PTL DEF Spec

\* group_cipher_encrypt never encrypts two messages with the same message key, whatever
\* the sender key ids, however often the sender key is deleted and made again and
\* whichever calls fail.
THEOREM GroupNoKeyReuse == Spec => []NoKeyReuse
<1>1. IInv => NoKeyReuse
  BY DEF IInv, SenderInv
<1>2. Init => IInv
  BY InitHolds
<1>. QED
  BY <1>1, <1>2, IInvKept, PTL DEF Spec

-----------------------------------------------------------------------------
(* Receivers that process the distribution of a sender key once *)

\* The distributions that r processed are those of different sender keys.
OnceInv(r) ==
  \A i, j \in 1..Len(joined[r]) : joined[r][i].seed = joined[r][j].seed => i = j

\* The key of a message that was returned is gone: its chain has passed it and does not
\* keep it, or has been evicted.
ReadInv(r) ==
  /\ \A body \in 1..MaxMessages : returned[r][body] > 0 => \E m \in net : m.body = body
  /\ \A m \in net : returned[r][m.body] > 0 =>
       /\ \E j \in 1..Len(joined[r]) : joined[r][j].seed = m.key[1]
       /\ \A i \in 1..Len(Record(r)) : Record(r)[i].seed = m.key[1] =>
            /\ m.iteration < Record(r)[i].iteration
            /\ ~Contains(Record(r)[i].keys, m.iteration)

HistoryInv ==
  /\ \A r \in Receiver : OnceInv(r)
  /\ returned \in [Receiver -> [1..MaxMessages -> Nat]]
  /\ \A r \in Receiver : ReadInv(r)
  /\ AtMostOnce

-----------------------------------------------------------------------------

LEMMA HistoryInit == Init => HistoryInv
<1>. SUFFICES ASSUME Init PROVE HistoryInv
  OBVIOUS
<1>1. ASSUME NEW r \in Receiver PROVE joined[r] = <<>>
  BY DEF Init
<1>2. ASSUME NEW r \in Receiver PROVE OnceInv(r)
  BY <1>1 DEF OnceInv
<1>3. returned \in [Receiver -> [1..MaxMessages -> Nat]]
  BY DEF Init
<1>4. ASSUME NEW r \in Receiver PROVE net = {} /\ \A body \in 1..MaxMessages : returned[r][body] = 0
  BY DEF Init
<1>5. (\A r \in Receiver : ReadInv(r)) /\ AtMostOnce
  BY <1>4 DEF ReadInv, AtMostOnce
<1>. QED
  BY <1>2, <1>3, <1>5 DEF HistoryInv

\* A step of the sender: it returns no plaintext, and a new message has a new number.
LEMMA SenderKeepsHistory ==
  ASSUME HistoryInv, NetInv, UNCHANGED <<records, joined, returned>>,
         \/ net' = net
         \/ \E m : /\ net' = net \union {m} /\ m.body \in 1..MaxMessages
                   /\ \A n \in net : n.body # m.body
  PROVE  HistoryInv'
<1>2. ASSUME NEW m \in net', m \notin net
      PROVE  m.body \in 1..MaxMessages /\ \A n \in net : n.body # m.body
  BY <1>2
<1>3. net \subseteq net'
  OBVIOUS
<1>4. ASSUME NEW r \in Receiver PROVE OnceInv(r)' /\ ReadInv(r)'
  <2>1. OnceInv(r) /\ ReadInv(r) /\ Record(r)' = Record(r)
    BY DEF HistoryInv, Record
  <2>2. ASSUME NEW m \in net', returned[r][m.body] > 0 PROVE m \in net
    <3>1. SUFFICES ASSUME m \notin net PROVE FALSE
      OBVIOUS
    <3>2. m.body \in 1..MaxMessages /\ \A n \in net : n.body # m.body
      BY <1>2, <3>1
    <3>. QED
      BY <2>1, <2>2, <3>2 DEF ReadInv
  <2>3. \A body \in 1..MaxMessages : returned[r][body] > 0 => \E m \in net' : m.body = body
    BY <1>3, <2>1 DEF ReadInv
  <2>4. OnceInv(r)'
    BY <2>1 DEF OnceInv
  <2>5. ReadInv(r)'
    BY <2>1, <2>2, <2>3 DEF ReadInv
  <2>. QED
    BY <2>4, <2>5
<1>. QED
  BY <1>4 DEF HistoryInv, AtMostOnce

\* A sender key that no processed distribution has is the only one that may be processed.
LEMMA FirstDistribution ==
  ASSUME NEW r, NEW d, joined[r] \in Seq(Distributions), MaxAgain = 0, ProcessSession(r, d),
         NEW i \in 1..Len(joined[r])
  PROVE  joined[r][i].seed # d.seed
<1>1. DOMAIN joined[r] = 1..Len(joined[r]) /\ ~(Len(joined[r]) <= 0)
  OBVIOUS
<1>. QED
  BY <1>1 DEF ProcessSession

LEMMA ProcessKeepsHistory ==
  ASSUME MaxAgain = 0, IInv, HistoryInv, NEW r \in Receiver, NEW d \in distributions,
         ProcessSession(r, d)
  PROVE  HistoryInv'
<1>. DEFINE state == SenderKeyState(d.id, d.iteration, d.seed, d.signature_key, None)
            list == <<d>> \o joined[r]
<1>1. TypeInv
  BY DEF IInv, SenderInv
<1>2. /\ d \in Distributions /\ state \in States /\ state.seed = d.seed
      /\ Record(r)' = AddSenderKeyState(Record(r), state) /\ joined'[r] = list
      /\ \A q \in Receiver : q # r => Record(q)' = Record(q) /\ joined'[q] = joined[q]
      /\ UNCHANGED <<own, created, distributions, net, returned, kept>>
  BY <1>1, ProcessEffect
<1>3. Record(r) \in Seq(States) /\ joined[r] \in Seq(Distributions)
  BY <1>1 DEF TypeInv
<1>4. /\ Len(list) = Len(joined[r]) + 1 /\ list[1] = d /\ Len(joined[r]) \in Nat
      /\ \A i \in 2..Len(list) : list[i] = joined[r][i - 1]
  <2>1. d \in Distributions /\ joined[r] \in Seq(Distributions) /\ list = <<d>> \o joined[r]
    BY <1>2, <1>3
  <2>. HIDE DEF list
  <2>. QED
    BY <2>1, Prepended
<1>5. \A i \in 1..Len(joined[r]) : joined[r][i].seed # d.seed
  BY <1>3, FirstDistribution
<1>. HIDE DEF state, list
<1>6. OnceInv(r)'
  <2>1. OnceInv(r)
    BY DEF HistoryInv
  <2>2. ASSUME NEW i \in 1..Len(list), i # 1
        PROVE  i - 1 \in 1..Len(joined[r]) /\ list[i] = joined[r][i - 1]
    BY <1>4, <2>2
  <2>3. ASSUME NEW i \in 1..Len(list), i # 1 PROVE list[i].seed # d.seed
    BY <1>5, <2>2, <2>3
  <2>4. ASSUME NEW i \in 1..Len(list), NEW j \in 1..Len(list), list[i].seed = list[j].seed
        PROVE  i = j
    <3>1. CASE i = 1 \/ j = 1
      BY <1>4, <2>3, <2>4, <3>1
    <3>2. CASE i # 1 /\ j # 1
      <4>1. /\ i - 1 \in 1..Len(joined[r]) /\ list[i] = joined[r][i - 1]
            /\ j - 1 \in 1..Len(joined[r]) /\ list[j] = joined[r][j - 1]
        BY <2>2, <3>2
      <4>2. i - 1 = j - 1
        BY <2>1, <2>4, <4>1 DEF OnceInv
      <4>. QED
        BY <4>2
    <3>. QED
      BY <3>1, <3>2
  <2>. QED
    BY <1>2, <2>4 DEF OnceInv
<1>7. ReadInv(r)'
  <2>. DEFINE after == AddSenderKeyState(Record(r), state)
  <2>1. /\ Len(after) = IF Len(Record(r)) + 1 <= MAX_STATES THEN Len(Record(r)) + 1 ELSE MAX_STATES
        /\ after[1] = state
        /\ \A i \in 2..Len(after) : after[i] = Record(r)[i - 1]
    BY <1>2, <1>3, StateAdded, Zenon
  <2>. HIDE DEF after
  <2>2. ReadInv(r)
    BY DEF HistoryInv
  <2>3. ASSUME NEW m \in net, returned[r][m.body] > 0
        PROVE  /\ \E j \in 1..Len(list) : list[j].seed = m.key[1]
               /\ m.key[1] # d.seed
    <3>1. PICK j \in 1..Len(joined[r]) : joined[r][j].seed = m.key[1]
      BY <2>2, <2>3 DEF ReadInv
    <3>2. j + 1 \in 2..Len(list) /\ (j + 1) - 1 = j
      BY <1>4
    <3>3. list[j + 1].seed = m.key[1]
      BY <1>4, <3>1, <3>2
    <3>4. j + 1 \in 1..Len(list)
      BY <3>2
    <3>. QED
      BY <1>5, <3>1, <3>3, <3>4
  <2>4. ASSUME NEW m \in net, returned[r][m.body] > 0, NEW i \in 1..Len(after),
               after[i].seed = m.key[1]
        PROVE  m.iteration < after[i].iteration /\ ~Contains(after[i].keys, m.iteration)
    <3>1. i # 1
      BY <1>2, <2>1, <2>3, <2>4
    <3>2. i \in 2..Len(after) /\ i - 1 \in 1..Len(Record(r))
      BY <1>3, <2>1, <3>1, StatesAssumption
    <3>3. after[i] = Record(r)[i - 1]
      BY <2>1, <3>2
    <3>. QED
      BY <2>2, <2>4, <3>2, <3>3, Zenon DEF ReadInv
  <2>5. \A body \in 1..MaxMessages : returned[r][body] > 0 => \E m \in net : m.body = body
    BY <2>2 DEF ReadInv
  <2>6. Record(r)' = after
    BY <1>2 DEF after
  <2>. QED
    BY <1>2, <2>3, <2>4, <2>5, <2>6 DEF ReadInv
<1>8. ASSUME NEW q \in Receiver, q # r PROVE OnceInv(q)' /\ ReadInv(q)'
  <2>1. /\ Record(q)' = Record(q) /\ joined'[q] = joined[q]
        /\ UNCHANGED <<net, returned>> /\ OnceInv(q) /\ ReadInv(q)
    BY <1>2, <1>8 DEF HistoryInv
  <2>2. OnceInv(q)'
    BY <2>1 DEF OnceInv
  <2>3. ReadInv(q)'
    BY <2>1 DEF ReadInv
  <2>. QED
    BY <2>2, <2>3
<1>. QED
  BY <1>2, <1>6, <1>7, <1>8 DEF HistoryInv, AtMostOnce

\* The key of a message that was returned is gone, so a decryption that succeeds returns
\* a plaintext that was not returned before, and leaves no key of it.
LEMMA DecryptKeepsHistory ==
  ASSUME IInv, HistoryInv, NEW r \in Receiver, NEW m \in net, NEW outcome,
         Decrypted(r, m, outcome)
  PROVE  HistoryInv'
<1>1. SenderInv /\ TypeInv /\ NetInv /\ MatchInv(r) /\ OnceInv(r) /\ ReadInv(r)
  BY DEF IInv, SenderInv, HistoryInv
<1>2. PICK i \in 1..Len(Record(r)) : \E new \in States :
        /\ Record(r)[i].public = m.signature
        /\ StateUsed(Record(r)[i], m, new)
        /\ outcome = "ok" => Record(r)' = [Record(r) EXCEPT ![i] = new]
  BY DEF Decrypted
<1>3. PICK new \in States :
        /\ Record(r)[i].public = m.signature
        /\ StateUsed(Record(r)[i], m, new)
        /\ outcome = "ok" => Record(r)' = [Record(r) EXCEPT ![i] = new]
  BY <1>2
<1>4. /\ outcome # "ok" => Record(r)' = Record(r) /\ returned' = returned
      /\ outcome = "ok" => returned' = [returned EXCEPT ![r][m.body] = @ + 1]
      /\ \A q \in Receiver : q # r => Record(q)' = Record(q)
      /\ UNCHANGED <<net, joined>>
  BY DEF Decrypted
<1>5. ASSUME NEW q \in Receiver, q # r \/ outcome # "ok"
      PROVE  /\ OnceInv(q)' /\ ReadInv(q)' /\ returned'[q] = returned[q]
  <2>1. Record(q)' = Record(q) /\ returned'[q] = returned[q]
    BY <1>4, <1>5 DEF HistoryInv
  <2>2. OnceInv(q)'
    BY <1>4 DEF HistoryInv, OnceInv
  <2>3. ReadInv(q)'
    BY <1>4, <2>1 DEF HistoryInv, ReadInv
  <2>. QED
    BY <2>1, <2>2, <2>3
<1>6. /\ returned \in [Receiver -> [1..MaxMessages -> Nat]]
      /\ returned' \in [Receiver -> [1..MaxMessages -> Nat]]
      /\ m.body \in 1..MaxMessages
  <2>2. m.body \in 1..MaxMessages
    BY <1>1 DEF NetInv
  <2>3. returned \in [Receiver -> [1..MaxMessages -> Nat]]
    BY DEF HistoryInv
  <2>. DEFINE B == 1..MaxMessages
              body == m.body
  <2>4. ASSUME outcome = "ok" PROVE returned' \in [Receiver -> [B -> Nat]]
    <3>1. /\ returned' = [returned EXCEPT ![r][body] = @ + 1]
          /\ returned \in [Receiver -> [B -> Nat]] /\ body \in B
      BY <1>4, <2>2, <2>3, <2>4
    <3>. HIDE DEF B, body
    <3>. QED
      BY <3>1, Counted
  <2>. QED
    BY <1>4, <2>2, <2>3, <2>4
<1>7. CASE outcome # "ok"
  BY <1>4, <1>5, <1>6, <1>7 DEF HistoryInv, AtMostOnce
<1>8. CASE outcome = "ok"
  <2>. DEFINE old == Record(r)[i]
              after == [Record(r) EXCEPT ![i] = new]
  <2>1. /\ Record(r) \in Seq(States) /\ old \in States /\ old.iteration \in Nat
        /\ old.keys \in Seq(Nat) /\ i \in 1..Len(joined[r])
    BY <1>1, RecordOfJoined
  <2>2. /\ Record(r)' = after /\ Len(after) = Len(Record(r)) /\ after[i] = new
        /\ \A j \in 1..Len(Record(r)) : j # i => after[j] = Record(r)[j]
    BY <1>3, <1>8, <2>1
  <2>3. old.seed = m.key[1]
    BY <1>1, <1>3, SignatureFixesSeed
  <2>4. new.seed = old.seed /\ KeyTaken(Chain(old), m.iteration, Chain(new))
    BY <1>3 DEF StateUsed
  <2>5. /\ Chain(old).index = old.iteration /\ Chain(old).keys = old.keys
        /\ Chain(new).index = new.iteration /\ Chain(new).keys = new.keys
    BY DEF Chain
  <2>6. /\ m.iteration < old.iteration => Contains(old.keys, m.iteration)
        /\ m.iteration < new.iteration /\ old.iteration <= new.iteration
        /\ ~Contains(new.keys, m.iteration)
        /\ \A e \in Nat : Contains(new.keys, e) => Contains(old.keys, e) \/ e >= old.iteration
    BY <2>4, <2>5, Zenon DEF KeyTaken
  <2>7. new.iteration \in Nat
    BY DEF States
  <2>8. joined[r][i].seed = m.key[1]
    BY <1>1, <2>3, Zenon DEF MatchInv, old
  <2>. HIDE DEF old, after
  <2>9. returned[r][m.body] = 0
    <3>1. SUFFICES ASSUME returned[r][m.body] > 0 PROVE FALSE
      <4>1. returned[r][m.body] \in Nat
        BY <1>6, Zenon
      <4>. QED
        BY <4>1
    <3>2. m.iteration < old.iteration /\ ~Contains(old.keys, m.iteration)
      BY <1>1, <2>3, <3>1 DEF ReadInv, old
    <3>. QED
      BY <2>6, <3>2
  <2>10. /\ returned'[r][m.body] = 1
         /\ \A body \in 1..MaxMessages : body # m.body => returned'[r][body] = returned[r][body]
    <3>. DEFINE B == 1..MaxMessages
                body == m.body
    <3>1. /\ returned' = [returned EXCEPT ![r][body] = @ + 1] /\ returned[r][body] = 0
          /\ returned \in [Receiver -> [B -> Nat]] /\ body \in B
      BY <1>4, <1>6, <1>8, <2>9
    <3>. HIDE DEF B, body
    <3>2. returned'[r][body] = 1 /\ \A c \in B : c # body => returned'[r][c] = returned[r][c]
      BY <3>1, Counted
    <3>. QED
      BY <3>2 DEF B, body
  <2>11. OnceInv(r)'
    BY <1>1, <1>4 DEF OnceInv
  <2>12. \A body \in 1..MaxMessages : returned'[r][body] > 0 => \E n \in net : n.body = body
    BY <1>1, <2>10 DEF ReadInv
  <2>13. ASSUME NEW n \in net, returned'[r][n.body] > 0, n # m
         PROVE  returned[r][n.body] > 0
    <3>1. n.body # m.body /\ n.body \in 1..MaxMessages
      BY <1>1, <2>13 DEF NetInv
    <3>. QED
      BY <2>10, <2>13, <3>1
  <2>14. ASSUME NEW n \in net, returned'[r][n.body] > 0
         PROVE  \E j \in 1..Len(joined[r]) : joined[r][j].seed = n.key[1]
    BY <1>1, <2>1, <2>8, <2>13, <2>14 DEF ReadInv
  <2>15. ASSUME NEW n \in net, returned'[r][n.body] > 0, NEW j \in 1..Len(after),
                after[j].seed = n.key[1]
         PROVE  n.iteration < after[j].iteration /\ ~Contains(after[j].keys, n.iteration)
    <3>1. CASE j = i /\ n = m
      BY <2>2, <2>6, <3>1
    <3>2. CASE j = i /\ n # m
      <4>1. n.iteration < old.iteration /\ ~Contains(old.keys, n.iteration)
        BY <1>1, <2>2, <2>4, <2>13, <2>15, <3>2 DEF ReadInv, old
      <4>2. n.iteration \in Nat
        BY <1>1 DEF TypeInv, Messages
      <4>3. n.iteration < new.iteration /\ ~Contains(new.keys, n.iteration)
        BY <2>1, <2>6, <2>7, <4>1, <4>2
      <4>. QED
        BY <2>2, <3>2, <4>3
    <3>3. CASE j # i /\ n = m
      <4>1. j \in 1..Len(Record(r)) /\ after[j] = Record(r)[j]
        BY <2>2, <3>3
      <4>2. j \in 1..Len(joined[r])
        BY <1>1, <4>1, RecordOfJoined
      <4>3. joined[r][j].seed = m.key[1]
        BY <1>1, <2>15, <3>3, <4>1 DEF MatchInv
      <4>. QED
        BY <1>1, <2>1, <2>8, <3>3, <4>2, <4>3 DEF OnceInv
    <3>4. CASE j # i /\ n # m
      BY <1>1, <2>2, <2>13, <2>15, <3>4 DEF ReadInv
    <3>. QED
      BY <3>1, <3>2, <3>3, <3>4
  <2>16. ReadInv(r)'
    BY <1>4, <2>2, <2>12, <2>14, <2>15 DEF ReadInv
  <2>17. AtMostOnce'
    <3>1. ASSUME NEW q \in Receiver, NEW body \in 1..MaxMessages
          PROVE  returned'[q][body] <= 1
      <4>1. CASE q # r
        BY <1>5, <4>1 DEF HistoryInv, AtMostOnce
      <4>2. CASE q = r
        BY <2>10, <4>2 DEF HistoryInv, AtMostOnce
      <4>. QED
        BY <4>1, <4>2
    <3>. QED
      BY <3>1 DEF AtMostOnce
  <2>. QED
    BY <1>5, <1>6, <2>11, <2>16, <2>17 DEF HistoryInv
<1>. QED
  BY <1>7, <1>8

LEMMA HistoryKept ==
  ASSUME MaxAgain = 0
  PROVE  IInv /\ HistoryInv /\ [Next]_vars => HistoryInv'
<1>. SUFFICES ASSUME IInv, HistoryInv, [Next]_vars PROVE HistoryInv'
  OBVIOUS
<1>1. TypeInv /\ NetInv /\ \A r \in Receiver : MatchInv(r)
  BY DEF IInv, SenderInv
<1>2. ASSUME NEW id \in SenderKeyIds, CreateSession(id) PROVE HistoryInv'
  <2>1. UNCHANGED <<records, net, joined, returned, kept>>
    BY <1>1, <1>2, CreateEffect
  <2>. QED
    BY <1>1, <2>1, SenderKeepsHistory
<1>3. ASSUME NEW body \in 1..MaxMessages, NEW outcome \in GroupOutcomes,
             Encrypt(body, outcome)
      PROVE  HistoryInv'
  <2>1. /\ UNCHANGED <<own, net>> \/ \E m : Sent(m)
        /\ UNCHANGED <<records, created, distributions, joined, returned, kept>>
    BY <1>1, <1>3, EncryptEffect
  <2>2. \/ net' = net
        \/ \E m : /\ net' = net \union {m} /\ m.body \in 1..MaxMessages
                  /\ \A n \in net : n.body # m.body
    BY <2>1 DEF Sent
  <2>. QED
    BY <1>1, <2>1, <2>2, SenderKeepsHistory
<1>4. CASE DeleteSenderKey
  <2>1. UNCHANGED <<records, net, joined, returned, kept>>
    BY <1>4 DEF DeleteSenderKey
  <2>. QED
    BY <1>1, <2>1, SenderKeepsHistory
<1>5. ASSUME NEW r \in Receiver, NEW d \in distributions, ProcessSession(r, d) PROVE HistoryInv'
  BY <1>5, ProcessKeepsHistory
<1>6. ASSUME NEW r \in Receiver, NEW m \in net, NEW outcome \in GroupOutcomes,
             Decrypt(r, m, outcome)
      PROVE  HistoryInv'
  <2>1. Decrypted(r, m, outcome)
    BY <1>1, <1>6, DecryptEffect
  <2>. QED
    BY <2>1, DecryptKeepsHistory
<1>7. CASE UNCHANGED vars
  <2>1. UNCHANGED <<records, net, joined, returned, kept>>
    BY <1>7 DEF vars
  <2>. QED
    BY <1>1, <2>1, SenderKeepsHistory
<1>. QED
  BY <1>2, <1>3, <1>4, <1>5, <1>6, <1>7 DEF Next

-----------------------------------------------------------------------------
(* What a receiver can read *)

\* The distributions whose states the record has room for are those it has states of.
LEMMA RecentStates ==
  ASSUME SenderInv, NEW r \in Receiver, MatchInv(r)
  PROVE  /\ \A i \in 1..Len(Record(r)) : joined[r][i] \in Recent(r)
         /\ \A d \in Recent(r) : \E i \in 1..Len(Record(r)) : d = joined[r][i]
<1>. DEFINE n == Len(joined[r])
            k == Len(Record(r))
            recent == SubSeq(joined[r], 1, k)
<1>1. joined[r] \in Seq(Distributions) /\ n \in Nat
  BY DEF SenderInv, TypeInv
<1>2. k = IF n <= MAX_STATES THEN n ELSE MAX_STATES
  BY DEF MatchInv
<1>. HIDE DEF k
<1>3. k \in Nat /\ k <= n
  BY <1>1, <1>2, StatesAssumption
<1>4. Min({n, MAX_STATES}) = k
  BY <1>1, <1>2, StatesAssumption DEF Min
<1>5. Len(recent) = k /\ \A i \in 1..k : recent[i] = joined[r][i]
  BY <1>1, <1>3
<1>6. DOMAIN recent = 1..k
  BY <1>1, <1>3
<1>7. Recent(r) = {recent[i] : i \in 1..k}
  BY <1>4, <1>6, Zenon DEF Recent, Range
<1>. HIDE DEF recent
<1>. QED
  BY <1>5, <1>7 DEF k

\* A message of a recent sender key whose id is not that of another one is decrypted with
\* the state of that key.
LEMMA StateOfMessage ==
  ASSUME SenderInv, NEW r \in Receiver, MatchInv(r), NEW m \in net, Joined(r, m)
  PROVE  LET i == GetSenderKeyStateById(Record(r), m.id)
         IN /\ i \in 1..Len(Record(r)) /\ Record(r)[i].seed = m.key[1]
            /\ joined[r][i].seed = m.key[1]
            /\ Result(r, m) = GetOrCreateMessageKeys(Chain(Record(r)[i]), m.iteration).err
<1>. DEFINE i == GetSenderKeyStateById(Record(r), m.id)
<1>1. /\ Record(r) \in Seq(States) /\ m \in Messages
      /\ \A j \in 1..Len(Record(r)) : ChainOK(Chain(Record(r)[j]))
  BY Zenon DEF SenderInv, TypeInv, MatchInv
<1>2. PICK d \in Recent(r) : d.seed = m.key[1] /\ d.iteration <= m.iteration
  BY DEF Joined
<1>3. PICK k \in 1..Len(Record(r)) : d = joined[r][k]
  BY RecentStates
<1>4. Record(r)[k].id = m.id
  <2>1. joined[r][k] \in distributions
    BY RecordOfJoined
  <2>2. d.id = m.id
    BY <1>2, <1>3, <2>1 DEF SenderInv, IdInv
  <2>. QED
    BY <1>3, <2>2 DEF MatchInv
<1>5. \/ i \in 1..Len(Record(r)) /\ Record(r)[i].id = m.id
      \/ i = 0 /\ \A j \in 1..Len(Record(r)) : Record(r)[j].id # m.id
  BY <1>1, StateFound
<1>. HIDE DEF i
<1>6. i \in 1..Len(Record(r)) /\ Record(r)[i].id = m.id
  BY <1>4, <1>5
<1>7. joined[r][i] \in Recent(r)
  BY <1>6, RecentStates
<1>8. joined[r][i].id = m.id /\ joined[r][i].seed = Record(r)[i].seed
  BY <1>6, Zenon DEF MatchInv
<1>9. joined[r][i].seed = m.key[1]
  BY <1>7, <1>8 DEF Joined
<1>10. Record(r)[i].public = m.signature
  BY <1>6, <1>8, <1>9, SignatureFixesSeed, Zenon
<1>11. DecryptRecord(Record(r), m).err
         = GetOrCreateMessageKeys(Chain(Record(r)[i]), m.iteration).err
  <2>. DEFINE record == Record(r)
  <2>. HIDE DEF record
  <2>1. record \in Seq(States) /\ \A j \in 1..Len(record) : ChainOK(Chain(record[j]))
    BY <1>1 DEF record
  <2>2. LET j == GetSenderKeyStateById(record, m.id)
        IN j \in 1..Len(record) /\ record[j].public = m.signature
    BY <1>6, <1>10 DEF record, i
  <2>3. LET j == GetSenderKeyStateById(record, m.id)
        IN DecryptRecord(record, m).err
             = GetOrCreateMessageKeys(Chain(record[j]), m.iteration).err
    BY <1>1, <2>1, <2>2, DecryptResult, Zenon
  <2>. QED
    BY <2>3 DEF record, i
<1>12. Result(r, m) = DecryptRecord(Record(r), m).err
  BY DEF Result, Record
<1>. QED
  BY <1>6, <1>8, <1>9, <1>11, <1>12, Zenon DEF i

LEMMA DuplicatesReported == IInv /\ HistoryInv => DuplicateReported
<1>. SUFFICES ASSUME IInv, HistoryInv, NEW r \in Receiver, NEW m \in net, Joined(r, m),
                     returned[r][m.body] > 0
              PROVE  Result(r, m) = "DUPLICATE_MESSAGE"
  BY DEF DuplicateReported
<1>1. SenderInv /\ MatchInv(r) /\ ReadInv(r)
  BY DEF IInv, HistoryInv
<1>. DEFINE i == GetSenderKeyStateById(Record(r), m.id)
            chain == Chain(Record(r)[i])
<1>2. /\ i \in 1..Len(Record(r)) /\ Record(r)[i].seed = m.key[1]
      /\ Result(r, m) = GetOrCreateMessageKeys(chain, m.iteration).err
  BY <1>1, StateOfMessage, Zenon
<1>. HIDE DEF i
<1>3. m.iteration < Record(r)[i].iteration /\ ~Contains(Record(r)[i].keys, m.iteration)
  BY <1>1, <1>2 DEF ReadInv
<1>4. Record(r)[i].iteration \in Nat /\ m.iteration \in Nat
  BY <1>1, <1>2, RecordOfJoined, Zenon DEF SenderInv, TypeInv, Messages
<1>5. chain.index = Record(r)[i].iteration /\ chain.keys = Record(r)[i].keys
  BY DEF Chain
<1>. HIDE DEF chain
<1>6. chain.index \in Nat /\ chain.index > m.iteration /\ ~Contains(chain.keys, m.iteration)
  BY <1>3, <1>4, <1>5, Zenon
<1>. QED
  BY <1>2, <1>4, <1>6, GetOrCreateCases, Zenon

LEMMA NoneLost == IInv /\ HistoryInv => NothingLost
<1>. SUFFICES ASSUME IInv, HistoryInv, NEW r \in Receiver, NEW m \in net, Joined(r, m),
                     InReach(r, m), m.body \notin kept[r]
              PROVE  Result(r, m) = "SUCCESS"
  BY DEF NothingLost
<1>1. SenderInv /\ MatchInv(r) /\ ReachInv(r) /\ OnceInv(r)
  BY DEF IInv, HistoryInv
<1>. DEFINE i == GetSenderKeyStateById(Record(r), m.id)
            chain == Chain(Record(r)[i])
<1>2. /\ i \in 1..Len(Record(r)) /\ Record(r)[i].seed = m.key[1]
      /\ joined[r][i].seed = m.key[1]
      /\ Result(r, m) = GetOrCreateMessageKeys(chain, m.iteration).err
  BY <1>1, StateOfMessage, Zenon
<1>3. i # 0 => m.iteration - Record(r)[i].iteration \in (-MAX_MESSAGE_KEYS - 1)..MAX_FUTURE
  BY DEF InReach, Record
<1>. HIDE DEF i
<1>4. Record(r)[i].iteration \in Nat /\ m.iteration \in Nat
  BY <1>1, <1>2, RecordOfJoined, Zenon DEF SenderInv, TypeInv, Messages
<1>5. i # 0
  BY <1>2
<1>6. joined[r][i].iteration <= m.iteration
  <2>1. PICK d \in Recent(r) : d.seed = m.key[1] /\ d.iteration <= m.iteration
    BY DEF Joined
  <2>2. PICK k \in 1..Len(Record(r)) : d = joined[r][k]
    BY <1>1, RecentStates
  <2>3. k \in 1..Len(joined[r]) /\ i \in 1..Len(joined[r])
    BY <1>1, <1>2, <2>2, RecordOfJoined, Zenon
  <2>4. k = i
    BY <1>1, <1>2, <2>1, <2>2, <2>3 DEF OnceInv
  <2>. QED
    BY <2>1, <2>2, <2>4
<1>7. chain.index = Record(r)[i].iteration /\ chain.keys = Record(r)[i].keys
  BY DEF Chain
<1>8. CASE m.iteration < Record(r)[i].iteration
  <2>1. Contains(Record(r)[i].keys, m.iteration)
    <3>1. \/ m.body \in kept[r]
          \/ Contains(Record(r)[i].keys, m.iteration)
          \/ Record(r)[i].iteration - m.iteration > MAX_MESSAGE_KEYS + 1
      BY <1>1, <1>2, <1>6, <1>8, Zenon DEF ReachInv
    <3>2. ~(Record(r)[i].iteration - m.iteration > MAX_MESSAGE_KEYS + 1)
      BY <1>3, <1>4, <1>5, MessageKeysAssumption
    <3>. QED
      BY <3>1, <3>2
  <2>. HIDE DEF chain
  <2>2. chain.index \in Nat /\ chain.index > m.iteration /\ Contains(chain.keys, m.iteration)
    BY <1>4, <1>7, <1>8, <2>1
  <2>. QED
    BY <1>2, <1>4, <2>2, GetOrCreateCases
<1>9. CASE ~(m.iteration < Record(r)[i].iteration)
  <2>. HIDE DEF chain
  <2>1. /\ chain.index \in Nat /\ chain.index <= m.iteration
        /\ ~(m.iteration - chain.index > MAX_FUTURE)
    BY <1>3, <1>4, <1>5, <1>7, <1>9, MessageKeysAssumption
  <2>. QED
    BY <1>2, <1>4, <2>1, GetOrCreateCases, Zenon
<1>. QED
  BY <1>8, <1>9

-----------------------------------------------------------------------------

\* A receiver that processes the distribution of a sender key once is returned no
\* plaintext twice by group_cipher_decrypt, whatever is received again.
THEOREM GroupAtMostOnce ==
  ASSUME MaxAgain = 0
  PROVE  Spec => []AtMostOnce
<1>1. IInv /\ HistoryInv => AtMostOnce
  BY DEF HistoryInv
<1>2. IInv /\ HistoryInv /\ [Next]_vars => HistoryInv'
  BY HistoryKept
<1>. QED
  BY <1>1, <1>2, InitHolds, HistoryInit, IInvKept, PTL DEF Spec

\* Such a receiver is told SG_ERR_DUPLICATE_MESSAGE of every message it was returned
\* before, as long as its record has room for the message's sender key.
THEOREM GroupDuplicateReported ==
  ASSUME MaxAgain = 0
  PROVE  Spec => []DuplicateReported
<1>1. IInv /\ HistoryInv /\ [Next]_vars => HistoryInv'
  BY HistoryKept
<1>. QED
  BY <1>1, DuplicatesReported, InitHolds, HistoryInit, IInvKept, PTL DEF Spec

\* Such a receiver can read every message of the sender keys it was given that is neither
\* too far ahead nor too far behind, whatever arrived before it and whichever calls failed.
THEOREM GroupNothingLost ==
  ASSUME MaxAgain = 0
  PROVE  Spec => []NothingLost
<1>1. IInv /\ HistoryInv /\ [Next]_vars => HistoryInv'
  BY HistoryKept
<1>. QED
  BY <1>1, NoneLost, InitHolds, HistoryInit, IInvKept, PTL DEF Spec
=============================================================================
