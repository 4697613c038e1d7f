------------------------ MODULE GroupSessionProofs ------------------------
(***************************************************************************)
(* GroupSession, step by step: what is read back of a stored record, what  *)
(* each call does to it, and that the steps of the sender, and those of a  *)
(* receiver, keep their parts of the invariant.  The theorems are in       *)
(* GroupSessionTheorems.                                                   *)
(***************************************************************************)
EXTENDS GroupSession, MessageKeysProofs

\* Leaves without a prover of their own: SMT, again with more time, then Zenon.
USE SMTT(10), SMTT(20), SMTT(30), ZenonT(10)

\* The states of a record that has been loaded, and what is sent.
States ==
  [id : SenderKeyIds, iteration : Nat, seed : Seeds, public : SigningKeys,
   private : SigningKeys \union {None}, keys : Seq(Nat)]

Distributions ==
  [id : SenderKeyIds, iteration : Nat, seed : Seeds, signature_key : SigningKeys]

Messages ==
  [id : SenderKeyIds, iteration : Nat, key : Seeds \X Nat, signature : SigningKeys, body : Nat]

\* The stored records as the calls load them.
Own == LoadSenderKey(own)

Record(r) == LoadSenderKey(records[r])

\* The chain of a state, as GetOrCreateMessageKeys sees it.
Chain(state) == [index |-> state.iteration, keys |-> state.keys]

-----------------------------------------------------------------------------
(* The inductive invariant *)

TypeInv ==
  /\ created \in 0..MaxCreated
  /\ own \in {None} \union Seq(StoredStates)
  /\ own # None => Len(own) = 1
  /\ records \in [Receiver -> {None} \union Seq(StoredStates)]
  /\ Own \in Seq(States) /\ Len(Own) <= 1
  /\ \A r \in Receiver : Record(r) \in Seq(States)
  /\ distributions \subseteq Distributions
  /\ net \subseteq Messages
  /\ joined \in [Receiver -> Seq(Distributions)]

\* Every sender key is one that was made, its signing key is its own, and the sender's
\* record holds the one made last.
KeyInv ==
  /\ \A d \in distributions :
       d.seed[2] \in 1..created /\ d.signature_key = SigningKey(d.seed[2])
  /\ \A m \in net :
       /\ m.key[1][2] \in 1..created /\ m.signature = SigningKey(m.key[1][2])
       /\ m.key[2] = m.iteration
  /\ Own # <<>> =>
       /\ Own[1].seed = Seed(created) /\ created > 0
       /\ Own[1].public = SigningKey(created) /\ Own[1].private = SigningKey(created)

\* A sender key has one id, and what was sent of it is behind the sender's chain.
IdInv ==
  /\ \A m \in net, d \in distributions : m.key[1] = d.seed => m.id = d.id
  /\ Own # <<>> =>
       /\ \A d \in distributions :
            d.seed = Own[1].seed => d.id = Own[1].id /\ d.iteration <= Own[1].iteration
       /\ \A m \in net :
            m.key[1] = Own[1].seed => m.id = Own[1].id /\ m.iteration < Own[1].iteration

\* The messages are numbered.
NetInv ==
  /\ \A m \in net : m.body \in 1..MaxMessages
  /\ \A m1, m2 \in net : m1.body = m2.body => m1 = m2

SenderInv == TypeInv /\ KeyInv /\ IdInv /\ NetInv /\ NoKeyReuse

\* The states of the record of r are those of the distributions processed last, and
\* no chain is ahead of the sender's.
MatchInv(r) ==
  /\ Len(Record(r)) = IF Len(joined[r]) <= MAX_STATES THEN Len(joined[r]) ELSE MAX_STATES
  /\ \A i \in 1..Len(joined[r]) : joined[r][i] \in distributions
  /\ \A i \in 1..Len(Record(r)) :
       /\ Record(r)[i].id = joined[r][i].id
       /\ Record(r)[i].seed = joined[r][i].seed
       /\ Record(r)[i].public = joined[r][i].signature_key
       /\ Record(r)[i].private = None
       /\ ChainOK(Chain(Record(r)[i]))
       /\ Own # <<>> /\ Record(r)[i].seed = Own[1].seed
            => Record(r)[i].iteration <= Own[1].iteration

\* A message that a chain of r has passed was given to the application, or its key is
\* kept, or too many later ones have been reached.
ReachInv(r) ==
  \A m \in net, i \in 1..Len(Record(r)) :
    /\ Record(r)[i].seed = m.key[1]
    /\ joined[r][i].iteration <= m.iteration
    /\ m.iteration < Record(r)[i].iteration
    => \/ m.body \in kept[r]
       \/ Contains(Record(r)[i].keys, m.iteration)
       \/ Record(r)[i].iteration - m.iteration > MAX_MESSAGE_KEYS + 1

\* The inductive invariant.
IInv ==
  /\ SenderInv
  /\ \A r \in Receiver : MatchInv(r)
  /\ kept \in [Receiver -> SUBSET Nat]
  /\ \A r \in Receiver : ReachInv(r)

-----------------------------------------------------------------------------
(* Stored records *)

\* What sender_key_state_serialize_prepare writes of the signing key, and what is read
\* back: a receiver has no private key.
LEMMA SigningKeyRead ==
  ASSUME NEW public \in SigningKeys, NEW private \in SigningKeys \union {None}
  PROVE  LET stored == Present([public |-> public, private |-> private])
             read == Filled(stored, [public |-> None, private |-> None])
         IN /\ stored \in [public : SigningKeys] \union [public : SigningKeys, private : SigningKeys]
            /\ read.public = public /\ read.private = private
<1>. DEFINE r == [public |-> public, private |-> private]
            stored == Present(r)
            read == Filled(stored, [public |-> None, private |-> None])
<1>1. public # None
  BY NoneAssumption
<1>2. DOMAIN r = {"public", "private"} /\ r.public = public /\ r.private = private
  OBVIOUS
<1>3. stored = [f \in {g \in {"public", "private"} : r[g] # None} |-> r[f]]
  BY <1>2 DEF Present
<1>. HIDE DEF r
<1>4. CASE private = None
  <2>1. {g \in {"public", "private"} : r[g] # None} = {"public"}
    BY <1>1, <1>2, <1>4
  <2>2. stored = [public |-> public]
    BY <1>2, <1>3, <2>1
  <2>. HIDE DEF stored
  <2>3. stored \in [public : SigningKeys]
    BY <2>2
  <2>4. read.public = public /\ read.private = None
    BY <2>2 DEF Filled
  <2>. QED
    BY <1>4, <2>3, <2>4 DEF r, stored
<1>5. CASE private # None
  <2>1. {g \in {"public", "private"} : r[g] # None} = {"public", "private"}
    BY <1>1, <1>2, <1>5
  <2>2. stored = [public |-> public, private |-> private]
    BY <1>2, <1>3, <2>1
  <2>. HIDE DEF stored
  <2>3. stored \in [public : SigningKeys, private : SigningKeys]
    BY <1>5, <2>2
  <2>4. read.public = public /\ read.private = private
    BY <2>2 DEF Filled
  <2>. QED
    BY <2>3, <2>4 DEF r, stored
<1>. QED
  BY <1>4, <1>5

\* A state is stored and read back unchanged.
LEMMA StateRead ==
  ASSUME NEW state \in States
  PROVE  /\ SerializeSenderKeyState(state) \in StoredStates
         /\ DeserializeSenderKeyState(SerializeSenderKeyState(state)) = state
<1>. DEFINE signing == Present([public |-> state.public, private |-> state.private])
            keys == [i \in DOMAIN state.keys |->
                       [iteration |-> state.keys[i],
                        seed |-> CreateMessageKey(state.seed, state.keys[i])]]
            stored == SerializeSenderKeyState(state)
            read == Filled(signing, [public |-> None, private |-> None])
<1>1. /\ state.id \in SenderKeyIds /\ state.iteration \in Nat /\ state.seed \in Seeds
      /\ state.public \in SigningKeys /\ state.private \in SigningKeys \union {None}
      /\ state.keys \in Seq(Nat)
  BY DEF States
<1>2. /\ signing \in [public : SigningKeys] \union [public : SigningKeys, private : SigningKeys]
      /\ read.public = state.public /\ read.private = state.private
  BY <1>1, SigningKeyRead
<1>3. /\ keys \in Seq([iteration : Nat, seed : Seeds \X Nat])
      /\ [i \in DOMAIN keys |-> keys[i].iteration] = state.keys
  <2>. DEFINE n == Len(state.keys)
              f == [i \in DOMAIN keys |-> keys[i].iteration]
  <2>1. n \in Nat /\ DOMAIN state.keys = 1..n /\ \A i \in 1..n : state.keys[i] \in Nat
    BY <1>1
  <2>2. ASSUME NEW i \in 1..n
        PROVE  keys[i] \in [iteration : Nat, seed : Seeds \X Nat] /\ keys[i].iteration = state.keys[i]
    BY <1>1, <2>1 DEF CreateMessageKey
  <2>3. keys \in [1..n -> [iteration : Nat, seed : Seeds \X Nat]]
    BY <2>1, <2>2, Zenon
  <2>. HIDE DEF keys, n
  <2>4. DOMAIN keys = 1..n
    BY <2>3
  <2>5. f \in [1..n -> Nat] /\ \A i \in 1..n : f[i] = state.keys[i]
    BY <2>1, <2>2, <2>4
  <2>. HIDE DEF f
  <2>6. f = state.keys
    BY <1>1, <2>5, SameEntries DEF n
  <2>. QED
    BY <2>1, <2>3, <2>6, FunctionIsSeq, Zenon DEF f
<1>5. stored = [senderKeyId |-> state.id,
                senderChainKey |-> [iteration |-> state.iteration, seed |-> state.seed],
                senderSigningKey |-> signing, senderMessageKeys |-> keys]
  BY DEF SerializeSenderKeyState
<1>. HIDE DEF signing, keys, stored
<1>6. stored \in StoredStates
  BY <1>1, <1>2, <1>3, <1>5 DEF StoredStates
<1>7. DeserializeSenderKeyState(stored) =
        [id |-> state.id, iteration |-> state.iteration, seed |-> state.seed,
         public |-> state.public, private |-> state.private, keys |-> state.keys]
  <2>1. DeserializeSenderKeyState(stored) =
          [[id |-> state.id, iteration |-> state.iteration, seed |-> state.seed,
            public |-> read.public, private |-> read.private, keys |-> <<>>]
             EXCEPT !.keys = [i \in DOMAIN keys |-> keys[i].iteration]]
    BY <1>5 DEF DeserializeSenderKeyState, SenderKeyState
  <2>. HIDE DEF read
  <2>. QED
    BY <1>2, <1>3, <2>1, Zenon
<1>. QED
  BY <1>6, <1>7 DEF States, stored

\* sender_key_record_serialize and sender_key_record_deserialize: a record is loaded as it
\* was stored.
LEMMA RecordRead ==
  ASSUME NEW record \in Seq(States)
  PROVE  LET stored == SerializeSenderKeyRecord(record)
         IN /\ stored \in Seq(StoredStates) /\ stored # None /\ Len(stored) = Len(record)
            /\ LoadSenderKey(stored) = record
<1>. DEFINE stored == SerializeSenderKeyRecord(record)
<1>1. stored = [i \in 1..Len(record) |-> SerializeSenderKeyState(record[i])]
  BY DEF SerializeSenderKeyRecord
<1>2. ASSUME NEW i \in 1..Len(record)
      PROVE  /\ SerializeSenderKeyState(record[i]) \in StoredStates
             /\ DeserializeSenderKeyState(SerializeSenderKeyState(record[i])) = record[i]
  BY StateRead
<1>3. stored \in Seq(StoredStates) /\ Len(stored) = Len(record)
  BY <1>1, <1>2
<1>4. stored # None
  BY <1>3, NoneAssumption
<1>5. LoadSenderKey(stored) = [i \in DOMAIN stored |-> DeserializeSenderKeyState(stored[i])]
  BY <1>4 DEF LoadSenderKey, DeserializeSenderKeyRecord
<1>6. DOMAIN stored = 1..Len(record) /\ \A i \in 1..Len(record) : DeserializeSenderKeyState(stored[i]) = record[i]
  BY <1>1, <1>2
<1>. HIDE DEF stored
<1>7. LoadSenderKey(stored) = record
  BY <1>5, <1>6
<1>. QED
  BY <1>3, <1>4, <1>7 DEF stored

-----------------------------------------------------------------------------
(* What the calls do *)

\* sender_key_record_add_sender_key_state_impl: the new state comes first, and the one
\* added first goes when there is no room.
LEMMA StateAdded ==
  ASSUME NEW record \in Seq(States), NEW state \in States
  PROVE  LET after == AddSenderKeyState(record, state)
         IN /\ after \in Seq(States)
            /\ Len(after) = IF Len(record) + 1 <= MAX_STATES THEN Len(record) + 1 ELSE MAX_STATES
            /\ after[1] = state
            /\ \A i \in 2..Len(after) : after[i] = record[i - 1]
<1>. DEFINE n == Len(record)
            long == <<state>> \o record
            m == IF n + 1 <= MAX_STATES THEN n + 1 ELSE MAX_STATES
            after == SubSeq(long, 1, m)
<1>1. n \in Nat /\ MAX_STATES \in Nat /\ MAX_STATES > 0
  BY StatesAssumption
<1>2. long \in Seq(States) /\ Len(long) = n + 1 /\ long[1] = state
  OBVIOUS
<1>3. \A i \in 2..(n + 1) : long[i] = record[i - 1]
  OBVIOUS
<1>. HIDE DEF n, long
<1>4. Min({n + 1, MAX_STATES}) = m
  BY <1>1 DEF Min
<1>5. AddSenderKeyState(record, state) = after
  BY <1>4, Zenon DEF AddSenderKeyState, long, n
<1>6. m \in Nat /\ m <= n + 1 /\ m >= 1
  BY <1>1
<1>. HIDE DEF m
<1>7. after \in Seq(States) /\ Len(after) = m /\ \A i \in 1..m : after[i] = long[i]
  BY <1>2, <1>6
<1>. HIDE DEF after
<1>8. after[1] = state
  BY <1>2, <1>6, <1>7
<1>9. ASSUME NEW i \in 2..m PROVE after[i] = record[i - 1]
  BY <1>1, <1>3, <1>6, <1>7
<1>. QED
  BY <1>5, <1>7, <1>8, <1>9 DEF m, n

\* sender_key_state_create makes a state of a record.
LEMMA StateCreated ==
  ASSUME NEW id \in SenderKeyIds, NEW iteration \in Nat, NEW seed \in Seeds,
         NEW public \in SigningKeys, NEW private \in SigningKeys \union {None}
  PROVE  LET state == SenderKeyState(id, iteration, seed, public, private)
         IN /\ state \in States
            /\ state.id = id /\ state.iteration = iteration /\ state.seed = seed
            /\ state.public = public /\ state.private = private /\ state.keys = <<>>
BY DEF SenderKeyState, States

\* sender_chain_key_create_next moves the iteration and nothing else.
LEMMA NextCreated ==
  ASSUME NEW state \in States
  PROVE  LET next == CreateNext(state)
         IN /\ next \in States
            /\ next.id = state.id /\ next.iteration = state.iteration + 1
            /\ next.seed = state.seed /\ next.public = state.public
            /\ next.private = state.private /\ next.keys = state.keys
BY DEF CreateNext, States

\* group_session_builder_create_session makes a new sender key, or hands the current one
\* out again.
CreatedNew(id) ==
  /\ Own = <<>>
  /\ created' = created + 1 /\ created' \in 0..MaxCreated
  /\ own' \in Seq(StoredStates) /\ Len(own') = 1
  /\ Own' \in Seq(States) /\ Len(Own') = 1
  /\ Own'[1].id = id /\ Own'[1].iteration = 0 /\ Own'[1].seed = Seed(created')
  /\ Own'[1].public = SigningKey(created') /\ Own'[1].private = SigningKey(created')
  /\ distributions' = distributions \union {Distribution(Own'[1])}

CreatedAgain ==
  /\ Own # <<>>
  /\ own' = own /\ created' = created
  /\ distributions' = distributions \union {Distribution(Own[1])}

LEMMA CreateEffect ==
  ASSUME TypeInv, NEW id \in SenderKeyIds, CreateSession(id)
  PROVE  /\ CreatedNew(id) \/ CreatedAgain
         /\ UNCHANGED <<records, net, joined, returned, kept>>
<1>. DEFINE n == created + 1
            state == SenderKeyState(id, 0, Seed(n), SigningKey(n), SigningKey(n))
            new == SetSenderKeyState(Own, state)
<1>1. UNCHANGED <<records, net, joined, returned, kept>>
  BY DEF CreateSession
<1>2. CASE Own = <<>>
  <2>1. /\ created' = n /\ n <= MaxCreated /\ own' = SerializeSenderKeyRecord(new)
        /\ distributions' = distributions \union {Distribution(new[1])}
    BY <1>2 DEF CreateSession, Own
  <2>2. n \in 0..MaxCreated /\ Seed(n) \in Seeds /\ SigningKey(n) \in SigningKeys
    BY <2>1, GroupAssumption DEF TypeInv, Seed, SigningKey, Seeds, SigningKeys
  <2>3. /\ state \in States
        /\ state.id = id /\ state.iteration = 0 /\ state.seed = Seed(n)
        /\ state.public = SigningKey(n) /\ state.private = SigningKey(n)
    <3>. DEFINE seed == Seed(n)
                public == SigningKey(n)
    <3>1. seed \in Seeds /\ public \in SigningKeys /\ public \in SigningKeys \union {None}
      BY <2>2
    <3>2. 0 \in Nat
      OBVIOUS
    <3>. HIDE DEF seed, public
    <3>3. LET made == SenderKeyState(id, 0, seed, public, public)
          IN /\ made \in States
             /\ made.id = id /\ made.iteration = 0 /\ made.seed = seed
             /\ made.public = public /\ made.private = public
      BY <3>1, <3>2, StateCreated
    <3>. QED
      BY <3>3 DEF seed, public
  <2>. HIDE DEF state
  <2>4. new \in Seq(States) /\ Len(new) = 1 /\ new[1] = state
    <3>1. Own \in Seq(States) /\ Len(Own) = 0
      BY <1>2 DEF TypeInv
    <3>2. new = AddSenderKeyState(Own, state)
      BY <1>2 DEF SetSenderKeyState
    <3>. HIDE DEF new
    <3>3. new \in Seq(States) /\ new[1] = state
      BY <2>3, <3>1, <3>2, StateAdded, Zenon
    <3>4. Len(new) = IF Len(Own) + 1 <= MAX_STATES THEN Len(Own) + 1 ELSE MAX_STATES
      BY <2>3, <3>1, <3>2, StateAdded, Zenon
    <3>. QED
      BY <3>1, <3>3, <3>4, StatesAssumption
  <2>. HIDE DEF new
  <2>5. own' \in Seq(StoredStates) /\ Len(own') = 1 /\ Own' = new
    BY <2>1, <2>4, RecordRead DEF Own
  <2>. QED
    BY <1>1, <1>2, <2>1, <2>2, <2>3, <2>4, <2>5 DEF CreatedNew
<1>3. CASE Own # <<>>
  BY <1>1, <1>3 DEF CreateSession, Own, CreatedAgain
<1>. QED
  BY <1>2, <1>3

\* group_cipher_encrypt hands out a message and stores the advanced chain, or does neither.
Sent(m) ==
  /\ Own # <<>>
  /\ m.id = Own[1].id /\ m.iteration = Own[1].iteration
  /\ m.key = <<Own[1].seed, Own[1].iteration>>
  /\ m.signature = Own[1].private
  /\ m.body \in 1..MaxMessages /\ \A n \in net : n.body # m.body
  /\ DOMAIN m = {"id", "iteration", "key", "signature", "body"}
  /\ m = [id |-> m.id, iteration |-> m.iteration, key |-> m.key, signature |-> m.signature,
          body |-> m.body]
  /\ own' \in Seq(StoredStates) /\ Len(own') = 1
  /\ Own' \in Seq(States) /\ Len(Own') = 1
  /\ Own'[1].id = Own[1].id /\ Own'[1].iteration = Own[1].iteration + 1
  /\ Own'[1].seed = Own[1].seed /\ Own'[1].public = Own[1].public
  /\ Own'[1].private = Own[1].private
  /\ net' = net \union {m}

LEMMA EncryptEffect ==
  ASSUME TypeInv, NEW body \in 1..MaxMessages, NEW outcome \in GroupOutcomes,
         Encrypt(body, outcome)
  PROVE  /\ UNCHANGED <<own, net>> \/ \E m : Sent(m)
         /\ UNCHANGED <<records, created, distributions, joined, returned, kept>>
<1>. DEFINE next == [Own EXCEPT ![1] = CreateNext(@)]
            message == [id |-> Own[1].id, iteration |-> Own[1].iteration,
                        key |-> CreateMessageKey(Own[1].seed, Own[1].iteration),
                        signature |-> Own[1].private, body |-> body]
<1>0. {n.body : n \in net} = 1..(body - 1)
  BY DEF Encrypt
<1>1. /\ Own # <<>>
      /\ UNCHANGED <<records, created, distributions, joined, returned, kept>>
      /\ \/ own' = own /\ net' = net
         \/ own' = SerializeSenderKeyRecord(next) /\ net' = net \union {message}
  BY DEF Encrypt, GroupReleasedOutcomes, Own
<1>2. CASE own' = SerializeSenderKeyRecord(next) /\ net' = net \union {message}
  <2>1. Own \in Seq(States) /\ Len(Own) = 1 /\ Own[1] \in States
    <3>1. Own \in Seq(States) /\ Len(Own) <= 1
      BY DEF TypeInv
    <3>2. Own # <<>>
      BY <1>1
    <3>. QED
      BY <3>1, <3>2, SingleEntry
  <2>. DEFINE state == CreateNext(Own[1])
  <2>2. /\ state \in States /\ state.id = Own[1].id /\ state.iteration = Own[1].iteration + 1
        /\ state.seed = Own[1].seed /\ state.public = Own[1].public
        /\ state.private = Own[1].private
    BY <2>1, NextCreated
  <2>3. next = [Own EXCEPT ![1] = state]
    BY <2>1
  <2>. HIDE DEF state
  <2>4. next \in Seq(States) /\ Len(next) = 1 /\ next[1] = state
    BY <2>1, <2>2, <2>3
  <2>. HIDE DEF next
  <2>5. own' \in Seq(StoredStates) /\ Len(own') = 1 /\ Own' = next
    BY <1>2, <2>4, RecordRead DEF Own
  <2>6. /\ message.id = Own[1].id /\ message.iteration = Own[1].iteration
        /\ message.key = <<Own[1].seed, Own[1].iteration>>
        /\ message.signature = Own[1].private /\ message.body = body
        /\ DOMAIN message = {"id", "iteration", "key", "signature", "body"}
    BY DEF CreateMessageKey
  <2>7. message = [id |-> message.id, iteration |-> message.iteration, key |-> message.key,
                   signature |-> message.signature, body |-> message.body]
    OBVIOUS
  <2>8. ASSUME NEW n \in net PROVE n.body # body
    <3>1. n.body \in 1..(body - 1)
      BY <1>0
    <3>. QED
      BY <3>1, GroupAssumption
  <2>. HIDE DEF message
  <2>9. Sent(message)
    BY <1>1, <1>2, <2>1, <2>2, <2>4, <2>5, <2>6, <2>7, <2>8 DEF Sent
  <2>. QED
    BY <1>1, <2>9
<1>. QED
  BY <1>1, <1>2

\* group_session_builder_process_session: the state of the distribution comes first.
LEMMA ProcessEffect ==
  ASSUME TypeInv, NEW r \in Receiver, NEW d \in distributions, ProcessSession(r, d)
  PROVE  LET state == SenderKeyState(d.id, d.iteration, d.seed, d.signature_key, None)
         IN /\ d \in Distributions /\ state \in States
            /\ state.id = d.id /\ state.iteration = d.iteration /\ state.seed = d.seed
            /\ state.public = d.signature_key /\ state.private = None /\ state.keys = <<>>
            /\ Record(r)' = AddSenderKeyState(Record(r), state)
            /\ Record(r)' \in Seq(States)
            /\ records' \in [Receiver -> {None} \union Seq(StoredStates)]
            /\ \A q \in Receiver : q # r => Record(q)' = Record(q) /\ joined'[q] = joined[q]
            /\ joined'[r] = <<d>> \o joined[r]
            /\ joined' \in [Receiver -> Seq(Distributions)]
            /\ Own' = Own
            /\ UNCHANGED <<own, created, distributions, net, returned, kept>>
<1>. DEFINE state == SenderKeyState(d.id, d.iteration, d.seed, d.signature_key, None)
            after == AddSenderKeyState(Record(r), state)
<1>1. d \in Distributions
  BY DEF TypeInv
<1>2. /\ state \in States
      /\ state.id = d.id /\ state.iteration = d.iteration /\ state.seed = d.seed
      /\ state.public = d.signature_key /\ state.private = None /\ state.keys = <<>>
  BY <1>1, StateCreated DEF Distributions
<1>3. Record(r) \in Seq(States)
  BY DEF TypeInv
<1>4. /\ records' = [records EXCEPT ![r] = SerializeSenderKeyRecord(after)]
      /\ joined' = [joined EXCEPT ![r] = <<d>> \o joined[r]]
      /\ UNCHANGED <<own, created, distributions, net, returned, kept>>
  BY DEF ProcessSession, Record
<1>. HIDE DEF state
<1>5. after \in Seq(States)
  BY <1>2, <1>3, StateAdded
<1>. HIDE DEF after
<1>6. /\ SerializeSenderKeyRecord(after) \in Seq(StoredStates)
      /\ LoadSenderKey(SerializeSenderKeyRecord(after)) = after
  BY <1>5, RecordRead
<1>7. /\ records \in [Receiver -> {None} \union Seq(StoredStates)]
      /\ joined \in [Receiver -> Seq(Distributions)]
  BY DEF TypeInv
<1>8. records' \in [Receiver -> {None} \union Seq(StoredStates)] /\ Record(r)' = after
  BY <1>4, <1>6, <1>7 DEF Record
<1>9. ASSUME NEW q \in Receiver, q # r PROVE Record(q)' = Record(q) /\ joined'[q] = joined[q]
  BY <1>4, <1>7, <1>9 DEF Record
<1>10. joined'[r] = <<d>> \o joined[r] /\ joined' \in [Receiver -> Seq(Distributions)]
  <2>1. joined[r] \in Seq(Distributions)
    BY <1>7
  <2>2. <<d>> \o joined[r] \in Seq(Distributions)
    BY <1>1, <2>1
  <2>. QED
    BY <1>4, <1>7, <2>2
<1>11. Own' = Own
  BY <1>4 DEF Own
<1>. QED
  BY <1>1, <1>2, <1>4, <1>5, <1>8, <1>9, <1>10, <1>11 DEF state, after

\* What a successful decryption makes of the i-th state.
StateUsed(state, m, after) ==
  /\ after \in States
  /\ after.id = state.id /\ after.seed = state.seed /\ after.public = state.public
  /\ after.private = state.private
  /\ KeyTaken(Chain(state), m.iteration, Chain(after))

\* group_cipher_decrypt of m for r takes the key of m from one state of the record, and
\* stores the record and returns the plaintext, or does neither.
Decrypted(r, m, outcome) ==
  /\ m \in Messages
  /\ \E i \in 1..Len(Record(r)) : \E new \in States :
       /\ Record(r)[i].id = m.id /\ Record(r)[i].public = m.signature
       /\ StateUsed(Record(r)[i], m, new)
       /\ outcome = "ok" => Record(r)' = [Record(r) EXCEPT ![i] = new]
  /\ outcome # "ok" => records' = records /\ returned' = returned /\ Record(r)' = Record(r)
  /\ Record(r)' \in Seq(States)
  /\ records' \in [Receiver -> {None} \union Seq(StoredStates)]
  /\ \A q \in Receiver : q # r => Record(q)' = Record(q)
  /\ outcome = "ok" => returned' = [returned EXCEPT ![r][m.body] = @ + 1]
  /\ kept' = kept \/ kept' = [kept EXCEPT ![r] = @ \union {m.body}]
  /\ outcome = "ok" => kept' = [kept EXCEPT ![r] = @ \union {m.body}]
  /\ Own' = Own
  /\ UNCHANGED <<own, created, distributions, net, joined>>

-----------------------------------------------------------------------------
(* The sender's part of the invariant *)

LEMMA InitHolds == Init => IInv
<1>. SUFFICES ASSUME Init PROVE IInv
  OBVIOUS
<1>1. Own = <<>> /\ \A r \in Receiver : Record(r) = <<>> /\ joined[r] = <<>>
  BY DEF Init, Own, Record, LoadSenderKey
<1>2. <<>> \in Seq(States) /\ <<>> \in Seq(Distributions) /\ Len(<<>>) = 0
  OBVIOUS
<1>3. TypeInv
  <2>1. /\ created \in 0..MaxCreated /\ own \in {None} \union Seq(StoredStates) /\ own = None
        /\ records \in [Receiver -> {None} \union Seq(StoredStates)]
    BY GroupAssumption DEF Init
  <2>2. joined \in [Receiver -> Seq(Distributions)]
    BY <1>2 DEF Init
  <2>3. Own \in Seq(States) /\ Len(Own) <= 1 /\ \A r \in Receiver : Record(r) \in Seq(States)
    <3>1. Len(Own) = 0
      BY <1>1
    <3>2. Own \in Seq(States)
      BY <1>1
    <3>3. ASSUME NEW r \in Receiver PROVE Record(r) \in Seq(States)
      <4>1. Record(r) = <<>>
        BY <1>1
      <4>. QED
        BY <4>1
    <3>. QED
      BY <3>1, <3>2, <3>3
  <2>4. distributions \subseteq Distributions /\ net \subseteq Messages
    BY DEF Init
  <2>. QED
    BY <2>1, <2>2, <2>3, <2>4 DEF TypeInv
<1>4. KeyInv /\ IdInv /\ NoKeyReuse
  BY <1>1 DEF Init, KeyInv, IdInv, NoKeyReuse
<1>5. NetInv
  BY DEF Init, NetInv
<1>6. ASSUME NEW r \in Receiver PROVE MatchInv(r) /\ ReachInv(r)
  BY <1>1, <1>2, StatesAssumption DEF MatchInv, ReachInv
<1>7. kept \in [Receiver -> SUBSET Nat]
  BY DEF Init
<1>. QED
  BY <1>3, <1>4, <1>5, <1>6, <1>7 DEF IInv, SenderInv

LEMMA CreateKeepsSender ==
  ASSUME SenderInv, NEW id \in SenderKeyIds, CreateSession(id)
  PROVE  SenderInv'
<1>1. TypeInv /\ KeyInv /\ IdInv /\ NetInv /\ NoKeyReuse
  BY DEF SenderInv
<1>2. /\ CreatedNew(id) \/ CreatedAgain
      /\ UNCHANGED <<records, net, joined, returned, kept>>
  BY <1>1, CreateEffect
<1>3. NetInv' /\ NoKeyReuse'
  BY <1>1, <1>2 DEF NetInv, NoKeyReuse
<1>4. \A r \in Receiver : Record(r)' = Record(r)
  BY <1>2 DEF Record
<1>5. CASE CreatedNew(id)
  <2>. DEFINE state == Own'[1]
  <2>1. state \in States /\ Own' # <<>>
    <3>1. Own' \in Seq(States) /\ Len(Own') = 1
      BY <1>5 DEF CreatedNew
    <3>. QED
      BY <3>1
  <2>2. /\ Distribution(state) \in Distributions
        /\ Distribution(state).id = state.id /\ Distribution(state).iteration = state.iteration
        /\ Distribution(state).seed = state.seed
        /\ Distribution(state).signature_key = state.public
    BY <2>1 DEF Distribution, Distributions, States
  <2>3. /\ distributions' = distributions \union {Distribution(state)}
        /\ created \in Nat /\ created' = created + 1 /\ created' \in 0..MaxCreated
        /\ state.seed = Seed(created') /\ state.public = SigningKey(created')
        /\ state.private = SigningKey(created') /\ state.iteration = 0
        /\ own' \in Seq(StoredStates) /\ Len(own') = 1 /\ Own' \in Seq(States) /\ Len(Own') = 1
    BY <1>1, <1>5 DEF CreatedNew, TypeInv
  <2>4. Seed(created')[2] = created'
    BY DEF Seed
  <2>5. TypeInv'
    BY <1>1, <1>2, <1>4, <2>2, <2>3 DEF TypeInv
  <2>. HIDE DEF state
  <2>6. \A d \in distributions : d.seed[2] \in 1..created /\ d.signature_key = SigningKey(d.seed[2])
    BY <1>1 DEF KeyInv
  <2>7. \A m \in net : /\ m.key[1][2] \in 1..created /\ m.signature = SigningKey(m.key[1][2])
                       /\ m.key[2] = m.iteration
    BY <1>1 DEF KeyInv
  <2>8. KeyInv'
    <3>1. ASSUME NEW d \in distributions'
          PROVE  d.seed[2] \in 1..created' /\ d.signature_key = SigningKey(d.seed[2])
      BY <2>2, <2>3, <2>4, <2>6
    <3>2. ASSUME NEW m \in net'
          PROVE  /\ m.key[1][2] \in 1..created' /\ m.signature = SigningKey(m.key[1][2])
                 /\ m.key[2] = m.iteration
      BY <1>2, <2>3, <2>7
    <3>3. created' > 0
      BY <2>3
    <3>. QED
      BY <2>3, <3>1, <3>2, <3>3 DEF KeyInv, state
  <2>9. IdInv'
    <3>1. ASSUME NEW m \in net', NEW d \in distributions', m.key[1] = d.seed PROVE m.id = d.id
      <4>1. m \in net /\ m.key[1][2] # created'
        BY <1>2, <2>3, <2>7
      <4>2. d \in distributions
        BY <2>2, <2>3, <2>4, <3>1, <4>1
      <4>. QED
        BY <1>1, <3>1, <4>1, <4>2 DEF IdInv
    <3>2. ASSUME NEW d \in distributions', d.seed = state.seed
          PROVE  d.id = state.id /\ d.iteration <= state.iteration
      <4>1. d \notin distributions
        BY <2>3, <2>4, <2>6, <3>2
      <4>. QED
        BY <2>2, <2>3, <4>1
    <3>3. ASSUME NEW m \in net', m.key[1] = state.seed PROVE FALSE
      BY <1>2, <2>3, <2>4, <2>7, <3>3
    <3>. QED
      BY <3>1, <3>2, <3>3 DEF IdInv, state
  <2>. QED
    BY <1>3, <2>5, <2>8, <2>9 DEF SenderInv
<1>6. CASE CreatedAgain
  <2>. DEFINE d == Distribution(Own[1])
  <2>1. Own' = Own /\ own' = own /\ created' = created /\ Own # <<>>
    BY <1>6 DEF CreatedAgain, Own
  <2>2. Own[1] \in States
    <3>1. Own \in Seq(States) /\ Len(Own) <= 1
      BY <1>1 DEF TypeInv
    <3>. QED
      BY <2>1, <3>1
  <2>3. /\ d \in Distributions /\ d.id = Own[1].id /\ d.iteration = Own[1].iteration
        /\ d.seed = Own[1].seed /\ d.signature_key = Own[1].public /\ Own[1].iteration \in Nat
    BY <2>2 DEF Distribution, Distributions, States
  <2>4. distributions' = distributions \union {d}
    BY <1>6 DEF CreatedAgain
  <2>. HIDE DEF d
  <2>5. TypeInv'
    BY <1>1, <1>2, <1>4, <2>1, <2>3, <2>4 DEF TypeInv
  <2>6. /\ Own[1].seed = Seed(created) /\ created > 0 /\ created \in Nat
        /\ Own[1].public = SigningKey(created)
    BY <1>1, <2>1 DEF KeyInv, TypeInv
  <2>7. Seed(created)[2] = created
    BY DEF Seed
  <2>8. KeyInv'
    <3>1. d.seed[2] \in 1..created' /\ d.signature_key = SigningKey(d.seed[2])
      BY <2>1, <2>3, <2>6, <2>7
    <3>. QED
      BY <1>1, <1>2, <2>1, <2>4, <3>1 DEF KeyInv
  <2>9. IdInv'
    <3>1. \A m \in net : m.key[1] = d.seed => m.id = d.id
      BY <1>1, <2>1, <2>3 DEF IdInv
    <3>2. d.id = Own[1].id /\ d.iteration <= Own[1].iteration
      BY <2>3
    <3>. QED
      BY <1>1, <1>2, <2>1, <2>4, <3>1, <3>2 DEF IdInv
  <2>. QED
    BY <1>3, <2>5, <2>8, <2>9 DEF SenderInv
<1>. QED
  BY <1>2, <1>5, <1>6

LEMMA EncryptKeepsSender ==
  ASSUME SenderInv, NEW m, Sent(m),
         UNCHANGED <<records, created, distributions, joined, returned, kept>>
  PROVE  SenderInv'
<1>1. TypeInv /\ KeyInv /\ IdInv /\ NetInv /\ NoKeyReuse
  BY DEF SenderInv
<1>2. \A r \in Receiver : Record(r)' = Record(r)
  BY DEF Record
<1>. DEFINE state == Own[1]
<1>3. Own \in Seq(States) /\ state \in States
  <2>1. Own \in Seq(States) /\ Len(Own) <= 1 /\ Own # <<>>
    BY <1>1 DEF TypeInv, Sent
  <2>. QED
    BY <2>1
<1>4. /\ state.seed = Seed(created) /\ created > 0 /\ created \in Nat
      /\ state.public = SigningKey(created) /\ state.private = SigningKey(created)
  BY <1>1 DEF KeyInv, TypeInv, Sent
<1>5. /\ state.id \in SenderKeyIds /\ state.iteration \in Nat /\ state.seed \in Seeds
      /\ state.public \in SigningKeys
  BY <1>3 DEF States
<1>6. m.body \in 1..MaxMessages /\ m.body \in Nat /\ \A n \in net : n.body # m.body
  BY GroupAssumption DEF Sent
<1>. HIDE DEF state
<1>7. /\ m.id = state.id /\ m.iteration = state.iteration /\ m.key = <<state.seed, state.iteration>>
      /\ m.signature = state.private
      /\ net' = net \union {m}
      /\ Own'[1].id = state.id /\ Own'[1].iteration = state.iteration + 1
      /\ Own'[1].seed = state.seed /\ Own'[1].public = state.public
      /\ Own'[1].private = state.private /\ Own' # <<>>
  <2>1. Own' \in Seq(States) /\ Len(Own') = 1
    BY DEF Sent
  <2>2. Own' # <<>>
    BY <2>1
  <2>. QED
    BY <2>2 DEF Sent, state
<1>8. m.key \in Seeds \X Nat /\ m.key[1] = state.seed /\ m.key[2] = state.iteration
  BY <1>5, <1>7
<1>9. m \in Messages
  <2>1. m = [id |-> m.id, iteration |-> m.iteration, key |-> m.key, signature |-> m.signature,
             body |-> m.body]
    BY DEF Sent
  <2>2. /\ m.id \in SenderKeyIds /\ m.iteration \in Nat /\ m.signature \in SigningKeys
        /\ m.body \in Nat
    BY <1>4, <1>5, <1>6, <1>7
  <2>. QED
    BY <1>8, <2>1, <2>2 DEF Messages
<1>10. TypeInv'
  <2>1. own' \in Seq(StoredStates) /\ Len(own') = 1 /\ Own' \in Seq(States) /\ Len(Own') = 1
    BY DEF Sent
  <2>. QED
    BY <1>1, <1>2, <1>7, <1>9, <2>1 DEF TypeInv
<1>11. KeyInv'
  <2>1. Seed(created)[2] = created
    BY DEF Seed
  <2>2. /\ m.key[1][2] \in 1..created /\ m.signature = SigningKey(m.key[1][2])
        /\ m.key[2] = m.iteration
    BY <1>4, <1>7, <1>8, <2>1
  <2>. QED
    BY <1>1, <1>4, <1>7, <2>2 DEF KeyInv
<1>12. /\ \A d \in distributions :
             d.seed = state.seed => d.id = state.id /\ d.iteration <= state.iteration
       /\ \A n \in net :
             n.key[1] = state.seed => n.id = state.id /\ n.iteration < state.iteration
       /\ \A n \in net, d \in distributions : n.key[1] = d.seed => n.id = d.id
       /\ \A n \in net : n.iteration \in Nat /\ n.key[2] = n.iteration
       /\ \A d \in distributions : d.iteration \in Nat
  BY <1>1 DEF IdInv, Sent, state, TypeInv, Messages, Distributions, KeyInv
<1>13. IdInv'
  <2>1. ASSUME NEW n \in net', NEW d \in distributions', n.key[1] = d.seed PROVE n.id = d.id
    BY <1>7, <1>8, <1>12, <2>1
  <2>2. ASSUME NEW d \in distributions', d.seed = state.seed
        PROVE  d.id = state.id /\ d.iteration <= state.iteration + 1
    BY <1>5, <1>12, <2>2
  <2>3. ASSUME NEW n \in net', n.key[1] = state.seed
        PROVE  n.id = state.id /\ n.iteration < state.iteration + 1
    BY <1>5, <1>7, <1>12, <2>3
  <2>. QED
    BY <1>7, <2>1, <2>2, <2>3 DEF IdInv
<1>14. NoKeyReuse'
  <2>1. ASSUME NEW n \in net PROVE n.key # m.key
    BY <1>5, <1>7, <1>8, <1>12
  <2>. QED
    BY <1>1, <1>7, <2>1 DEF NoKeyReuse
<1>15. NetInv'
  BY <1>1, <1>6, <1>7 DEF NetInv
<1>. QED
  BY <1>10, <1>11, <1>13, <1>14, <1>15 DEF SenderInv

LEMMA DeleteKeepsSender ==
  ASSUME SenderInv, DeleteSenderKey
  PROVE  SenderInv' /\ Own' = <<>>
<1>1. Own' = <<>> /\ own' = None /\ UNCHANGED <<records, created, distributions, net, joined>>
  BY DEF DeleteSenderKey, Own, LoadSenderKey
<1>2. \A r \in Receiver : Record(r)' = Record(r)
  BY <1>1 DEF Record
<1>3. <<>> \in Seq(States) /\ Len(<<>>) = 0
  OBVIOUS
<1>4. TypeInv'
  BY <1>1, <1>2, <1>3 DEF SenderInv, TypeInv
<1>. QED
  BY <1>1, <1>4 DEF SenderInv, KeyInv, IdInv, NetInv, NoKeyReuse

LEMMA ReceiverKeepsSender ==
  ASSUME SenderInv, NEW r \in Receiver,
         Record(r)' \in Seq(States), \A q \in Receiver : q # r => Record(q)' = Record(q),
         records' \in [Receiver -> {None} \union Seq(StoredStates)],
         joined' \in [Receiver -> Seq(Distributions)],
         UNCHANGED <<own, created, distributions, net>>
  PROVE  SenderInv'
<1>1. Own' = Own
  BY DEF Own
<1>2. \A q \in Receiver : Record(q)' \in Seq(States)
  BY Zenon DEF SenderInv, TypeInv
<1>3. TypeInv'
  BY <1>1, <1>2 DEF SenderInv, TypeInv
<1>. QED
  BY <1>1, <1>3 DEF SenderInv, KeyInv, IdInv, NetInv, NoKeyReuse

-----------------------------------------------------------------------------
(* The receivers' part *)

\* The signature of a message names the sender key of the state it is checked against.
LEMMA SignatureFixesSeed ==
  ASSUME SenderInv, NEW r \in Receiver, MatchInv(r), NEW m \in net, NEW i \in 1..Len(Record(r))
  PROVE  Record(r)[i].public = m.signature <=> Record(r)[i].seed = m.key[1]
<1>. DEFINE d == joined[r][i]
<1>1. i \in 1..Len(joined[r])
  <2>1. Record(r) \in Seq(States) /\ joined[r] \in Seq(Distributions)
    BY DEF SenderInv, TypeInv
  <2>2. Len(Record(r)) = IF Len(joined[r]) <= MAX_STATES THEN Len(joined[r]) ELSE MAX_STATES
    BY DEF MatchInv
  <2>. QED
    BY <2>1, <2>2, StatesAssumption
<1>2. d \in distributions /\ Record(r)[i].seed = d.seed /\ Record(r)[i].public = d.signature_key
  BY <1>1 DEF MatchInv
<1>. HIDE DEF d
<1>3. d.signature_key = SigningKey(d.seed[2]) /\ m.signature = SigningKey(m.key[1][2])
  BY <1>2 DEF SenderInv, KeyInv
<1>4. d.seed \in Seeds /\ m.key[1] \in Seeds
  BY <1>2 DEF SenderInv, TypeInv, Distributions, Messages
<1>5. d.seed = <<"seed", d.seed[2]>> /\ m.key[1] = <<"seed", m.key[1][2]>>
  BY <1>4 DEF Seeds
<1>6. \A a, b : SigningKey(a) = SigningKey(b) => a = b
  BY DEF SigningKey
<1>. QED
  BY <1>2, <1>3, <1>5, <1>6

\* Every state of a receiver is the state of a distribution.
LEMMA RecordOfJoined ==
  ASSUME SenderInv, NEW r \in Receiver, MatchInv(r), NEW i \in 1..Len(Record(r))
  PROVE  /\ Record(r) \in Seq(States) /\ Record(r)[i] \in States /\ Record(r)[i].iteration \in Nat
         /\ Record(r)[i].keys \in Seq(Nat)
         /\ i \in 1..Len(joined[r]) /\ joined[r][i] \in distributions
         /\ joined[r][i] \in Distributions /\ joined[r][i].iteration \in Nat
         /\ joined[r] \in Seq(Distributions)
         /\ Record(r)[i].seed[2] \in 1..created
<1>1. Record(r) \in Seq(States) /\ joined[r] \in Seq(Distributions)
  BY DEF SenderInv, TypeInv
<1>2. Len(Record(r)) = IF Len(joined[r]) <= MAX_STATES THEN Len(joined[r]) ELSE MAX_STATES
  BY DEF MatchInv
<1>3. i \in 1..Len(joined[r])
  BY <1>1, <1>2, StatesAssumption
<1>4. joined[r][i] \in distributions /\ Record(r)[i].seed = joined[r][i].seed
  BY <1>3 DEF MatchInv
<1>5. Record(r)[i] \in States /\ joined[r][i] \in Distributions
  BY <1>1, <1>3
<1>6. joined[r][i].seed[2] \in 1..created
  BY <1>4 DEF SenderInv, KeyInv
<1>7. Record(r)[i].iteration \in Nat /\ Record(r)[i].keys \in Seq(Nat)
  BY <1>5 DEF States
<1>8. joined[r][i].iteration \in Nat
  BY <1>5 DEF Distributions
<1>. QED
  BY <1>1, <1>3, <1>4, <1>5, <1>6, <1>7, <1>8

\* A step of the sender that adds no message, whose new chain is no key a receiver has.
LEMMA KeyStepKeepsMatch ==
  ASSUME SenderInv, NEW r \in Receiver, MatchInv(r), ReachInv(r),
         UNCHANGED <<records, net, joined, kept>>, distributions \subseteq distributions',
         created \in Nat,
         \/ Own' = <<>>
         \/ Own' = Own
         \/ Own'[1].seed = Seed(created + 1)
  PROVE  MatchInv(r)' /\ ReachInv(r)'
<1>1. Record(r)' = Record(r)
  BY DEF Record
<1>2. ReachInv(r)'
  BY <1>1 DEF ReachInv
<1>3. ASSUME NEW i \in 1..Len(Record(r)), Own' # <<>>, Record(r)[i].seed = Own'[1].seed
      PROVE  Record(r)[i].iteration <= Own'[1].iteration
  <2>1. CASE Own' = Own
    BY <1>3, <2>1 DEF MatchInv
  <2>2. CASE Own'[1].seed = Seed(created + 1)
    <3>1. Record(r)[i].seed[2] \in 1..created
      BY RecordOfJoined
    <3>2. Seed(created + 1)[2] = created + 1
      BY DEF Seed
    <3>. QED
      BY <1>3, <2>2, <3>1, <3>2
  <2>. QED
    BY <1>3, <2>1, <2>2
<1>4. MatchInv(r)'
  <2>1. /\ Len(Record(r)) = IF Len(joined[r]) <= MAX_STATES THEN Len(joined[r]) ELSE MAX_STATES
        /\ \A i \in 1..Len(joined[r]) : joined[r][i] \in distributions'
    BY DEF MatchInv
  <2>2. \A i \in 1..Len(Record(r)) :
          /\ Record(r)[i].id = joined[r][i].id
          /\ Record(r)[i].seed = joined[r][i].seed
          /\ Record(r)[i].public = joined[r][i].signature_key
          /\ Record(r)[i].private = None
          /\ ChainOK(Chain(Record(r)[i]))
    BY DEF MatchInv
  <2>. QED
    BY <1>1, <1>3, <2>1, <2>2 DEF MatchInv
<1>. QED
  BY <1>2, <1>4

LEMMA EncryptKeepsMatch ==
  ASSUME SenderInv, NEW r \in Receiver, MatchInv(r), ReachInv(r), NEW m, Sent(m),
         UNCHANGED <<records, created, distributions, joined, returned, kept>>
  PROVE  MatchInv(r)' /\ ReachInv(r)'
<1>1. Record(r)' = Record(r)
  BY DEF Record
<1>2. Own # <<>> /\ Own[1].iteration \in Nat
  <2>1. Own # <<>>
    BY DEF Sent
  <2>2. Own \in Seq(States) /\ Len(Own) <= 1
    BY DEF SenderInv, TypeInv
  <2>3. Own[1] \in States
    BY <2>1, <2>2
  <2>. QED
    BY <2>1, <2>3 DEF States
<1>3. ASSUME NEW i \in 1..Len(Record(r)), Record(r)[i].seed = Own[1].seed
      PROVE  Record(r)[i].iteration \in Nat /\ Record(r)[i].iteration <= Own[1].iteration
  BY <1>2, <1>3, RecordOfJoined, Zenon DEF MatchInv
<1>4. ReachInv(r)'
  <2>1. net' = net \union {m} /\ m.key[1] = Own[1].seed /\ m.iteration = Own[1].iteration
    BY DEF Sent
  <2>2. ASSUME NEW i \in 1..Len(Record(r)), Record(r)[i].seed = m.key[1]
        PROVE  ~(m.iteration < Record(r)[i].iteration)
    <3>1. Record(r)[i].iteration \in Nat /\ Record(r)[i].iteration <= Own[1].iteration
      BY <1>3, <2>1, <2>2, Zenon
    <3>. QED
      BY <1>2, <2>1, <3>1
  <2>. QED
    BY <1>1, <2>1, <2>2, Zenon DEF ReachInv
<1>5. MatchInv(r)'
  <2>1. Own'[1].seed = Own[1].seed /\ Own'[1].iteration = Own[1].iteration + 1
    BY DEF Sent
  <2>2. ASSUME NEW i \in 1..Len(Record(r)), Record(r)[i].seed = Own'[1].seed
        PROVE  Record(r)[i].iteration <= Own'[1].iteration
    <3>1. Record(r)[i].iteration \in Nat /\ Record(r)[i].iteration <= Own[1].iteration
      BY <1>3, <2>1, <2>2, Zenon
    <3>. QED
      BY <1>2, <2>1, <3>1
  <2>. QED
    BY <1>1, <2>2 DEF MatchInv
<1>. QED
  BY <1>4, <1>5

LEMMA ProcessKeepsMatch ==
  ASSUME SenderInv, NEW r \in Receiver, MatchInv(r), ReachInv(r), NEW d \in distributions,
         ProcessSession(r, d)
  PROVE  MatchInv(r)' /\ ReachInv(r)'
<1>. DEFINE state == SenderKeyState(d.id, d.iteration, d.seed, d.signature_key, None)
            after == AddSenderKeyState(Record(r), state)
            list == <<d>> \o joined[r]
<1>1. TypeInv
  BY DEF SenderInv
<1>2. /\ d \in Distributions /\ state \in States
      /\ state.id = d.id /\ state.iteration = d.iteration /\ state.seed = d.seed
      /\ state.public = d.signature_key /\ state.private = None /\ state.keys = <<>>
      /\ Record(r)' = after /\ joined'[r] = list /\ Own' = Own
      /\ UNCHANGED <<own, created, distributions, net, returned, kept>>
  BY <1>1, ProcessEffect, Zenon
<1>3. Record(r) \in Seq(States) /\ joined[r] \in Seq(Distributions) /\ d.iteration \in Nat
  BY <1>1, <1>2, Zenon DEF TypeInv, Distributions
<1>4. /\ Len(list) = Len(joined[r]) + 1 /\ list[1] = d
      /\ \A i \in 2..Len(list) : list[i] = joined[r][i - 1]
  <2>1. d \in Distributions /\ joined[r] \in Seq(Distributions) /\ list = <<d>> \o joined[r]
    BY <1>2, <1>3, Zenon
  <2>. HIDE DEF list
  <2>. QED
    BY <2>1, Prepended
<1>. HIDE DEF state, list
<1>5. /\ Len(after) = IF Len(Record(r)) + 1 <= MAX_STATES THEN Len(Record(r)) + 1 ELSE MAX_STATES
      /\ after \in Seq(States) /\ after[1] = state
      /\ \A i \in 2..Len(after) : after[i] = Record(r)[i - 1]
  BY <1>2, <1>3, StateAdded, Zenon
<1>. HIDE DEF after
<1>6. Len(Record(r)) = IF Len(joined[r]) <= MAX_STATES THEN Len(joined[r]) ELSE MAX_STATES
  BY DEF MatchInv
<1>7. Len(after) = IF Len(list) <= MAX_STATES THEN Len(list) ELSE MAX_STATES
  <2>. DEFINE a == Len(Record(r))
              b == Len(joined[r])
  <2>1. a \in Nat /\ b \in Nat
    BY <1>3
  <2>2. /\ Len(after) = IF a + 1 <= MAX_STATES THEN a + 1 ELSE MAX_STATES
        /\ Len(list) = b + 1 /\ a = IF b <= MAX_STATES THEN b ELSE MAX_STATES
    BY <1>4, <1>5, <1>6
  <2>. HIDE DEF a, b
  <2>. QED
    BY <2>1, <2>2, StatesAssumption
<1>8. /\ Len(joined[r]) \in Nat /\ Len(Record(r)) \in Nat /\ Len(after) \in Nat
      /\ Len(after) <= Len(list) /\ Len(after) <= Len(Record(r)) + 1
  BY <1>3, <1>4, <1>5, <1>6, <1>7, StatesAssumption
<1>9. ASSUME NEW i \in 2..Len(after)
      PROVE  /\ i - 1 \in 1..Len(Record(r)) /\ i - 1 \in 1..Len(joined[r])
             /\ after[i] = Record(r)[i - 1] /\ list[i] = joined[r][i - 1]
  BY <1>4, <1>5, <1>8
<1>10. ChainOK(Chain(state))
  <2>1. Chain(state).index = d.iteration /\ Chain(state).keys = <<>>
    BY <1>2 DEF Chain
  <2>2. <<>> \in Seq(Nat) /\ Len(<<>>) = 0
    OBVIOUS
  <2>. QED
    BY <1>3, <2>1, <2>2, MessageKeysAssumption DEF ChainOK, Spread
<1>11. Own # <<>> /\ d.seed = Own[1].seed => d.iteration <= Own[1].iteration
  BY DEF SenderInv, IdInv
<1>12. ASSUME NEW i \in 1..Len(list) PROVE list[i] \in distributions
  <2>1. CASE i = 1
    BY <1>4, <2>1
  <2>2. CASE i # 1
    <3>1. i \in 2..Len(list) /\ i - 1 \in 1..Len(joined[r])
      BY <1>4, <1>8, <2>2
    <3>. QED
      BY <1>4, <3>1 DEF MatchInv
  <2>. QED
    BY <2>1, <2>2
<1>13. ASSUME NEW i \in 1..Len(after)
       PROVE  /\ after[i].id = list[i].id
              /\ after[i].seed = list[i].seed
              /\ after[i].public = list[i].signature_key
              /\ after[i].private = None
              /\ ChainOK(Chain(after[i]))
              /\ Own # <<>> /\ after[i].seed = Own[1].seed
                   => after[i].iteration <= Own[1].iteration
  <2>1. CASE i = 1
    <3>1. after[i] = state /\ list[i] = d
      BY <1>4, <1>5, <2>1
    <3>. QED
      BY <1>2, <1>10, <1>11, <3>1
  <2>2. CASE i # 1
    <3>. DEFINE k == i - 1
    <3>1. i \in 2..Len(after)
      BY <1>8, <2>2
    <3>2. k \in 1..Len(Record(r)) /\ after[i] = Record(r)[k] /\ list[i] = joined[r][k]
      BY <1>9, <3>1
    <3>. HIDE DEF k
    <3>3. /\ Record(r)[k].id = joined[r][k].id
          /\ Record(r)[k].seed = joined[r][k].seed
          /\ Record(r)[k].public = joined[r][k].signature_key
          /\ Record(r)[k].private = None
          /\ ChainOK(Chain(Record(r)[k]))
          /\ Own # <<>> /\ Record(r)[k].seed = Own[1].seed
               => Record(r)[k].iteration <= Own[1].iteration
      BY <3>2, Zenon DEF MatchInv
    <3>. QED
      BY <3>2, <3>3, Zenon
  <2>. QED
    BY <2>1, <2>2
<1>14. MatchInv(r)'
  BY <1>2, <1>7, <1>12, <1>13, Zenon DEF MatchInv
<1>15. ASSUME NEW m \in net, NEW i \in 1..Len(after), after[i].seed = m.key[1],
              list[i].iteration <= m.iteration, m.iteration < after[i].iteration
       PROVE  \/ m.body \in kept[r]
              \/ Contains(after[i].keys, m.iteration)
              \/ after[i].iteration - m.iteration > MAX_MESSAGE_KEYS + 1
  <2>1. m.iteration \in Nat
    BY <1>1 DEF TypeInv, Messages
  <2>2. i # 1
    BY <1>2, <1>3, <1>4, <1>5, <1>15, <2>1
  <2>3. i \in 2..Len(after)
    BY <1>8, <2>2
  <2>. QED
    BY <1>9, <1>15, <2>3, Zenon DEF ReachInv
<1>16. ReachInv(r)'
  BY <1>2, <1>15, Zenon DEF ReachInv
<1>. QED
  BY <1>14, <1>16

\* A decryption changes one state: its chain stays behind the sender's, and what it
\* passes is kept or is the message that has been decrypted.
LEMMA DecryptKeepsMatch ==
  ASSUME SenderInv, NEW r \in Receiver, MatchInv(r), ReachInv(r),
         kept \in [Receiver -> SUBSET Nat], NEW m \in net, NEW outcome, Decrypted(r, m, outcome)
  PROVE  MatchInv(r)' /\ ReachInv(r)'
<1>1. TypeInv
  BY DEF SenderInv
<1>2. PICK i \in 1..Len(Record(r)) : \E new \in States :
        /\ Record(r)[i].id = m.id /\ Record(r)[i].public = m.signature
        /\ StateUsed(Record(r)[i], m, new)
        /\ outcome = "ok" => Record(r)' = [Record(r) EXCEPT ![i] = new]
  BY DEF Decrypted
<1>3. PICK new \in States :
        /\ Record(r)[i].id = m.id /\ Record(r)[i].public = m.signature
        /\ StateUsed(Record(r)[i], m, new)
        /\ outcome = "ok" => Record(r)' = [Record(r) EXCEPT ![i] = new]
  BY <1>2
<1>4. /\ outcome # "ok" => Record(r)' = Record(r)
      /\ kept' = kept \/ kept' = [kept EXCEPT ![r] = @ \union {m.body}]
      /\ outcome = "ok" => kept' = [kept EXCEPT ![r] = @ \union {m.body}]
      /\ Own' = Own
      /\ UNCHANGED <<own, created, distributions, net, joined>>
  BY DEF Decrypted
<1>5. kept[r] \subseteq kept'[r] /\ (outcome = "ok" => m.body \in kept'[r])
  BY <1>4
<1>6. CASE outcome # "ok"
  <2>1. MatchInv(r)'
    BY <1>4, <1>6, Zenon DEF MatchInv
  <2>2. ReachInv(r)'
    BY <1>4, <1>5, <1>6, Zenon DEF ReachInv
  <2>. QED
    BY <2>1, <2>2
<1>7. CASE outcome = "ok"
  <2>. DEFINE old == Record(r)[i]
              after == [Record(r) EXCEPT ![i] = new]
  <2>1. /\ Record(r) \in Seq(States) /\ old \in States /\ old.iteration \in Nat
        /\ old.keys \in Seq(Nat)
    BY RecordOfJoined, Zenon
  <2>2. /\ Record(r)' = after /\ Len(after) = Len(Record(r)) /\ after[i] = new
        /\ \A j \in 1..Len(Record(r)) : j # i => after[j] = Record(r)[j]
    BY <1>3, <1>7, <2>1
  <2>3. old.seed = m.key[1]
    BY <1>3, SignatureFixesSeed
  <2>4. /\ new.id = old.id /\ new.seed = old.seed /\ new.public = old.public
        /\ new.private = old.private
        /\ KeyTaken(Chain(old), m.iteration, Chain(new))
    BY <1>3 DEF StateUsed
  <2>5. /\ Chain(old).index = old.iteration /\ Chain(old).keys = old.keys
        /\ Chain(new).index = new.iteration /\ Chain(new).keys = new.keys
    BY DEF Chain
  <2>. HIDE DEF after, old
  <2>6. /\ ChainOK(Chain(new)) /\ old.iteration <= new.iteration
        /\ new.iteration <= old.iteration \/ new.iteration = m.iteration + 1
        /\ new.iteration \in Nat /\ m.iteration \in Nat
    <3>1. ChainOK(Chain(new)) /\ old.iteration <= new.iteration
      BY <2>4, <2>5, Zenon DEF KeyTaken
    <3>2. new.iteration <= old.iteration \/ new.iteration = m.iteration + 1
      BY <2>4, <2>5, Zenon DEF KeyTaken
    <3>3. new.iteration \in Nat
      BY <2>5, <3>1 DEF ChainOK
    <3>4. m.iteration \in Nat
      BY <1>1 DEF TypeInv, Messages
    <3>. QED
      BY <3>1, <3>2, <3>3, <3>4
  <2>7. Own # <<>> /\ new.seed = Own[1].seed => new.iteration <= Own[1].iteration
    <3>1. Own # <<>> /\ old.seed = Own[1].seed => old.iteration <= Own[1].iteration
      BY DEF MatchInv, old
    <3>2. Own # <<>> /\ m.key[1] = Own[1].seed => m.iteration < Own[1].iteration
      BY DEF SenderInv, IdInv
    <3>3. Own # <<>> => Own[1].iteration \in Nat
      <4>1. Own \in Seq(States) /\ Len(Own) <= 1
        BY <1>1 DEF TypeInv
      <4>2. Own # <<>> => Own[1] \in States
        BY <4>1
      <4>. QED
        BY <4>2 DEF States
    <3>. QED
      BY <2>1, <2>3, <2>4, <2>6, <3>1, <3>2, <3>3
  <2>8. MatchInv(r)'
    <3>1. ASSUME NEW j \in 1..Len(after)
          PROVE  /\ after[j].id = joined[r][j].id
                 /\ after[j].seed = joined[r][j].seed
                 /\ after[j].public = joined[r][j].signature_key
                 /\ after[j].private = None
                 /\ ChainOK(Chain(after[j]))
                 /\ Own # <<>> /\ after[j].seed = Own[1].seed
                      => after[j].iteration <= Own[1].iteration
      <4>1. CASE j = i
        BY <2>2, <2>4, <2>6, <2>7, <4>1, Zenon DEF MatchInv, old
      <4>2. CASE j # i
        BY <2>2, <4>2, Zenon DEF MatchInv
      <4>. QED
        BY <4>1, <4>2, Zenon
    <3>2. /\ Len(after) = IF Len(joined[r]) <= MAX_STATES THEN Len(joined[r]) ELSE MAX_STATES
          /\ \A j \in 1..Len(joined[r]) : joined[r][j] \in distributions
      BY <2>2 DEF MatchInv
    <3>. QED
      BY <1>4, <2>2, <3>1, <3>2, Zenon DEF MatchInv
  <2>9. ASSUME NEW n \in net, NEW j \in 1..Len(after), after[j].seed = n.key[1],
               joined[r][j].iteration <= n.iteration, n.iteration < after[j].iteration
        PROVE  \/ n.body \in kept'[r]
               \/ Contains(after[j].keys, n.iteration)
               \/ after[j].iteration - n.iteration > MAX_MESSAGE_KEYS + 1
    <3>1. CASE j # i
      BY <1>5, <2>2, <2>9, <3>1 DEF ReachInv
    <3>2. CASE j = i
      <4>1. n.iteration \in Nat /\ n.iteration < new.iteration /\ n.key[1] = old.seed
        BY <1>1, <2>2, <2>4, <2>9, <3>2, Zenon DEF TypeInv, Messages
      <4>2. \/ n.iteration = m.iteration
            \/ Contains(new.keys, n.iteration)
            \/ n.iteration < old.iteration /\ ~Contains(old.keys, n.iteration)
            \/ new.iteration - n.iteration > MAX_MESSAGE_KEYS + 1
        <5>1. n.iteration \in 0..(new.iteration - 1)
          BY <2>6, <4>1
        <5>. QED
          BY <2>4, <2>5, <5>1, Zenon DEF KeyTaken
      <4>3. CASE n.iteration = m.iteration
        <5>1. n.key = m.key
          <6>1. n.key \in Seeds \X Nat /\ m.key \in Seeds \X Nat
            BY <1>1 DEF TypeInv, Messages
          <6>2. n.key[2] = n.iteration /\ m.key[2] = m.iteration
            BY DEF SenderInv, KeyInv
          <6>. QED
            BY <2>3, <4>1, <4>3, <6>1, <6>2
        <5>2. n = m
          BY <5>1 DEF SenderInv, NoKeyReuse
        <5>. QED
          BY <1>5, <1>7, <5>2
      <4>4. CASE n.iteration < old.iteration /\ ~Contains(old.keys, n.iteration)
        <5>1. \/ n.body \in kept[r]
              \/ old.iteration - n.iteration > MAX_MESSAGE_KEYS + 1
          BY <2>9, <3>2, <4>1, <4>4, Zenon DEF ReachInv, old
        <5>. QED
          BY <1>5, <2>1, <2>2, <2>6, <3>2, <4>1, <5>1, MessageKeysAssumption
      <4>5. CASE new.iteration - n.iteration > MAX_MESSAGE_KEYS + 1
        BY <2>2, <2>6, <3>2, <4>1, <4>5, MessageKeysAssumption, Zenon
      <4>. QED
        BY <2>2, <3>2, <4>2, <4>3, <4>4, <4>5, Zenon
    <3>. QED
      BY <3>1, <3>2
  <2>10. ReachInv(r)'
    BY <1>4, <2>2, <2>9, Zenon DEF ReachInv
  <2>. QED
    BY <2>8, <2>10
<1>. QED
  BY <1>6, <1>7

\* A step that leaves the record of a receiver alone, and what has been sent.
LEMMA UntouchedKeepsMatch ==
  ASSUME NEW r, MatchInv(r), ReachInv(r), Record(r)' = Record(r), joined'[r] = joined[r],
         kept'[r] = kept[r], Own' = Own, UNCHANGED <<distributions, net>>
  PROVE  MatchInv(r)' /\ ReachInv(r)'
<1>1. MatchInv(r)'
  BY Zenon DEF MatchInv
<1>2. ReachInv(r)'
  BY DEF ReachInv
<1>. QED
  BY <1>1, <1>2
=============================================================================
