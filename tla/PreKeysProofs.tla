--------------------------- MODULE PreKeysProofs ----------------------------
(***************************************************************************)
(* Proofs for PreKeys, for every number of ids, width of an unsigned int,  *)
(* batch size, set of senders and number of keys and messages.             *)
(***************************************************************************)
EXTENDS PreKeys, FiniteSetTheorems, TLAPS

\* Leaves without a prover of their own: SMT, again with more time, then Zenon.
USE SMTT(10), SMTT(20), SMTT(30), ZenonT(10)

-----------------------------------------------------------------------------
(* The inductive invariant *)

\* A key pair has one id, and is not in the store any more when it is spent.
StoreInv ==
  /\ \A i, j \in DOMAIN preKeys : preKeys[i] = preKeys[j] => i = j
  /\ \A id \in DOMAIN preKeys : preKeys[id] \notin spent

\* Every message has its own base key.
SentInv ==
  /\ \A m \in sent : m.base < Cardinality(sent)
  /\ \A m, n \in sent : m.base = n.base => m = n

\* There are no keys before the installation.
InstallInv == signed = None => DOMAIN preKeys = {} /\ sent = {}

IInv == TypeOK /\ StoreInv /\ SentInv /\ InstallInv

-----------------------------------------------------------------------------
(* The arithmetic of ids *)

LEMMA Remainder ==
  ASSUME NEW a \in Nat, NEW b \in Nat, b > 0
  PROVE  a % b \in 0..(b - 1)
OBVIOUS

\* The id of a one-time pre key is never 0 and never the one of the last resort pre key,
\* whatever start and count the application asks for.
LEMMA PreKeyIdRange ==
  ASSUME NEW start \in Nat, NEW i \in Nat
  PROVE  PreKeyId(start, i) \in Ids
<1>. USE PreKeysAssumption
<1>. DEFINE w == (start + UINT_RANGE - 1 + i) % UINT_RANGE
<1>1. start + UINT_RANGE - 1 + i \in Nat /\ UINT_RANGE > 0
  OBVIOUS
<1>2. w \in Nat
  BY <1>1, Remainder
<1>3. MAX - 1 \in Nat /\ MAX - 1 > 0
  OBVIOUS
<1>. HIDE DEF w
<1>4. w % (MAX - 1) \in 0..(MAX - 2)
  BY <1>2, <1>3, Remainder
<1>. QED
  BY <1>3, <1>4 DEF PreKeyId, w, Ids

\* The keys of a batch have ids of one-time pre keys, and each id one key.
LEMMA Batch ==
  ASSUME NEW start \in Nat, NEW n \in Nat
  PROVE  /\ BatchIds(start, n) \subseteq Ids
         /\ \A id \in BatchIds(start, n) : BatchIndex(start, n, id) \in 0..(n - 1)
         /\ \A i, j \in BatchIds(start, n) :
              BatchIndex(start, n, i) = BatchIndex(start, n, j) => i = j
<1>1. BatchIds(start, n) \subseteq Ids
  BY PreKeyIdRange DEF BatchIds
<1>2. ASSUME NEW id \in BatchIds(start, n)
      PROVE  /\ BatchIndex(start, n, id) \in 0..(n - 1)
             /\ PreKeyId(start, BatchIndex(start, n, id)) = id
  BY <1>2 DEF BatchIds, BatchIndex
<1>3. ASSUME NEW i \in BatchIds(start, n), NEW j \in BatchIds(start, n),
             BatchIndex(start, n, i) = BatchIndex(start, n, j)
      PROVE  i = j
  <2>1. PreKeyId(start, BatchIndex(start, n, i)) = i
    BY <1>2
  <2>2. PreKeyId(start, BatchIndex(start, n, j)) = j
    BY <1>2
  <2>. QED
    BY <1>3, <2>1, <2>2
<1>. QED
  BY <1>1, <1>2, <1>3

-----------------------------------------------------------------------------
(* The invariant is inductive. *)

LEMMA InitInv == Init => IInv
<1>. SUFFICES ASSUME Init PROVE IInv
  OBVIOUS
<1>1. TypeOK
  BY PreKeysAssumption, FS_EmptySet DEF Init, TypeOK
<1>2. StoreInv /\ SentInv /\ InstallInv
  BY DEF Init, StoreInv, SentInv, InstallInv
<1>. QED
  BY <1>1, <1>2 DEF IInv

\* What a message that is accepted does to the stores
LEMMA Accepted ==
  ASSUME IInv, NEW m \in sent, NEW outcome \in Outcomes, Receive(m, outcome)
  PROVE  /\ \/ UNCHANGED <<preKeys, spent>>
            \/ /\ m.id \in Ids /\ m.id \in DOMAIN preKeys /\ preKeys[m.id] = m.key
               /\ preKeys' = RemoveKey(preKeys, m.id) /\ spent' = spent \union {m.key}
         /\ \/ sessions' = sessions
            \/ \E kept \in SUBSET sessions[m.from] :
                 sessions' = [sessions EXCEPT ![m.from] = kept \union {m.base}]
         /\ m.key \notin spent
         /\ UNCHANGED <<signedPreKeys, registration, made, next, server, signed, sent>>
<1>. USE PreKeysAssumption
<1>1. Result(m) = "SUCCESS"
  BY DEF Receive
<1>2. m.id # None => m.id \in DOMAIN preKeys /\ preKeys[m.id] = m.key
  BY <1>1 DEF Result
<1>3. (m.id \in Ids /\ m.key \in 1..made) \/ (m.id \in {MAX, None} /\ m.key = 0)
  BY DEF IInv, TypeOK
<1>4. m.key \notin spent
  <2>1. CASE m.id = None
    BY <1>3, <2>1 DEF IInv, TypeOK, Ids
  <2>2. CASE m.id # None
    BY <1>2, <2>2 DEF IInv, StoreInv
  <2>. QED
    BY <2>1, <2>2
<1>5. Removes(m) => m.id \in Ids
  BY <1>3 DEF Removes
<1>6. m.id \in Ids => m.id # None
  BY DEF Ids
<1>7. \/ UNCHANGED <<preKeys, spent>>
      \/ Removes(m) /\ preKeys' = RemoveKey(preKeys, m.id) /\ spent' = spent \union {m.key}
  BY DEF Receive
<1>8. /\ \/ sessions' = sessions
         \/ \E kept \in SUBSET sessions[m.from] :
              sessions' = [sessions EXCEPT ![m.from] = kept \union {m.base}]
      /\ UNCHANGED <<signedPreKeys, registration, made, next, server, signed, sent>>
  BY DEF Receive, Kept
<1>. QED
  BY <1>2, <1>4, <1>5, <1>6, <1>7, <1>8

LEMMA InstallStep == ASSUME IInv, NEW random \in 0..(UINT_RANGE - 1) \union {None}, Install(random)
                     PROVE  IInv'
<1>. USE PreKeysAssumption
<1>1. /\ signed = None /\ DOMAIN preKeys = {} /\ sent = {} /\ UNCHANGED <<made, next, server, sent, sessions, spent>>
      /\ preKeys' = AddLastResort(preKeys) /\ signedPreKeys' = {0} /\ signed' = 0
  BY DEF Install, IInv, InstallInv
<1>2. DOMAIN preKeys' = {MAX} /\ preKeys'[MAX] = 0
  BY <1>1 DEF AddLastResort
<1>3. registration' \in 0..REGISTRATION_RANGE
  <2>1. CASE random = None
    BY <2>1 DEF Install
  <2>2. CASE random # None
    <3>1. random % REGISTRATION_RANGE \in 0..(REGISTRATION_RANGE - 1)
      BY <2>2, Remainder
    <3>. QED
      BY <2>2, <3>1 DEF Install, RegistrationId
  <2>. QED
    BY <2>1, <2>2
<1>4. TypeOK'
  BY <1>1, <1>2, <1>3 DEF IInv, TypeOK
<1>5. StoreInv' /\ SentInv' /\ InstallInv'
  BY <1>1, <1>2 DEF IInv, TypeOK, StoreInv, SentInv, InstallInv
<1>. QED
  BY <1>4, <1>5 DEF IInv

LEMMA GenerateStep == ASSUME IInv, NEW n \in 1..BatchSize, Generate(n) PROVE IInv'
<1>. USE PreKeysAssumption
<1>. DEFINE B == BatchIds(next, n)
<1>1. /\ preKeys' = AddPreKeys(preKeys, next, n) /\ server' = AddPreKeys(server, next, n)
      /\ made' = made + n /\ next' = PreKeyId(next, n - 1) + 1 /\ signed # None
      /\ UNCHANGED <<signedPreKeys, registration, signed, sent, sessions, spent>>
  BY DEF Generate
<1>2. made \in Nat /\ next \in Nat /\ n \in Nat /\ n - 1 \in Nat
  BY DEF IInv, TypeOK
<1>3. next' \in 0..MAX
  <2>1. PreKeyId(next, n - 1) \in Ids
    BY <1>2, PreKeyIdRange
  <2>. QED
    BY <1>1, <2>1 DEF Ids
<1>. DEFINE index(id) == BatchIndex(next, n, id)
<1>4. /\ B \subseteq Ids
      /\ \A id \in B : index(id) \in 0..(n - 1)
      /\ \A i, j \in B : index(i) = index(j) => i = j
  BY <1>2, Batch
<1>5. /\ DOMAIN preKeys' = DOMAIN preKeys \union B
      /\ \A id \in B : preKeys'[id] = made + 1 + index(id)
      /\ \A id \in DOMAIN preKeys \ B : preKeys'[id] = preKeys[id]
  BY <1>1 DEF AddPreKeys
<1>6. /\ DOMAIN server' = DOMAIN server \union B
      /\ \A id \in B : server'[id] = made + 1 + index(id)
      /\ \A id \in DOMAIN server \ B : server'[id] = server[id]
  BY <1>1 DEF AddPreKeys
<1>. HIDE DEF B, index
<1>7. /\ \A id \in B : preKeys'[id] \in (made + 1)..(made + n)
      /\ \A i, j \in B : preKeys'[i] = preKeys'[j] => i = j
  BY <1>2, <1>4, <1>5
<1>8. \A id \in B : server'[id] \in (made + 1)..(made + n)
  BY <1>2, <1>4, <1>6
<1>9. \A id \in DOMAIN preKeys : preKeys[id] \in 0..made
  BY DEF IInv, TypeOK
<1>10. TypeOK'
  <2>1. \A id \in DOMAIN preKeys' : IF id = MAX THEN preKeys'[id] = 0 ELSE preKeys'[id] \in 1..made'
    <3>1. MAX \notin B
      BY <1>4 DEF Ids
    <3>2. ASSUME NEW id \in B
          PROVE  IF id = MAX THEN preKeys'[id] = 0 ELSE preKeys'[id] \in 1..made'
      BY <1>1, <1>2, <1>7, <3>1
    <3>3. ASSUME NEW id \in DOMAIN preKeys \ B
          PROVE  IF id = MAX THEN preKeys'[id] = 0 ELSE preKeys'[id] \in 1..made'
      BY <1>1, <1>2, <1>5 DEF IInv, TypeOK
    <3>. QED
      BY <1>5, <3>2, <3>3
  <2>2. \A id \in DOMAIN server' : server'[id] \in 1..made'
    BY <1>1, <1>2, <1>8, <1>6 DEF IInv, TypeOK
  <2>3. \A m \in sent' : /\ m.from \in Sender /\ m.base \in Nat
                         /\ \/ m.id \in Ids /\ m.key \in 1..made'
                            \/ m.id \in {MAX, None} /\ m.key = 0
    BY <1>1, <1>2 DEF IInv, TypeOK
  <2>. QED
    BY <1>1, <1>2, <1>3, <1>4, <1>5, <1>6, <2>1, <2>2, <2>3 DEF IInv, TypeOK
<1>11. StoreInv'
  <2>1. ASSUME NEW i \in DOMAIN preKeys', NEW j \in DOMAIN preKeys', preKeys'[i] = preKeys'[j]
        PROVE  i = j
    BY <1>2, <1>7, <1>9, <1>5, <2>1 DEF IInv, StoreInv
  <2>2. ASSUME NEW id \in DOMAIN preKeys' PROVE preKeys'[id] \notin spent'
    BY <1>1, <1>2, <1>7, <1>5 DEF IInv, StoreInv, TypeOK
  <2>. QED
    BY <2>1, <2>2 DEF StoreInv
<1>12. SentInv' /\ InstallInv'
  BY <1>1 DEF IInv, SentInv, InstallInv
<1>. QED
  BY <1>10, <1>11, <1>12 DEF IInv

LEMMA SendStep == ASSUME IInv, NEW s \in Sender, NEW id \in 1..MAX \union {None}, Send(s, id)
                  PROVE  IInv'
<1>. USE PreKeysAssumption
<1>. DEFINE m == [from |-> s, base |-> Cardinality(sent), id |-> id,
                  key |-> IF id \in {MAX, None} THEN 0 ELSE server[id], signed |-> signed]
<1>1. /\ sent' = sent \union {m} /\ server' = [i \in DOMAIN server \ {id} |-> server[i]]
      /\ id \in IF DOMAIN server = {} THEN {MAX, None} ELSE DOMAIN server
      /\ UNCHANGED <<preKeys, signedPreKeys, registration, made, next, signed, sessions, spent>>
      /\ signed # None
  BY DEF Send
<1>2. IsFiniteSet(sent) /\ Cardinality(sent) \in Nat
  BY FS_CardinalityType DEF IInv, TypeOK
<1>3. m \notin sent
  BY <1>2 DEF IInv, SentInv
<1>4. /\ m.from = s /\ m.base = Cardinality(sent)
      /\ (m.id \in Ids /\ m.key \in 1..made) \/ (m.id \in {MAX, None} /\ m.key = 0)
  BY <1>1 DEF IInv, TypeOK, Ids
<1>. HIDE DEF m
<1>5. IsFiniteSet(sent') /\ Cardinality(sent') = Cardinality(sent) + 1
  BY <1>1, <1>2, <1>3, FS_AddElement
<1>6. TypeOK'
  BY <1>1, <1>2, <1>4, <1>5 DEF IInv, TypeOK
<1>7. SentInv'
  <2>1. \A k \in sent : k.base \in Nat /\ k.base < Cardinality(sent)
    BY DEF IInv, TypeOK, SentInv
  <2>2. ASSUME NEW k \in sent' PROVE k.base < Cardinality(sent')
    BY <1>1, <1>2, <1>4, <1>5, <2>1
  <2>3. ASSUME NEW k \in sent', NEW n \in sent', k.base = n.base PROVE k = n
    BY <1>1, <1>2, <1>4, <2>1, <2>3 DEF IInv, SentInv
  <2>. QED
    BY <2>2, <2>3 DEF SentInv
<1>8. StoreInv' /\ InstallInv'
  BY <1>1 DEF IInv, StoreInv, InstallInv
<1>. QED
  BY <1>6, <1>7, <1>8 DEF IInv

LEMMA ReceiveStep ==
  ASSUME IInv, NEW m \in sent, NEW outcome \in Outcomes, Receive(m, outcome) PROVE IInv'
<1>. USE PreKeysAssumption
<1>1. UNCHANGED <<signedPreKeys, registration, made, next, server, signed, sent>>
  BY Accepted
<1>2. sessions' \in [Sender -> SUBSET Nat]
  <2>1. sessions \in [Sender -> SUBSET Nat] /\ m.from \in Sender /\ m.base \in Nat
    BY DEF IInv, TypeOK
  <2>2. CASE sessions' = sessions
    BY <2>1, <2>2
  <2>3. ASSUME NEW kept \in SUBSET sessions[m.from],
               sessions' = [sessions EXCEPT ![m.from] = kept \union {m.base}]
        PROVE  sessions' \in [Sender -> SUBSET Nat]
    BY <2>1, <2>3, Zenon
  <2>. QED
    BY <2>2, <2>3, Accepted, Zenon
<1>3. CASE UNCHANGED <<preKeys, spent>>
  <2>1. TypeOK'
    BY <1>1, <1>2, <1>3 DEF IInv, TypeOK
  <2>. QED
    BY <1>1, <1>3, <2>1 DEF IInv, StoreInv, SentInv, InstallInv
<1>4. CASE /\ m.id \in Ids /\ m.id \in DOMAIN preKeys /\ preKeys[m.id] = m.key
           /\ preKeys' = RemoveKey(preKeys, m.id) /\ spent' = spent \union {m.key}
  <2>1. /\ DOMAIN preKeys' = DOMAIN preKeys \ {m.id}
        /\ \A i \in DOMAIN preKeys' : preKeys'[i] = preKeys[i]
    BY <1>4 DEF RemoveKey
  <2>2. m.key \in 1..made
    BY <1>4 DEF IInv, TypeOK, Ids
  <2>3. TypeOK'
    BY <1>1, <1>2, <1>4, <2>1, <2>2, Zenon DEF IInv, TypeOK
  <2>4. StoreInv'
    BY <1>4, <2>1 DEF IInv, StoreInv
  <2>. QED
    BY <1>1, <2>1, <2>3, <2>4 DEF IInv, SentInv, InstallInv
<1>. QED
  BY <1>3, <1>4, Accepted

LEMMA InvStep == IInv /\ [Next]_vars => IInv'
<1>. SUFFICES ASSUME IInv, [Next]_vars PROVE IInv'
  OBVIOUS
<1>. USE PreKeysAssumption
<1>1. CASE UNCHANGED vars
  BY <1>1 DEF vars, IInv, TypeOK, StoreInv, SentInv, InstallInv
<1>2. CASE RotateSigned
  <2>1. signed + 1 \in 0..MaxSigned
    BY <1>2 DEF RotateSigned, IInv, TypeOK
  <2>. QED
    BY <1>2, <2>1 DEF RotateSigned, IInv, TypeOK, StoreInv, SentInv, InstallInv
<1>3. ASSUME NEW id \in signedPreKeys, RemoveSigned(id) PROVE IInv'
  BY <1>3 DEF RemoveSigned, IInv, TypeOK, StoreInv, SentInv, InstallInv
<1>4. ASSUME NEW s \in Sender, DeleteSession(s) PROVE IInv'
  BY <1>4 DEF DeleteSession, IInv, TypeOK, StoreInv, SentInv, InstallInv
<1>. QED
  BY <1>1, <1>2, <1>3, <1>4, InstallStep, GenerateStep, SendStep, ReceiveStep DEF Next

LEMMA Invariant == Spec => []IInv
BY InitInv, InvStep, PTL DEF Spec

-----------------------------------------------------------------------------
(* The theorems *)

\* One-time pre keys, stored keys and messages have the ids key_helper.c gives them, for
\* every number of ids and every width of an unsigned int.
THEOREM TypeHolds == Spec => []TypeOK
<1>1. IInv => TypeOK
  BY DEF IInv
<1>. QED
  BY <1>1, Invariant, PTL

\* Whatever batches are generated and whatever messages arrive, the last resort pre key is
\* neither replaced nor removed.
THEOREM LastResortHolds == Spec => LastResortKept
<1>1. IInv /\ [Next]_vars =>
        [(MAX \in DOMAIN preKeys) =>
           (MAX \in DOMAIN preKeys') /\ preKeys'[MAX] = preKeys[MAX]]_vars
  <2>. SUFFICES ASSUME IInv, Next, MAX \in DOMAIN preKeys
                PROVE  MAX \in DOMAIN preKeys' /\ preKeys'[MAX] = preKeys[MAX]
    OBVIOUS
  <2>. USE PreKeysAssumption
  <2>1. MAX \notin Ids
    BY DEF Ids
  <2>2. ASSUME NEW random \in 0..(UINT_RANGE - 1) \union {None}, Install(random)
        PROVE  MAX \in DOMAIN preKeys' /\ preKeys'[MAX] = preKeys[MAX]
    BY <2>2 DEF Install, IInv, InstallInv
  <2>3. ASSUME NEW n \in 1..BatchSize, Generate(n)
        PROVE  MAX \in DOMAIN preKeys' /\ preKeys'[MAX] = preKeys[MAX]
    <3>1. made \in Nat /\ next \in Nat /\ n \in Nat /\ preKeys' = AddPreKeys(preKeys, next, n)
      BY <2>3 DEF IInv, TypeOK, Generate
    <3>. QED
      <4>1. MAX \notin BatchIds(next, n)
        BY <2>1, <3>1, Batch
      <4>. QED
        BY <3>1, <4>1 DEF AddPreKeys
  <2>4. ASSUME NEW m \in sent, NEW outcome \in Outcomes, Receive(m, outcome)
        PROVE  MAX \in DOMAIN preKeys' /\ preKeys'[MAX] = preKeys[MAX]
    BY <2>1, <2>4, Accepted, Zenon DEF RemoveKey
  <2>5. CASE RotateSigned
    BY <2>5 DEF RotateSigned
  <2>6. ASSUME NEW id \in signedPreKeys, RemoveSigned(id) PROVE preKeys' = preKeys
    BY <2>6 DEF RemoveSigned
  <2>7. ASSUME NEW s \in Sender, DeleteSession(s) PROVE preKeys' = preKeys
    BY <2>7 DEF DeleteSession
  <2>8. ASSUME NEW s \in Sender, NEW id \in 1..MAX \union {None}, Send(s, id)
        PROVE  preKeys' = preKeys
    BY <2>8 DEF Send
  <2>. QED
    BY <2>2, <2>3, <2>4, <2>5, <2>6, <2>7, <2>8 DEF Next
<1>. QED
  BY <1>1, Invariant, PTL DEF Spec, LastResortKept

\* No message makes a session with a one-time pre key that was removed before, for any
\* number of messages, senders, deleted sessions and repeated ids.
THEOREM NeverAgainHolds == Spec => NeverAgain
<1>1. IInv /\ [Next]_vars =>
        [\A m \in sent :
           m.base \in sessions'[m.from] \ sessions[m.from] => m.key \notin spent]_vars
  <2>. SUFFICES ASSUME IInv, Next, NEW k \in sent, k.base \in sessions'[k.from] \ sessions[k.from]
                PROVE  k.key \notin spent
    OBVIOUS
  <2>1. ASSUME NEW m \in sent, NEW outcome \in Outcomes, Receive(m, outcome)
        PROVE  k.key \notin spent
    <3>1. PICK kept \in SUBSET sessions[m.from] :
            sessions' = [sessions EXCEPT ![m.from] = kept \union {m.base}]
      BY <2>1, Accepted
    <3>2. k.base = m.base
      BY <3>1 DEF IInv, TypeOK
    <3>3. m.key \notin spent
      BY <2>1, Accepted
    <3>. QED
      BY <3>2, <3>3 DEF IInv, SentInv
  <2>2. ASSUME NEW s \in Sender, DeleteSession(s) PROVE FALSE
    BY <2>2 DEF DeleteSession, IInv, TypeOK
  <2>3. sessions' # sessions
    OBVIOUS
  <2>. QED
    BY <2>1, <2>2, <2>3, Zenon DEF Next, Install, Generate, RotateSigned, RemoveSigned, Send
<1>. QED
  BY <1>1, Invariant, PTL DEF Spec, NeverAgain

-----------------------------------------------------------------------------
(* Remainders *)

LEMMA Product ==
  ASSUME NEW a \in Nat, NEW b \in Nat
  PROVE  a * b \in Nat
OBVIOUS

LEMMA Quotient ==
  ASSUME NEW a \in Nat, NEW b \in Nat, b > 0
  PROVE  \E q \in Nat : a = b * q + (a % b)
OBVIOUS

\* The next multiple is at least one divisor away.
LEMMA NextMultiple ==
  ASSUME NEW b \in Nat, NEW q \in Nat, NEW p \in Nat, q < p
  PROVE  b * p >= b * q + b
<1>. DEFINE d == p - q - 1
<1>1. d \in Nat /\ p = q + 1 + d
  OBVIOUS
<1>. HIDE DEF d
<1>2. b * p = b * q + b + b * d
  BY <1>1
<1>3. b * d \in Nat /\ b * q \in Nat
  BY <1>1, Product
<1>. QED
  BY <1>2, <1>3

Division(a, b, q, r) ==
  /\ a \in Nat /\ b \in Nat /\ b > 0 /\ q \in Nat /\ r \in 0..(b - 1)
  /\ a = b * q + r

LEMMA OneRemainder ==
  ASSUME NEW a, NEW b, NEW q, NEW r, Division(a, b, q, r)
  PROVE  a % b = r
<1>. USE DEF Division
<1>. DEFINE s == a % b
<1>1. s \in 0..(b - 1)
  BY Remainder
<1>2. PICK p \in Nat : a = b * p + s
  BY Quotient, Zenon
<1>. HIDE DEF s
<1>3. b * q \in Nat /\ b * p \in Nat
  BY Product
<1>4. ~(q < p)
  BY <1>1, <1>2, <1>3, NextMultiple
<1>5. ~(p < q)
  BY <1>1, <1>2, <1>3, NextMultiple
<1>6. q = p
  BY <1>4, <1>5
<1>7. s = r
  BY <1>1, <1>2, <1>3, <1>6
<1>. QED
  BY <1>7 DEF s

LEMMA SmallRemainder ==
  ASSUME NEW b \in Nat, NEW a \in 0..(b - 1)
  PROVE  a % b = a /\ (a + b) % b = a
<1>1. Division(a, b, 0, a) /\ Division(a + b, b, 1, a)
  BY DEF Division
<1>2. a % b = a
  BY <1>1, OneRemainder
<1>3. (a + b) % b = a
  BY <1>1, OneRemainder
<1>. QED
  BY <1>2, <1>3

\* The same number is added to a and to its remainder.
Added(a, b, c, d, e) ==
  /\ a \in Nat /\ b \in Nat /\ b > 0 /\ c \in Nat /\ d \in Nat /\ e \in Nat
  /\ d = (a % b) + c /\ e = a + c

LEMMA RemainderAdded ==
  ASSUME NEW a, NEW b, NEW c, NEW d, NEW e, Added(a, b, c, d, e)
  PROVE  d % b = e % b
<1>. USE DEF Added
<1>. DEFINE r == a % b
            s == d % b
<1>1. r \in Nat /\ s \in 0..(b - 1) /\ d = r + c
  BY Remainder
<1>2. PICK q \in Nat : a = b * q + r
  BY Quotient
<1>3. PICK p \in Nat : d = b * p + s
  BY Quotient, Zenon
<1>. HIDE DEF r, s
<1>4. b * q \in Nat /\ b * p \in Nat /\ b * (q + p) = b * q + b * p
  BY Product
<1>5. Division(e, b, q + p, s)
  BY <1>1, <1>2, <1>3, <1>4 DEF Division
<1>6. e % b = s
  BY <1>5, OneRemainder
<1>. QED
  BY <1>6 DEF s

\* Two numbers with the same remainder are at least one divisor apart.
LEMMA SameRemainder ==
  ASSUME NEW a \in Nat, NEW b \in Nat, b > 0, NEW c \in Nat, a < c, a % b = c % b
  PROVE  c >= a + b
<1>. DEFINE r == a % b
<1>1. r \in Nat /\ r = c % b
  BY Remainder
<1>2. PICK q \in Nat : a = b * q + r
  BY Quotient
<1>3. PICK p \in Nat : c = b * p + r
  BY <1>1, Quotient
<1>. HIDE DEF r
<1>4. b * q \in Nat /\ b * p \in Nat
  BY Product
<1>5. ~(p < q)
  BY <1>1, <1>2, <1>3, <1>4, NextMultiple
<1>6. p # q
  BY <1>2, <1>3
<1>7. q < p
  BY <1>5, <1>6
<1>8. b * p >= b * q + b
  BY <1>7, NextMultiple
<1>. QED
  BY <1>1, <1>2, <1>3, <1>4, <1>8

-----------------------------------------------------------------------------
(* The circle of ids *)

Circle == MAX - 1

\* Where the keys enter the circle: the batch that starts at 0 is continued after its
\* first key, or from the beginning of the circle if it has another one.
Circles == IF Start = 1 THEN {1} ELSE {0, UINT_RANGE % Circle}

\* The id of a key
IdOf(c, key) ==
  IF c = 0 /\ key = 1 THEN UINT_RANGE % Circle ELSE ((key + c - 2) % Circle) + 1

LEMMA CircleFacts ==
  /\ Circle \in Nat /\ Circle > 0 /\ MAX = Circle + 1 /\ UINT_RANGE \in Nat /\ UINT_RANGE > 0
  /\ UINT_RANGE % Circle \in 1..(Circle - 1) /\ UINT_RANGE >= Circle + (UINT_RANGE % Circle)
  /\ \A n \in 1..BatchSize : n \in Nat /\ n <= UINT_RANGE % Circle /\ n <= Circle
<1>. USE PreKeysAssumption
<1>. DEFINE M == Circle
            U == UINT_RANGE
            r == U % M
<1>1. M \in Nat /\ M > 0 /\ MAX = M + 1 /\ U \in Nat /\ U > M
  BY DEF Circle
<1>2. BatchSize \in Nat /\ 1 <= BatchSize /\ BatchSize <= r /\ BatchSize <= M
  BY DEF Circle
<1>. HIDE DEF M
<1>3. r \in 0..(M - 1)
  BY <1>1, Remainder
<1>4. PICK q \in Nat : U = M * q + r
  BY <1>1, Quotient
<1>. HIDE DEF r, U
<1>5. q # 0
  BY <1>1, <1>3, <1>4
<1>6. M * q >= M
  <2>1. M * q >= M * 0 + M
    BY <1>1, <1>5, NextMultiple
  <2>. QED
    BY <1>1, <2>1
<1>7. M * q \in Nat
  BY <1>1, Product
<1>8. r \in 1..(M - 1)
  BY <1>1, <1>2, <1>3
<1>9. U >= M + r
  BY <1>1, <1>4, <1>6, <1>7, <1>8
<1>10. \A n \in 1..BatchSize : n \in Nat /\ n <= r /\ n <= M
  BY <1>1, <1>2, <1>8
<1>. QED
  BY <1>1, <1>8, <1>9, <1>10 DEF M, U, r

\* Unless a batch starts at 0, start - 1 + i does not overflow.
LEMMA IdInCircle ==
  ASSUME NEW start \in 1..MAX, NEW n \in 1..BatchSize, NEW i \in 0..(n - 1)
  PROVE  PreKeyId(start, i) = ((start - 1 + i) % Circle) + 1
<1>. DEFINE a == start - 1 + i
            U == UINT_RANGE
            r == UINT_RANGE % Circle
            M == Circle
<1>1. /\ M \in Nat /\ M > 0 /\ MAX = M + 1 /\ U \in Nat /\ r \in 1..(M - 1) /\ U >= M + r /\ n \in Nat /\ n <= r
  BY CircleFacts
<1>. HIDE DEF M, U, r
<1>2. a \in 0..(U - 1) /\ start + U - 1 + i = a + U
  BY <1>1
<1>. HIDE DEF a
<1>3. (a + U) % U = a
  BY <1>1, <1>2, SmallRemainder
<1>4. PreKeyId(start, i) = (a % M) + 1
  BY <1>2, <1>3 DEF PreKeyId, U, M, Circle
<1>. QED
  BY <1>4 DEF a, M

LEMMA IdsGoOn ==
  ASSUME NEW key \in Nat \ {0}, NEW c \in Circles, c = 0 => key >= 2, IdOf(c, key) + 1 \in 1..MAX,
         NEW n \in 1..BatchSize, NEW i \in 0..(n - 1)
  PROVE  PreKeyId(IdOf(c, key) + 1, i) = IdOf(c, key + 1 + i)
<1>. DEFINE start == IdOf(c, key) + 1
            a == key + c - 2
            b == 1 + i
            M == Circle
<1>1. M \in Nat /\ M > 0 /\ c \in Nat /\ i \in Nat
  BY CircleFacts DEF Circles
<1>2. a \in Nat /\ b \in Nat /\ a + b = key + 1 + i + c - 2 /\ key + 1 + i # 1 /\ a % M \in Nat
  <2>1. a \in Nat /\ b \in Nat /\ a + b = key + 1 + i + c - 2 /\ key + 1 + i # 1
    BY <1>1
  <2>. HIDE DEF a, M
  <2>. QED
    BY <1>1, <2>1, Remainder
<1>3. start = (a % M) + 2 /\ start \in 1..MAX
  BY <1>1, <1>2 DEF IdOf
<1>4. PreKeyId(start, i) = ((start - 1 + i) % M) + 1
  BY <1>3, IdInCircle
<1>. DEFINE d == start - 1 + i
            e == key + 1 + i + c - 2
<1>. HIDE DEF start, a, b, M
<1>5. Added(a, M, b, d, e)
  BY <1>1, <1>2, <1>3 DEF b, Added
<1>. HIDE DEF d, e
<1>6. d % M = e % M
  BY <1>5, RemainderAdded
<1>7. PreKeyId(start, i) = (e % M) + 1
  BY <1>4, <1>6 DEF d
<1>. QED
  BY <1>2, <1>7 DEF IdOf, start, M, e

\* The first batch
LEMMA IdsBegin ==
  ASSUME NEW n \in 1..BatchSize
  PROVE  \E c \in Circles : /\ c = 0 => n >= 2
                            /\ \A i \in 0..(n - 1) : PreKeyId(Start, i) = IdOf(c, 1 + i)
<1>. DEFINE U == UINT_RANGE
            r == UINT_RANGE % Circle
            M == Circle
<1>1. /\ M \in Nat /\ M > 0 /\ MAX = M + 1 /\ U \in Nat /\ U > 0 /\ r \in 1..(M - 1) /\ U >= M + r
      /\ n \in Nat /\ n <= r
  BY CircleFacts
<1>2. CASE Start = 1
  <2>1. 1 \in Circles /\ 1 \in 1..MAX
    BY <1>1, <1>2 DEF Circles
  <2>2. ASSUME NEW i \in 0..(n - 1) PROVE PreKeyId(Start, i) = IdOf(1, 1 + i)
    <3>1. PreKeyId(1, i) = ((1 - 1 + i) % M) + 1
      BY <2>1, IdInCircle
    <3>2. 1 - 1 + i = 1 + i + 1 - 2
      BY <1>1
    <3>. QED
      BY <1>2, <3>1, <3>2 DEF IdOf
  <2>. QED
    BY <2>1, <2>2
<1>3. CASE Start = 0
  <2>1. PreKeyId(0, 0) = r
    <3>. DEFINE a == U - 1
    <3>1. a \in 0..(U - 1) /\ a \in Nat /\ 0 + U - 1 + 0 = a
      BY <1>1
    <3>. HIDE DEF a
    <3>2. a % U = a
      BY <1>1, <3>1, SmallRemainder
    <3>3. a % M = r - 1
      <4>1. PICK q \in Nat : U = M * q + r
        BY <1>1, Quotient
      <4>. HIDE DEF r, U, M
      <4>2. M * q \in Nat
        BY <1>1, Product
      <4>3. Division(a, M, q, r - 1)
        BY <1>1, <4>1, <4>2 DEF a, Division
      <4>. QED
        BY <4>3, OneRemainder
    <3>4. PreKeyId(0, 0) = ((a % U) % M) + 1
      BY <3>1 DEF PreKeyId, Circle
    <3>. HIDE DEF r, U, M
    <3>. QED
      BY <1>1, <3>2, <3>3, <3>4
  <2>2. CASE n = 1
    <3>1. r \in Circles /\ r # 0
      BY <1>1, <1>3 DEF Circles
    <3>2. IdOf(r, 1 + 0) = r
      <4>. DEFINE a == r - 1
      <4>1. a \in 0..(M - 1) /\ 1 + 0 + r - 2 = a
        BY <1>1
      <4>. HIDE DEF a
      <4>2. a % M = a
        BY <1>1, <4>1, SmallRemainder
      <4>3. IdOf(r, 1 + 0) = (a % M) + 1
        BY <3>1, <4>1 DEF IdOf
      <4>. QED
        BY <1>1, <4>2, <4>3 DEF a
    <3>3. \A i \in 0..(n - 1) : i = 0
      BY <2>2
    <3>. HIDE DEF r
    <3>4. \A i \in 0..(n - 1) : PreKeyId(Start, i) = IdOf(r, 1 + i)
      BY <1>3, <2>1, <3>2, <3>3
    <3>. QED
      BY <3>1, <3>4
  <2>3. CASE n # 1
    <3>1. 0 \in Circles /\ n >= 2
      BY <1>1, <1>3, <2>3 DEF Circles
    <3>2. IdOf(0, 1 + 0) = r
      BY DEF IdOf
    <3>3. ASSUME NEW i \in 0..(n - 1), i # 0 PROVE PreKeyId(0, i) = IdOf(0, 1 + i)
      <4>. DEFINE a == i - 1
      <4>1. a \in 0..(U - 1) /\ 0 + U - 1 + i = a + U /\ 1 + i # 1 /\ 1 + i + 0 - 2 = a
        BY <1>1, <3>3
      <4>. HIDE DEF a
      <4>2. (a + U) % U = a
        BY <1>1, <4>1, SmallRemainder
      <4>3. PreKeyId(0, i) = (a % M) + 1
        BY <4>1, <4>2 DEF PreKeyId, Circle
      <4>. QED
        BY <4>1, <4>3 DEF IdOf
    <3>. HIDE DEF r
    <3>4. \A i \in 0..(n - 1) : PreKeyId(Start, i) = IdOf(0, 1 + i)
      BY <1>3, <2>1, <3>2, <3>3
    <3>. QED
      BY <3>1, <3>4
  <2>. QED
    BY <2>2, <2>3
<1>. QED
  BY <1>2, <1>3, PreKeysAssumption

\* An id is used again after Distance keys.
LEMMA ComesRound ==
  ASSUME NEW c \in Circles, NEW a \in Nat \ {0}, NEW b \in Nat, a < b, IdOf(c, a) = IdOf(c, b)
  PROVE  b >= a + Distance(a)
<1>. DEFINE r == UINT_RANGE % Circle
            M == Circle
            x == a + c - 2
            y == b + c - 2
<1>1. M \in Nat /\ M > 0 /\ r \in 1..(M - 1) /\ c \in Nat /\ (c = 0 => Start = 0)
  BY CircleFacts, PreKeysAssumption DEF Circles
<1>2. Distance(a) <= M /\ Distance(a) \in Nat
  BY <1>1 DEF Distance, Circle
<1>. HIDE DEF M, r
<1>3. y \in Nat /\ IdOf(c, b) = (y % M) + 1 /\ y % M \in Nat
  <2>1. y \in Nat /\ b # 1
    BY <1>1
  <2>. HIDE DEF y
  <2>2. y % M \in Nat
    BY <1>1, <2>1, Remainder
  <2>. QED
    BY <2>1, <2>2 DEF IdOf, y, M
<1>4. CASE c = 0 /\ a = 1
  <2>1. Distance(a) = r
    BY <1>1, <1>4 DEF Distance, r, Circle
  <2>2. y % M = r - 1
    BY <1>1, <1>3, <1>4 DEF IdOf, r
  <2>. HIDE DEF y
  <2>3. y % M <= y
    BY <1>1, <1>3, Quotient, Product
  <2>4. y = b - 2
    BY <1>4 DEF y
  <2>. QED
    BY <1>1, <1>3, <1>4, <2>1, <2>2, <2>3, <2>4
<1>5. CASE ~(c = 0 /\ a = 1)
  <2>1. x \in Nat /\ x < y
    BY <1>1, <1>5
  <2>2. IdOf(c, a) = (x % M) + 1
    BY <1>5 DEF IdOf, M
  <2>. HIDE DEF x, y
  <2>3. x % M \in Nat
    BY <1>1, <2>1, Remainder
  <2>4. x % M = y % M
    BY <1>3, <2>2, <2>3
  <2>5. y >= x + M
    BY <1>1, <1>3, <2>1, <2>4, SameRemainder
  <2>. QED
    BY <1>1, <1>2, <2>5 DEF x, y
<1>. QED
  BY <1>4, <1>5

-----------------------------------------------------------------------------
(* The keys that were published can be found *)

\* The ids go round the circle.
Circling(c) ==
  /\ c = 0 => made >= 2
  /\ next = IdOf(c, made) + 1
  /\ \A id \in DOMAIN server : id = IdOf(c, server[id])
  /\ \A m \in sent : m.id \in Ids => m.id = IdOf(c, m.key)

CircleInv == IF made = 0 THEN next = Start ELSE \E c \in Circles : Circling(c)

\* The server gives a key away once.
GivenInv == \A m \in sent, id \in DOMAIN server : m.key # server[id]

\* The store holds the key under its id, or the id has come round again.
Found(store, count, id, key) ==
  \/ id \in DOMAIN store /\ store[id] = key
  \/ count >= key + Distance(key)

FoundInv ==
  /\ \A id \in DOMAIN server : Found(preKeys, made, id, server[id])
  /\ \A m \in sent : m.id \in Ids /\ m.key \notin spent => Found(preKeys, made, m.id, m.key)

PublishedInv == CircleInv /\ GivenInv /\ FoundInv

LEMMA FoundAvailable == FoundInv => Available
BY DEF FoundInv, Found, Available, Outstanding

LEMMA DistanceType == \A key : Distance(key) \in Nat
BY CircleFacts DEF Distance, Circle

\* A batch goes on where the last one ended.
LEMMA BatchCircling ==
  ASSUME IInv, CircleInv, NEW n \in 1..BatchSize
  PROVE  \E c \in Circles :
           /\ made # 0 => Circling(c)
           /\ c = 0 => made + n >= 2
           /\ \A i \in 0..(n - 1) : PreKeyId(next, i) = IdOf(c, made + 1 + i)
<1>1. made \in Nat /\ next \in 0..MAX /\ n \in Nat /\ MAX \in Nat /\ n >= 1
  BY CircleFacts, PreKeysAssumption DEF IInv, TypeOK
<1>2. CASE made = 0
  <2>1. PICK c \in Circles : /\ c = 0 => n >= 2
                             /\ \A i \in 0..(n - 1) : PreKeyId(Start, i) = IdOf(c, 1 + i)
    BY IdsBegin
  <2>2. \A i \in 0..(n - 1) : 1 + i = made + 1 + i
    BY <1>1, <1>2
  <2>3. next = Start /\ (c = 0 => made + n >= 2)
    BY <1>1, <1>2, <2>1 DEF CircleInv
  <2>4. \A i \in 0..(n - 1) : PreKeyId(next, i) = IdOf(c, made + 1 + i)
    BY <2>1, <2>2, <2>3
  <2>. QED
    BY <1>2, <2>3, <2>4
<1>3. CASE made # 0
  <2>1. PICK c \in Circles : Circling(c)
    BY <1>3 DEF CircleInv
  <2>2. made \in Nat \ {0} /\ (c = 0 => made >= 2) /\ next = IdOf(c, made) + 1
    BY <1>1, <1>3, <2>1 DEF Circling
  <2>3. IdOf(c, made) \in Nat
    <3>1. UINT_RANGE % Circle \in Nat /\ Circle \in Nat /\ Circle > 0 /\ c \in Nat
      BY CircleFacts DEF Circles
    <3>2. ~(c = 0 /\ made = 1) => made + c - 2 \in Nat
      BY <2>2, <3>1
    <3>. QED
      BY <3>1, <3>2, Remainder DEF IdOf
  <2>4. IdOf(c, made) + 1 \in 1..MAX
    BY <1>1, <2>2, <2>3
  <2>5. \A i \in 0..(n - 1) : PreKeyId(next, i) = IdOf(c, made + 1 + i)
    BY <2>2, <2>4, IdsGoOn
  <2>. QED
    BY <1>1, <2>1, <2>2, <2>5
<1>. QED
  BY <1>2, <1>3

LEMMA GeneratePublished ==
  ASSUME IInv, PublishedInv, NEW n \in 1..BatchSize, Generate(n) PROVE PublishedInv'
<1>. DEFINE B == BatchIds(next, n)
            index(id) == BatchIndex(next, n, id)
<1>1. /\ preKeys' = AddPreKeys(preKeys, next, n) /\ server' = AddPreKeys(server, next, n)
      /\ made' = made + n /\ next' = PreKeyId(next, n - 1) + 1 /\ sent' = sent /\ spent' = spent
  BY DEF Generate
<1>2. made \in Nat /\ next \in Nat /\ n \in Nat /\ n >= 1
  BY PreKeysAssumption DEF IInv, TypeOK
<1>3. PICK c \in Circles : /\ made # 0 => Circling(c)
                           /\ c = 0 => made + n >= 2
                           /\ \A i \in 0..(n - 1) : PreKeyId(next, i) = IdOf(c, made + 1 + i)
  BY BatchCircling DEF PublishedInv
<1>4. /\ B \subseteq Ids /\ \A id \in B : index(id) \in 0..(n - 1)
  BY <1>2, Batch
<1>5. \A id \in B : id = PreKeyId(next, index(id))
  BY DEF BatchIds, BatchIndex
<1>6. /\ DOMAIN preKeys' = DOMAIN preKeys \union B
      /\ \A id \in B : preKeys'[id] = made + 1 + index(id)
      /\ \A id \in DOMAIN preKeys \ B : preKeys'[id] = preKeys[id]
  BY <1>1 DEF AddPreKeys
<1>7. /\ DOMAIN server' = DOMAIN server \union B
      /\ \A id \in B : server'[id] = made + 1 + index(id)
      /\ \A id \in DOMAIN server \ B : server'[id] = server[id]
  BY <1>1 DEF AddPreKeys
<1>. HIDE DEF B, index
<1>8. \A id \in B : id = IdOf(c, made + 1 + index(id))
  BY <1>3, <1>4, <1>5
<1>9. /\ \A id \in DOMAIN server : server[id] \in 1..made
      /\ \A m \in sent : m.id \in Ids => m.key \in 1..made
      /\ \A m \in sent : m.key \in 0..made
  BY <1>2, PreKeysAssumption DEF IInv, TypeOK, Ids
<1>10. /\ \A id \in DOMAIN server : id = IdOf(c, server[id])
       /\ \A m \in sent : m.id \in Ids => m.id = IdOf(c, m.key)
  <2>1. CASE made = 0
    BY <1>9, <2>1
  <2>2. CASE made # 0
    BY <1>3, <2>2 DEF Circling
  <2>. QED
    BY <2>1, <2>2
<1>11. CircleInv'
  <2>1. made' # 0 /\ (c = 0 => made' >= 2)
    BY <1>1, <1>2, <1>3
  <2>2. next' = IdOf(c, made') + 1
    <3>1. n - 1 \in 0..(n - 1) /\ made + 1 + (n - 1) = made'
      BY <1>1, <1>2
    <3>. QED
      BY <1>1, <1>3, <3>1
  <2>3. \A id \in DOMAIN server' : id = IdOf(c, server'[id])
    BY <1>7, <1>8, <1>10
  <2>4. Circling(c)'
    BY <1>1, <1>10, <2>1, <2>2, <2>3 DEF Circling
  <2>. QED
    BY <2>1, <2>4 DEF CircleInv
<1>12. GivenInv'
  <2>1. ASSUME NEW m \in sent, NEW id \in B PROVE m.key # server'[id]
    <3>1. m.key \in 0..made /\ server'[id] = made + 1 + index(id) /\ index(id) \in Nat
      BY <1>2, <1>4, <1>7, <1>9
    <3>. QED
      BY <1>2, <3>1
  <2>2. ASSUME NEW m \in sent, NEW id \in DOMAIN server \ B PROVE m.key # server'[id]
    BY <1>7 DEF PublishedInv, GivenInv
  <2>. QED
    BY <1>1, <1>7, <2>1, <2>2 DEF GivenInv
<1>13. \A id \in Ids, key \in 1..made :
         id = IdOf(c, key) /\ Found(preKeys, made, id, key) => Found(preKeys', made', id, key)
  <2>. SUFFICES ASSUME NEW id \in Ids, NEW key \in 1..made, id = IdOf(c, key), Found(preKeys, made, id, key)
                PROVE  Found(preKeys', made', id, key)
    OBVIOUS
  <2>1. CASE id \in B
    <3>. DEFINE later == made + 1 + index(id)
    <3>1. later \in Nat /\ key < later /\ later <= made + n /\ key \in Nat \ {0} /\ IdOf(c, key) = IdOf(c, later)
      BY <1>2, <1>4, <1>8, <2>1
    <3>. HIDE DEF later
    <3>2. later >= key + Distance(key)
      BY <3>1, ComesRound
    <3>3. made' >= key + Distance(key)
      BY <1>1, <1>2, <3>1, <3>2, DistanceType
    <3>. QED
      BY <3>3 DEF Found
  <2>2. CASE id \notin B /\ made >= key + Distance(key)
    <3>1. made' >= key + Distance(key)
      BY <1>1, <1>2, <2>2, DistanceType
    <3>. QED
      BY <3>1 DEF Found
  <2>3. CASE id \notin B /\ id \in DOMAIN preKeys /\ preKeys[id] = key
    BY <1>6, <2>3 DEF Found
  <2>. QED
    BY <2>1, <2>2, <2>3 DEF Found
<1>14. FoundInv'
  <2>1. ASSUME NEW id \in DOMAIN server' PROVE Found(preKeys', made', id, server'[id])
    <3>1. CASE id \in B
      BY <1>6, <1>7, <3>1 DEF Found
    <3>2. CASE id \notin B
      <4>1. id \in DOMAIN server /\ server'[id] = server[id]
        BY <1>7, <3>2
      <4>2. id \in Ids /\ Found(preKeys, made, id, server[id])
        BY <4>1 DEF IInv, TypeOK, PublishedInv, FoundInv
      <4>. DEFINE key == server[id]
      <4>3. key \in 1..made /\ id = IdOf(c, key)
        BY <1>9, <1>10, <4>1
      <4>. HIDE DEF key
      <4>4. Found(preKeys', made', id, key)
        BY <1>13, <4>2, <4>3 DEF key
      <4>. QED
        BY <4>1, <4>4 DEF key, Found
    <3>. QED
      BY <3>1, <3>2
  <2>2. ASSUME NEW m \in sent, m.id \in Ids, m.key \notin spent PROVE Found(preKeys', made', m.id, m.key)
    BY <1>9, <1>10, <1>13, <2>2 DEF PublishedInv, FoundInv
  <2>. QED
    BY <1>1, <2>1, <2>2 DEF FoundInv
<1>. QED
  BY <1>11, <1>12, <1>14 DEF PublishedInv

LEMMA SendPublished ==
  ASSUME IInv, PublishedInv, NEW s \in Sender, NEW id \in 1..MAX \union {None}, Send(s, id)
  PROVE  PublishedInv'
<1>. DEFINE m == [from |-> s, base |-> Cardinality(sent), id |-> id,
                  key |-> IF id \in {MAX, None} THEN 0 ELSE server[id], signed |-> signed]
<1>1. /\ sent' = sent \union {m} /\ server' = [i \in DOMAIN server \ {id} |-> server[i]]
      /\ id \in IF DOMAIN server = {} THEN {MAX, None} ELSE DOMAIN server
      /\ UNCHANGED <<preKeys, made, next, spent>>
  BY DEF Send
<1>2. m.id = id /\ (id \notin {MAX, None} => m.key = server[id]) /\ (id \in {MAX, None} => m.key = 0)
  OBVIOUS
<1>. HIDE DEF m
<1>3. \A i \in DOMAIN server : i \in Ids /\ server[i] \in 1..made /\ i \notin {MAX, None}
  BY PreKeysAssumption DEF IInv, TypeOK, Ids
<1>4. id \in Ids => id \in DOMAIN server /\ m.key = server[id]
  BY <1>1, <1>2, PreKeysAssumption DEF Ids
<1>5. DOMAIN server' = DOMAIN server \ {id} /\ \A i \in DOMAIN server' : server'[i] = server[i]
  BY <1>1
<1>6. CircleInv'
  <2>1. CASE made = 0
    BY <1>1, <2>1 DEF PublishedInv, CircleInv
  <2>2. CASE made # 0
    <3>1. PICK c \in Circles : Circling(c)
      BY <2>2 DEF PublishedInv, CircleInv
    <3>2. m.id \in Ids => m.id = IdOf(c, m.key)
      BY <1>2, <1>4, <3>1 DEF Circling
    <3>3. Circling(c)'
      BY <1>1, <1>5, <3>1, <3>2 DEF Circling
    <3>. QED
      BY <1>1, <2>2, <3>3 DEF CircleInv
  <2>. QED
    BY <2>1, <2>2
<1>7. GivenInv'
  <2>1. ASSUME NEW i \in DOMAIN server' PROVE m.key # server'[i]
    <3>1. CASE id \in DOMAIN server
      <4>1. made # 0 /\ m.key = server[id] /\ i # id /\ i \in DOMAIN server
        BY <1>3, <1>4, <1>5, <3>1
      <4>2. PICK c \in Circles : Circling(c)
        BY <4>1 DEF PublishedInv, CircleInv
      <4>. QED
        BY <1>5, <3>1, <4>1, <4>2 DEF Circling
    <3>2. CASE id \notin DOMAIN server
      BY <1>1, <1>5, <3>2
    <3>. QED
      BY <3>1, <3>2
  <2>2. \A k \in sent, i \in DOMAIN server' : k.key # server'[i]
    BY <1>5 DEF PublishedInv, GivenInv
  <2>. QED
    BY <1>1, <2>1, <2>2 DEF GivenInv
<1>8. FoundInv'
  <2>1. \A i, key : Found(preKeys', made', i, key) <=> Found(preKeys, made, i, key)
    BY <1>1 DEF Found
  <2>2. m.id \in Ids => Found(preKeys, made, m.id, m.key)
    BY <1>2, <1>4 DEF PublishedInv, FoundInv
  <2>. QED
    BY <1>1, <1>5, <2>1, <2>2 DEF PublishedInv, FoundInv
<1>. QED
  BY <1>6, <1>7, <1>8 DEF PublishedInv

LEMMA ReceivePublished ==
  ASSUME IInv, PublishedInv, NEW m \in sent, NEW outcome \in Outcomes, Receive(m, outcome)
  PROVE  PublishedInv'
<1>1. UNCHANGED <<made, next, server, sent>>
  BY Accepted
<1>2. CircleInv' /\ GivenInv'
  BY <1>1 DEF PublishedInv, CircleInv, Circling, GivenInv
<1>3. CASE UNCHANGED <<preKeys, spent>>
  BY <1>1, <1>2, <1>3 DEF PublishedInv, FoundInv, Found
<1>4. CASE /\ m.id \in Ids /\ m.id \in DOMAIN preKeys /\ preKeys[m.id] = m.key
           /\ preKeys' = RemoveKey(preKeys, m.id) /\ spent' = spent \union {m.key}
  <2>1. /\ DOMAIN preKeys' = DOMAIN preKeys \ {m.id}
        /\ \A i \in DOMAIN preKeys' : preKeys'[i] = preKeys[i]
    BY <1>4 DEF RemoveKey
  <2>2. \A id, key : key # m.key /\ Found(preKeys, made, id, key) => Found(preKeys', made', id, key)
    BY <1>1, <1>4, <2>1 DEF Found
  <2>3. \A id \in DOMAIN server : server[id] # m.key
    BY DEF PublishedInv, GivenInv
  <2>4. \A k \in sent : k.key \notin spent' => k.key # m.key /\ k.key \notin spent
    BY <1>4
  <2>5. \A id \in DOMAIN server : Found(preKeys', made', id, server[id])
    BY <2>2, <2>3 DEF PublishedInv, FoundInv
  <2>6. \A k \in sent : k.id \in Ids /\ k.key \notin spent' => Found(preKeys', made', k.id, k.key)
    BY <2>2, <2>4 DEF PublishedInv, FoundInv
  <2>7. FoundInv'
    BY <1>1, <2>5, <2>6 DEF FoundInv, Found
  <2>. QED
    BY <1>2, <2>7 DEF PublishedInv
<1>. QED
  BY <1>3, <1>4, Accepted

LEMMA PublishedStep == IInv /\ PublishedInv /\ [Next]_vars => PublishedInv'
<1>. SUFFICES ASSUME IInv, PublishedInv, [Next]_vars PROVE PublishedInv'
  OBVIOUS
<1>1. ASSUME UNCHANGED <<preKeys, made, next, server, sent, spent>> PROVE PublishedInv'
  BY <1>1 DEF PublishedInv, CircleInv, Circling, GivenInv, FoundInv, Found
<1>2. ASSUME NEW random, Install(random) PROVE PublishedInv'
  <2>1. /\ DOMAIN preKeys = {} /\ UNCHANGED <<made, next, server, sent, spent>>
    BY <1>2 DEF Install, IInv, InstallInv
  <2>2. \A i, key : Found(preKeys, made, i, key) => Found(preKeys', made', i, key)
    BY <2>1 DEF Found
  <2>. QED
    BY <2>1, <2>2 DEF PublishedInv, CircleInv, Circling, GivenInv, FoundInv
<1>3. CASE UNCHANGED vars
  BY <1>1, <1>3 DEF vars
<1>4. CASE RotateSigned
  BY <1>1, <1>4 DEF RotateSigned
<1>5. ASSUME NEW id \in signedPreKeys, RemoveSigned(id) PROVE PublishedInv'
  BY <1>1, <1>5 DEF RemoveSigned
<1>6. ASSUME NEW s \in Sender, DeleteSession(s) PROVE PublishedInv'
  BY <1>1, <1>6 DEF DeleteSession
<1>. QED
  BY <1>2, <1>3, <1>4, <1>5, <1>6, GeneratePublished, SendPublished, ReceivePublished DEF Next

LEMMA InitPublished == Init => PublishedInv
<1>. SUFFICES ASSUME Init PROVE PublishedInv
  OBVIOUS
<1>1. DOMAIN server = {} /\ sent = {} /\ made = 0 /\ next = Start
  BY DEF Init
<1>. QED
  BY <1>1 DEF PublishedInv, CircleInv, GivenInv, FoundInv

\* A one-time pre key that was published stays in the store, under its id, until it is used
\* or until its id has come round again, for every number of ids, width of an unsigned int
\* and size of the batches that signal_protocol_key_helper_generate_pre_keys makes.
THEOREM AvailableHolds == Spec => []Available
<1>1. PublishedInv => Available
  BY FoundAvailable DEF PublishedInv
<1>. QED
  BY <1>1, Invariant, InitPublished, PublishedStep, PTL DEF Spec
=============================================================================
