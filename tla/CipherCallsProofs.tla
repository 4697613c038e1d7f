------------------------- MODULE CipherCallsProofs -------------------------
(***************************************************************************)
(* Every step of CipherCalls keeps the types, the lock and the calls that  *)
(* work on one address apart.                                              *)
(***************************************************************************)
EXTENDS CipherCallsSteps

\* Leaves without a prover of their own: SMT, again with more time, then Zenon.
USE SMTT(10), SMTT(20), SMTT(30), ZenonT(10)

\* Every step keeps the types.
LEMMA TypeStep == TypeOK /\ LockInv /\ PlaceInv /\ [Next]_vars => TypeOK'
<1>. SUFFICES ASSUME TypeOK, LockInv, PlaceInv, [Next]_vars PROVE TypeOK'
  OBVIOUS
<1>. USE CipherCallsAssumption
<1>1. CASE UNCHANGED vars
  BY <1>1 DEF vars, TypeOK
<1>2. ASSUME NEW c \in Call, NEW t \in Thread, NEW x \in Cipher, NEW kind \in Kinds,
             NEW m \in Message \union {None}, Begin(t, x, kind, m, c)
      PROVE TypeOK'
  <2>1. Begins(t, x, kind, m, c)
    BY <1>2, CallBegins
  <2>. QED
    BY <2>1 DEF Begins, TypeOK
<1>3. ASSUME NEW c \in Call, Lock(c) PROVE TypeOK'
  <2>1. Thr(c) \in Thread
    BY <1>3, CallLocks DEF Thr, Infos
  <2>. QED
    BY <1>3, <2>1, CallLocks DEF TypeOK
<1>4. ASSUME NEW c \in Call, Inner(c) PROVE TypeOK'
  <2>1. info[c] \in Infos
    BY <1>4, CallMoves
  <2>2. local[c] \in Records /\ store[Adr(c)] \in Records
    BY <2>1 DEF TypeOK, Adr, Infos
  <2>3. local' \in [Call -> Records]
    <3>1. local \in [Call -> Records]
      BY DEF TypeOK
    <3>2. CASE Load(c)
      BY <2>2, <3>1, <3>2 DEF Load
    <3>3. CASE Encrypt(c)
      BY <2>2, <3>1, <3>3, RecordUpdate, Zenon DEF Encrypt
    <3>4. CASE Decrypt(c)
      <4>1. info[c].message \in Message
        BY <3>4 DEF Decrypt, Goes, PlaceInv, Decrypts
      <4>. QED
        BY <2>2, <3>1, <3>4, <4>1, RecordUpdate, Zenon DEF Decrypt
    <3>5. CASE DecryptPreKey(c)
      <4>1. info[c].message \in Message
        BY <3>5 DEF DecryptPreKey, Goes, PlaceInv, Decrypts
      <4>2. PICK record \in {local[c], NewSession(local[c], c)} :
              local' = [local EXCEPT ![c] = [record EXCEPT !.read = @ \union {info[c].message}]]
        BY <3>5, Zenon DEF DecryptPreKey
      <4>3. record \in Records
        BY <2>2, RecordUpdate, Zenon
      <4>4. [record EXCEPT !.read = record.read \union {info[c].message}] \in Records
        BY <4>1, <4>3, RecordUpdate, Zenon
      <4>. QED
        BY <3>1, <4>2, <4>4, Zenon
    <3>6. CASE Build(c)
      BY <2>2, <3>1, <3>6, RecordUpdate, Zenon DEF Build
    <3>. QED
      BY <1>4, <3>1, <3>2, <3>3, <3>4, <3>5, <3>6, CallMoves
  <2>4. inside' \in [Cipher -> BOOLEAN]
    <3>1. CASE EnterCallback(c)
      BY <3>1, Zenon DEF EnterCallback, TypeOK
    <3>2. CASE ExitCallback(c)
      BY <3>2, Zenon DEF ExitCallback, TypeOK
    <3>. QED
      BY <1>4, <3>1, <3>2, CallMoves DEF TypeOK
  <2>5. store' \in [Address -> Records]
    <3>1. CASE Store(c)
      BY <2>2, <3>1, Zenon DEF Store, TypeOK
    <3>. QED
      BY <1>4, <3>1, CallMoves DEF TypeOK
  <2>6. \A d \in Call : pc'[d] # "unused" => info[d] \in Infos
    BY <1>4, CallMoves DEF TypeOK
  <2>7. done' \subseteq Call
    BY <1>4, CallMoves DEF Way, TypeOK
  <2>. QED
    BY <1>4, <2>3, <2>4, <2>5, <2>6, <2>7, CallMoves DEF TypeOK
<1>5. ASSUME NEW c \in Call, Unlock(c) PROVE TypeOK'
  <2>1. c \in HeldCalls
    BY <1>5, CallUnlocks DEF HeldCalls, Held
  <2>2. depth \in Nat \ {0}
    BY <2>1, HeldFinite, FS_EmptySet DEF LockInv
  <2>3. depth' \in Nat /\ owner' \in Thread \union {None} /\ (owner' = None) = (depth' = 0)
    BY <1>5, <2>2, CallUnlocks DEF TypeOK
  <2>4. top' \in [Thread -> Call \union {None}]
    <3>1. Thr(c) \in Thread /\ info[c].caller \in Call \union {None}
      BY <1>5, CallUnlocks DEF Thr, Infos
    <3>. QED
      BY <1>5, <3>1, CallUnlocks DEF TypeOK
  <2>5. \A d \in Call : pc'[d] # "unused" => info[d] \in Infos
    BY <1>5, CallUnlocks DEF TypeOK
  <2>. QED
    BY <1>5, <2>3, <2>4, <2>5, CallUnlocks DEF TypeOK
<1>. QED
  BY <1>1, <1>2, <1>3, <1>4, <1>5, Steps

\* Every step keeps the invariant of the lock.
LEMMA LockStep == TypeOK /\ LockInv /\ [Next]_vars => LockInv'
<1>. SUFFICES ASSUME TypeOK, LockInv, [Next]_vars PROVE LockInv'
  OBVIOUS
<1>. USE CipherCallsAssumption
<1>0. top \in [Thread -> Call \union {None}]
  BY DEF TypeOK
<1>1. CASE UNCHANGED vars
  BY <1>1 DEF vars, LockInv, Held, HeldCalls, Thr
<1>2. ASSUME NEW c \in Call, NEW t \in Thread, NEW x \in Cipher, NEW kind \in Kinds,
             NEW m \in Message \union {None}, Begin(t, x, kind, m, c)
      PROVE LockInv'
  <2>0. Begins(t, x, kind, m, c)
    BY <1>2, CallBegins
  <2>1. \A d \in Call : d # c => pc'[d] = pc[d] /\ info'[d] = info[d]
    BY <2>0 DEF Begins
  <2>2. /\ pc[c] = "unused" /\ pc'[c] = "calling" /\ info'[c].thread = t
        /\ top' = [top EXCEPT ![t] = c] /\ owner' = owner /\ depth' = depth
        /\ top[t] # None => pc[top[t]] = "callback"
    BY <2>0 DEF Begins
  <2>3. HeldCalls' = HeldCalls
    BY <2>1, <2>2 DEF HeldCalls, Held
  <2>4. \A d \in Call : Held(d)' => owner' = Thr(d)'
    BY <2>1, <2>2 DEF LockInv, Held, Thr
  <2>5. ASSUME NEW d \in Call, pc'[d] \in Running PROVE top'[Thr(d)'] = d
    <3>1. CASE d = c
      BY <1>0, <2>2, <3>1 DEF Thr
    <3>2. CASE d # c
      <4>1. top[Thr(d)] = d /\ Thr(d)' = Thr(d) /\ pc[d] \in Running
        BY <2>1, <2>5, <3>2 DEF LockInv, Thr
      <4>2. Thr(d) # t
        BY <2>2, <4>1 DEF Running, Call
      <4>3. Thr(d) \in Thread
        BY <4>1 DEF TypeOK, Running, Thr, Infos
      <4>. QED
        BY <1>0, <2>2, <4>1, <4>2, <4>3
    <3>. QED
      BY <3>1, <3>2
  <2>. QED
    BY <2>2, <2>3, <2>4, <2>5 DEF LockInv
<1>3. ASSUME NEW c \in Call, Lock(c) PROVE LockInv'
  <2>1. /\ pc[c] = "calling" /\ pc'[c] = "locked" /\ top[Thr(c)] = c
        /\ \A d \in Call : d # c => pc'[d] = pc[d]
        /\ owner \in {None, Thr(c)} /\ owner' = Thr(c) /\ depth' = depth + 1
        /\ UNCHANGED <<info, top>>
    BY <1>3, CallLocks
  <2>2. HeldCalls' = HeldCalls \union {c} /\ c \notin HeldCalls
    BY <2>1 DEF HeldCalls, Held
  <2>3. depth' = Cardinality(HeldCalls')
    BY <2>1, <2>2, HeldFinite, FS_AddElement, Zenon DEF LockInv
  <2>4. ASSUME NEW d \in Call, Held(d)' PROVE owner' = Thr(d)'
    <3>1. CASE d = c
      BY <2>1, <3>1 DEF Thr
    <3>2. CASE d # c
      <4>1. d \in HeldCalls
        BY <2>1, <2>4, <3>2 DEF HeldCalls, Held
      <4>2. owner = Thr(d) /\ depth # 0
        BY <4>1, HeldFinite, FS_EmptySet DEF LockInv, HeldCalls
      <4>. QED
        BY <2>1, <4>2 DEF TypeOK, Thr
    <3>. QED
      BY <3>1, <3>2
  <2>5. \A d \in Call : pc'[d] \in Running => top'[Thr(d)'] = d
    BY <2>1 DEF LockInv, Thr, Running, Places
  <2>. QED
    BY <2>3, <2>4, <2>5 DEF LockInv
<1>4. ASSUME NEW c \in Call, Inner(c) PROVE LockInv'
  <2>1. /\ UNCHANGED <<info, top, owner, depth>> /\ top[Thr(c)] = c
        /\ \A d \in Call : d # c => pc'[d] = pc[d]
    BY <1>4, CallMoves
  <2>2. Held(c) /\ Held(c)'
    BY <1>4, CallMoves DEF Held, Way
  <2>3. \A d \in Call : Held(d)' <=> Held(d)
    BY <2>1, <2>2 DEF Held
  <2>4. HeldCalls' = HeldCalls
    BY <2>3 DEF HeldCalls
  <2>5. \A d \in Call : pc'[d] \in Running => top'[Thr(d)'] = d
    BY <2>1 DEF LockInv, Thr
  <2>. QED
    BY <2>1, <2>3, <2>4, <2>5 DEF LockInv, Thr
<1>5. ASSUME NEW c \in Call, Unlock(c) PROVE LockInv'
  <2>1. /\ pc[c] \in {"finishing", "failing"} /\ pc'[c] \in {"ok", "error"}
        /\ top[Thr(c)] = c /\ info' = info
        /\ \A d \in Call : d # c => pc'[d] = pc[d]
        /\ depth' = depth - 1 /\ owner' = IF depth = 1 THEN None ELSE owner
        /\ top' = [top EXCEPT ![Thr(c)] = info[c].caller]
    BY <1>5, CallUnlocks
  <2>2. HeldCalls' = HeldCalls \ {c} /\ c \in HeldCalls
    BY <2>1 DEF HeldCalls, Held
  <2>3. /\ Cardinality(HeldCalls') = Cardinality(HeldCalls) - 1
        /\ IsFiniteSet(HeldCalls') /\ Cardinality(HeldCalls) \in Nat
    BY <2>2, HeldFinite, FS_RemoveElement
  <2>4. depth' = Cardinality(HeldCalls')
    BY <2>1, <2>3 DEF LockInv
  <2>5. ASSUME NEW d \in Call, Held(d)' PROVE owner' = Thr(d)'
    <3>1. d \in HeldCalls'
      BY <2>5 DEF HeldCalls
    <3>2. depth' # 0
      BY <2>3, <2>4, <3>1, FS_EmptySet
    <3>3. owner' = owner
      BY <2>1, <2>3, <3>2 DEF LockInv
    <3>. QED
      BY <2>1, <2>2, <3>1, <3>3 DEF LockInv, Thr, HeldCalls
  <2>6. ASSUME NEW d \in Call, pc'[d] \in Running PROVE top'[Thr(d)'] = d
    <3>1. d # c /\ pc'[d] = pc[d]
      BY <2>1, <2>6 DEF Running
    <3>2. top[Thr(d)] = d /\ Thr(d) # Thr(c)
      BY <2>1, <2>6, <3>1 DEF LockInv
    <3>3. Thr(d) \in Thread
      BY <2>6, <3>1 DEF TypeOK, Running, Thr, Infos
    <3>. QED
      BY <1>0, <2>1, <3>2, <3>3 DEF Thr
  <2>. QED
    BY <2>4, <2>5, <2>6 DEF LockInv
<1>. QED
  BY <1>1, <1>2, <1>3, <1>4, <1>5, Steps

-----------------------------------------------------------------------------
(* Calls and the flags of the cipher objects *)

\* A running call and another one that holds the lock: the other is in its callback.
LEMMA OtherInCallback ==
  ASSUME TypeOK, LockInv, NEW c \in Call, NEW d \in Call, c # d,
         Held(c), pc[d] \in Running, Held(d)
  PROVE  pc[c] = "callback" /\ Thr(c) = Thr(d)
<1>1. Thr(c) = Thr(d) /\ top[Thr(d)] = d
  BY DEF LockInv
<1>2. pc[c] \notin Running
  BY <1>1 DEF LockInv
<1>. QED
  BY <1>1, <1>2 DEF Running, Held, TypeOK

\* Every step keeps PlaceInv.
LEMMA PlaceStep == TypeOK /\ PlaceInv /\ [Next]_vars => PlaceInv'
<1>. SUFFICES ASSUME TypeOK, PlaceInv, [Next]_vars PROVE PlaceInv'
  OBVIOUS
<1>1. CASE UNCHANGED vars
  BY <1>1 DEF vars, PlaceInv
<1>2. ASSUME NEW c \in Call, NEW t \in Thread, NEW x \in Cipher, NEW kind \in Kinds,
             NEW m \in Message \union {None}, kind \in Decrypts => m \in Message,
             Begin(t, x, kind, m, c)
      PROVE PlaceInv'
  <2>1. Begins(t, x, kind, m, c)
    BY <1>2, CallBegins
  <2>. QED
    BY <1>2, <2>1 DEF Begins, PlaceInv
<1>3. ASSUME NEW c \in Call, Lock(c) PROVE PlaceInv'
  BY <1>3, CallLocks DEF PlaceInv
<1>4. ASSUME NEW c \in Call, Unlock(c) PROVE PlaceInv'
  BY <1>4, CallUnlocks DEF PlaceInv
<1>5. ASSUME NEW c \in Call, Inner(c) PROVE PlaceInv'
  <2>1. Way(c) /\ info' = info /\ \A d \in Call : d # c => pc'[d] = pc[d]
    BY <1>5, CallMoves
  <2>2. ASSUME NEW d \in Call
        PROVE  /\ pc'[d] # "unused" /\ info[d].kind \in Decrypts => info[d].message \in Message
               /\ pc'[d] \in {"decrypted", "callback"} => info[d].kind \in Decrypts
               /\ pc'[d] = "storing" => info[d].kind # "query"
    <3>1. CASE d = c
      BY <2>1, <3>1 DEF PlaceInv, Way, Decrypts
    <3>2. CASE d # c
      BY <2>1, <3>2 DEF PlaceInv
    <3>. QED
      BY <3>1, <3>2
  <2>. QED
    BY <2>1, <2>2 DEF PlaceInv
<1>. QED
  BY <1>1, <1>2, <1>3, <1>4, <1>5, Steps

\* Every step keeps DoneInv: only a call that stores, or a query, is done with its work.
LEMMA DoneStep == TypeOK /\ DoneInv /\ [Next]_vars => DoneInv'
<1>. SUFFICES ASSUME TypeOK, DoneInv, [Next]_vars, NEW d \in Call PROVE DoneOf(d)'
  BY DEF DoneInv
<1>0. DoneOf(d)
  BY DEF DoneInv
<1>1. CASE UNCHANGED vars
  BY <1>0, <1>1 DEF vars, DoneOf
<1>2. ASSUME NEW c \in Call, NEW t \in Thread, NEW x \in Cipher, NEW kind \in Kinds,
             NEW m \in Message \union {None}, Begin(t, x, kind, m, c)
      PROVE DoneOf(d)'
  <2>1. Begins(t, x, kind, m, c)
    BY <1>2, CallBegins
  <2>2. /\ pc[c] = "unused" /\ pc'[c] = "calling" /\ done' = done
        /\ d # c => pc'[d] = pc[d] /\ info'[d] = info[d]
    BY <2>1 DEF Begins
  <2>. QED
    BY <1>0, <2>2 DEF DoneOf
<1>3. ASSUME NEW c \in Call, Lock(c) PROVE DoneOf(d)'
  BY <1>0, <1>3, CallLocks DEF DoneOf
<1>4. ASSUME NEW c \in Call, Unlock(c) PROVE DoneOf(d)'
  BY <1>0, <1>4, CallUnlocks DEF DoneOf
<1>5. ASSUME NEW c \in Call, Inner(c) PROVE DoneOf(d)'
  <2>1. Way(c) /\ info' = info /\ (d # c => pc'[d] = pc[d])
    BY <1>5, CallMoves
  <2>2. CASE d = c
    BY <1>0, <2>1, <2>2 DEF DoneOf, Way
  <2>3. CASE d # c
    <3>1. pc'[d] = pc[d] /\ (d \in done' <=> d \in done)
      BY <2>1, <2>3 DEF Way
    <3>. QED
      BY <1>0, <2>1, <3>1 DEF DoneOf
  <2>. QED
    BY <2>2, <2>3
<1>. QED
  BY <1>1, <1>2, <1>3, <1>4, <1>5, Steps

\* Every step keeps ObjectInv: a call that has a callback does not load a record while
\* the flag of its cipher object is set.
LEMMA ObjectStep ==
  TypeOK /\ LockInv /\ ObjectInv /\ FlagExact /\ [Next]_vars => ObjectInv'
<1>. SUFFICES ASSUME TypeOK, LockInv, ObjectInv, FlagExact, [Next]_vars PROVE ObjectInv'
  OBVIOUS
<1>1. CASE UNCHANGED vars
  BY <1>1 DEF vars, ObjectInv, Active
<1>2. ASSUME NEW c \in Call, NEW t \in Thread, NEW x \in Cipher, NEW kind \in Kinds,
             NEW m \in Message \union {None}, Begin(t, x, kind, m, c)
      PROVE ObjectInv'
  <2>1. Begins(t, x, kind, m, c)
    BY <1>2, CallBegins
  <2>2. /\ pc'[c] = "calling"
        /\ \A d \in Call : d # c => pc'[d] = pc[d] /\ info'[d] = info[d]
    BY <2>1 DEF Begins
  <2>. QED
    BY <2>2 DEF ObjectInv, Active
<1>3. ASSUME NEW c \in Call, Lock(c) PROVE ObjectInv'
  BY <1>3, CallLocks DEF ObjectInv, Active
<1>4. ASSUME NEW c \in Call, Unlock(c) PROVE ObjectInv'
  BY <1>4, CallUnlocks DEF ObjectInv, Active
<1>5. ASSUME NEW d \in Call, Inner(d) PROVE ObjectInv'
  <2>1. Way(d) /\ info' = info /\ \A c \in Call : c # d => pc'[c] = pc[c]
    BY <1>5, CallMoves
  <2>2. \A c \in Call : c # d => (Active(c)' <=> Active(c))
    BY <2>1 DEF Active
  <2>3. CASE ~Load(d)
    <3>1. Active(d)' => Active(d)
      BY <2>1, <2>3 DEF Way, Active
    <3>. QED
      BY <2>1, <2>2, <3>1 DEF ObjectInv
  <2>4. CASE Load(d)
    <3>1. pc[d] = "locked" /\ ~Refuses(d) /\ info[d] \in Infos
      BY <1>5, <2>4, CallMoves DEF Load, Goes
    <3>2. ASSUME NEW c \in Call, c # d, Active(c), info[c].cipher = info[d].cipher
          PROVE  info[d].kind \in {"build", "query"}
      <4>1. Held(c) /\ Held(d) /\ pc[d] \in Running
        BY <3>1, <3>2 DEF Held, Active, Running, Places
      <4>2. pc[c] = "callback"
        BY <3>2, <4>1, OtherInCallback
      <4>3. inside[info[d].cipher]
        BY <3>1, <3>2, <4>2 DEF FlagExact, Infos
      <4>. QED
        BY <3>1, <4>3 DEF Refuses
    <3>. QED
      BY <2>1, <2>2, <3>2 DEF ObjectInv
  <2>. QED
    BY <2>3, <2>4
<1>. QED
  BY <1>1, <1>2, <1>3, <1>4, <1>5, Steps

\* A step in which no call enters or leaves its callback does not concern the flags.
LEMMA FlagKept ==
  ASSUME FlagExact, inside' = inside,
         \A c \in Call : /\ pc'[c] = "callback" <=> pc[c] = "callback"
                         /\ pc[c] = "callback" => info'[c] = info[c]
  PROVE  FlagExact'
BY DEF FlagExact

\* Every step keeps the flags exact.
LEMMA FlagStep ==
  TypeOK /\ PlaceInv /\ ObjectInv /\ FlagExact /\ [Next]_vars => FlagExact'
<1>. SUFFICES ASSUME TypeOK, PlaceInv, ObjectInv, FlagExact, [Next]_vars PROVE FlagExact'
  OBVIOUS
<1>1. CASE UNCHANGED vars
  BY <1>1, FlagKept DEF vars
<1>2. ASSUME NEW c \in Call, NEW t \in Thread, NEW x \in Cipher, NEW kind \in Kinds,
             NEW m \in Message \union {None}, Begin(t, x, kind, m, c)
      PROVE FlagExact'
  <2>1. Begins(t, x, kind, m, c)
    BY <1>2, CallBegins
  <2>2. /\ pc[c] = "unused" /\ pc'[c] = "calling" /\ inside' = inside
        /\ \A d \in Call : d # c => pc'[d] = pc[d] /\ info'[d] = info[d]
    BY <2>1 DEF Begins
  <2>. QED
    BY <2>2, FlagKept
<1>3. ASSUME NEW c \in Call, Lock(c) PROVE FlagExact'
  BY <1>3, CallLocks, FlagKept
<1>4. ASSUME NEW c \in Call, Unlock(c) PROVE FlagExact'
  BY <1>4, CallUnlocks, FlagKept
<1>5. ASSUME NEW c \in Call, Inner(c) PROVE FlagExact'
  <2>0. inside \in [Cipher -> BOOLEAN] /\ info[c].cipher \in Cipher
    BY <1>5, CallMoves DEF TypeOK, Infos
  <2>1. Way(c) /\ info' = info /\ \A d \in Call : d # c => pc'[d] = pc[d]
    BY <1>5, CallMoves
  <2>2. CASE EnterCallback(c)
    <3>1. inside' = [inside EXCEPT ![info[c].cipher] = TRUE] /\ pc'[c] = "callback"
      BY <2>1, <2>2 DEF EnterCallback, Goes, TypeOK
    <3>2. pc[c] # "callback"
      BY <2>2 DEF EnterCallback, Goes
    <3>3. ASSUME NEW x \in Cipher
          PROVE  inside'[x] <=> \E d \in Call : pc'[d] = "callback" /\ info'[d].cipher = x
      <4>1. CASE x = info[c].cipher
        BY <2>0, <2>1, <3>1, <4>1
      <4>2. CASE x # info[c].cipher
        <5>1. inside'[x] <=> inside[x]
          BY <2>0, <3>1, <4>2
        <5>. QED
          BY <2>1, <4>2, <5>1 DEF FlagExact
      <4>. QED
        BY <4>1, <4>2
    <3>. QED
      BY <3>3 DEF FlagExact
  <2>3. CASE ExitCallback(c)
    <3>1. /\ inside' = [inside EXCEPT ![info[c].cipher] = FALSE]
          /\ pc[c] = "callback" /\ pc'[c] # "callback"
      BY <2>1, <2>3 DEF ExitCallback, Goes, Way
    <3>2. ASSUME NEW d \in Call, d # c, pc[d] = "callback" PROVE info[d].cipher # info[c].cipher
      BY <3>1, <3>2 DEF ObjectInv, PlaceInv, Active, Decrypts
    <3>3. ASSUME NEW x \in Cipher
          PROVE  inside'[x] <=> \E d \in Call : pc'[d] = "callback" /\ info'[d].cipher = x
      <4>1. CASE x = info[c].cipher
        BY <2>0, <2>1, <3>1, <3>2, <4>1
      <4>2. CASE x # info[c].cipher
        <5>1. inside'[x] <=> inside[x]
          BY <2>0, <3>1, <4>2
        <5>. QED
          BY <2>1, <3>1, <4>2, <5>1 DEF FlagExact
      <4>. QED
        BY <4>1, <4>2
    <3>. QED
      BY <3>3 DEF FlagExact
  <2>4. CASE ~EnterCallback(c) /\ ~ExitCallback(c)
    <3>1. inside' = inside
      BY <1>5, <2>4, CallMoves
    <3>2. pc'[c] # "callback" /\ pc[c] # "callback"
      BY <2>1, <2>4 DEF Way
    <3>. QED
      BY <2>1, <3>1, <3>2, FlagKept
  <2>. QED
    BY <2>2, <2>3, <2>4
<1>. QED
  BY <1>1, <1>2, <1>3, <1>4, <1>5, Steps

-----------------------------------------------------------------------------
(* Calls that work on the same address, if callbacks leave it alone *)

\* Every step keeps PermittedInv.
LEMMA PermittedStep ==
  ASSUME CallbacksApart
  PROVE  TypeOK /\ LockInv /\ PermittedInv /\ [Next]_vars => PermittedInv'
<1>. SUFFICES ASSUME TypeOK, LockInv, PermittedInv, [Next]_vars PROVE PermittedInv'
  OBVIOUS
<1>1. CASE UNCHANGED vars
  BY <1>1 DEF vars, PermittedInv, Thr, Adr
<1>2. ASSUME NEW c \in Call, NEW t \in Thread, NEW x \in Cipher, NEW kind \in Kinds,
             NEW m \in Message \union {None}, Begin(t, x, kind, m, c)
      PROVE PermittedInv'
  <2>1. Begins(t, x, kind, m, c)
    BY <1>2, CallBegins
  <2>2. /\ \A d \in Call : d # c => pc'[d] = pc[d] /\ info'[d] = info[d]
        /\ pc'[c] = "calling" /\ info'[c].thread = t /\ info'[c].cipher = x
        /\ info'[c].kind = kind /\ Permitted(t, x, kind)
    BY <2>1 DEF Begins
  <2>. QED
    BY <2>2 DEF PermittedInv, Permitted, Thr, Adr
<1>3. ASSUME NEW c \in Call, Lock(c) PROVE PermittedInv'
  BY <1>3, CallLocks DEF PermittedInv, Thr, Adr
<1>4. ASSUME NEW c \in Call, Unlock(c) PROVE PermittedInv'
  BY <1>4, CallUnlocks DEF PermittedInv, Thr, Adr
<1>5. ASSUME NEW c \in Call, Inner(c) PROVE PermittedInv'
  <2>1. /\ Way(c) /\ info' = info /\ top[Thr(c)] = c
        /\ \A d \in Call : d # c => pc'[d] = pc[d]
    BY <1>5, CallMoves
  <2>2. pc'[c] \notin {"calling", "locked"}
    BY <2>1 DEF Way
  <2>3. ASSUME NEW d \in Call, pc'[d] \in {"calling", "locked"}
        PROVE  pc[d] = pc'[d] /\ d # c /\ Thr(d) # Thr(c)
    <3>1. pc[d] = pc'[d] /\ d # c
      BY <2>1, <2>2, <2>3
    <3>2. top[Thr(d)] = d
      BY <2>3, <3>1 DEF LockInv, Running, Places
    <3>. QED
      BY <2>1, <3>1, <3>2
  <2>. QED
    BY <2>1, <2>3 DEF PermittedInv, Thr, Adr
<1>. QED
  BY <1>1, <1>2, <1>3, <1>4, <1>5, Steps

\* Every step keeps the calls that work on one address apart.
LEMMA ApartStep ==
  TypeOK /\ LockInv /\ FlagExact /\ PermittedInv /\ ApartInv /\ [Next]_vars => ApartInv'
<1>. SUFFICES ASSUME TypeOK, LockInv, FlagExact, PermittedInv, ApartInv, [Next]_vars
              PROVE ApartInv'
  OBVIOUS
<1>1. CASE UNCHANGED vars
  BY <1>1 DEF vars, ApartInv, Active, Adr
<1>2. ASSUME NEW c \in Call, NEW t \in Thread, NEW x \in Cipher, NEW kind \in Kinds,
             NEW m \in Message \union {None}, Begin(t, x, kind, m, c)
      PROVE ApartInv'
  <2>1. Begins(t, x, kind, m, c)
    BY <1>2, CallBegins
  <2>2. /\ pc'[c] = "calling"
        /\ \A d \in Call : d # c => pc'[d] = pc[d] /\ info'[d] = info[d]
    BY <2>1 DEF Begins
  <2>. QED
    BY <2>2 DEF ApartInv, Active, Adr
<1>3. ASSUME NEW c \in Call, Lock(c) PROVE ApartInv'
  BY <1>3, CallLocks DEF ApartInv, Active, Adr
<1>4. ASSUME NEW c \in Call, Unlock(c) PROVE ApartInv'
  BY <1>4, CallUnlocks DEF ApartInv, Active, Adr
<1>5. ASSUME NEW d \in Call, Inner(d) PROVE ApartInv'
  <2>1. Way(d) /\ info' = info /\ \A c \in Call : c # d => pc'[c] = pc[c]
    BY <1>5, CallMoves
  <2>2. \A c \in Call : c # d => (Active(c)' <=> Active(c))
    BY <2>1 DEF Active
  <2>3. CASE ~Load(d)
    <3>1. Active(d)' => Active(d)
      BY <2>1, <2>3 DEF Way, Active
    <3>. QED
      BY <2>1, <2>2, <3>1 DEF ApartInv, Adr
  <2>4. CASE Load(d)
    <3>1. pc[d] = "locked" /\ ~Refuses(d)
      BY <2>4 DEF Load, Goes
    <3>2. ASSUME NEW c \in Call, c # d, Active(c), Adr(c) = Adr(d)
          PROVE  info[d].kind = "query"
      <4>1. Held(c) /\ Held(d) /\ pc[d] \in Running
        BY <3>1, <3>2 DEF Held, Active, Running, Places
      <4>2. pc[c] = "callback" /\ Thr(c) = Thr(d)
        BY <3>2, <4>1, OtherInCallback
      <4>3. inside[info[c].cipher]
        BY <4>2 DEF FlagExact, TypeOK, Infos
      <4>. QED
        BY <3>1, <3>2, <4>2, <4>3 DEF PermittedInv, Refuses
    <3>. QED
      BY <2>1, <2>2, <3>2 DEF ApartInv, Adr
  <2>. QED
    BY <2>3, <2>4
<1>. QED
  BY <1>1, <1>2, <1>3, <1>4, <1>5, Steps

-----------------------------------------------------------------------------
(* What a call stores *)

\* Every step keeps the record of a call equal to the stored one with its change.
LEMMA LocalStep ==
  TypeOK /\ PlaceInv /\ ApartInv /\ LocalInv /\ [Next]_vars => LocalInv'
<1>. SUFFICES ASSUME TypeOK, PlaceInv, ApartInv, LocalInv, [Next]_vars, NEW d \in Call
              PROVE  LocalOf(d)'
  BY DEF LocalInv
<1>. USE CipherCallsAssumption
<1>0. LocalOf(d)
  BY DEF LocalInv
<1>1. CASE UNCHANGED vars
  BY <1>0, <1>1, Zenon DEF vars, LocalOf, Adr
<1>2. ASSUME NEW c \in Call, NEW t \in Thread, NEW x \in Cipher, NEW kind \in Kinds,
             NEW m \in Message \union {None}, Begin(t, x, kind, m, c)
      PROVE LocalOf(d)'
  <2>0. Begins(t, x, kind, m, c)
    BY <1>2, CallBegins
  <2>1. /\ pc'[c] = "calling" /\ UNCHANGED <<local, store>>
        /\ d # c => pc'[d] = pc[d] /\ info'[d] = info[d]
    BY <2>0 DEF Begins
  <2>2. CASE d = c
    BY <2>1, <2>2 DEF LocalOf
  <2>3. CASE d # c
    BY <1>0, <2>1, <2>3, Zenon DEF LocalOf, Adr
  <2>. QED
    BY <2>2, <2>3
<1>3. ASSUME NEW c \in Call, Lock(c) \/ Unlock(c) PROVE LocalOf(d)'
  <2>1. pc'[d] = pc[d] \/ pc'[d] \in {"locked", "ok", "error"}
    BY <1>3, CallLocks, CallUnlocks
  <2>2. UNCHANGED <<info, local, store>>
    BY <1>3, CallLocks, CallUnlocks
  <2>. QED
    BY <1>0, <2>1, <2>2, Zenon DEF LocalOf, Adr
<1>4. ASSUME NEW c \in Call, Inner(c), ~Store(c), d # c PROVE LocalOf(d)'
  <2>1. /\ info' = info /\ pc'[d] = pc[d] /\ store' = store /\ local'[d] = local[d]
    BY <1>4, CallMoves
  <2>. QED
    BY <1>0, <2>1, Zenon DEF LocalOf, Adr
<1>5. ASSUME Refuse(d) \/ DecryptDuplicate(d) \/ Query(d) \/ StoreFails(d) \/ Store(d)
             \/ AfterStore(d)
      PROVE  LocalOf(d)'
  <2>1. pc'[d] \in {"failing", "stored", "finishing"}
    BY <1>5 DEF Refuse, DecryptDuplicate, Query, StoreFails, Store, AfterStore, Goes, TypeOK
  <2>. QED
    BY <2>1 DEF LocalOf
<1>6. ASSUME Load(d) PROVE LocalOf(d)'
  BY <1>6 DEF Load, Goes, TypeOK, LocalOf, Adr
<1>7. ASSUME Encrypt(d) PROVE LocalOf(d)'
  <2>1. /\ pc'[d] = "storing" /\ info' = info /\ store' = store
        /\ local'[d] = [local[d] EXCEPT !.index = @ + 1]
        /\ pc[d] = "loaded" /\ info[d].kind = "encrypt"
    BY <1>7 DEF Encrypt, Goes, TypeOK
  <2>2. local[d] = store[Adr(d)] /\ Adr(d)' = Adr(d)
    BY <1>0, <2>1 DEF LocalOf, Adr
  <2>. QED
    BY <2>1, <2>2 DEF LocalOf, Decrypts
<1>8. ASSUME Decrypt(d) PROVE LocalOf(d)'
  <2>1. /\ pc'[d] = "decrypted" /\ info' = info /\ store' = store
        /\ info[d].message \notin local[d].read
        /\ local'[d] = Read(local[d], info[d].message)
        /\ pc[d] = "loaded" /\ info[d].kind = "decrypt"
    BY <1>8 DEF Decrypt, Goes, TypeOK, Read
  <2>2. local[d] = store[Adr(d)] /\ Adr(d)' = Adr(d)
    BY <1>0, <2>1 DEF LocalOf, Adr
  <2>. QED
    BY <2>1, <2>2 DEF LocalOf
<1>12. ASSUME DecryptPreKey(d) PROVE LocalOf(d)'
  <2>1. /\ pc'[d] = "decrypted" /\ info' = info /\ store' = store
        /\ info[d].message \notin local[d].read
        /\ \E record \in {local[d], NewSession(local[d], d)} :
             local'[d] = Read(record, info[d].message)
        /\ pc[d] = "loaded" /\ info[d].kind = "decrypt_pre_key"
    BY <1>12, Zenon DEF DecryptPreKey, Goes, TypeOK, Read
  <2>2. local[d] = store[Adr(d)] /\ Adr(d)' = Adr(d)
    BY <1>0, <2>1 DEF LocalOf, Adr
  <2>. QED
    BY <2>1, <2>2 DEF LocalOf
<1>9. ASSUME Build(d) PROVE LocalOf(d)'
  <2>1. /\ pc'[d] = "storing" /\ info' = info /\ store' = store
        /\ local'[d] = NewSession(local[d], d)
        /\ pc[d] = "loaded" /\ info[d].kind = "build"
    BY <1>9 DEF Build, Goes, TypeOK
  <2>2. local[d] = store[Adr(d)] /\ Adr(d)' = Adr(d)
    BY <1>0, <2>1 DEF LocalOf, Adr
  <2>. QED
    BY <2>1, <2>2 DEF LocalOf, Decrypts
<1>10. ASSUME EnterCallback(d) \/ ExitCallback(d) PROVE LocalOf(d)'
  <2>1. /\ info' = info /\ store' = store /\ local' = local
        /\ pc[d] \in {"decrypted", "callback"} /\ info[d].kind \in Decrypts
        /\ pc'[d] \in {"callback", "storing", "failing"}
    BY <1>10 DEF EnterCallback, ExitCallback, Goes, TypeOK, PlaceInv
  <2>2. store'[Adr(d)'] = store[Adr(d)] /\ local'[d] = local[d] /\ info'[d] = info[d]
    BY <2>1 DEF Adr
  <2>. QED
    BY <1>0, <2>1, <2>2 DEF LocalOf, Decrypts
<1>11. ASSUME NEW c \in Call, Store(c), d # c PROVE LocalOf(d)'
  <2>1. /\ pc[c] = "storing" /\ pc'[d] = pc[d] /\ info' = info /\ local' = local
        /\ store' = [store EXCEPT ![Adr(c)] = local[c]]
    BY <1>11 DEF Store, Goes, TypeOK
  <2>2. CASE Active(d) /\ Adr(c) = Adr(d)
    <3>1. info[d].kind = "query"
      BY <1>11, <2>1, <2>2 DEF ApartInv, PlaceInv, Active
    <3>. QED
      BY <2>1, <3>1 DEF LocalOf, Decrypts
  <2>3. CASE ~Active(d)
    BY <2>1, <2>3 DEF LocalOf, Active
  <2>4. CASE Active(d) /\ Adr(c) # Adr(d)
    <3>1. store'[Adr(d)] = store[Adr(d)]
      BY <2>1, <2>4 DEF TypeOK, Adr, Infos, Active
    <3>. QED
      BY <1>0, <2>1, <3>1, Zenon DEF LocalOf, Adr
  <2>. QED
    BY <2>2, <2>3, <2>4
<1>. QED
  BY <1>1, <1>2, <1>3, <1>4, <1>5, <1>6, <1>7, <1>8, <1>9, <1>10, <1>11, <1>12, Steps DEF Inner
=============================================================================
