-------------------------- MODULE CipherCallsSteps --------------------------
(***************************************************************************)
(* The inductive invariant of CipherCalls, and what its steps change, call *)
(* by call, for every set of threads, cipher objects and addresses and any *)
(* number of calls.                                                        *)
(***************************************************************************)
EXTENDS CipherCalls, FiniteSetTheorems, TLAPS

\* Leaves without a prover of their own: SMT, again with more time, then Zenon.
USE SMTT(10), SMTT(20), SMTT(30), ZenonT(10)

-----------------------------------------------------------------------------
(* The inductive invariant *)

HeldCalls == {c \in Call : Held(c)}

\* The places where a thread executes the call, and no other one.
Running == Places \ {"unused", "callback", "ok", "error"}

\* The places where a call works on the record it loaded.
Active(c) == pc[c] \in {"loaded", "decrypted", "callback", "storing"}

\* Who holds the lock has taken it once for each call it is in, and runs only the
\* innermost of them.
LockInv ==
  /\ \A c \in Call : Held(c) => owner = Thr(c)
  /\ depth = Cardinality(HeldCalls)
  /\ \A c \in Call : pc[c] \in Running => top[Thr(c)] = c

\* A decryption has a message; only a decryption is in its callback; queries do not
\* store.
PlaceInv ==
  /\ \A c \in Call : pc[c] # "unused" /\ info[c].kind \in Decrypts => info[c].message \in Message
  /\ \A c \in Call : pc[c] \in {"decrypted", "callback"} => info[c].kind \in Decrypts
  /\ \A c \in Call : pc[c] = "storing" => info[c].kind # "query"

\* A call has done its work if it succeeds, and if it fails only where more is to be
\* done after the record has been stored.
DoneOf(c) ==
  /\ pc[c] \in {"unused", "calling", "locked", "loaded", "decrypted", "callback", "storing"} =>
       c \notin done
  /\ pc[c] \in {"stored", "finishing", "ok"} => c \in done
  /\ pc[c] = "stored" \/ (pc[c] \in {"failing", "error"} /\ c \in done) =>
       info[c].kind \in Continued

DoneInv == \A c \in Call : DoneOf(c)

\* Of two calls that work on a record they loaded through one cipher object, one does
\* not have a callback.
ObjectInv ==
  \A c, d \in Call :
    c # d /\ Active(c) /\ Active(d) /\ info[c].cipher = info[d].cipher =>
      info[c].kind \in {"build", "query"} \/ info[d].kind \in {"build", "query"}

\* What holds whatever callbacks call
LInv == TypeOK /\ LockInv /\ PlaceInv /\ DoneInv /\ ObjectInv /\ FlagExact

\* A call that has not loaded yet was permitted where it was made.
PermittedInv ==
  \A c, d \in Call :
    pc[d] \in {"calling", "locked"} /\ pc[c] = "callback" /\ Thr(c) = Thr(d) =>
      \/ Adr(d) # Adr(c)
      \/ info[d].cipher = info[c].cipher /\ info[d].kind # "build"
      \/ info[d].kind = "query"

\* Two calls do not work on the record of one address, unless one only reads it.
ApartInv ==
  \A c, d \in Call :
    c # d /\ Active(c) /\ Active(d) /\ Adr(c) = Adr(d) =>
      info[c].kind = "query" \/ info[d].kind = "query"

\* The record with a message marked as read
Read(record, m) == [record EXCEPT !.read = @ \union {m}]

\* The record a call is going to store is the stored one with its own change.
LocalOf(c) ==
  LET stored == store[Adr(c)]
      decrypting == pc[c] \in {"decrypted", "callback", "storing"}
  IN /\ pc[c] = "loaded" /\ info[c].kind # "query" => local[c] = stored
     /\ decrypting /\ info[c].kind \in Decrypts => info[c].message \notin stored.read
     /\ decrypting /\ info[c].kind = "decrypt" => local[c] = Read(stored, info[c].message)
     /\ decrypting /\ info[c].kind = "decrypt_pre_key" =>
          \/ local[c] = Read(stored, info[c].message)
          \/ local[c] = Read(NewSession(stored, c), info[c].message)
     /\ pc[c] = "storing" /\ info[c].kind = "encrypt" =>
          local[c] = [stored EXCEPT !.index = @ + 1]
     /\ pc[c] = "storing" /\ info[c].kind = "build" => local[c] = NewSession(stored, c)

LocalInv == \A c \in Call : LocalOf(c)

\* The calls of some kinds that have stored their record, and the sessions there are
Stored(kinds) == {c \in done : info[c].kind \in kinds}
Sessions == done \union {None}

\* The keys that were used are behind the stored index of their session, and the
\* messages that were read are stored; none was used or read twice.
UsedInv ==
  /\ \A a \in Address : store[a].session \in Sessions
  /\ \A c \in Stored({"encrypt"}) :
       /\ local[c].session \in Sessions
       /\ local[c].session = store[Adr(c)].session => local[c].index <= store[Adr(c)].index
  /\ \A c \in Stored(Decrypts) : info[c].message \in store[Adr(c)].read

KeysInv ==
  \A c, d \in Stored({"encrypt"}) :
    c # d /\ Adr(c) = Adr(d) =>
      <<local[c].session, local[c].index>> # <<local[d].session, local[d].index>>

ReadInv ==
  \A c, d \in Stored(Decrypts) :
    c # d /\ Adr(c) = Adr(d) => info[c].message # info[d].message

\* What holds besides if callbacks leave the address of their call alone
IInv == LInv /\ PermittedInv /\ ApartInv /\ LocalInv /\ UsedInv /\ KeysInv /\ ReadInv

-----------------------------------------------------------------------------
(* Facts about the lock *)

LEMMA CallFinite == IsFiniteSet(Call)
BY CipherCallsAssumption, FS_Interval DEF Call

LEMMA HeldFinite == IsFiniteSet(HeldCalls) /\ Cardinality(HeldCalls) \in Nat
<1>1. HeldCalls \subseteq Call
  BY DEF HeldCalls
<1>. QED
  BY <1>1, CallFinite, FS_Subset, FS_CardinalityType

\* The initial states satisfy the invariant.
LEMMA InitInv == Init => IInv
<1>. SUFFICES ASSUME Init PROVE IInv
  OBVIOUS
<1>. USE CipherCallsAssumption
<1>1. TypeOK
  BY DEF Init, TypeOK, Fresh, Records, Places
<1>2. LockInv
  <2>1. HeldCalls = {}
    BY DEF Init, HeldCalls, Held
  <2>. QED
    BY <2>1, FS_EmptySet DEF Init, LockInv, Held, Running
<1>3. PlaceInv /\ DoneInv /\ ObjectInv
  BY DEF Init, PlaceInv, DoneInv, DoneOf, ObjectInv, Active
<1>4. FlagExact
  BY DEF Init, FlagExact
<1>5. PermittedInv /\ ApartInv /\ LocalInv
  BY DEF Init, PermittedInv, ApartInv, LocalInv, LocalOf, Active
<1>6. UsedInv /\ KeysInv /\ ReadInv
  BY DEF Init, UsedInv, KeysInv, ReadInv, Sessions, Stored, Fresh
<1>. QED
  BY <1>1, <1>2, <1>3, <1>4, <1>5, <1>6 DEF IInv, LInv

LEMMA RecordUpdate ==
  ASSUME NEW r \in Records
  PROVE  /\ [r EXCEPT !.index = r.index + 1] \in Records
         /\ \A m \in Message : [r EXCEPT !.read = r.read \union {m}] \in Records
         /\ \A c \in Call : NewSession(r, c) \in Records
<1>1. [r EXCEPT !.index = r.index + 1] \in Records
  BY DEF Records
<1>2. ASSUME NEW m \in Message PROVE [r EXCEPT !.read = r.read \union {m}] \in Records
  BY DEF Records
<1>3. ASSUME NEW c \in Call PROVE NewSession(r, c) \in Records
  BY Zenon DEF Records, NewSession
<1>. QED
  BY <1>1, <1>2, <1>3, Zenon

-----------------------------------------------------------------------------
(* What the steps change, call by call *)

Begun == Places \ {"unused"}

LEMMA BegunPlaces ==
  /\ "calling" \in Begun /\ "locked" \in Begun /\ "loaded" \in Begun /\ "decrypted" \in Begun
  /\ "callback" \in Begun /\ "storing" \in Begun /\ "stored" \in Begun /\ "finishing" \in Begun
  /\ "failing" \in Begun /\ "ok" \in Begun /\ "error" \in Begun
BY DEF Begun, Places

LEMMA CallGoes ==
  ASSUME TypeOK, NEW c \in Call, NEW from \in Begun, NEW to \in Begun, Goes(c, from, to)
  PROVE  /\ pc[c] = from /\ pc'[c] = to /\ top[Thr(c)] = c
         /\ \A d \in Call : d # c => pc'[d] = pc[d]
         /\ pc' \in [Call -> Places]
         /\ info[c] \in Infos
BY DEF TypeOK, Goes, Begun

\* What Begin(t, x, kind, m, c) changes
Begins(t, x, kind, m, c) ==
  /\ pc[c] = "unused" /\ pc'[c] = "calling"
  /\ \A d \in Call : d # c => pc'[d] = pc[d] /\ info'[d] = info[d]
  /\ pc' \in [Call -> Places]
  /\ info'[c].thread = t /\ info'[c].cipher = x /\ info'[c].kind = kind /\ info'[c].message = m
  /\ info'[c] \in Infos /\ info' \in [Call -> Infos \union {None}]
  /\ top[t] # None => pc[top[t]] = "callback"
  /\ top' = [top EXCEPT ![t] = c]
  /\ Permitted(t, x, kind)
  /\ UNCHANGED <<local, owner, depth, inside, store, done>>

LEMMA CallBegins ==
  ASSUME TypeOK, NEW c \in Call, NEW t \in Thread, NEW x \in Cipher, NEW kind \in Kinds,
         NEW m \in Message \union {None}, Begin(t, x, kind, m, c)
  PROVE  Begins(t, x, kind, m, c)
<1>. DEFINE i == [thread |-> t, cipher |-> x, kind |-> kind, message |-> m, caller |-> top[t]]
<1>1. /\ pc[c] = "unused" /\ pc' = [pc EXCEPT ![c] = "calling"] /\ info' = [info EXCEPT ![c] = i]
      /\ top[t] # None => pc[top[t]] = "callback"
      /\ top' = [top EXCEPT ![t] = c]
      /\ Permitted(t, x, kind)
      /\ UNCHANGED <<local, owner, depth, inside, store, done>>
  BY DEF Begin
<1>2. i \in Infos
  BY DEF TypeOK, Infos
<1>5. i.thread = t /\ i.cipher = x /\ i.kind = kind /\ i.message = m
  OBVIOUS
<1>. HIDE DEF i
<1>3. "calling" \in Places
  BY BegunPlaces DEF Begun
<1>4. /\ pc'[c] = "calling" /\ pc' \in [Call -> Places]
      /\ \A d \in Call : d # c => pc'[d] = pc[d] /\ info'[d] = info[d]
      /\ info'[c] = i /\ info' \in [Call -> Infos \union {None}]
  BY <1>1, <1>2, <1>3 DEF TypeOK
<1>. QED
  BY <1>1, <1>2, <1>4, <1>5 DEF Begins

LEMMA CallLocks ==
  ASSUME TypeOK, NEW c \in Call, Lock(c)
  PROVE  /\ pc[c] = "calling" /\ pc'[c] = "locked" /\ top[Thr(c)] = c
         /\ \A d \in Call : d # c => pc'[d] = pc[d]
         /\ pc' \in [Call -> Places] /\ info[c] \in Infos
         /\ owner \in {None, Thr(c)} /\ owner' = Thr(c) /\ depth' = depth + 1
         /\ UNCHANGED <<info, local, top, inside, store, done>>
<1>1. /\ Goes(c, "calling", "locked")
      /\ owner \in {None, Thr(c)} /\ owner' = Thr(c) /\ depth' = depth + 1
      /\ UNCHANGED <<info, local, top, inside, store, done>>
  BY DEF Lock, CanLock
<1>. QED
  BY <1>1, CallGoes, BegunPlaces

LEMMA CallUnlocks ==
  ASSUME TypeOK, NEW c \in Call, Unlock(c)
  PROVE  /\ \/ pc[c] = "finishing" /\ pc'[c] = "ok"
            \/ pc[c] = "failing" /\ pc'[c] = "error"
         /\ top[Thr(c)] = c
         /\ \A d \in Call : d # c => pc'[d] = pc[d]
         /\ pc' \in [Call -> Places] /\ info[c] \in Infos
         /\ depth' = depth - 1
         /\ owner' = IF depth = 1 THEN None ELSE owner
         /\ top' = [top EXCEPT ![Thr(c)] = info[c].caller]
         /\ UNCHANGED <<info, local, inside, store, done>>
<1>1. /\ Goes(c, "finishing", "ok") \/ Goes(c, "failing", "error")
      /\ depth' = depth - 1
      /\ owner' = IF depth = 1 THEN None ELSE owner
      /\ top' = [top EXCEPT ![Thr(c)] = info[c].caller]
      /\ UNCHANGED <<info, local, inside, store, done>>
  BY DEF Unlock
<1>2. CASE Goes(c, "finishing", "ok")
  BY <1>1, <1>2, CallGoes, BegunPlaces
<1>3. CASE Goes(c, "failing", "error")
  BY <1>1, <1>3, CallGoes, BegunPlaces
<1>. QED
  BY <1>1, <1>2, <1>3

\* The steps of a call between the lock and the unlock
Inner(c) ==
  \/ Refuse(c) \/ Load(c) \/ Encrypt(c) \/ Decrypt(c) \/ DecryptPreKey(c)
  \/ DecryptDuplicate(c) \/ Build(c) \/ Query(c) \/ EnterCallback(c) \/ ExitCallback(c)
  \/ Store(c) \/ StoreFails(c) \/ AfterStore(c)

\* Where call c goes in such a step, and whether it has done its work then
Way(c) ==
  \/ pc[c] = "locked" /\ pc'[c] = "failing" /\ done' = done
  \/ pc[c] = "locked" /\ pc'[c] = "loaded" /\ Load(c) /\ done' = done
  \/ /\ pc[c] = "loaded" /\ pc'[c] = "storing" /\ info[c].kind \in {"encrypt", "build"}
     /\ done' = done
  \/ pc[c] = "loaded" /\ pc'[c] = "decrypted" /\ info[c].kind \in Decrypts /\ done' = done
  \/ pc[c] = "loaded" /\ pc'[c] = "failing" /\ done' = done
  \/ /\ pc[c] = "loaded" /\ pc'[c] = "finishing" /\ info[c].kind = "query"
     /\ done' = done \union {c}
  \/ pc[c] = "decrypted" /\ pc'[c] = "callback" /\ EnterCallback(c) /\ done' = done
  \/ /\ pc[c] = "callback" /\ pc'[c] \in {"storing", "failing"} /\ ExitCallback(c)
     /\ done' = done
  \/ /\ pc[c] = "storing" /\ Store(c) /\ done' = done \union {c}
     /\ pc'[c] = IF info[c].kind \in Continued THEN "stored" ELSE "finishing"
  \/ pc[c] = "storing" /\ pc'[c] = "failing" /\ done' = done
  \/ pc[c] = "stored" /\ pc'[c] \in {"finishing", "failing"} /\ done' = done

LEMMA CallMoves ==
  ASSUME TypeOK, NEW c \in Call, Inner(c)
  PROVE  /\ Way(c) /\ top[Thr(c)] = c
         /\ \A d \in Call : d # c => pc'[d] = pc[d] /\ local'[d] = local[d]
         /\ pc' \in [Call -> Places] /\ info[c] \in Infos
         /\ UNCHANGED <<info, top, owner, depth>>
         /\ local' = local \/ Load(c) \/ Encrypt(c) \/ Decrypt(c) \/ DecryptPreKey(c) \/ Build(c)
         /\ inside' = inside \/ EnterCallback(c) \/ ExitCallback(c)
         /\ store' = store \/ Store(c)
<1>. DEFINE Rest == /\ \A d \in Call : d # c => local'[d] = local[d]
                    /\ UNCHANGED <<info, top, owner, depth>>
                    /\ local' = local \/ Load(c) \/ Encrypt(c) \/ Decrypt(c)
                         \/ DecryptPreKey(c) \/ Build(c)
                    /\ inside' = inside \/ EnterCallback(c) \/ ExitCallback(c)
                    /\ store' = store \/ Store(c)
<1>0. local \in [Call -> Records]
  BY DEF TypeOK
<1>1. CASE Refuse(c)
  <2>1. Goes(c, "locked", "failing") /\ done' = done /\ Rest
    BY <1>0, <1>1 DEF Refuse
  <2>2. pc[c] = "locked" /\ pc'[c] = "failing"
    BY <2>1, CallGoes, BegunPlaces
  <2>. QED
    BY <1>1, <2>1, <2>2, CallGoes, BegunPlaces DEF Way
<1>2. CASE Load(c)
  <2>1. Goes(c, "locked", "loaded") /\ done' = done /\ Rest
    BY <1>0, <1>2 DEF Load
  <2>2. pc[c] = "locked" /\ pc'[c] = "loaded"
    BY <2>1, CallGoes, BegunPlaces
  <2>. QED
    BY <1>2, <2>1, <2>2, CallGoes, BegunPlaces DEF Way
<1>3. CASE Encrypt(c)
  <2>1. Goes(c, "loaded", "storing") /\ info[c].kind = "encrypt" /\ done' = done /\ Rest
    BY <1>0, <1>3 DEF Encrypt
  <2>2. pc[c] = "loaded" /\ pc'[c] = "storing"
    BY <2>1, CallGoes, BegunPlaces
  <2>. QED
    BY <1>3, <2>1, <2>2, CallGoes, BegunPlaces DEF Way
<1>4. CASE Decrypt(c)
  <2>1. Goes(c, "loaded", "decrypted") /\ info[c].kind \in Decrypts /\ done' = done /\ Rest
    BY <1>0, <1>4 DEF Decrypt, Decrypts
  <2>2. pc[c] = "loaded" /\ pc'[c] = "decrypted"
    BY <2>1, CallGoes, BegunPlaces
  <2>. QED
    BY <1>4, <2>1, <2>2, CallGoes, BegunPlaces DEF Way
<1>5. CASE DecryptPreKey(c)
  <2>1. Goes(c, "loaded", "decrypted") /\ info[c].kind \in Decrypts /\ done' = done /\ Rest
    BY <1>0, <1>5, Zenon DEF DecryptPreKey, Decrypts
  <2>2. pc[c] = "loaded" /\ pc'[c] = "decrypted"
    BY <2>1, CallGoes, BegunPlaces
  <2>. QED
    BY <1>5, <2>1, <2>2, CallGoes, BegunPlaces DEF Way
<1>6. CASE DecryptDuplicate(c)
  <2>1. Goes(c, "loaded", "failing") /\ done' = done /\ Rest
    BY <1>0, <1>6 DEF DecryptDuplicate
  <2>2. pc[c] = "loaded" /\ pc'[c] = "failing"
    BY <2>1, CallGoes, BegunPlaces
  <2>. QED
    BY <1>6, <2>1, <2>2, CallGoes, BegunPlaces DEF Way
<1>7. CASE Build(c)
  <2>1. Goes(c, "loaded", "storing") /\ info[c].kind = "build" /\ done' = done /\ Rest
    BY <1>0, <1>7 DEF Build
  <2>2. pc[c] = "loaded" /\ pc'[c] = "storing"
    BY <2>1, CallGoes, BegunPlaces
  <2>. QED
    BY <1>7, <2>1, <2>2, CallGoes, BegunPlaces DEF Way
<1>8. CASE Query(c)
  <2>1. Goes(c, "loaded", "finishing") /\ info[c].kind = "query" /\ done' = done \union {c} /\ Rest
    BY <1>0, <1>8 DEF Query
  <2>2. pc[c] = "loaded" /\ pc'[c] = "finishing"
    BY <2>1, CallGoes, BegunPlaces
  <2>. QED
    BY <1>8, <2>1, <2>2, CallGoes, BegunPlaces DEF Way
<1>9. CASE EnterCallback(c)
  <2>1. Goes(c, "decrypted", "callback") /\ done' = done /\ Rest
    BY <1>0, <1>9 DEF EnterCallback
  <2>2. pc[c] = "decrypted" /\ pc'[c] = "callback"
    BY <2>1, CallGoes, BegunPlaces
  <2>. QED
    BY <1>9, <2>1, <2>2, CallGoes, BegunPlaces DEF Way
<1>10. CASE StoreFails(c)
  <2>1. Goes(c, "storing", "failing") /\ done' = done /\ Rest
    BY <1>0, <1>10 DEF StoreFails
  <2>2. pc[c] = "storing" /\ pc'[c] = "failing"
    BY <2>1, CallGoes, BegunPlaces
  <2>. QED
    BY <1>10, <2>1, <2>2, CallGoes, BegunPlaces DEF Way
<1>11. CASE ExitCallback(c)
  <2>1. PICK to \in {"storing", "failing"} : Goes(c, "callback", to)
    BY <1>11 DEF ExitCallback
  <2>2. Rest /\ to \in Begun /\ done' = done
    BY <1>11, BegunPlaces DEF ExitCallback
  <2>3. pc[c] = "callback" /\ pc'[c] = to
    BY <2>1, <2>2, CallGoes, BegunPlaces
  <2>. QED
    BY <1>11, <2>1, <2>2, <2>3, CallGoes, BegunPlaces DEF Way
<1>12. CASE AfterStore(c)
  <2>1. PICK to \in {"finishing", "failing"} : Goes(c, "stored", to)
    BY <1>12 DEF AfterStore
  <2>2. Rest /\ to \in Begun /\ done' = done
    BY <1>12, BegunPlaces DEF AfterStore
  <2>3. pc[c] = "stored" /\ pc'[c] = to
    BY <2>1, <2>2, CallGoes, BegunPlaces
  <2>. QED
    BY <1>12, <2>1, <2>2, <2>3, CallGoes, BegunPlaces DEF Way
<1>13. CASE Store(c)
  <2>. DEFINE to == IF info[c].kind \in Continued THEN "stored" ELSE "finishing"
  <2>1. Goes(c, "storing", to) /\ Rest /\ done' = done \union {c}
    BY <1>0, <1>13 DEF Store
  <2>2. to \in Begun
    BY BegunPlaces
  <2>3. pc[c] = "storing" /\ pc'[c] = to
    BY <2>1, <2>2, CallGoes, BegunPlaces
  <2>. QED
    BY <1>13, <2>1, <2>2, <2>3, CallGoes, BegunPlaces DEF Way
<1>. QED
  BY <1>1, <1>2, <1>3, <1>4, <1>5, <1>6, <1>7, <1>8, <1>9, <1>10, <1>11, <1>12, <1>13 DEF Inner

\* Every step is one of five.
LEMMA Steps ==
  ASSUME [Next]_vars
  PROVE  \/ UNCHANGED vars
         \/ \E c \in Call :
              \/ Lock(c) \/ Inner(c) \/ Unlock(c)
              \/ \E t \in Thread, x \in Cipher, kind \in Kinds, m \in Message \union {None} :
                   (kind \in Decrypts => m \in Message) /\ Begin(t, x, kind, m, c)
<1>. SUFFICES ASSUME NEW c \in Call,
                     \/ Step(c)
                     \/ \E t \in Thread, x \in Cipher :
                          \/ \E kind \in Decrypts, m \in Message : Begin(t, x, kind, m, c)
                          \/ \E kind \in Kinds \ Decrypts : Begin(t, x, kind, None, c)
              PROVE  \/ Lock(c) \/ Inner(c) \/ Unlock(c)
                     \/ \E t \in Thread, x \in Cipher, kind \in Kinds, m \in Message \union {None} :
                          (kind \in Decrypts => m \in Message) /\ Begin(t, x, kind, m, c)
  BY DEF Next
<1>1. CASE Step(c)
  BY <1>1 DEF Step, Inner
<1>2. ASSUME NEW t \in Thread, NEW x \in Cipher, NEW kind \in Decrypts, NEW m \in Message,
             Begin(t, x, kind, m, c)
      PROVE  \E k \in Kinds, n \in Message \union {None} :
               (k \in Decrypts => n \in Message) /\ Begin(t, x, k, n, c)
  BY <1>2 DEF Kinds, Decrypts
<1>3. ASSUME NEW t \in Thread, NEW x \in Cipher, NEW kind \in Kinds \ Decrypts,
             Begin(t, x, kind, None, c)
      PROVE  \E k \in Kinds, n \in Message \union {None} :
               (k \in Decrypts => n \in Message) /\ Begin(t, x, k, n, c)
  BY <1>3
<1>. QED
  BY <1>1, <1>2, <1>3
=============================================================================
