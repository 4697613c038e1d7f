------------------------- MODULE CipherCallsTheorems ------------------------
(***************************************************************************)
(* The theorems about CipherCalls: what the calls that have stored their   *)
(* record leave behind, and that they take effect one after the other.     *)
(***************************************************************************)
EXTENDS CipherCallsProofs

\* Leaves without a prover of their own: SMT, again with more time, then Zenon.
USE SMTT(10), SMTT(20), SMTT(30), ZenonT(10)

-----------------------------------------------------------------------------
(* Whatever callbacks call *)

LEMMA LockingStep == LInv /\ [Next]_vars => LInv'
BY TypeStep, LockStep, PlaceStep, DoneStep, ObjectStep, FlagStep DEF LInv

LEMMA LockingInvariant == Spec => []LInv
<1>1. Init => LInv
  BY InitInv DEF IInv
<1>. QED
  BY <1>1, LockingStep, PTL DEF Spec

\* The calls stay within their types: an owner has locked the library exactly when
\* signal_lock has been called more often than signal_unlock.
THEOREM TypesHold == Spec => []TypeOK
<1>1. LInv => TypeOK
  BY DEF LInv
<1>. QED
  BY <1>1, LockingInvariant, PTL

\* Two threads are never inside the library at the same time, for any number of threads
\* and of calls from callbacks, whatever callbacks call: signal_unlock gives the lock
\* back as often as signal_lock has taken it.
THEOREM ExclusiveHolds == Spec => []Exclusive
<1>1. LInv => Exclusive
  BY DEF LInv, LockInv, Exclusive
<1>. QED
  BY <1>1, LockingInvariant, PTL

\* A cipher object refuses calls exactly while a decryption of its own waits for its
\* callback (inside_callback), for any number of objects and of calls from callbacks,
\* whatever callbacks call.
THEOREM FlagExactHolds == Spec => []FlagExact
<1>1. LInv => FlagExact
  BY DEF LInv
<1>. QED
  BY <1>1, LockingInvariant, PTL

-----------------------------------------------------------------------------
(* What the calls that have stored their record leave behind *)

Stores == {"encrypt", "decrypt", "decrypt_pre_key", "build"}

\* A step that does not store changes nothing that has been stored.
LEMMA Quiet ==
  ASSUME TypeOK, DoneInv, [Next]_vars, \A c \in Call : ~Store(c)
  PROVE  /\ store' = store
         /\ done \subseteq done'
         /\ \A c \in done : local'[c] = local[c] /\ info'[c] = info[c]
         /\ \A c \in done' \ done : info'[c].kind = "query"
<1>. USE CipherCallsAssumption
<1>. DEFINE Same == /\ store' = store
                    /\ done \subseteq done'
                    /\ \A c \in done : local'[c] = local[c] /\ info'[c] = info[c]
                    /\ \A c \in done' \ done : info'[c].kind = "query"
<1>0. \A c \in done : c \in Call /\ pc[c] \in {"stored", "finishing", "ok", "failing", "error"}
  BY DEF DoneInv, DoneOf, TypeOK, Places
<1>1. ASSUME UNCHANGED vars PROVE Same
  BY <1>1 DEF vars
<1>2. ASSUME NEW d \in Call, NEW t \in Thread, NEW x \in Cipher, NEW kind \in Kinds,
             NEW m \in Message \union {None}, Begin(t, x, kind, m, d)
      PROVE  Same
  <2>1. Begins(t, x, kind, m, d)
    BY <1>2, CallBegins
  <2>. QED
    BY <1>0, <2>1 DEF Begins
<1>3. ASSUME NEW d \in Call, Lock(d) PROVE Same
  BY <1>3, CallLocks
<1>4. ASSUME NEW d \in Call, Unlock(d) PROVE Same
  BY <1>4, CallUnlocks
<1>5. ASSUME NEW d \in Call, Inner(d), ~Store(d) PROVE Same
  <2>1. /\ Way(d) /\ info' = info /\ store' = store
        /\ \A c \in Call : c # d => local'[c] = local[c]
    BY <1>5, CallMoves
  <2>2. done' = done \/ (done' = done \union {d} /\ info[d].kind = "query")
    BY <1>5, <2>1 DEF Way
  <2>3. d \in done => local' = local
    <3>1. d \in done => pc[d] \notin {"locked", "loaded"}
      BY <1>0
    <3>2. Load(d) \/ Encrypt(d) \/ Decrypt(d) \/ DecryptPreKey(d) \/ Build(d) =>
            pc[d] \in {"locked", "loaded"}
      BY DEF Load, Encrypt, Decrypt, DecryptPreKey, Build, Goes
    <3>. QED
      BY <1>5, <3>1, <3>2, CallMoves
  <2>. QED
    BY <1>0, <2>1, <2>2, <2>3
<1>. HIDE DEF Same
<1>6. Same
  BY <1>1, <1>2, <1>3, <1>4, <1>5, Steps
<1>. QED
  BY <1>6 DEF Same

\* ... so that the calls that have stored a record stay the same.
LEMMA QuietStored ==
  ASSUME TypeOK, DoneInv, [Next]_vars, \A c \in Call : ~Store(c), NEW kinds \in SUBSET Stores
  PROVE  Stored(kinds)' = Stored(kinds)
<1>1. "query" \notin kinds
  BY DEF Stores
<1>. QED
  BY <1>1, Quiet DEF Stored

\* A step that stores adds its call to those that have stored, and changes the stored
\* record of its address as the call says.
LEMMA Storing ==
  ASSUME TypeOK, PlaceInv, DoneInv, LocalInv, NEW c \in Call, Store(c)
  PROVE  /\ c \notin done /\ done' = done \union {c}
         /\ UNCHANGED <<info, local>>
         /\ Adr(c) \in Address /\ store[Adr(c)] \in Records
         /\ \A a \in Address : a # Adr(c) => store'[a] = store[a]
         /\ info[c].kind \in Stores
         /\ store' = [store EXCEPT ![Adr(c)] = local[c]]
         /\ store'[Adr(c)] = local[c] /\ LocalOf(c) /\ pc[c] = "storing"
         /\ info[c].kind \in Decrypts => info[c].message \in Message
<1>. USE CipherCallsAssumption
<1>1. /\ pc[c] = "storing" /\ done' = done \union {c}
      /\ UNCHANGED <<info, local>> /\ store' = [store EXCEPT ![Adr(c)] = local[c]]
  BY DEF Store, Goes
<1>2. info[c] \in Infos /\ info[c].kind # "query" /\ c \notin done
  BY <1>1 DEF TypeOK, PlaceInv, DoneInv, DoneOf
<1>3. Adr(c) \in Address /\ store[Adr(c)] \in Records
  BY <1>2 DEF Adr, Infos, TypeOK
<1>4. info[c].kind \in Stores
  BY <1>2 DEF Infos, Kinds, Stores
<1>5. /\ \A a \in Address : a # Adr(c) => store'[a] = store[a]
      /\ store'[Adr(c)] = local[c]
  BY <1>1, <1>3 DEF TypeOK
<1>6. info[c].kind \in Decrypts => info[c].message \in Message
  BY <1>1 DEF PlaceInv
<1>. QED
  BY <1>1, <1>2, <1>3, <1>4, <1>5, <1>6 DEF LocalInv

\* What a decryption stores: the message is marked as read, and the session is the one
\* that was there or a new one.
LEMMA DecryptionStores ==
  ASSUME NEW c \in Call, pc[c] = "storing", LocalOf(c), info[c].kind \in Decrypts,
         store[Adr(c)] \in Records
  PROVE  /\ info[c].message \notin store[Adr(c)].read
         /\ local[c].read = store[Adr(c)].read \union {info[c].message}
         /\ \/ local[c].session = store[Adr(c)].session /\ local[c].index = store[Adr(c)].index
            \/ local[c].session = c /\ local[c].index = 0
<1>. DEFINE r == store[Adr(c)]
            m == info[c].message
<1>1. /\ m \notin r.read
      /\ local[c] = Read(r, m) \/ local[c] = Read(NewSession(r, c), m)
  BY DEF LocalOf, Decrypts
<1>2. /\ Read(r, m).session = r.session /\ Read(r, m).index = r.index
      /\ Read(r, m).read = r.read \union {m}
  BY DEF Read, Records
<1>3. /\ Read(NewSession(r, c), m).session = c /\ Read(NewSession(r, c), m).index = 0
      /\ Read(NewSession(r, c), m).read = r.read \union {m}
  BY DEF Read, NewSession, Records
<1>. HIDE DEF r, m
<1>4. /\ local[c].read = r.read \union {m}
      /\ (local[c].session = r.session /\ local[c].index = r.index)
           \/ (local[c].session = c /\ local[c].index = 0)
  BY <1>1, <1>2, <1>3
<1>. QED
  BY <1>1, <1>4 DEF r, m

\* Every step keeps the used keys behind the stored index and the read messages stored.
LEMMA UsedStep ==
  IInv /\ [Next]_vars => UsedInv' /\ KeysInv' /\ ReadInv'
<1>. SUFFICES ASSUME IInv, [Next]_vars PROVE UsedInv' /\ KeysInv' /\ ReadInv'
  OBVIOUS
<1>. USE CipherCallsAssumption
<1>0. TypeOK /\ PlaceInv /\ DoneInv /\ LocalInv
  BY DEF IInv, LInv
<1>9. UsedInv /\ KeysInv /\ ReadInv
  BY DEF IInv
<1>. DEFINE Enc == Stored({"encrypt"})
            Dec == Stored(Decrypts)
<1>1. \A c \in Enc \union Dec : c \in done /\ c \in Call /\ Adr(c) \in Address
  <2>1. \A c \in done : c \in Call /\ pc[c] # "unused"
    BY <1>0 DEF TypeOK, DoneInv, DoneOf
  <2>. QED
    BY <1>0, <2>1 DEF Stored, TypeOK, Infos, Adr
<1>2. CASE \A c \in Call : ~Store(c)
  <2>1. store' = store /\ Enc' = Enc /\ Dec' = Dec /\ done \subseteq done'
    BY <1>0, <1>2, Quiet, QuietStored DEF Stores, Decrypts
  <2>2. \A c \in Enc \union Dec : local'[c] = local[c] /\ info'[c] = info[c] /\ Adr(c)' = Adr(c)
    BY <1>0, <1>1, <1>2, Quiet DEF Adr
  <2>3. UsedInv'
    <3>. HIDE DEF Enc, Dec
    <3>1. /\ \A a \in Address : store[a].session \in done \union {None}
          /\ \A c \in Enc :
               /\ local[c].session \in done \union {None}
               /\ local[c].session = store[Adr(c)].session => local[c].index <= store[Adr(c)].index
          /\ \A c \in Dec : info[c].message \in store[Adr(c)].read
      BY <1>9 DEF UsedInv, Sessions, Enc, Dec
    <3>2. /\ \A a \in Address : store'[a].session \in done' \union {None}
          /\ \A c \in Enc' :
               /\ local'[c].session \in done' \union {None}
               /\ local'[c].session = store'[Adr(c)'].session =>
                    local'[c].index <= store'[Adr(c)'].index
          /\ \A c \in Dec' : info'[c].message \in store'[Adr(c)'].read
      BY <2>1, <2>2, <3>1
    <3>. QED
      BY <3>2 DEF UsedInv, Sessions, Enc, Dec
  <2>4. KeysInv' /\ ReadInv'
    BY <1>9, <2>1, <2>2 DEF KeysInv, ReadInv
  <2>. QED
    BY <2>3, <2>4
<1>3. ASSUME NEW c \in Call, Store(c) PROVE UsedInv' /\ KeysInv' /\ ReadInv'
  <2>. DEFINE a == Adr(c)
  <2>1. /\ UNCHANGED <<info, local>> /\ a \in Address /\ store[a] \in Records
        /\ \A b \in Address : b # a => store'[b] = store[b]
        /\ store'[a] = local[c] /\ c \notin done /\ done' = done \union {c}
        /\ info[c].kind \in Stores /\ LocalOf(c) /\ pc[c] = "storing"
    BY <1>0, <1>3, Storing
  <2>2. \A d \in Call : Adr(d)' = Adr(d)
    BY <2>1 DEF Adr
  <2>3. /\ \A d \in Enc \union Dec : local[d] \in Records
        /\ \A d \in Enc : local[d].index \in Nat
    BY <1>0, <1>1 DEF TypeOK, Records
  <2>4. store[a].index \in Nat
    BY <2>1 DEF Records
  <2>8. /\ Enc' = IF info[c].kind = "encrypt" THEN Enc \union {c} ELSE Enc
        /\ Dec' = IF info[c].kind \in Decrypts THEN Dec \union {c} ELSE Dec
    BY <2>1 DEF Stored
  <2>9. \A d \in Enc : local[d].session # c
    BY <1>9, <2>1 DEF UsedInv, Sessions
  <2>10. \A b \in Address : store[b].session \in done \union {None}
    BY <1>9 DEF UsedInv, Sessions
  <2>. HIDE DEF Enc, Dec
  <2>11. ASSUME NEW d \in Enc
         PROVE  /\ local[d].session \in done \union {None}
                /\ local[d].session = store[Adr(d)].session => local[d].index <= store[Adr(d)].index
    BY <1>9 DEF UsedInv, Sessions, Enc
  <2>12. \A d \in Dec : info[d].message \in store[Adr(d)].read
    BY <1>9 DEF UsedInv, Dec
  <2>13. \A d, e \in Enc : d # e /\ Adr(d) = Adr(e) =>
           <<local[d].session, local[d].index>> # <<local[e].session, local[e].index>>
    BY <1>9 DEF KeysInv, Enc
  <2>14. \A d, e \in Dec : d # e /\ Adr(d) = Adr(e) => info[d].message # info[e].message
    BY <1>9 DEF ReadInv, Dec
  <2>15. SUFFICES /\ \A b \in Address : store'[b].session \in done' \union {None}
                  /\ \A d \in Enc' :
                       /\ local'[d].session \in done' \union {None}
                       /\ local'[d].session = store'[Adr(d)'].session =>
                            local'[d].index <= store'[Adr(d)'].index
                  /\ \A d \in Dec' : info'[d].message \in store'[Adr(d)'].read
                  /\ \A d, e \in Enc' : d # e /\ Adr(d)' = Adr(e)' =>
                       <<local'[d].session, local'[d].index>> # <<local'[e].session, local'[e].index>>
                  /\ \A d, e \in Dec' : d # e /\ Adr(d)' = Adr(e)' =>
                       info'[d].message # info'[e].message
    BY DEF UsedInv, KeysInv, ReadInv, Sessions, Enc, Dec
  <2>5. CASE info[c].kind = "encrypt"
    <3>1. /\ local[c].session = store[a].session /\ local[c].index = store[a].index + 1
          /\ local[c].read = store[a].read
      <4>1. local[c] = [store[a] EXCEPT !.index = @ + 1]
        BY <2>1, <2>5 DEF LocalOf
      <4>. QED
        BY <2>1, <4>1 DEF Records
    <3>2. Enc' = Enc \union {c} /\ Dec' = Dec
      BY <2>5, <2>8 DEF Decrypts
    <3>3. ASSUME NEW d \in Enc, Adr(d) = a, local[d].session = local[c].session
          PROVE  local[d].index # local[c].index /\ local[d].index <= local[c].index
      <4>1. local[d].index <= store[a].index
        BY <2>11, <3>1, <3>3
      <4>. QED
        BY <2>3, <2>4, <3>1, <4>1
    <3>4. \A b \in Address : store'[b].session \in done' \union {None}
      BY <2>1, <2>10, <3>1
    <3>5. ASSUME NEW d \in Enc'
          PROVE  /\ local'[d].session \in done' \union {None}
                 /\ local'[d].session = store'[Adr(d)'].session =>
                      local'[d].index <= store'[Adr(d)'].index
      <4>1. CASE d = c
        BY <2>1, <2>2, <2>4, <2>10, <3>1, <4>1
      <4>2. CASE d \in Enc /\ Adr(d) = a
        BY <1>1, <2>1, <2>2, <2>11, <3>3, <4>2 DEF Enc
      <4>3. CASE d \in Enc /\ Adr(d) # a
        <5>1. d \in Call /\ Adr(d) \in Address
          BY <1>1, <4>3 DEF Enc
        <5>. QED
          BY <2>1, <2>2, <2>11, <4>3, <5>1
      <4>. QED
        BY <3>2, <4>1, <4>2, <4>3
    <3>6. \A d \in Dec' : info'[d].message \in store'[Adr(d)'].read
      <4>1. \A d \in Dec : d \in Call /\ Adr(d) \in Address
        BY <1>1 DEF Dec
      <4>. QED
        BY <2>1, <2>2, <2>12, <3>1, <3>2, <4>1
    <3>7. \A d \in Enc \union Dec : d \in Call
      BY <1>1 DEF Enc, Dec
    <3>8. \A d, e \in Enc' : d # e /\ Adr(d)' = Adr(e)' =>
            <<local'[d].session, local'[d].index>> # <<local'[e].session, local'[e].index>>
      BY <2>1, <2>2, <2>13, <3>2, <3>3, <3>7
    <3>9. \A d, e \in Dec' : d # e /\ Adr(d)' = Adr(e)' => info'[d].message # info'[e].message
      BY <2>1, <2>2, <2>14, <3>2, <3>7
    <3>. QED
      BY <3>4, <3>5, <3>6, <3>8, <3>9
  <2>6. CASE info[c].kind # "encrypt"
    <3>1. /\ \/ local[c].session = store[a].session /\ local[c].index = store[a].index
             \/ local[c].session = c /\ local[c].index = 0
          /\ info[c].kind \in Decrypts =>
               /\ local[c].read = store[a].read \union {info[c].message}
               /\ info[c].message \notin store[a].read
          /\ info[c].kind \notin Decrypts => local[c].read = store[a].read
      <4>1. CASE info[c].kind \in Decrypts
        BY <2>1, <4>1, DecryptionStores
      <4>2. CASE info[c].kind \notin Decrypts
        <5>1. local[c] = NewSession(store[a], c)
          BY <2>1, <2>6, <4>2 DEF LocalOf, Stores, Decrypts
        <5>. QED
          BY <2>1, <4>2, <5>1 DEF NewSession, Records
      <4>. QED
        BY <4>1, <4>2
    <3>2. Enc' = Enc /\ (Dec' = Dec \/ (Dec' = Dec \union {c} /\ info[c].kind \in Decrypts))
      BY <2>6, <2>8
    <3>3. \A d \in Enc \union Dec : d \in Call /\ Adr(d) \in Address
      BY <1>1 DEF Enc, Dec
    <3>4. \A b \in Address : store'[b].session \in done' \union {None}
      BY <2>1, <2>10, <3>1
    <3>5. ASSUME NEW d \in Enc'
          PROVE  /\ local'[d].session \in done' \union {None}
                 /\ local'[d].session = store'[Adr(d)'].session =>
                      local'[d].index <= store'[Adr(d)'].index
      <4>1. d \in Enc /\ local'[d] = local[d] /\ Adr(d)' = Adr(d) /\ local[d].session # c
        BY <2>1, <2>2, <2>9, <3>2, <3>3 DEF Enc
      <4>2. CASE Adr(d) = a
        BY <2>1, <2>11, <3>1, <4>1, <4>2
      <4>3. CASE Adr(d) # a
        BY <2>1, <2>11, <3>3, <4>1, <4>3
      <4>. QED
        BY <4>2, <4>3
    <3>6. ASSUME NEW d \in Dec' PROVE info'[d].message \in store'[Adr(d)'].read
      <4>1. CASE d = c
        <5>1. info[c].kind \in Decrypts
          BY <2>1, <3>2, <3>6, <4>1 DEF Dec, Stored
        <5>. QED
          BY <2>1, <2>2, <3>1, <4>1, <5>1
      <4>2. CASE d \in Dec /\ Adr(d) = a
        BY <2>1, <2>2, <2>12, <3>1, <3>3, <4>2
      <4>3. CASE d \in Dec /\ Adr(d) # a
        BY <2>1, <2>2, <2>12, <3>3, <4>3
      <4>. QED
        BY <3>2, <4>1, <4>2, <4>3
    <3>7. \A d, e \in Enc' : d # e /\ Adr(d)' = Adr(e)' =>
            <<local'[d].session, local'[d].index>> # <<local'[e].session, local'[e].index>>
      BY <2>1, <2>2, <2>13, <3>2, <3>3
    <3>8. \A d, e \in Dec' : d # e /\ Adr(d)' = Adr(e)' => info'[d].message # info'[e].message
      <4>1. ASSUME info[c].kind \in Decrypts, NEW d \in Dec, Adr(d) = a
            PROVE  info[d].message # info[c].message
        BY <2>12, <3>1, <4>1
      <4>2. \A d \in Dec \union {c} : info'[d] = info[d] /\ Adr(d)' = Adr(d)
        BY <2>1, <2>2, <3>3
      <4>. QED
        BY <2>14, <3>2, <4>1, <4>2
    <3>. QED
      BY <3>4, <3>5, <3>6, <3>7, <3>8
  <2>. QED
    BY <2>5, <2>6
<1>. QED
  BY <1>2, <1>3

\* The invariant is inductive.
LEMMA InvStep ==
  ASSUME CallbacksApart
  PROVE  IInv /\ [Next]_vars => IInv'
<1>. SUFFICES ASSUME IInv, [Next]_vars PROVE IInv'
  OBVIOUS
<1>1. /\ TypeOK /\ LockInv /\ PlaceInv /\ FlagExact
      /\ LInv /\ PermittedInv /\ ApartInv /\ LocalInv
  BY DEF IInv, LInv
<1>2. LInv' /\ PermittedInv' /\ ApartInv' /\ LocalInv'
  BY <1>1, LockingStep, PermittedStep, ApartStep, LocalStep
<1>. QED
  BY <1>2, UsedStep DEF IInv

LEMMA Invariant ==
  ASSUME CallbacksApart
  PROVE  Spec => []IInv
BY InitInv, InvStep, PTL DEF Spec

\* The calls that succeed have done their work.
LEMMA SucceededStored ==
  ASSUME LInv, NEW kinds PROVE Succeeded(kinds) \subseteq Stored(kinds)
BY DEF LInv, DoneInv, DoneOf, Succeeded, Stored

\* If callbacks leave the address of their call alone (no header asks for it, and
\* inside_callback does not see to it), session_cipher_encrypt uses no message key
\* twice, for any number of threads and cipher objects.
THEOREM NoKeyReuseHolds ==
  ASSUME CallbacksApart
  PROVE  Spec => []NoKeyReuse
<1>1. IInv => NoKeyReuse
  BY SucceededStored DEF IInv, KeysInv, NoKeyReuse
<1>. QED
  BY <1>1, Invariant, PTL

\* If callbacks leave the address of their call alone, the decryption calls succeed at
\* most once for a message, for any number of threads and cipher objects.
THEOREM ReadOnceHolds ==
  ASSUME CallbacksApart
  PROVE  Spec => []ReadOnce
<1>1. IInv => ReadOnce
  BY SucceededStored DEF IInv, ReadInv, ReadOnce
<1>. QED
  BY <1>1, Invariant, PTL

-----------------------------------------------------------------------------
(* The calls take effect one after the other *)

\* A step that is not a return leaves what the calls have returned.
LEMMA NotReturned ==
  ASSUME TypeOK, NEW c \in Call, NEW from, NEW to, pc[c] = from, pc'[c] = to,
         from \notin {"ok", "error"}, to \notin {"ok", "error"},
         \A d \in Call : d # c => pc'[d] = pc[d]
  PROVE  Result' = Result
<1>1. \A d \in Call : /\ pc'[d] \in {"ok", "error"} <=> pc[d] \in {"ok", "error"}
                      /\ pc[d] \in {"ok", "error"} => pc'[d] = pc[d]
  OBVIOUS
<1>. QED
  BY <1>1 DEF Result

\* What the calls have done and the messages they have encrypted depend only on the
\* calls that are done.
LEMMA SameEffect ==
  ASSUME done' = done, \A c \in done : info'[c] = info[c] /\ local'[c] = local[c]
  PROVE  Effect' = Effect /\ Released' = Released
<1>. DEFINE Enc == {d \in done : info[d].kind = "encrypt"}
            Tag(c) == <<Adr(c), local[c].session, local[c].index - 1, c>>
<1>1. Effect' = Effect
  BY DEF Effect
<1>2. Enc' = Enc /\ Enc \subseteq done
  OBVIOUS
<1>3. \A c \in Enc : Tag(c)' = Tag(c)
  BY DEF Adr
<1>4. Released = {Tag(c) : c \in Enc} /\ Released' = {Tag(c)' : c \in Enc'}
  BY DEF Released
<1>5. Released' = Released
  <2>. HIDE DEF Tag, Enc
  <2>. QED
    BY <1>2, <1>3, <1>4
<1>. QED
  BY <1>1, <1>5

\* A call that was not done is done after the step.
LEMMA NewEffect ==
  ASSUME TypeOK, NEW c \in Call, c \notin done, done' = done \union {c},
         info' = info, \A d \in done : local'[d] = local[d], pc[c] \notin {"ok", "error"}
  PROVE  /\ Effect[c] = None /\ Result[c] = None
         /\ Effect' = [Effect EXCEPT ![c] = info[c].kind]
         /\ Released' = IF info[c].kind = "encrypt"
                        THEN Released \union
                               {<<Adr(c), local'[c].session, local'[c].index - 1, c>>}
                        ELSE Released
<1>. DEFINE Enc == {d \in done : info[d].kind = "encrypt"}
            Tag(d) == <<Adr(d), local[d].session, local[d].index - 1, d>>
<1>1. Effect[c] = None /\ Result[c] = None /\ Effect' = [Effect EXCEPT ![c] = info[c].kind]
  BY DEF Effect, Result
<1>2. Enc' = IF info[c].kind = "encrypt" THEN Enc \union {c} ELSE Enc
  OBVIOUS
<1>3. \A d \in Enc : Tag(d)' = Tag(d)
  BY DEF Adr
<1>4. Released = {Tag(d) : d \in Enc} /\ Released' = {Tag(d)' : d \in Enc'}
  BY DEF Released
<1>5. Tag(c)' = <<Adr(c), local'[c].session, local'[c].index - 1, c>>
  BY DEF Adr
<1>6. Released' = IF info[c].kind = "encrypt" THEN Released \union {Tag(c)'} ELSE Released
  <2>. HIDE DEF Tag, Enc
  <2>. QED
    BY <1>2, <1>3, <1>4
<1>. QED
  BY <1>1, <1>5, <1>6

\* signal_protocol_session_store_session stores the record that was there with the
\* call's own change: what the abstract call does.
LEMMA StoreRefines ==
  ASSUME IInv, NEW c \in Call, Store(c)
  PROVE  Atomic!Next
<1>. USE CipherCallsAssumption
<1>0. TypeOK /\ PlaceInv /\ DoneInv /\ LocalInv
  BY DEF IInv, LInv
<1>. DEFINE a == Adr(c)
            m == info[c].message
<1>1. /\ UNCHANGED <<info, local>> /\ a \in Address /\ store[a] \in Records
      /\ store' = [store EXCEPT ![a] = local[c]]
      /\ c \notin done /\ done' = done \union {c} /\ info[c].kind \in Stores
      /\ LocalOf(c) /\ pc[c] = "storing"
      /\ info[c].kind \in Decrypts => m \in Message
  BY <1>0, Storing, Zenon
<1>2. /\ Effect[c] = None /\ Result[c] = None
      /\ Effect' = [Effect EXCEPT ![c] = info[c].kind]
      /\ Released' = IF info[c].kind = "encrypt"
                     THEN Released \union {<<a, local[c].session, local[c].index - 1, c>>}
                     ELSE Released
  BY <1>0, <1>1, NewEffect
<1>3. Result' = Result
  <2>1. pc' = [pc EXCEPT ![c] = IF info[c].kind \in Continued THEN "stored" ELSE "finishing"]
    BY DEF Store, Goes
  <2>2. pc'[c] \in {"stored", "finishing"} /\ \A d \in Call : d # c => pc'[d] = pc[d]
    BY <1>0, <2>1 DEF TypeOK
  <2>. QED
    BY <1>0, <1>1, <2>2, NotReturned
<1>4. Atomic!Does(c, info[c].kind)
  BY <1>2, <1>3 DEF Atomic!Does
<1>5. CASE info[c].kind = "encrypt"
  <2>1. local[c] = [store[a] EXCEPT !.index = @ + 1]
    BY <1>1, <1>5 DEF LocalOf
  <2>2. local[c].session = store[a].session /\ local[c].index - 1 = store[a].index
    BY <1>1, <2>1 DEF Records
  <2>3. Released' = Released \union {<<a, store[a].session, store[a].index, c>>}
    BY <1>2, <1>5, <2>2
  <2>4. store' = [store EXCEPT ![a].index = @ + 1]
    BY <1>1, <2>1
  <2>5. Atomic!Encrypt(a, c)
    BY <1>4, <1>5, <2>3, <2>4 DEF Atomic!Encrypt
  <2>. QED
    BY <1>1, <2>5 DEF Atomic!Next
<1>6. CASE info[c].kind = "decrypt"
  <2>1. local[c] = Read(store[a], m) /\ m \notin store[a].read /\ m \in Message
    BY <1>1, <1>6 DEF LocalOf, Decrypts
  <2>2. store' = [store EXCEPT ![a] = Atomic!Read(store[a], m)]
    BY <1>1, <2>1 DEF Read, Atomic!Read
  <2>3. Atomic!Decrypt(a, m, c)
    BY <1>2, <1>4, <1>6, <2>1, <2>2 DEF Atomic!Decrypt
  <2>. QED
    BY <1>1, <2>1, <2>3 DEF Atomic!Next
<1>7. CASE info[c].kind = "decrypt_pre_key"
  <2>1. /\ local[c] = Read(store[a], m) \/ local[c] = Read(NewSession(store[a], c), m)
        /\ m \notin store[a].read /\ m \in Message
    BY <1>1, <1>7 DEF LocalOf, Decrypts
  <2>3. \E record \in {store[a], Atomic!NewSession(store[a], c)} :
          store' = [store EXCEPT ![a] = Atomic!Read(record, m)]
    BY <1>1, <2>1 DEF Read, NewSession, Atomic!Read, Atomic!NewSession
  <2>4. Atomic!DecryptPreKey(a, m, c)
    BY <1>2, <1>4, <1>7, <2>1, <2>3 DEF Atomic!DecryptPreKey
  <2>. QED
    BY <1>1, <2>1, <2>4 DEF Atomic!Next
<1>8. CASE info[c].kind = "build"
  <2>1. local[c] = NewSession(store[a], c)
    BY <1>1, <1>8 DEF LocalOf
  <2>2. store' = [store EXCEPT ![a] = Atomic!NewSession(store[a], c)]
    BY <1>1, <2>1 DEF NewSession, Atomic!NewSession
  <2>3. Atomic!Build(a, c)
    BY <1>2, <1>4, <1>8, <2>2 DEF Atomic!Build
  <2>. QED
    BY <1>1, <2>3 DEF Atomic!Next
<1>. QED
  BY <1>1, <1>5, <1>6, <1>7, <1>8 DEF Stores

\* signal_unlock and the return: a call that succeeds has taken effect, and one that
\* fails has not, unless it had more to do after the store.
LEMMA UnlockRefines ==
  ASSUME LInv, NEW c \in Call, Unlock(c)
  PROVE  Atomic!Next
<1>. USE CipherCallsAssumption
<1>0. TypeOK /\ DoneOf(c)
  BY DEF LInv, DoneInv
<1>1. /\ \/ pc[c] = "finishing" /\ pc'[c] = "ok"
         \/ pc[c] = "failing" /\ pc'[c] = "error"
      /\ \A d \in Call : d # c => pc'[d] = pc[d]
      /\ info[c] \in Infos /\ UNCHANGED <<info, local, store, done>>
  BY <1>0, CallUnlocks
<1>2. Effect' = Effect /\ Released' = Released
  BY <1>1, SameEffect
<1>3. Result[c] = None /\ Result' = [Result EXCEPT ![c] = pc'[c]]
  BY <1>1 DEF Result
<1>4. pc'[c] = "ok" => Effect[c] # None
  BY <1>0, <1>1 DEF DoneOf, Effect, Infos
<1>5. pc'[c] = "error" => Effect[c] \in {None, "decrypt_pre_key", "build"}
  BY <1>0, <1>1 DEF DoneOf, Effect, Continued
<1>6. Atomic!Return(c, pc'[c])
  BY <1>1, <1>2, <1>3, <1>4, <1>5 DEF Atomic!Return
<1>. QED
  BY <1>1, <1>6 DEF Atomic!Next

\* A step is a step of the abstract specification or changes nothing there.
LEMMA StepRefines == IInv /\ [Next]_vars => [Atomic!Next]_(Atomic!vars)
<1>. SUFFICES ASSUME IInv, [Next]_vars PROVE [Atomic!Next]_(Atomic!vars)
  OBVIOUS
<1>. USE CipherCallsAssumption
<1>0. LInv /\ TypeOK /\ DoneInv
  BY DEF IInv, LInv
<1>. DEFINE Stutters == store' = store /\ Effect' = Effect /\ Released' = Released /\ Result' = Result
<1>1. ASSUME UNCHANGED vars PROVE Stutters
  BY <1>1 DEF vars, Effect, Released, Result, Adr
<1>2. ASSUME NEW d \in Call, NEW t \in Thread, NEW x \in Cipher, NEW kind \in Kinds,
             NEW m \in Message \union {None}, Begin(t, x, kind, m, d)
      PROVE  Stutters
  <2>1. Begins(t, x, kind, m, d)
    BY <1>0, <1>2, CallBegins
  <2>2. /\ pc[d] = "unused" /\ pc'[d] = "calling" /\ done' = done /\ local' = local
        /\ \A c \in Call : c # d => pc'[c] = pc[c] /\ info'[c] = info[c]
        /\ store' = store
    BY <2>1 DEF Begins
  <2>3. d \notin done /\ done \subseteq Call
    BY <1>0, <2>2 DEF DoneInv, DoneOf, TypeOK
  <2>4. Effect' = Effect /\ Released' = Released
    BY <2>2, <2>3, SameEffect
  <2>. QED
    BY <1>0, <2>2, <2>4, NotReturned
<1>3. ASSUME NEW d \in Call, Lock(d) PROVE Stutters
  <2>1. /\ pc[d] = "calling" /\ pc'[d] = "locked" /\ UNCHANGED <<info, local, store, done>>
        /\ \A c \in Call : c # d => pc'[c] = pc[c]
    BY <1>0, <1>3, CallLocks
  <2>2. Effect' = Effect /\ Released' = Released
    BY <2>1, SameEffect
  <2>. QED
    BY <1>0, <2>1, <2>2, NotReturned
<1>4. ASSUME NEW d \in Call, Inner(d), ~Store(d) PROVE Atomic!Next \/ Stutters
  <2>1. /\ Way(d) /\ info' = info /\ store' = store
        /\ \A c \in Call : c # d => pc'[c] = pc[c] /\ local'[c] = local[c]
    BY <1>0, <1>4, CallMoves
  <2>2. \A c \in done : local'[c] = local[c]
    <3>1. done \subseteq Call /\ (d \in done => pc[d] \notin {"locked", "loaded"})
      BY <1>0 DEF TypeOK, DoneInv, DoneOf
    <3>2. Load(d) \/ Encrypt(d) \/ Decrypt(d) \/ DecryptPreKey(d) \/ Build(d) =>
            pc[d] \in {"locked", "loaded"}
      BY DEF Load, Encrypt, Decrypt, DecryptPreKey, Build, Goes
    <3>3. d \in done => local' = local
      BY <1>0, <1>4, <3>1, <3>2, CallMoves
    <3>. QED
      BY <2>1, <3>1, <3>3
  <2>3. Result' = Result
    <3>1. pc[d] \notin {"ok", "error"} /\ pc'[d] \notin {"ok", "error"}
      BY <2>1 DEF Way
    <3>. QED
      BY <1>0, <2>1, <3>1, NotReturned
  <2>4. CASE done' = done
    <3>1. Effect' = Effect /\ Released' = Released
      BY <2>1, <2>2, <2>4, SameEffect
    <3>. QED
      BY <2>1, <2>3, <3>1
  <2>5. CASE done' # done
    <3>1. done' = done \union {d} /\ info[d].kind = "query" /\ pc[d] = "loaded"
      BY <1>4, <2>1, <2>5 DEF Way
    <3>2. d \notin done
      BY <1>0, <3>1 DEF DoneInv, DoneOf
    <3>3. /\ Effect[d] = None /\ Result[d] = None
          /\ Effect' = [Effect EXCEPT ![d] = "query"] /\ Released' = Released
      BY <1>0, <2>1, <2>2, <3>1, <3>2, NewEffect
    <3>4. Atomic!Query(d)
      BY <2>1, <2>3, <3>3 DEF Atomic!Query, Atomic!Does
    <3>. QED
      BY <3>4 DEF Atomic!Next
  <2>. QED
    BY <2>4, <2>5
<1>5. Stutters => UNCHANGED Atomic!vars
  BY DEF Atomic!vars
<1>. HIDE DEF Stutters
<1>6. Atomic!Next \/ Stutters
  BY <1>0, <1>1, <1>2, <1>3, <1>4, StoreRefines, UnlockRefines, Steps
<1>. QED
  BY <1>5, <1>6

\* If callbacks leave the address of their call alone, the locked, re-entrant calls
\* implement calls that change the stored record of their address in one step, for
\* every set of threads, cipher objects and addresses: no call stores a record that
\* another call has overtaken, and only a pre key decryption or a built session can
\* have taken effect when an error is returned.
THEOREM CallsAreAtomic ==
  ASSUME CallbacksApart
  PROVE  Spec => AtomicSpec
<1>1. Init => Atomic!Init
  <2>1. ASSUME Init
        PROVE  /\ Effect = [c \in Call |-> None] /\ Result = [c \in Call |-> None]
               /\ Released = {}
    BY <2>1 DEF Init, Effect, Result, Released
  <2>. QED
    BY <2>1 DEF Init, Atomic!Init, Fresh
<1>. QED
  BY <1>1, Invariant, StepRefines, PTL DEF Spec, AtomicSpec, Atomic!Spec
=============================================================================
