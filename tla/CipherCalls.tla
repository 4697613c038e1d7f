---------------------------- MODULE CipherCalls ----------------------------
(***************************************************************************)
(* Calls of the library by several threads, through several cipher objects *)
(* and from within decryption callbacks.  The calls of session_cipher.c,   *)
(* group_cipher.c and of the builders have one shape: take the global lock *)
(* (which must be recursive, signal_protocol.h), load the record of the    *)
(* cipher's address, change it, store it, give the lock back.  Decryption  *)
(* runs the application's callback before it stores, and a cipher object   *)
(* refuses calls while it is inside its callback (inside_callback).  What  *)
(* the calls do to a record is reduced to what they must not do twice: a   *)
(* message is read, an index is used, a session is built.                  *)
(*                                                                         *)
(* A callback may make further calls.  The flag belongs to one object, and *)
(* no header says what a callback may call: another object may work on the *)
(* address whose record the outer call is going to store, and a session    *)
(* may be built for it, unless the application itself sees to it that they *)
(* do not (CallbacksApart).                                                *)
(***************************************************************************)
EXTENDS Naturals, FiniteSets

CONSTANTS Thread, Cipher, Address, Message,
          AddressOf,       \* the address of a cipher object
          Uses,            \* the kinds of calls the application makes through an object
          CallbacksApart,  \* whether callbacks leave the address of their call alone
          MaxCalls,        \* how many calls are made
          None

Call == 1..MaxCalls
Kinds == {"encrypt", "decrypt", "decrypt_pre_key", "build", "query"}

\* session_cipher_decrypt_signal_message and session_cipher_decrypt_pre_key_signal_message
Decrypts == {"decrypt", "decrypt_pre_key"}

\* The calls that do more after they have stored the record, which may fail
Continued == {"decrypt_pre_key", "build"}

ASSUME CipherCallsAssumption ==
  /\ AddressOf \in [Cipher -> Address]
  /\ Uses \in [Cipher -> SUBSET Kinds]
  /\ CallbacksApart \in BOOLEAN
  /\ MaxCalls \in Nat
  /\ None \notin Thread \union Call /\ None \notin Kinds

VARIABLES pc,       \* pc[c]: where call c is
          info,     \* info[c]: its thread, cipher object, kind, message and caller
          local,    \* local[c]: the record it has loaded
          top,      \* top[t]: the innermost call of a thread
          owner,    \* the thread that holds the lock
          depth,    \* how often it has taken it
          inside,   \* inside[x]: the flag inside_callback of a cipher object
          store,    \* store[a]: the stored record of an address
          done      \* the calls that have done their work, whatever they return

vars == <<pc, info, local, top, owner, depth, inside, store, done>>

Records == [session : Call \union {None}, index : Nat, read : SUBSET Message]
Infos == [thread : Thread, cipher : Cipher, kind : Kinds,
          message : Message \union {None}, caller : Call \union {None}]

Thr(c) == info[c].thread
Adr(c) == AddressOf[info[c].cipher]

Fresh == [session |-> None, index |-> 0, read |-> {}]

Init ==
  /\ pc = [c \in Call |-> "unused"]
  /\ info = [c \in Call |-> None]
  /\ local = [c \in Call |-> Fresh]
  /\ top = [t \in Thread |-> None]
  /\ owner = None
  /\ depth = 0
  /\ inside = [x \in Cipher |-> FALSE]
  /\ store = [a \in Address |-> Fresh]
  /\ done = {}

\* Call c goes from one place to another; its thread is not in another call.
Goes(c, from, to) == pc[c] = from /\ top[Thr(c)] = c /\ pc' = [pc EXCEPT ![c] = to]

-----------------------------------------------------------------------------
(* The application *)

\* The calls a callback of thread t makes.  What it calls on a cipher object that is
\* inside its callback is refused; if the application keeps callbacks apart, no other
\* object and no builder works on the address of a call that waits for its callback.
Permitted(t, x, kind) ==
  CallbacksApart =>
    \A d \in Call : pc[d] = "callback" /\ Thr(d) = t =>
      \/ AddressOf[x] # Adr(d)
      \/ x = info[d].cipher /\ kind # "build"
      \/ kind = "query"

\* A thread makes the next call, from a callback if it is in one.
Begin(t, x, kind, m, c) ==
  /\ kind \in Uses[x]
  /\ pc[c] = "unused"
  /\ \A d \in Call : d < c => pc[d] # "unused"
  /\ top[t] # None => pc[top[t]] = "callback"
  /\ Permitted(t, x, kind)
  /\ pc' = [pc EXCEPT ![c] = "calling"]
  /\ info' = [info EXCEPT ![c] = [thread |-> t, cipher |-> x, kind |-> kind,
                                  message |-> m, caller |-> top[t]]]
  /\ top' = [top EXCEPT ![t] = c]
  /\ UNCHANGED <<local, owner, depth, inside, store, done>>

-----------------------------------------------------------------------------
(* The library *)

\* Mutant: the lock cannot be taken again by the thread that has it.
CanLockOnce(t) == owner = None

\* Mutant: no lock functions were given to the context.
CanLockAlways(t) == TRUE

\* The lock function: NSRecursiveLock
CanLock(t) == owner \in {None, t}

\* signal_lock
Lock(c) ==
  /\ Goes(c, "calling", "locked")
  /\ CanLock(Thr(c))
  /\ owner' = Thr(c)
  /\ depth' = depth + 1
  /\ UNCHANGED <<info, local, top, inside, store, done>>

\* Mutant: a call is never refused.
RefusesNone(c) == FALSE

\* The check of inside_callback, which queries and builders do not make
Refuses(c) == info[c].kind \notin {"build", "query"} /\ inside[info[c].cipher]

Refuse(c) ==
  /\ Goes(c, "locked", "failing")
  /\ Refuses(c)
  /\ UNCHANGED <<info, local, top, owner, depth, inside, store, done>>

\* signal_protocol_session_load_session
Load(c) ==
  /\ Goes(c, "locked", "loaded")
  /\ ~Refuses(c)
  /\ local' = [local EXCEPT ![c] = store[Adr(c)]]
  /\ UNCHANGED <<info, top, owner, depth, inside, store, done>>

\* session_cipher_encrypt up to the store
Encrypt(c) ==
  /\ Goes(c, "loaded", "storing")
  /\ info[c].kind = "encrypt"
  /\ local' = [local EXCEPT ![c].index = @ + 1]
  /\ UNCHANGED <<info, top, owner, depth, inside, store, done>>

\* The record in which the session of call c takes the place of the current one
NewSession(record, c) == [record EXCEPT !.session = c, !.index = 0]

\* session_cipher_decrypt_from_record_and_signal_message, which takes the lock again
Decrypt(c) ==
  /\ Goes(c, "loaded", "decrypted")
  /\ info[c].kind = "decrypt"
  /\ CanLock(Thr(c))
  /\ info[c].message \notin local[c].read
  /\ local' = [local EXCEPT ![c].read = @ \union {info[c].message}]
  /\ UNCHANGED <<info, top, owner, depth, inside, store, done>>

\* ... after session_builder_process_pre_key_signal_message, which builds a session
\* if the record has none for the message
DecryptPreKey(c) ==
  /\ Goes(c, "loaded", "decrypted")
  /\ info[c].kind = "decrypt_pre_key"
  /\ CanLock(Thr(c))
  /\ info[c].message \notin local[c].read
  /\ \E record \in {local[c], NewSession(local[c], c)} :
       local' = [local EXCEPT ![c] = [record EXCEPT !.read = @ \union {info[c].message}]]
  /\ UNCHANGED <<info, top, owner, depth, inside, store, done>>

\* ... for a message that was read before
DecryptDuplicate(c) ==
  /\ Goes(c, "loaded", "failing")
  /\ info[c].kind \in Decrypts
  /\ CanLock(Thr(c))
  /\ info[c].message \in local[c].read
  /\ UNCHANGED <<info, local, top, owner, depth, inside, store, done>>

\* session_builder_process_pre_key_bundle up to the store
Build(c) ==
  /\ Goes(c, "loaded", "storing")
  /\ info[c].kind = "build"
  /\ local' = [local EXCEPT ![c] = NewSession(@, c)]
  /\ UNCHANGED <<info, top, owner, depth, inside, store, done>>

\* session_cipher_get_remote_registration_id and session_cipher_get_session_version
Query(c) ==
  /\ Goes(c, "loaded", "finishing")
  /\ info[c].kind = "query"
  /\ done' = done \union {c}
  /\ UNCHANGED <<info, local, top, owner, depth, inside, store>>

\* session_cipher_decrypt_callback, up to the application
EnterCallback(c) ==
  /\ Goes(c, "decrypted", "callback")
  /\ inside' = [inside EXCEPT ![info[c].cipher] = TRUE]
  /\ UNCHANGED <<info, local, top, owner, depth, store, done>>

\* Mutant: the flag stays set when the callback fails.
ExitCallbackKeepsFlag(c) ==
  /\ \/ /\ Goes(c, "callback", "storing")
        /\ inside' = [inside EXCEPT ![info[c].cipher] = FALSE]
     \/ /\ Goes(c, "callback", "failing")
        /\ UNCHANGED inside
  /\ UNCHANGED <<info, local, top, owner, depth, store, done>>

\* ... after the application returns: it may have failed.
ExitCallback(c) ==
  /\ \E to \in {"storing", "failing"} : Goes(c, "callback", to)
  /\ inside' = [inside EXCEPT ![info[c].cipher] = FALSE]
  /\ UNCHANGED <<info, local, top, owner, depth, store, done>>

\* Mutant: an encryption, too, can fail after its record has been stored.
StoreContinues(c) ==
  /\ Goes(c, "storing", "stored")
  /\ store' = [store EXCEPT ![Adr(c)] = local[c]]
  /\ done' = done \union {c}
  /\ UNCHANGED <<info, local, top, owner, depth, inside>>

\* signal_protocol_session_store_session
Store(c) ==
  /\ Goes(c, "storing", IF info[c].kind \in Continued THEN "stored" ELSE "finishing")
  /\ store' = [store EXCEPT ![Adr(c)] = local[c]]
  /\ done' = done \union {c}
  /\ UNCHANGED <<info, local, top, owner, depth, inside>>

\* ... when the application's store fails
StoreFails(c) ==
  /\ Goes(c, "storing", "failing")
  /\ UNCHANGED <<info, local, top, owner, depth, inside, store, done>>

\* What a call does after it has stored the record, and may fail in:
\* signal_protocol_pre_key_remove_key or signal_protocol_identity_save_identity
AfterStore(c) ==
  /\ \E to \in {"finishing", "failing"} : Goes(c, "stored", to)
  /\ UNCHANGED <<info, local, top, owner, depth, inside, store, done>>

\* Mutant: the lock is given back at once, however often it was taken.
UnlockAll(c) ==
  /\ \/ Goes(c, "finishing", "ok")
     \/ Goes(c, "failing", "error")
  /\ depth' = 0
  /\ owner' = None
  /\ top' = [top EXCEPT ![Thr(c)] = info[c].caller]
  /\ UNCHANGED <<info, local, inside, store, done>>

\* Mutant: the thread that gives the lock back stays its owner.
UnlockKeepsOwner(c) ==
  /\ \/ Goes(c, "finishing", "ok")
     \/ Goes(c, "failing", "error")
  /\ depth' = depth - 1
  /\ top' = [top EXCEPT ![Thr(c)] = info[c].caller]
  /\ UNCHANGED <<owner, info, local, inside, store, done>>

\* signal_unlock and the return
Unlock(c) ==
  /\ \/ Goes(c, "finishing", "ok")
     \/ Goes(c, "failing", "error")
  /\ depth' = depth - 1
  /\ owner' = IF depth = 1 THEN None ELSE owner
  /\ top' = [top EXCEPT ![Thr(c)] = info[c].caller]
  /\ UNCHANGED <<info, local, inside, store, done>>

Step(c) ==
  \/ Lock(c) \/ Refuse(c) \/ Load(c)
  \/ Encrypt(c) \/ Decrypt(c) \/ DecryptPreKey(c) \/ DecryptDuplicate(c)
  \/ Build(c) \/ Query(c)
  \/ EnterCallback(c) \/ ExitCallback(c)
  \/ Store(c) \/ StoreFails(c) \/ AfterStore(c) \/ Unlock(c)

Next ==
  \E c \in Call :
    \/ Step(c)
    \/ \E t \in Thread, x \in Cipher :
         \/ \E kind \in Decrypts, m \in Message : Begin(t, x, kind, m, c)
         \/ \E kind \in Kinds \ Decrypts : Begin(t, x, kind, None, c)

Spec == Init /\ [][Next]_vars

\* A thread that can go on does, and callbacks return.
FairSpec == Spec /\ \A c \in Call : WF_vars(Step(c))

-----------------------------------------------------------------------------

\* The places where a call holds the lock
Held(c) == pc[c] \notin {"unused", "calling", "ok", "error"}

\* The calls of some kinds that are sure to return successfully, or have
Succeeded(kinds) == {c \in Call : pc[c] \in {"finishing", "ok"} /\ info[c].kind \in kinds}

Places == {"unused", "calling", "locked", "loaded", "decrypted", "callback", "storing",
           "stored", "finishing", "failing", "ok", "error"}

\* Every variable has its type, calls that have begun have their arguments, and the
\* lock is free exactly when it has been given back as often as it was taken.
TypeOK ==
  /\ pc \in [Call -> Places]
  /\ info \in [Call -> Infos \union {None}]
  /\ \A c \in Call : pc[c] # "unused" => info[c] \in Infos
  /\ local \in [Call -> Records]
  /\ top \in [Thread -> Call \union {None}]
  /\ owner \in Thread \union {None}
  /\ depth \in Nat
  /\ (owner = None) = (depth = 0)
  /\ inside \in [Cipher -> BOOLEAN]
  /\ store \in [Address -> Records]
  /\ done \subseteq Call

\* Two threads are never inside the library at the same time, although a thread gives
\* the lock back once for each call it made from its callbacks.
Exclusive == \A c, d \in Call : Held(c) /\ Held(d) => Thr(c) = Thr(d)

\* A cipher object refuses calls exactly while a decryption of its own waits for the
\* callback: the flag inside_callback is set for no other call, is not taken away by
\* calls that the callback makes, and does not stay set when the callback fails.
FlagExact ==
  \A x \in Cipher : inside[x] <=> \E c \in Call : pc[c] = "callback" /\ info[c].cipher = x

\* If callbacks leave the address of their call alone, session_cipher_encrypt never uses
\* a message key for two messages, whatever the other threads and the calls from
\* callbacks do.
NoKeyReuse ==
  \A c, d \in Succeeded({"encrypt"}) :
    c # d /\ Adr(c) = Adr(d) =>
      <<local[c].session, local[c].index>> # <<local[d].session, local[d].index>>

\* If callbacks leave the address of their call alone, the decryption calls never
\* succeed twice for one message, also if the second call is made by another thread or
\* through another cipher object.
ReadOnce ==
  \A c, d \in Succeeded(Decrypts) :
    c # d /\ Adr(c) = Adr(d) => info[c].message # info[d].message

\* What each call has done, the messages that have been encrypted, and what each call
\* has returned
Effect == [c \in Call |-> IF c \in done THEN info[c].kind ELSE None]
Released ==
  {<<Adr(c), local[c].session, local[c].index - 1, c>> :
     c \in {d \in done : info[d].kind = "encrypt"}}
Result == [c \in Call |-> IF pc[c] \in {"ok", "error"} THEN pc[c] ELSE None]

Atomic == INSTANCE AtomicCalls WITH effect <- Effect, released <- Released, result <- Result

\* If callbacks leave the address of their call alone, the calls of all threads, and
\* those made from callbacks, take effect one after the other on the stored record of
\* their address: none overwrites what another stored.  A call that succeeds has taken
\* effect; one that fails has not, unless it is a pre key decryption whose key could
\* not be removed or a built session whose identity could not be saved.
AtomicSpec == Atomic!Spec

\* Every call returns: no thread waits for the lock for ever, and a call from a callback
\* does not wait for the call whose callback it is.
CallsReturn == \A c \in Call : pc[c] = "calling" ~> pc[c] \in {"ok", "error"}
=============================================================================
