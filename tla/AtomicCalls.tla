---------------------------- MODULE AtomicCalls ----------------------------
(***************************************************************************)
(* What the calls of session_cipher.c, group_cipher.c and the session      *)
(* builders promise together, whatever threads and callbacks they are made *)
(* from: each call changes the stored record of its address in one step,   *)
(* or not at all, and what it returns says which, but for the calls that   *)
(* do more after they have stored the record.                              *)
(***************************************************************************)
EXTENDS Naturals

CONSTANTS Address, Message,
          Call,        \* the calls that may be made
          None         \* not a call: the session that exists at the start

VARIABLES store,       \* store[a]: the session, its next index, the messages read
          effect,      \* effect[c]: what call c has done, or None
          released,    \* the encrypted messages: address, session, index and call
          result       \* result[c]: what call c has returned, or None

vars == <<store, effect, released, result>>

Init ==
  /\ store = [a \in Address |-> [session |-> None, index |-> 0, read |-> {}]]
  /\ effect = [c \in Call |-> None]
  /\ released = {}
  /\ result = [c \in Call |-> None]

\* A record after a message has been read, and after call c has built a session
Read(record, m) == [record EXCEPT !.read = @ \union {m}]
NewSession(record, c) == [record EXCEPT !.session = c, !.index = 0]

\* Call c, which has done nothing so far, takes effect.
Does(c, kind) ==
  /\ effect[c] = None /\ result[c] = None
  /\ effect' = [effect EXCEPT ![c] = kind]
  /\ UNCHANGED result

\* A message is encrypted under the next key of the session.
Encrypt(a, c) ==
  /\ Does(c, "encrypt")
  /\ released' = released \union {<<a, store[a].session, store[a].index, c>>}
  /\ store' = [store EXCEPT ![a].index = @ + 1]

\* A message that has not been read is read.
Decrypt(a, m, c) ==
  /\ Does(c, "decrypt")
  /\ m \notin store[a].read
  /\ store' = [store EXCEPT ![a] = Read(store[a], m)]
  /\ UNCHANGED released

\* ... and a new session may take the place of the current one in the same step.
DecryptPreKey(a, m, c) ==
  /\ Does(c, "decrypt_pre_key")
  /\ m \notin store[a].read
  /\ \E record \in {store[a], NewSession(store[a], c)} :
       store' = [store EXCEPT ![a] = Read(record, m)]
  /\ UNCHANGED released

\* A new session takes the place of the current one.
Build(a, c) ==
  /\ Does(c, "build")
  /\ store' = [store EXCEPT ![a] = NewSession(store[a], c)]
  /\ UNCHANGED released

\* The record is only looked at.
Query(c) == Does(c, "query") /\ UNCHANGED <<store, released>>

\* A call returns.  Only a built session and a pre key decryption may have taken effect
\* when an error is returned.
Return(c, r) ==
  /\ result[c] = None
  /\ r = "ok" => effect[c] # None
  /\ r = "error" => effect[c] \in {None, "decrypt_pre_key", "build"}
  /\ result' = [result EXCEPT ![c] = r]
  /\ UNCHANGED <<store, effect, released>>

Next ==
  \E c \in Call :
    \/ Query(c) \/ Return(c, "ok") \/ Return(c, "error")
    \/ \E a \in Address :
         \/ Encrypt(a, c) \/ Build(a, c)
         \/ \E m \in Message : Decrypt(a, m, c) \/ DecryptPreKey(a, m, c)

Spec == Init /\ [][Next]_vars
=============================================================================
