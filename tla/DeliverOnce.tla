---------------------------- MODULE DeliverOnce ----------------------------
(***************************************************************************)
(* What a message chain promises its user: the plaintexts handed out are   *)
(* plaintexts that were encrypted, each of them at most once, in any       *)
(* order.  Messages are named by their position in the chain.              *)
(***************************************************************************)
EXTENDS Naturals, Sequences

VARIABLES sent,        \* messages encrypted so far
          plaintexts   \* the messages decrypted, in the order of decryption

Init == sent = 0 /\ plaintexts = <<>>

Send ==
  /\ sent' = sent + 1
  /\ UNCHANGED plaintexts

Deliver(c) ==
  /\ \A i \in 1..Len(plaintexts) : plaintexts[i] # c
  /\ plaintexts' = Append(plaintexts, c)
  /\ UNCHANGED sent

Next == Send \/ \E c \in 0..(sent - 1) : Deliver(c)

Spec == Init /\ [][Next]_<<sent, plaintexts>>
=============================================================================
