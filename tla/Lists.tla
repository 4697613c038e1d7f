------------------------------- MODULE Lists -------------------------------
(***************************************************************************)
(* The doubly-linked lists of utlist.h, in which the library keeps message *)
(* keys, receiver chains and archived states, as sequences.  The operators *)
(* have the names and the meaning they have in the community module        *)
(* SequencesExt, which is not used here because it extends Bags: its       *)
(* definitions would be in sight of every step of every proof.             *)
(***************************************************************************)
EXTENDS Integers, Sequences, FiniteSetsExt

Contains(s, e) == \E i \in 1..Len(s) : s[i] = e

\* DL_FOREACH up to the first element that passes the test: its position, 0 if there
\* is none.
SelectInSeq(s, Test(_)) ==
  LET found == {i \in 1..Len(s) : Test(s[i])}
  IN IF found = {} THEN 0 ELSE Min(found)

\* DL_DELETE of the i-th element
RemoveAt(s, i) == SubSeq(s, 1, i - 1) \o SubSeq(s, i + 1, Len(s))

\* DL_FOREACH up to an element, then DL_DELETE
RemoveFirst(s, e) ==
  IF Contains(s, e) THEN RemoveAt(s, Min({i \in 1..Len(s) : s[i] = e})) ELSE s
=============================================================================
