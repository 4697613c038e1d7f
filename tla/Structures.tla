----------------------------- MODULE Structures -----------------------------
(***************************************************************************)
(* Protocol buffer structures.  A structure has a field for every part of  *)
(* a record that is there; a field it lacks gets its default when the      *)
(* structure is read back.                                                 *)
(***************************************************************************)
CONSTANT None   \* the null pointer

\* The fields of a record that are there.
Present(r) == [f \in {g \in DOMAIN r : r[g] # None} |-> r[f]]

\* The fields of a structure, and those of default for the ones it lacks.
Filled(structure, default) ==
  [f \in DOMAIN default |-> IF f \in DOMAIN structure THEN structure[f] ELSE default[f]]

IfThere(Op(_), part) == IF part = None THEN None ELSE Op(part)
=============================================================================
