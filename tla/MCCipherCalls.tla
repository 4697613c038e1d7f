--------------------------- MODULE MCCipherCalls ---------------------------
(***************************************************************************)
(* Two cipher objects for one address and one for another one.             *)
(***************************************************************************)
EXTENDS CipherCalls, TLC

CONSTANTS x1, x2, y, a, b

MCUses == x1 :> {"encrypt", "decrypt"} @@ x2 :> {"decrypt_pre_key", "build", "query"}
          @@ y :> {"decrypt"}

MCAddressOf == x1 :> a @@ x2 :> a @@ y :> b
=============================================================================
