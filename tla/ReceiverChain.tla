--------------------------- MODULE ReceiverChain ---------------------------
(***************************************************************************)
(* One sending chain and the receiver chain at the other end.  Any message *)
(* encrypted so far may arrive at any moment, any number of times and in   *)
(* any order; a message that is lost just never arrives.  A decryption     *)
(* that fails leaves no trace: the code works on a copy of the session     *)
(* state and stores it only on success.                                    *)
(***************************************************************************)
EXTENDS MessageKeys

CONSTANT MaxSent   \* bound: messages encrypted on the chain

ASSUME MaxSentAssumption == MaxSent \in Nat

VARIABLES sent,        \* index of the sender's chain key
          index,       \* index of the receiver's chain key
          keys,        \* the receiver's stored message keys, oldest first
          plaintexts   \* the messages decrypted and returned, in that order

vars == <<sent, index, keys, plaintexts>>

Init ==
  /\ sent = 0
  /\ index = 0
  /\ keys = <<>>
  /\ plaintexts = <<>>

\* session_cipher_encrypt: the message takes the index of the chain key, which
\* then advances (ratchet_chain_key_create_next).
Encrypt ==
  /\ sent < MaxSent
  /\ sent' = sent + 1
  /\ UNCHANGED <<index, keys, plaintexts>>

\* The decryption of message c succeeds and its outcome is stored.
Decrypt(c) ==
  LET r == GetOrCreateMessageKeys([index |-> index, keys |-> keys], c)
  IN /\ r.err = "SUCCESS"
     /\ index' = r.index
     /\ keys' = r.keys
     /\ plaintexts' = Append(plaintexts, c)
     /\ UNCHANGED sent

Next == Encrypt \/ \E c \in 0..(sent - 1) : Decrypt(c)

Spec == Init /\ [][Next]_vars

-----------------------------------------------------------------------------

\* The types, and the bound on the list that session_state_set_message_keys keeps.
TypeOK ==
  /\ sent \in Nat
  /\ index \in 0..sent
  /\ keys \in Seq(Nat)
  /\ Len(keys) <= MAX_MESSAGE_KEYS
  /\ plaintexts \in Seq(Nat)

\* A message is decrypted at most once, however often and in whatever order its
\* copies arrive: session_cipher_get_or_create_message_keys deletes or passes
\* the key it hands out.
AtMostOnce ==
  \A i, j \in 1..Len(plaintexts) : plaintexts[i] = plaintexts[j] => i = j

\* A message that was passed over can still be decrypted unless more than
\* MAX_MESSAGE_KEYS later messages of the chain have been reached: the list
\* gives up its oldest keys only, and only when it is full.
SkippedKept ==
  \A c \in 0..(index - 1) :
    \/ Contains(plaintexts, c)
    \/ Contains(keys, c)
    \/ index - c > MAX_MESSAGE_KEYS + 1

\* The chain is a DeliverOnce channel: every call of the receiver that returns a
\* plaintext returns one that was sent and had not been returned before.
Channel == INSTANCE DeliverOnce

ChannelSpec == Channel!Spec
=============================================================================
