-------------------------- MODULE MCReceiverChain --------------------------
(***************************************************************************)
(* ReceiverChain for TLC, and the skip loop of the code, one iteration at  *)
(* a time, as the reference for SetMessageKeys.                            *)
(***************************************************************************)
EXTENDS ReceiverChain

Fold == INSTANCE SequencesExt

\* session_cipher.c:678-696 with session_state.c:1479-1488, literally.
SkipLoop(keys0, from, to) ==
  Fold!FoldLeft(LAMBDA acc, c :
                  IF Len(acc) + 1 > MAX_MESSAGE_KEYS THEN Tail(Append(acc, c)) ELSE Append(acc, c),
                keys0, [i \in 1..(to - from) |-> from + i - 1])

\* The closed form of SetMessageKeys is what the loop of
\* session_cipher_get_or_create_message_keys computes, iteration by iteration, on
\* every list a chain can have and however far the next message is ahead.
LoopAgrees ==
  \A to \in index..(index + MAX_FUTURE) : SetMessageKeys(keys, index, to) = SkipLoop(keys, index, to)
=============================================================================
