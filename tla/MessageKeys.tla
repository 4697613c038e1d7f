---------------------------- MODULE MessageKeys ----------------------------
(***************************************************************************)
(* The message keys of one receiver chain.  A chain is a chain key with an *)
(* index, the counter of the next message it expects, and the list of the  *)
(* keys that were passed over because their messages had not arrived yet.  *)
(* A stored key is represented by its counter: together with the chain it  *)
(* determines the key.  The counters are uint32_t in the code; no bound is *)
(* put on them here (a chain is replaced long before 2^32 messages).       *)
(***************************************************************************)
EXTENDS Lists

CONSTANTS MAX_MESSAGE_KEYS,   \* keys kept per chain (2000)
          MAX_FUTURE          \* how far a message may be ahead (2000)

ASSUME MessageKeysAssumption == MAX_MESSAGE_KEYS \in Nat /\ MAX_FUTURE \in Nat

-----------------------------------------------------------------------------

\* The newest n entries of a list that is evicted from its head.
Newest(s, n) == IF Len(s) > n THEN SubSeq(s, Len(s) - n + 1, Len(s)) ELSE s

\* Mutant: the eviction loop runs one entry too far.
SetMessageKeysOffByOne(keys, from, to) ==
  Newest(keys \o [i \in 1..(to - from) |-> from + i - 1], MAX_MESSAGE_KEYS - 1)

\* Mutant: the list is never trimmed.
SetMessageKeysUnbounded(keys, from, to) ==
  keys \o [i \in 1..(to - from) |-> from + i - 1]

\* session_state_set_message_keys for each counter of from..(to - 1), in order:
\* append the key, evict the oldest ones beyond MAX_MESSAGE_KEYS.
SetMessageKeys(keys, from, to) ==
  Newest(keys \o [i \in 1..(to - from) |-> from + i - 1], MAX_MESSAGE_KEYS)

\* Mutant: the key is used but stays in the list.
RemoveMessageKeysKept(keys, counter) == keys

\* session_state_remove_message_keys, when the key is there.
RemoveMessageKeys(keys, counter) == RemoveFirst(keys, counter)

-----------------------------------------------------------------------------

\* Mutant: an old counter without a stored key is accepted again.
GetOrCreateMessageKeysNoDuplicateCheck(chain, counter) ==
  [err |-> "SUCCESS",
   index |-> IF chain.index > counter THEN chain.index ELSE counter + 1,
   keys |-> IF chain.index > counter THEN RemoveMessageKeys(chain.keys, counter)
            ELSE SetMessageKeys(chain.keys, chain.index, counter)]

\* session_cipher_get_or_create_message_keys: the result code, and the index and
\* the stored keys of the chain after the call.
GetOrCreateMessageKeys(chain, counter) ==
  CASE chain.index > counter /\ Contains(chain.keys, counter) ->
         [err |-> "SUCCESS", index |-> chain.index,
          keys |-> RemoveMessageKeys(chain.keys, counter)]
    [] chain.index > counter /\ ~Contains(chain.keys, counter) ->
         [err |-> "DUPLICATE_MESSAGE", index |-> chain.index, keys |-> chain.keys]
    [] chain.index <= counter /\ counter - chain.index > MAX_FUTURE ->
         [err |-> "INVALID_MESSAGE", index |-> chain.index, keys |-> chain.keys]
    [] OTHER ->
         [err |-> "SUCCESS", index |-> counter + 1,
          keys |-> SetMessageKeys(chain.keys, chain.index, counter)]
=============================================================================
