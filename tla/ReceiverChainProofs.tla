------------------------ MODULE ReceiverChainProofs ------------------------
(***************************************************************************)
(* ReceiverChain, for every size of the key list, every distance a message *)
(* may be ahead and every number of messages: the inductive invariant, the *)
(* three safety properties that follow from it, and the refinement of      *)
(* DeliverOnce.                                                            *)
(***************************************************************************)
EXTENDS ReceiverChain, MessageKeysProofs

\* Leaves without a prover of their own: SMT, again with more time, then Zenon.
USE SMTT(10), SMTT(20), SMTT(30), ZenonT(10)

\* The inductive invariant: stored keys and returned messages are behind the
\* chain key, and no key is kept for a message that has been returned.
IInv ==
  /\ TypeOK
  /\ Spread(keys)
  /\ \A i \in 1..Len(keys) : keys[i] < index
  /\ \A k \in 1..Len(plaintexts) : plaintexts[k] < index
  /\ \A i \in 1..Len(keys), k \in 1..Len(plaintexts) : keys[i] # plaintexts[k]
  /\ AtMostOnce
  /\ SkippedKept

-----------------------------------------------------------------------------
(* The invariant *)

\* A decryption that succeeds takes a stored key or runs the chain forward.
LEMMA DecryptCases ==
  ASSUME NEW c \in Nat, index \in Nat, keys \in Seq(Nat), Decrypt(c)
  PROVE  /\ sent' = sent
         /\ plaintexts' = Append(plaintexts, c)
         /\ \/ /\ c < index
               /\ \E i \in 1..Len(keys) : keys[i] = c
               /\ index' = index
               /\ keys' = RemoveMessageKeys(keys, c)
            \/ /\ index <= c
               /\ index' = c + 1
               /\ keys' = SetMessageKeys(keys, index, c)
  <1> DEFINE has == Contains(keys, c)
             r == GetOrCreateMessageKeys([index |-> index, keys |-> keys], c)
  <1>1. r.err = "SUCCESS" /\ index' = r.index /\ keys' = r.keys
    BY DEF Decrypt
  <1>2. CASE index > c /\ has
    <2>1. r = [err |-> "SUCCESS", index |-> index, keys |-> RemoveMessageKeys(keys, c)]
      BY <1>2 DEF GetOrCreateMessageKeys
    <2>2. \E i \in 1..Len(keys) : keys[i] = c
      BY <1>2 DEF Contains
    <2>3. QED
      BY <1>1, <1>2, <2>1, <2>2 DEF Decrypt
  <1>3. CASE index > c /\ ~has
    <2>1. r.err = "DUPLICATE_MESSAGE"
      BY <1>3 DEF GetOrCreateMessageKeys
    <2>2. QED
      BY <1>1, <2>1
  <1>4. CASE index <= c /\ c - index > MAX_FUTURE
    <2>1. r.err = "INVALID_MESSAGE"
      BY <1>4 DEF GetOrCreateMessageKeys
    <2>2. QED
      BY <1>1, <2>1
  <1>5. CASE index <= c /\ ~(c - index > MAX_FUTURE)
    <2>1. r = [err |-> "SUCCESS", index |-> c + 1, keys |-> SetMessageKeys(keys, index, c)]
      BY <1>5 DEF GetOrCreateMessageKeys
    <2>2. QED
      BY <1>1, <1>5, <2>1 DEF Decrypt
  <1>6. QED
    BY <1>2, <1>3, <1>4, <1>5

\* The chain starts with no stored keys and nothing returned.
THEOREM InitIInv == Init => IInv
  BY MessageKeysAssumption DEF Init, IInv, TypeOK, Spread, AtMostOnce, SkippedKept

\* Every call keeps the invariant.
THEOREM NextIInv == IInv /\ [Next]_vars => IInv'
  <1> SUFFICES ASSUME IInv, [Next]_vars PROVE IInv'
    OBVIOUS
  <1>1. /\ sent \in Nat /\ index \in Nat /\ index <= sent
        /\ keys \in Seq(Nat) /\ plaintexts \in Seq(Nat)
        /\ Len(keys) <= MAX_MESSAGE_KEYS
    BY DEF IInv, TypeOK
  <1>2. CASE UNCHANGED vars
    BY <1>2 DEF IInv, TypeOK, Spread, AtMostOnce, SkippedKept, Contains, vars
  <1>3. CASE Encrypt
    <2>1. TypeOK'
      BY <1>1, <1>3 DEF Encrypt, TypeOK
    <2>2. QED
      BY <1>3, <2>1 DEF Encrypt, IInv, Spread, AtMostOnce, SkippedKept, Contains
  <1>4. ASSUME NEW c \in 0..(sent - 1), Decrypt(c) PROVE IInv'
    <2>1. c \in Nat /\ c < sent
      BY <1>1
    <2> DEFINE n == Len(plaintexts)
    <2>2. /\ sent' = sent
          /\ plaintexts' = Append(plaintexts, c)
      BY <1>1, <1>4, <2>1, DecryptCases
    <2>3. /\ n \in Nat
          /\ plaintexts' \in Seq(Nat)
          /\ Len(plaintexts') = n + 1
          /\ plaintexts'[n + 1] = c
          /\ \A k \in 1..n : plaintexts'[k] = plaintexts[k]
          /\ \A k \in 1..(n + 1) : k = n + 1 \/ k \in 1..n
      BY <1>1, <2>1, <2>2
    <2>4. Contains(plaintexts', c) /\ \A e : Contains(plaintexts, e) => Contains(plaintexts', e)
      BY <2>3 DEF Contains
    <2>5. ASSUME \A k \in 1..n : plaintexts[k] # c PROVE AtMostOnce'
      BY <2>3, <2>5 DEF AtMostOnce, IInv
    <2>6. CASE c < index /\ (\E i \in 1..Len(keys) : keys[i] = c)
               /\ index' = index /\ keys' = RemoveMessageKeys(keys, c)
      <3>1. PICK i \in 1..Len(keys) : keys[i] = c
        BY <2>6
      <3>2. Spread(keys) /\ keys' = RemoveMessageKeys(keys, keys[i])
        BY <2>6, <3>1 DEF IInv
      <3>3. KeyRemoved(keys, i, keys')
        BY <1>1, <3>2, RemoveMessageKeysEffect
      <3>4. TypeOK'
        BY <1>1, <2>2, <2>3, <2>6, <3>3, MessageKeysAssumption DEF TypeOK, KeyRemoved
      <3>5. \A k \in 1..n : plaintexts[k] # c
        BY <3>1 DEF IInv
      <3>6. \A j \in 1..Len(keys') : keys'[j] < index'
        BY <2>6, <3>3 DEF IInv, KeyRemoved
      <3>7. ASSUME NEW k \in 1..Len(plaintexts')
            PROVE  /\ plaintexts'[k] < index'
                   /\ \A j \in 1..Len(keys') : keys'[j] # plaintexts'[k]
        <4>1. CASE k = n + 1
          BY <2>3, <2>6, <3>1, <3>3, <4>1 DEF KeyRemoved
        <4>2. CASE k \in 1..n
          <5>1. plaintexts'[k] = plaintexts[k] /\ plaintexts[k] < index
            BY <2>3, <4>2 DEF IInv
          <5>2. \A l \in 1..Len(keys) : keys[l] # plaintexts[k]
            BY <4>2 DEF IInv
          <5>3. \A j \in 1..Len(keys') : \E l \in 1..Len(keys) : keys'[j] = keys[l]
            BY <3>3 DEF KeyRemoved
          <5>4. \A j \in 1..Len(keys') : keys'[j] # plaintexts'[k]
            BY <5>1, <5>2, <5>3
          <5>5. QED
            BY <2>6, <5>1, <5>4
        <4>3. QED
          BY <2>3, <4>1, <4>2
      <3>8. SkippedKept'
        <4>1. ASSUME NEW e \in 0..(index - 1), Contains(keys, e)
              PROVE  Contains(plaintexts', e) \/ Contains(keys', e)
          <5>1. PICK k \in 1..Len(keys) : keys[k] = e
            BY <4>1 DEF Contains
          <5>2. CASE k = i
            BY <2>4, <3>1, <5>1, <5>2
          <5>3. CASE k # i
            BY <3>3, <5>1, <5>3, Zenon DEF Contains, KeyRemoved
          <5>4. QED
            BY <5>2, <5>3
        <4>2. QED
          BY <2>4, <2>6, <4>1 DEF SkippedKept, IInv
      <3>9. QED
        BY <2>5, <3>3, <3>4, <3>5, <3>6, <3>7, <3>8 DEF IInv, KeyRemoved
    <2>7. CASE index <= c /\ index' = c + 1 /\ keys' = SetMessageKeys(keys, index, c)
      <3>1. Spread(keys) /\ (\A i \in 1..Len(keys) : keys[i] < index) /\ index <= c
        BY <2>7 DEF IInv
      <3>2. KeysStored(keys, index, c, keys')
        BY <1>1, <2>1, <2>7, <3>1, SetMessageKeysEffect
      <3>3. TypeOK'
        BY <1>1, <2>1, <2>2, <2>3, <2>7, <3>2 DEF TypeOK, KeysStored
      <3>4. \A k \in 1..n : plaintexts[k] \in Nat /\ plaintexts[k] < index /\ plaintexts[k] # c
        BY <1>1, <2>1, <2>7 DEF IInv
      <3>5. \A i \in 1..Len(keys') : keys'[i] \in Nat /\ keys'[i] < index' /\ keys'[i] # c
        BY <2>1, <2>7, <3>2 DEF KeysStored
      <3>6. ASSUME NEW k \in 1..Len(plaintexts') PROVE plaintexts'[k] < index'
        <4>1. CASE k = n + 1
          BY <2>1, <2>3, <2>7, <4>1
        <4>2. CASE k \in 1..n
          <5>1. plaintexts'[k] = plaintexts[k] /\ plaintexts[k] \in Nat /\ plaintexts[k] < index
            BY <2>3, <3>4, <4>2
          <5>2. QED
            BY <1>1, <2>1, <2>7, <5>1
        <4>3. QED
          BY <2>3, <4>1, <4>2
      <3>7. ASSUME NEW i \in 1..Len(keys'), NEW k \in 1..Len(plaintexts')
            PROVE  keys'[i] # plaintexts'[k]
        <4>1. CASE k = n + 1
          BY <2>3, <3>5, <4>1
        <4>2. CASE k \in 1..n
          <5>1. plaintexts'[k] = plaintexts[k]
            BY <2>3, <4>2
          <5>2. CASE keys'[i] >= index
            BY <1>1, <3>4, <3>5, <4>2, <5>1, <5>2
          <5>3. CASE \E l \in 1..Len(keys) : keys'[i] = keys[l]
            BY <4>2, <5>1, <5>3 DEF IInv
          <5>4. QED
            BY <3>2, <5>2, <5>3 DEF KeysStored
        <4>3. QED
          BY <2>3, <4>1, <4>2
      <3>8. SkippedKept'
        <4>1. SUFFICES ASSUME NEW e \in 0..c
                       PROVE  \/ Contains(plaintexts', e)
                              \/ Contains(keys', e)
                              \/ c + 1 - e > MAX_MESSAGE_KEYS + 1
          BY <2>1, <2>7 DEF SkippedKept
        <4>2. CASE e = c
          BY <2>4, <4>2
        <4>3. CASE e \in index..(c - 1)
          <5>1. (\E i \in 1..Len(keys') : keys'[i] = e) \/ c - e > MAX_MESSAGE_KEYS
            BY <3>2, <4>3 DEF KeysStored
          <5>2. QED
            BY <2>1, <5>1, MessageKeysAssumption DEF Contains
        <4>4. CASE e < index
          <5>1. e \in 0..(index - 1)
            BY <1>1, <4>4
          <5>2. \/ Contains(plaintexts, e)
                \/ Contains(keys, e)
                \/ index - e > MAX_MESSAGE_KEYS + 1
            BY <5>1 DEF IInv, SkippedKept
          <5>3. CASE Contains(keys, e)
            <6>1. PICK k \in 1..Len(keys) : keys[k] = e
              BY <5>3 DEF Contains
            <6>2. (\E i \in 1..Len(keys') : keys'[i] = e) \/ c - e > MAX_MESSAGE_KEYS
              BY <3>2, <6>1 DEF KeysStored
            <6>3. QED
              BY <2>1, <6>2, MessageKeysAssumption DEF Contains
          <5>4. CASE index - e > MAX_MESSAGE_KEYS + 1
            BY <1>1, <2>1, <2>7, <5>4, MessageKeysAssumption
          <5>5. QED
            BY <2>4, <5>2, <5>3, <5>4
        <4>5. QED
          BY <1>1, <2>1, <4>2, <4>3, <4>4
      <3>9. QED
        BY <2>5, <3>2, <3>3, <3>4, <3>5, <3>6, <3>7, <3>8 DEF IInv, KeysStored
    <2>8. QED
      BY <1>1, <1>4, <2>1, <2>6, <2>7, DecryptCases
  <1>5. QED
    BY <1>2, <1>3, <1>4 DEF Next

-----------------------------------------------------------------------------
(* The theorems *)

\* The invariant holds throughout.
THEOREM Invariance == Spec => []IInv
  BY InitIInv, NextIInv, PTL DEF Spec

\* The list of message keys never outgrows MAX_MESSAGE_KEYS
\* (session_state_set_message_keys) and the receiver's index never overtakes the
\* sender's.
THEOREM TypeCorrect == Spec => []TypeOK
  <1>1. IInv => TypeOK
    BY DEF IInv
  <1>2. QED
    BY <1>1, Invariance, PTL

\* session_cipher_get_or_create_message_keys never hands out the key of a message
\* twice, whatever the order of arrival and the number of copies.
THEOREM DecryptedAtMostOnce == Spec => []AtMostOnce
  <1>1. IInv => AtMostOnce
    BY DEF IInv
  <1>2. QED
    BY <1>1, Invariance, PTL

\* A message that was passed over stays readable until more than MAX_MESSAGE_KEYS
\* later ones have been reached.
THEOREM SkippedKeysKept == Spec => []SkippedKept
  <1>1. IInv => SkippedKept
    BY DEF IInv
  <1>2. QED
    BY <1>1, Invariance, PTL

\* A decryption never returns a message that has been returned before.
LEMMA DecryptIsNew ==
  ASSUME IInv, NEW c \in 0..(sent - 1), Decrypt(c)
  PROVE  \A k \in 1..Len(plaintexts) : plaintexts[k] # c
  <1>1. /\ c \in Nat /\ index \in Nat /\ keys \in Seq(Nat) /\ plaintexts \in Seq(Nat)
        /\ \A k \in 1..Len(plaintexts) : plaintexts[k] < index
        /\ \A i \in 1..Len(keys), k \in 1..Len(plaintexts) : keys[i] # plaintexts[k]
    BY DEF IInv, TypeOK
  <1>2. index <= c \/ \E i \in 1..Len(keys) : keys[i] = c
    BY <1>1, DecryptCases
  <1>3. QED
    BY <1>1, <1>2

\* The receiver chain implements the channel that delivers at most once.
THEOREM ImplementsChannel == Spec => ChannelSpec
  <1>1. Init => Channel!Init
    BY DEF Init, Channel!Init
  <1>2. IInv /\ [Next]_vars => [Channel!Next]_<<sent, plaintexts>>
    <2> SUFFICES ASSUME IInv, [Next]_vars
                 PROVE  [Channel!Next]_<<sent, plaintexts>>
      OBVIOUS
    <2>1. CASE UNCHANGED vars
      BY <2>1 DEF vars
    <2>2. CASE Encrypt
      BY <2>2 DEF Encrypt, Channel!Next, Channel!Send
    <2>3. ASSUME NEW c \in 0..(sent - 1), Decrypt(c)
          PROVE  Channel!Next
      <3>1. \A k \in 1..Len(plaintexts) : plaintexts[k] # c
        BY <2>3, DecryptIsNew
      <3>2. Channel!Deliver(c)
        BY <2>3, <3>1 DEF Decrypt, Channel!Deliver
      <3>3. QED
        BY <3>2 DEF Channel!Next
    <2>4. QED
      BY <2>1, <2>2, <2>3 DEF Next
  <1>3. QED
    BY <1>1, <1>2, Invariance, PTL DEF Spec, ChannelSpec, Channel!Spec
=============================================================================
