------------------------- MODULE MessageKeysProofs -------------------------
(***************************************************************************)
(* What the operators of MessageKeys do to the list of stored keys of a    *)
(* chain, for every limit: taking a key out, storing the keys of skipped   *)
(* messages with eviction, and session_cipher_get_or_create_message_keys   *)
(* as a whole.  The proofs about a receiver chain, about the receivers of  *)
(* a group and about sessions rest on these lemmas.                        *)
(***************************************************************************)
EXTENDS MessageKeys, TLAPS

\* Leaves without a prover of their own: SMT, again with more time, then Zenon.
USE SMTT(10), SMTT(20), SMTT(30), ZenonT(10)

\* The list of stored keys is strictly increasing, so that it has no more
\* entries between two counters than there are counters.
Spread(s) == \A i, j \in 1..Len(s) : i < j => s[j] - s[i] >= j - i

\* t is s without its i-th entry.
KeyRemoved(s, i, t) ==
  /\ t \in Seq(Nat)
  /\ Len(t) = Len(s) - 1
  /\ Spread(t)
  /\ \A j \in 1..Len(t) : t[j] # s[i] /\ \E k \in 1..Len(s) : t[j] = s[k]
  /\ \A k \in 1..Len(s) : k # i => \E j \in 1..Len(t) : t[j] = s[k]

\* f is s with the counters of from..(to - 1) appended.
KeysAppended(s, from, to, f) ==
  /\ f \in Seq(Nat)
  /\ Len(f) = Len(s) + (to - from)
  /\ Spread(f)
  /\ \A i \in 1..Len(f) : f[i] < to
  /\ \A i \in 1..Len(s) : f[i] = s[i]
  /\ \A i \in 1..(to - from) : f[Len(s) + i] = from + i - 1

\* t is s with the counters of from..(to - 1) added, and holds every counter of the
\* two that is within MAX_MESSAGE_KEYS of to.
KeysStored(s, from, to, t) ==
  /\ t \in Seq(Nat)
  /\ Len(t) <= MAX_MESSAGE_KEYS
  /\ Spread(t)
  /\ \A i \in 1..Len(t) : t[i] < to
  /\ \A i \in 1..Len(t) : t[i] >= from \/ \E k \in 1..Len(s) : t[i] = s[k]
  /\ \A k \in 1..Len(s) :
       (\E i \in 1..Len(t) : t[i] = s[k]) \/ to - s[k] > MAX_MESSAGE_KEYS
  /\ \A c \in from..(to - 1) :
       (\E i \in 1..Len(t) : t[i] = c) \/ to - c > MAX_MESSAGE_KEYS

-----------------------------------------------------------------------------
(* Lists *)

\* A function on 1..n is a sequence, and equal to one with the same entries.
LEMMA FunctionIsSeq ==
  ASSUME NEW T, NEW n \in Nat, NEW f \in [1..n -> T]
  PROVE  f \in Seq(T) /\ Len(f) = n
  OBVIOUS

LEMMA SameEntries ==
  ASSUME NEW T, NEW s \in Seq(T), NEW f \in [1..Len(s) -> T], \A i \in 1..Len(s) : f[i] = s[i]
  PROVE  f = s
  OBVIOUS

LEMMA Prepended ==
  ASSUME NEW T, NEW d \in T, NEW s \in Seq(T), NEW t, t = <<d>> \o s
  PROVE  /\ t \in Seq(T) /\ Len(t) = Len(s) + 1 /\ Len(s) \in Nat
         /\ t[1] = d
         /\ \A i \in 2..Len(t) : t[i] = s[i - 1]
  OBVIOUS

LEMMA SingleEntry ==
  ASSUME NEW T, NEW s \in Seq(T), Len(s) <= 1, s # <<>>
  PROVE  Len(s) = 1 /\ s[1] \in T
  OBVIOUS

\* One of the numbers of plaintexts grows.
LEMMA Counted ==
  ASSUME NEW D, NEW B, NEW f \in [D -> [B -> Nat]], NEW x \in D, NEW b \in B,
         NEW g, g = [f EXCEPT ![x][b] = @ + 1]
  PROVE  /\ g \in [D -> [B -> Nat]]
         /\ g[x][b] = f[x][b] + 1 /\ f[x][b] \in Nat
         /\ \A c \in B : c # b => g[x][c] = f[x][c]
         /\ \A y \in D : y # x => g[y] = f[y]
<1>. DEFINE row == [f[x] EXCEPT ![b] = @ + 1]
<1>1. /\ row \in [B -> Nat] /\ row[b] = f[x][b] + 1 /\ f[x][b] \in Nat
      /\ \A c \in B : c # b => row[c] = f[x][c]
  OBVIOUS
<1>. HIDE DEF row
<1>2. g = [f EXCEPT ![x] = row]
  BY DEF row
<1>. QED
  BY <1>1, <1>2

-----------------------------------------------------------------------------
(* The operators on the key list *)

\* The entries of a concatenation, in the form the proofs below use.
LEMMA ConcatEntries ==
  ASSUME NEW a \in Seq(Nat), NEW b \in Seq(Nat)
  PROVE  /\ a \o b \in Seq(Nat)
         /\ Len(a \o b) = Len(a) + Len(b)
         /\ \A j \in 1..Len(a) : (a \o b)[j] = a[j]
         /\ \A j \in 1..Len(b) : (a \o b)[Len(a) + j] = b[j]
  OBVIOUS

\* Eviction from the head keeps the newest entries: the result is the list
\* without its first d entries, where d is 0 or just large enough.
LEMMA NewestIsSuffix ==
  ASSUME NEW s \in Seq(Nat), NEW n \in Nat
  PROVE  LET t == Newest(s, n)
             d == IF Len(s) > n THEN Len(s) - n ELSE 0
         IN /\ t \in Seq(Nat)
            /\ Len(t) = Len(s) - d
            /\ \A i \in 1..Len(t) : t[i] = s[i + d]
  BY DEF Newest

\* The list s without its i-th entry.
LEMMA RemoveAtEffect ==
  ASSUME NEW s \in Seq(Nat), NEW i \in 1..Len(s)
  PROVE  LET t == RemoveAt(s, i)
         IN /\ t \in Seq(Nat)
            /\ Len(t) = Len(s) - 1
            /\ \A j \in 1..(i - 1) : t[j] = s[j]
            /\ \A j \in i..(Len(s) - 1) : t[j] = s[j + 1]
  <1> DEFINE n == Len(s)
             a == SubSeq(s, 1, i - 1)
             b == SubSeq(s, i + 1, Len(s))
  <1>1. n \in Nat /\ i \in Nat /\ i >= 1 /\ i <= n
    OBVIOUS
  <1>2. /\ a \in Seq(Nat) /\ Len(a) = i - 1 /\ \A j \in 1..(i - 1) : a[j] = s[j]
        /\ b \in Seq(Nat) /\ Len(b) = n - i /\ \A j \in 1..(n - i) : b[j] = s[i + j]
    <2>1. a \in Seq(Nat) /\ Len(a) = i - 1
      BY <1>1
    <2>2. \A j \in 1..(i - 1) : a[j] = s[j]
      BY <1>1
    <2>3. b \in Seq(Nat) /\ Len(b) = n - i
      BY <1>1
    <2>4. \A j \in 1..(n - i) : b[j] = s[i + j]
      BY <1>1
    <2>5. QED
      BY <2>1, <2>2, <2>3, <2>4
  <1>3. RemoveAt(s, i) = a \o b
    BY DEF RemoveAt
  <1> HIDE DEF a, b, n
  <1>4. a \o b \in Seq(Nat) /\ Len(a \o b) = Len(a) + Len(b)
    BY <1>2, ConcatEntries, Zenon
  <1>5. Len(a) + Len(b) = n - 1
    BY <1>1, <1>2
  <1>6. ASSUME NEW j \in 1..(i - 1) PROVE (a \o b)[j] = s[j]
    <2>1. j \in 1..Len(a)
      BY <1>1, <1>2
    <2>2. (a \o b)[j] = a[j]
      BY <1>2, <2>1, ConcatEntries, Zenon
    <2>3. QED
      BY <1>2, <2>2
  <1>7. ASSUME NEW j \in i..(n - 1) PROVE (a \o b)[j] = s[j + 1]
    <2> DEFINE k == j - (i - 1)
    <2>1. k \in Int /\ k >= 1 /\ k <= n - i /\ j = Len(a) + k /\ i + k = j + 1
      BY <1>1, <1>2
    <2> HIDE DEF k
    <2>2. k \in 1..Len(b)
      BY <1>1, <1>2, <2>1
    <2>3. (a \o b)[Len(a) + k] = b[k]
      BY <1>2, <2>2, ConcatEntries, Zenon
    <2>4. b[k] = s[i + k]
      BY <1>1, <1>2, <2>1
    <2>5. QED
      BY <2>1, <2>3, <2>4
  <1>8. QED
    BY <1>3, <1>4, <1>5, <1>6, <1>7, Zenon DEF n

\* Removing the key of a counter that is stored, from a list without repetitions:
\* that key goes, every other one stays, in the same order.
LEMMA RemoveMessageKeysEffect ==
  ASSUME NEW s \in Seq(Nat), NEW i \in 1..Len(s), Spread(s)
  PROVE  KeyRemoved(s, i, RemoveMessageKeys(s, s[i]))
  <1> DEFINE I == {j \in 1..Len(s) : s[j] = s[i]}
  <1>1. I = {i}
    <2>1. \A j \in 1..Len(s) : s[j] \in Nat
      OBVIOUS
    <2>2. ASSUME NEW j \in 1..Len(s), s[j] = s[i] PROVE j = i
      BY <2>1, <2>2 DEF Spread
    <2>3. QED
      BY <2>2
  <1>2. Min(I) = i
    BY <1>1 DEF Min
  <1>3. RemoveMessageKeys(s, s[i]) = RemoveAt(s, i)
    BY <1>1, <1>2 DEF RemoveMessageKeys, RemoveFirst, Contains
  <1> DEFINE t == RemoveMessageKeys(s, s[i])
             n == Len(s)
  <1> HIDE DEF I
  <1>4. n \in Nat /\ i \in 1..n /\ \A k \in 1..n : s[k] \in Nat
    OBVIOUS
  <1>5. \A k, l \in 1..n : k < l => s[l] - s[k] >= l - k
    BY DEF Spread
  <1>6. /\ t \in Seq(Nat)
        /\ Len(t) = n - 1
        /\ \A j \in 1..(i - 1) : t[j] = s[j]
        /\ \A j \in i..(n - 1) : t[j] = s[j + 1]
    BY <1>3, RemoveAtEffect, Zenon
  <1> HIDE DEF t, n
  <1>7. Spread(t)
    <2>1. ASSUME NEW k \in 1..(n - 1), NEW l \in 1..(n - 1), k < l
          PROVE  t[l] - t[k] >= l - k
      <3>1. CASE l < i
        BY <1>4, <1>5, <1>6, <2>1, <3>1
      <3>2. CASE k < i /\ ~(l < i)
        <4>1. t[k] = s[k] /\ t[l] = s[l + 1] /\ l + 1 \in 1..n /\ k \in 1..n
          BY <1>4, <1>6, <2>1, <3>2
        <4>2. s[l + 1] - s[k] >= l + 1 - k /\ s[l + 1] \in Nat /\ s[k] \in Nat
          BY <1>4, <1>5, <2>1, <4>1
        <4>3. k \in Int /\ l \in Int
          OBVIOUS
        <4> DEFINE u == s[l + 1]
                   v == s[k]
        <4>4. u - v >= l + 1 - k /\ u \in Nat /\ v \in Nat
          BY <4>2
        <4> HIDE DEF u, v
        <4>5. u - v >= l - k
          BY <4>3, <4>4
        <4>6. QED
          BY <4>1, <4>5 DEF u, v
      <3>3. CASE ~(k < i) /\ ~(l < i)
        <4>1. t[k] = s[k + 1] /\ t[l] = s[l + 1] /\ l + 1 \in 1..n /\ k + 1 \in 1..n
          BY <1>4, <1>6, <2>1, <3>3
        <4>2. s[l + 1] - s[k + 1] >= (l + 1) - (k + 1)
          BY <1>4, <1>5, <2>1, <4>1
        <4>3. QED
          BY <1>4, <4>1, <4>2
      <3>4. QED
        BY <1>4, <2>1, <3>1, <3>2, <3>3
    <2>2. QED
      BY <1>6, <2>1 DEF Spread
  <1>8. ASSUME NEW j \in 1..(n - 1)
        PROVE  t[j] # s[i] /\ \E k \in 1..n : t[j] = s[k]
    <2>1. CASE j < i
      <3>1. t[j] = s[j] /\ j \in 1..n
        BY <1>4, <1>6, <2>1
      <3>2. s[i] - s[j] >= i - j
        BY <1>4, <1>5, <2>1, <3>1
      <3>3. QED
        BY <1>4, <2>1, <3>1, <3>2
    <2>2. CASE ~(j < i)
      <3>1. t[j] = s[j + 1] /\ j + 1 \in 1..n /\ s[j + 1] - s[i] >= j + 1 - i
        BY <1>4, <1>5, <1>6, <2>2
      <3>2. QED
        BY <1>4, <2>2, <3>1
    <2>3. QED
      BY <2>1, <2>2
  <1>9. ASSUME NEW k \in 1..n, k # i
        PROVE  \E j \in 1..(n - 1) : t[j] = s[k]
    <2>1. CASE k < i
      <3>1. k \in 1..(n - 1) /\ t[k] = s[k]
        BY <1>4, <1>6, <2>1
      <3>2. QED
        BY <3>1
    <2>2. CASE k > i
      <3>1. k - 1 \in 1..(n - 1) /\ t[k - 1] = s[k]
        BY <1>4, <1>6, <2>2
      <3>2. QED
        BY <3>1
    <2>3. QED
      BY <1>4, <1>9, <2>1, <2>2
  <1>10. QED
    BY <1>6, <1>7, <1>8, <1>9 DEF t, n, KeyRemoved

\* The list before eviction, when the keys of from..(to - 1) are appended to a
\* list of earlier ones.
LEMMA Appended ==
  ASSUME NEW s \in Seq(Nat), Spread(s),
         NEW from \in Nat, NEW to \in Nat, from <= to,
         \A i \in 1..Len(s) : s[i] < from
  PROVE  KeysAppended(s, from, to, s \o [i \in 1..(to - from) |-> from + i - 1])
  <1> DEFINE n == Len(s)
             m == to - from
             r == [i \in 1..m |-> from + i - 1]
             f == s \o r
  <1>1. n \in Nat /\ m \in Nat /\ m + from = to
    OBVIOUS
  <1>2. \A i \in 1..n : s[i] \in Nat /\ s[i] < from
    OBVIOUS
  <1>3. \A i, j \in 1..n : i < j => s[j] - s[i] >= j - i
    BY DEF Spread
  <1>4. r \in Seq(Nat) /\ Len(r) = m /\ \A i \in 1..m : r[i] = from + i - 1
    OBVIOUS
  <1> HIDE DEF n, m, r
  <1>5. /\ f \in Seq(Nat)
        /\ Len(f) = Len(s) + Len(r)
        /\ \A i \in 1..Len(s) : f[i] = s[i]
        /\ \A i \in 1..Len(r) : f[Len(s) + i] = r[i]
    BY <1>4, ConcatEntries, Zenon
  <1> HIDE DEF f
  <1>6. /\ Len(f) = n + m
        /\ \A i \in 1..n : f[i] = s[i]
        /\ \A i \in 1..m : f[n + i] = from + i - 1
    BY <1>4, <1>5 DEF n
  <1>7. ASSUME NEW i \in 1..(n + m), i > n
        PROVE  f[i] = from + (i - n) - 1
    <2>1. i - n \in 1..m /\ n + (i - n) = i
      BY <1>1, <1>7
    <2>2. f[n + (i - n)] = from + (i - n) - 1
      BY <1>6, <2>1
    <2>3. QED
      BY <2>1, <2>2
  <1>8. ASSUME NEW i \in 1..(n + m) PROVE f[i] < to
    <2>1. CASE i <= n
      BY <1>1, <1>2, <1>6, <2>1
    <2>2. CASE i > n
      BY <1>1, <1>7, <2>2
    <2>3. QED
      BY <1>1, <2>1, <2>2
  <1>9. ASSUME NEW i \in 1..(n + m), NEW j \in 1..(n + m), i < j
        PROVE  f[j] - f[i] >= j - i
    <2>1. CASE j <= n
      BY <1>1, <1>3, <1>6, <1>9, <2>1
    <2>2. CASE i <= n /\ j > n
      <3>1. f[j] = from + (j - n) - 1 /\ f[i] = s[i] /\ i \in 1..n
        BY <1>1, <1>6, <1>7, <2>2
      <3>2. from - s[i] >= n - i + 1
        <4>1. CASE i = n
          BY <1>1, <1>2, <3>1, <4>1
        <4>2. CASE i < n
          <5>1. n \in 1..n /\ s[n] - s[i] >= n - i
            BY <1>1, <1>3, <3>1, <4>2
          <5>2. s[n] < from /\ s[n] \in Nat /\ s[i] \in Nat
            BY <1>2, <3>1, <5>1
          <5>3. i \in Nat /\ from \in Nat /\ n \in Nat
            BY <1>1
          <5> DEFINE u == s[n]
                     v == s[i]
          <5>4. u - v >= n - i /\ u < from /\ u \in Nat /\ v \in Nat
            BY <5>1, <5>2
          <5> HIDE DEF u, v
          <5>5. from - v >= n - i + 1
            BY <5>3, <5>4
          <5>6. QED
            BY <5>5 DEF v
        <4>3. QED
          BY <1>1, <3>1, <4>1, <4>2
      <3>3. QED
        BY <1>1, <1>2, <3>1, <3>2
    <2>3. CASE i > n
      <3>1. f[i] = from + (i - n) - 1 /\ f[j] = from + (j - n) - 1
        BY <1>1, <1>7, <1>9, <2>3
      <3>2. QED
        BY <1>1, <3>1
    <2>4. QED
      BY <1>1, <1>9, <2>1, <2>2, <2>3
  <1>10. Spread(f)
    BY <1>6, <1>9 DEF Spread
  <1>11. KeysAppended(s, from, to, f)
    BY <1>5, <1>6, <1>8, <1>10, Zenon DEF KeysAppended, n, m
  <1>12. QED
    BY <1>11 DEF f, r, m

\* Storing the keys of from..(to - 1): the list stays within MAX_MESSAGE_KEYS and
\* in order, holds nothing else than before and the new keys, and has lost only
\* keys that are at least MAX_MESSAGE_KEYS counters behind the newest one.
LEMMA SetMessageKeysEffect ==
  ASSUME NEW s \in Seq(Nat), Spread(s),
         NEW from \in Nat, NEW to \in Nat, from <= to,
         \A i \in 1..Len(s) : s[i] < from
  PROVE  KeysStored(s, from, to, SetMessageKeys(s, from, to))
  <1> DEFINE n == Len(s)
             m == to - from
             f == s \o [i \in 1..(to - from) |-> from + i - 1]
  <1>1. /\ f \in Seq(Nat)
        /\ Len(f) = n + m
        /\ Spread(f)
        /\ \A i \in 1..Len(f) : f[i] < to
        /\ \A i \in 1..n : f[i] = s[i]
        /\ \A i \in 1..m : f[n + i] = from + i - 1
    <2>1. KeysAppended(s, from, to, f)
      BY Appended, Zenon
    <2>2. QED
      BY <2>1 DEF KeysAppended
  <1> DEFINE t == Newest(f, MAX_MESSAGE_KEYS)
             p == Len(f)
             d == IF p > MAX_MESSAGE_KEYS THEN p - MAX_MESSAGE_KEYS ELSE 0
             q == p - d
  <1>2. SetMessageKeys(s, from, to) = t
    BY DEF SetMessageKeys
  <1> HIDE DEF f
  <1>3. /\ t \in Seq(Nat)
        /\ Len(t) = Len(f) - d
        /\ \A i \in 1..Len(t) : t[i] = f[i + d]
    BY <1>1, NewestIsSuffix, MessageKeysAssumption, Zenon
  <1> HIDE DEF t
  <1>4. n \in Nat /\ m \in Nat /\ m + from = to /\ p \in Nat /\ p = n + m
    BY <1>1
  <1>5. \A i \in 1..p : f[i] \in Nat /\ f[i] < to
    BY <1>1
  <1>6. \A i, j \in 1..p : i < j => f[j] - f[i] >= j - i
    BY <1>1 DEF Spread
  <1>7. Len(t) = q /\ \A i \in 1..q : t[i] = f[i + d]
    BY <1>3
  <1> HIDE DEF n, m, p
  <1>8. d \in Nat /\ d <= p /\ q \in Nat /\ q <= MAX_MESSAGE_KEYS /\ q + d = p
    BY <1>4, MessageKeysAssumption
  <1>9. d > 0 => q = MAX_MESSAGE_KEYS
    BY <1>4, MessageKeysAssumption
  <1> HIDE DEF d, q
  <1>10. \A i \in 1..q : i + d \in 1..p
    BY <1>4, <1>8
  <1>11. Spread(t)
    <2>1. ASSUME NEW i \in 1..q, NEW j \in 1..q, i < j
          PROVE  t[j] - t[i] >= j - i
      <3>1. f[j + d] - f[i + d] >= (j + d) - (i + d)
        BY <1>6, <1>8, <1>10, <2>1
      <3>2. QED
        BY <1>7, <1>8, <3>1
    <2>2. QED
      BY <1>7, <2>1 DEF Spread
  <1>12. ASSUME NEW i \in 1..q
         PROVE  t[i] < to
    BY <1>5, <1>7, <1>10
  <1>13. ASSUME NEW i \in 1..p
         PROVE  (\E j \in 1..q : t[j] = f[i]) \/ to - f[i] > MAX_MESSAGE_KEYS
    <2>1. CASE i > d
      <3>1. i - d \in 1..q /\ (i - d) + d = i
        BY <1>8, <2>1
      <3>2. t[i - d] = f[i]
        BY <1>7, <3>1
      <3>3. QED
        BY <3>1, <3>2
    <2>2. CASE i <= d
      <3>1. q = MAX_MESSAGE_KEYS /\ p - i >= q
        BY <1>8, <1>9, <2>2
      <3>2. to - f[i] > p - i
        <4>1. CASE i = p
          BY <1>5, <4>1
        <4>2. CASE i < p
          <5>1. p \in 1..p /\ f[p] - f[i] >= p - i
            BY <1>4, <1>6, <4>2
          <5>2. QED
            BY <1>4, <1>5, <5>1
        <4>3. QED
          BY <1>4, <4>1, <4>2
      <3>3. QED
        BY <1>4, <1>5, <1>8, <3>1, <3>2
    <2>3. QED
      BY <1>8, <2>1, <2>2
  <1>14. ASSUME NEW i \in 1..p
         PROVE  f[i] >= from \/ \E k \in 1..n : f[i] = s[k]
    <2>1. CASE i <= n
      <3>1. i \in 1..n /\ f[i] = s[i]
        BY <1>1, <1>4, <2>1
      <3>2. QED
        BY <3>1
    <2>2. CASE i > n
      <3>1. i - n \in 1..m /\ n + (i - n) = i
        BY <1>4, <2>2
      <3>2. f[i] = from + (i - n) - 1
        BY <1>1, <3>1
      <3>3. QED
        BY <1>4, <2>2, <3>2
    <2>3. QED
      BY <1>4, <2>1, <2>2
  <1>15. ASSUME NEW i \in 1..q
         PROVE  t[i] >= from \/ \E k \in 1..n : t[i] = s[k]
    BY <1>7, <1>10, <1>14
  <1>16. ASSUME NEW k \in 1..n
         PROVE  (\E i \in 1..q : t[i] = s[k]) \/ to - s[k] > MAX_MESSAGE_KEYS
    <2>1. k \in 1..p /\ f[k] = s[k]
      BY <1>1, <1>4
    <2>2. QED
      BY <1>13, <2>1
  <1>17. ASSUME NEW c \in from..(to - 1)
         PROVE  (\E i \in 1..q : t[i] = c) \/ to - c > MAX_MESSAGE_KEYS
    <2> DEFINE k == c - from + 1
    <2>1. k \in 1..m /\ n + k \in 1..p /\ from + k - 1 = c
      BY <1>4
    <2> HIDE DEF k
    <2>2. f[n + k] = c
      BY <1>1, <2>1, Zenon
    <2>3. QED
      BY <1>13, <2>1, <2>2
  <1>18. QED
    BY <1>2, <1>3, <1>7, <1>8, <1>11, <1>12, <1>15, <1>16, <1>17, Zenon
    DEF n, KeysStored

-----------------------------------------------------------------------------
(* A chain *)

\* What holds of a chain between calls: the stored keys are in order, within the
\* limit, and of messages that the chain key has passed.
ChainOK(chain) ==
  /\ chain.index \in Nat
  /\ chain.keys \in Seq(Nat)
  /\ Len(chain.keys) <= MAX_MESSAGE_KEYS
  /\ Spread(chain.keys)
  /\ \A i \in 1..Len(chain.keys) : chain.keys[i] < chain.index

\* after is chain once the key of message c has been taken.
KeyTaken(chain, c, after) ==
  /\ ChainOK(after)
  /\ c < chain.index => Contains(chain.keys, c)
  /\ c < after.index /\ chain.index <= after.index
  /\ after.index <= chain.index \/ after.index = c + 1
  /\ ~Contains(after.keys, c)
  /\ \A e \in Nat : Contains(after.keys, e) => Contains(chain.keys, e) \/ e >= chain.index
  /\ \A e \in 0..(after.index - 1) :
       \/ e = c
       \/ Contains(after.keys, e)
       \/ e < chain.index /\ ~Contains(chain.keys, e)
       \/ after.index - e > MAX_MESSAGE_KEYS + 1

\* The four cases of session_cipher_get_or_create_message_keys.
LEMMA GetOrCreateCases ==
  ASSUME NEW chain, chain.index \in Nat, NEW c \in Nat
  PROVE  LET r == GetOrCreateMessageKeys(chain, c)
         IN /\ chain.index > c /\ Contains(chain.keys, c) =>
                 /\ r.err = "SUCCESS" /\ r.index = chain.index
                 /\ r.keys = RemoveMessageKeys(chain.keys, c)
            /\ chain.index > c /\ ~Contains(chain.keys, c) => r.err = "DUPLICATE_MESSAGE"
            /\ chain.index <= c /\ c - chain.index > MAX_FUTURE => r.err = "INVALID_MESSAGE"
            /\ chain.index <= c /\ ~(c - chain.index > MAX_FUTURE) =>
                 /\ r.err = "SUCCESS" /\ r.index = c + 1
                 /\ r.keys = SetMessageKeys(chain.keys, chain.index, c)
  <1> DEFINE has == Contains(chain.keys, c)
  <1>1. CASE chain.index > c /\ has
    BY <1>1 DEF GetOrCreateMessageKeys
  <1>2. CASE chain.index > c /\ ~has
    BY <1>2 DEF GetOrCreateMessageKeys
  <1>3. CASE chain.index <= c /\ c - chain.index > MAX_FUTURE
    BY <1>3 DEF GetOrCreateMessageKeys
  <1>4. CASE chain.index <= c /\ ~(c - chain.index > MAX_FUTURE)
    BY <1>4 DEF GetOrCreateMessageKeys
  <1>5. QED
    BY <1>1, <1>2, <1>3, <1>4

\* A stored key that is taken out
LEMMA StoredKeyTaken ==
  ASSUME NEW chain, ChainOK(chain), NEW c \in Nat, c < chain.index, Contains(chain.keys, c),
         NEW after, after.index = chain.index, after.keys = RemoveMessageKeys(chain.keys, c)
  PROVE  KeyTaken(chain, c, after)
  <1>1. PICK i \in 1..Len(chain.keys) : chain.keys[i] = c
    BY DEF Contains
  <1>2. KeyRemoved(chain.keys, i, after.keys)
    BY <1>1, RemoveMessageKeysEffect DEF ChainOK
  <1>3. ChainOK(after)
    <2>1. after.index \in Nat /\ after.keys \in Seq(Nat) /\ Spread(after.keys)
      BY <1>2 DEF ChainOK, KeyRemoved
    <2>2. Len(after.keys) <= MAX_MESSAGE_KEYS
      BY <1>2, MessageKeysAssumption DEF ChainOK, KeyRemoved
    <2>3. \A j \in 1..Len(after.keys) : after.keys[j] < after.index
      BY <1>2 DEF ChainOK, KeyRemoved
    <2>4. QED
      BY <2>1, <2>2, <2>3 DEF ChainOK
  <1>4. ~Contains(after.keys, c)
    BY <1>1, <1>2 DEF Contains, KeyRemoved
  <1>5. ASSUME NEW e, Contains(after.keys, e) PROVE Contains(chain.keys, e)
    <2>1. PICK j \in 1..Len(after.keys) : after.keys[j] = e
      BY <1>5 DEF Contains
    <2>2. \E k \in 1..Len(chain.keys) : after.keys[j] = chain.keys[k]
      BY <1>2 DEF KeyRemoved
    <2>3. QED
      BY <2>1, <2>2 DEF Contains
  <1>6. ASSUME NEW e, Contains(chain.keys, e), e # c PROVE Contains(after.keys, e)
    <2>1. PICK k \in 1..Len(chain.keys) : chain.keys[k] = e
      BY <1>6 DEF Contains
    <2>2. k # i
      BY <1>1, <1>6, <2>1
    <2>3. \E j \in 1..Len(after.keys) : after.keys[j] = chain.keys[k]
      BY <1>2, <2>2 DEF KeyRemoved
    <2>4. QED
      BY <2>1, <2>3 DEF Contains
  <1>7. chain.index \in Nat
    BY DEF ChainOK
  <1>8. \A e \in Nat : Contains(after.keys, e) => Contains(chain.keys, e) \/ e >= chain.index
    BY <1>5
  <1>9. ASSUME NEW e \in 0..(after.index - 1)
        PROVE  \/ e = c \/ Contains(after.keys, e)
               \/ e < chain.index /\ ~Contains(chain.keys, e)
    BY <1>6, <1>7
  <1>10. c < after.index /\ chain.index <= after.index /\ after.index <= chain.index
    BY <1>7
  <1>11. QED
    BY <1>3, <1>4, <1>8, <1>9, <1>10, Zenon DEF KeyTaken

\* The chain runs forward to the message.
LEMMA ChainAdvanced ==
  ASSUME NEW chain, ChainOK(chain), NEW c \in Nat, chain.index <= c,
         NEW after, after.index = c + 1, after.keys = SetMessageKeys(chain.keys, chain.index, c)
  PROVE  KeyTaken(chain, c, after)
  <1>1. KeysStored(chain.keys, chain.index, c, after.keys)
    BY SetMessageKeysEffect DEF ChainOK
  <1>2. after.keys \in Seq(Nat) /\ \A i \in 1..Len(after.keys) : after.keys[i] < c
    BY <1>1 DEF KeysStored
  <1>3. ChainOK(after)
    <2>1. after.index \in Nat /\ Len(after.keys) <= MAX_MESSAGE_KEYS /\ Spread(after.keys)
      BY <1>1 DEF KeysStored
    <2>2. \A i \in 1..Len(after.keys) : after.keys[i] < after.index
      BY <1>2
    <2>3. QED
      BY <1>2, <2>1, <2>2 DEF ChainOK
  <1>4. ~Contains(after.keys, c)
    BY <1>2 DEF Contains
  <1>5. ASSUME NEW e \in Nat, Contains(after.keys, e)
        PROVE  Contains(chain.keys, e) \/ e >= chain.index
    <2>1. PICK i \in 1..Len(after.keys) : after.keys[i] = e
      BY <1>5 DEF Contains
    <2>2. e >= chain.index \/ \E k \in 1..Len(chain.keys) : chain.keys[k] = e
      BY <1>1, <2>1, Zenon DEF KeysStored
    <2>3. QED
      BY <2>2, Zenon DEF Contains
  <1>6. ASSUME NEW e \in 0..c
        PROVE  \/ e = c
               \/ Contains(after.keys, e)
               \/ e < chain.index /\ ~Contains(chain.keys, e)
               \/ c + 1 - e > MAX_MESSAGE_KEYS + 1
    <2>1. CASE e \in chain.index..(c - 1)
      <3>1. (\E i \in 1..Len(after.keys) : after.keys[i] = e) \/ c - e > MAX_MESSAGE_KEYS
        BY <1>1, <2>1 DEF KeysStored
      <3>2. QED
        BY <3>1, MessageKeysAssumption DEF Contains
    <2>2. CASE Contains(chain.keys, e)
      <3>1. (\E i \in 1..Len(after.keys) : after.keys[i] = e) \/ c - e > MAX_MESSAGE_KEYS
        BY <1>1, <2>2 DEF KeysStored, Contains
      <3>2. QED
        BY <3>1, MessageKeysAssumption DEF Contains
    <2>3. CASE e < chain.index /\ ~Contains(chain.keys, e)
      BY <2>3
    <2>4. QED
      BY <2>1, <2>2, <2>3 DEF ChainOK
  <1>7. ~(c < chain.index) /\ c < after.index /\ chain.index <= after.index
    BY DEF ChainOK
  <1>8. ASSUME NEW e \in 0..(after.index - 1)
        PROVE  \/ e = c
               \/ Contains(after.keys, e)
               \/ e < chain.index /\ ~Contains(chain.keys, e)
               \/ after.index - e > MAX_MESSAGE_KEYS + 1
    <2>1. e \in 0..c /\ after.index - e = c + 1 - e
      OBVIOUS
    <2>2. QED
      BY <1>6, <2>1, Zenon
  <1>9. QED
    BY <1>3, <1>4, <1>5, <1>7, <1>8, Zenon DEF KeyTaken

\* session_cipher_get_or_create_message_keys hands out the key of a message that is
\* stored or ahead, and leaves the chain in order.
LEMMA GetOrCreateEffect ==
  ASSUME NEW chain, ChainOK(chain), NEW c \in Nat,
         GetOrCreateMessageKeys(chain, c).err = "SUCCESS"
  PROVE  KeyTaken(chain, c, GetOrCreateMessageKeys(chain, c))
  <1> DEFINE r == GetOrCreateMessageKeys(chain, c)
  <1>1. chain.index \in Nat
    BY DEF ChainOK
  <1>2. /\ chain.index > c /\ Contains(chain.keys, c) =>
             /\ r.err = "SUCCESS" /\ r.index = chain.index
             /\ r.keys = RemoveMessageKeys(chain.keys, c)
        /\ chain.index > c /\ ~Contains(chain.keys, c) => r.err = "DUPLICATE_MESSAGE"
        /\ chain.index <= c /\ c - chain.index > MAX_FUTURE => r.err = "INVALID_MESSAGE"
        /\ chain.index <= c /\ ~(c - chain.index > MAX_FUTURE) =>
             /\ r.err = "SUCCESS" /\ r.index = c + 1
             /\ r.keys = SetMessageKeys(chain.keys, chain.index, c)
    BY <1>1, GetOrCreateCases
  <1> HIDE DEF r
  <1>3. r.err = "SUCCESS"
    BY DEF r
  <1>4. CASE chain.index > c
    <2>1. Contains(chain.keys, c) /\ r.index = chain.index /\ r.keys = RemoveMessageKeys(chain.keys, c)
      BY <1>2, <1>3, <1>4
    <2>2. QED
      BY <1>1, <1>4, <2>1, StoredKeyTaken DEF r
  <1>5. CASE chain.index <= c
    <2>1. r.index = c + 1 /\ r.keys = SetMessageKeys(chain.keys, chain.index, c)
      BY <1>2, <1>3, <1>5
    <2>2. QED
      BY <1>1, <1>5, <2>1, ChainAdvanced DEF r
  <1>6. QED
    BY <1>1, <1>4, <1>5
=============================================================================
