# A TLA+ model of libsignal-protocol-c

TLA+ specifications of the library in `SignalProtocolC/src`: the double ratchet between
two parties, the ways a session is built, group messaging with sender keys, the life of
pre keys, the calls of several threads and callbacks under the global lock, and the byte
formats. TLC checks them on small instances; TLAPS proves the invariants of four of them,
the receiver chain, the calls, the group and the pre keys, for every value of their
constants.

Paths below are relative to `src/SignalProtocolC/src/`.

## 1. The system

### Parts

| Part | Source | State | Operations that change it |
|---|---|---|---|
| session cipher | `session_cipher.c` | a session record, loaded and stored per call | encrypt, decrypt signal message, decrypt pre key message |
| session builder, pre keys | `session_builder.c`, `session_pre_key.c` | session record, identity and pre key stores | process bundle, process pre key message |
| session builder, key exchange | `session_builder.c` | session record with a pending key exchange | process, process initiate, process response |
| session record | `session_record.c` | current state, at most 40 archived states, fresh flag | promote, archive, has-session test, serialize |
| session state | `session_state.c` | root key, sender chain, at most 5 receiver chains, at most 2000 message keys per chain, pending pre key, pending key exchange | setters, eviction, serialize |
| ratchet | `ratchet.c` | none | root and chain key derivation; Alice, Bob and symmetric initialisation |
| sender keys | `sender_key.c`, `sender_key_state.c`, `sender_key_record.c` | at most 5 states, each with a chain, at most 2000 message keys and a signing key | add, set, skip, remove, serialize |
| group cipher and builder | `group_cipher.c`, `group_session_builder.c` | a sender key record per group and sender | create session, process session, encrypt, decrypt |
| wire messages | `protocol.c` | none | create, serialize, deserialize, MAC, signature |
| stored keys | `session_pre_key.c`, `ratchet.c` | none | serialize, deserialize |
| protocol buffers | `protobuf-c/protobuf-c.c`, `*.pb-c.c` | none | sizes, pack, unpack, merge |
| store context, lock | `signal_protocol.c` | callbacks into the application's stores, a recursive lock | load, store, remove, lock, unlock |
| key helper | `key_helper.c` | none | ids, registration ids, pre keys |
| pre key stores | `signal_protocol.c`, the application | pre keys and signed pre keys by id | store, load, remove |
| fingerprints | `fingerprint.c` | none | display and scannable fingerprints |
| curve, HKDF | `curve.c`, `hkdf.c`, `curve25519/` | none | agreements, signatures, derivation |

### How they interact

A call of the session cipher takes the global lock, loads the record from the
application's store (deserializing it), works on it, possibly calls the application
(decryption callback), stores the record, possibly removes a one-time pre key, and
returns. The session builder is called by the cipher for pre key messages and by the
application for bundles and key exchange messages. A record that is not stored leaves
no trace. The group cipher has the same shape over sender key records.

### What makes it hard

Messages are lost, repeated and reordered by design, so a receiver keeps old keys, old
chains and old states, each up to a limit. Both parties may open sessions at the same
moment. Every store and the callback may fail, and a process may stop between two
stores. Archived states become current again when an old message arrives, with
everything they still carry. The ids of pre keys are used again. Threads share one
recursive lock, and a decryption callback may call the library again while the outer
call holds a record it has not stored. The list of hazards is in `PROJECT.json`.

### Properties that matter

1. No plaintext is returned twice while its session is stored; a repeated message is
   reported as such.
2. No message key encrypts two messages.
3. No message becomes undecryptable before the application has its plaintext.
4. Every message is read in the end, if it keeps being offered.
5. The limits on keys, chains, states are kept, and only the oldest entries go.
6. An identity that was saved is not replaced behind the user's back.
7. Both sides of a session derive the same keys, whoever started.
8. Concurrent and nested calls exclude each other and return; if callbacks leave the
   address of their call alone, they take effect one after the other.
9. A one-time pre key is found until it is used and never used again; the last resort key
   stays.
10. What is written as bytes is read back; what was changed on the way is noticed.

## 2. Modules

    Structures       MessageKeys                        DeliverOnce
      |    \        /     |     \                            |
      |    SessionState   |      ReceiverChain (implements DeliverOnce)
      |       |      SenderKeyRecord     |
      |  SessionRecord     |         ReceiverChainProofs
      |       |       GroupSession
      |  SessionCipher     |
      |       |       GroupSessionProofs, ...Theorems
      |  SessionBuilder
      |       |                      AtomicCalls
      |  PairwiseSession                 |
      |       |                      CipherCalls (implements AtomicCalls)
      |   KeyExchange                    |
      |                              CipherCallsSteps, ...Proofs, ...Theorems
    Protobuf   ProtobufSchema
      |          |                   PreKeys
    Curve -- Wire -- KeyRecords          |
      |                 |            PreKeysProofs
     Hkdf          Fingerprint
        \           /
          Formats

| Module | Models |
|---|---|
| `MessageKeys` | the message keys of one chain: skip, evict, take out (`session_cipher_get_or_create_message_keys` and the list functions of `session_state.c`) |
| `DeliverOnce` | the abstract channel: what was sent is delivered at most once |
| `ReceiverChain` | one sending chain and its receiver chain as a state machine |
| `Structures` | optional fields of protocol buffer structures |
| `SessionState` | a session state, symbolic key derivation, initialisation, serialization |
| `SessionRecord` | current and archived states, promotion, serialization |
| `SessionCipher` | what encryption and decryption compute between load and store |
| `SessionBuilder` | what the builder computes from bundles and pre key messages |
| `PairwiseSession` | two parties, their stores, the pre key server and the network |
| `KeyExchange` | key exchange messages on top of `PairwiseSession` |
| `SenderKeyRecord` | sender key states, their list and serialization |
| `GroupSession` | one sender of a group, its receivers and the network |
| `AtomicCalls` | the abstract library: each call changes a stored record in one step |
| `CipherCalls` | the calls step by step: lock, `inside_callback`, load, callback, store, unlock |
| `PreKeys` | the pre keys of one installation: `key_helper.c`, the stores, the first messages |
| `Protobuf`, `ProtobufSchema` | the codec of `protobuf-c.c` and the descriptors of the generated code |
| `Curve` | points and keys as bytes (`curve.c`); a small hash in place of SHA-256 |
| `Wire` | the five messages of `protocol.c` as bytes |
| `KeyRecords` | pre keys, signed pre keys and identity key pairs as bytes |
| `Fingerprint`, `Hkdf` | `fingerprint.c`, `hkdf.c` |
| `Formats` | one value is encoded, changed on its way, and read |
| `...Proofs`, `...Steps`, `...Theorems` | the theorems about the module they are named after |
| `MC...` | the instances TLC checks |

### Abstractions

- **Cryptography is symbolic.** In the protocol modules a key pair is one value; an
  agreement is the set of the two keys; a root or chain key is the sequence of secrets it
  was derived from; a message key is the chain and the counter; a MAC is the message key
  and the two identities; a signature is the key that made it. Decryption succeeds exactly
  when both sides derive the same values, so a wrong order of agreements or a wrong root
  shows up as a message that cannot be read. Only genuine messages are on the network.
- **A call is one step** in `PairwiseSession`, `KeyExchange`, `GroupSession` and
  `PreKeys`. `CipherCalls` justifies this: it takes the calls apart and shows that
  they take effect one after the other (`AtomicSpec`), if callbacks leave the address of
  their call alone. What a failing call leaves behind
  is one of the step's outcomes: `"callback"`, `"store"`, `"identity"` and `"remove"` name
  the part that fails, and a crash at that point leaves the same state. A call that
  changes nothing is not a step.
- **Records are stored serialized.** A load rebuilds every part from the fields that were
  written, so a field that is forgotten on either side is lost in the model too.
- **The network is the set of all messages ever sent.** Loss is never receiving, a
  duplicate is receiving again, and order is free.
- **Bytes are short.** The formats are modelled byte by byte with the widths as
  parameters: a byte carries 5 bits of a number instead of 7 and a word takes at most 3
  bytes instead of 5, so that every length of an encoding occurs for small numbers. Keys
  are one byte. The hash is a polynomial modulo a prime; `Formats` relies on it having no
  collisions among the values of the run.
- **Left out:** `needs_refresh`, padding, logging, allocation failures.

State and code. `sessions[p]` is the stored record of `p` for the other party,
`preKeys[p]` the pre key store, `saved[p]` the identity store, `published[p]` the one-time
pre keys at the server. `returned[p]` and `kept[p]` are history: the plaintexts the calls
returned and those the callback was given. In `GroupSession`, `own` and `records` are the
stored sender key records, `joined` the distribution messages processed. In `KeyExchange`
the pending exchange lives in the session state, as in the code; `built` is history. In
`CipherCalls`, `pc`, `info` and `local` are the program counters, arguments and loaded
records of the calls, `owner` and `depth` the recursive lock, `inside` the flags of the
cipher objects; a record is reduced to the session, the next index and the messages read.
In `PreKeys`, `preKeys` and `signedPreKeys` are the stores of the installation, `server`
and `signed` what it has published, `spent` the history of removed keys, and `sessions`
the base keys by which `session_record_has_session_state` recognises a message.

`GroupSession` uses `GetOrCreateMessageKeys` for `group_cipher_get_sender_key`: the two
functions have the same conditions in the same order, the lists they work on evict the
same way, and both limits are 2000.

**What the application has to keep to** (`CallbacksApart` in `CipherCalls`). The flag
`inside_callback` makes a cipher object refuse calls from its own callback. Another
cipher object for the same address, or a builder, does not know of it: what it stored
is overwritten when the outer call stores the record it loaded before. No comment in the
headers says so, and the code enforces nothing. The constant `CallbacksApart` says whether
the application sees to it that its callbacks call only the object they belong to, other
addresses, and queries (`Permitted`). Types, mutual exclusion and the exactness of the
flag are proved for either value. That calls are atomic, and what follows from it, is
checked and proved for `CallbacksApart = TRUE`; it does not hold otherwise: with `FALSE` in
`CipherCalls.cfg`, TLC has a callback decrypt the message of its own call through the
other object of the address. Both calls succeed, and the outer one stores its record over
that of the inner one.

Two kinds of calls can fail after they have stored their record: the decryption of a pre
key message, when the one-time pre key cannot be removed, and the building of a session,
when the identity cannot be saved (`AfterStore`). They return an error although they took
effect; `AtomicCalls` allows this for them and for no other call.

## 3. Runs

All runs use `CHECK_DEADLOCK FALSE`: the counters are bounded and the parties may stop.
That no call hangs is a property of its own (`CallsReturn`).

| Run | Bounds | Checks |
|---|---|---|
| `receiver_chain` | 6 messages, 2 stored keys, 3 ahead | limits, at most once, skipped keys kept, the closed form of the skip loop, refinement of `DeliverOnce` |
| `pairwise_ratchet` | 1 bundle and 3 messages per party | nothing is lost, repeated messages are reported as duplicates |
| `pairwise_faults` | 2 bundles and 2 messages per party, failing callbacks, session and identity stores and removals, last resort key | at most once, no key reuse, nothing lost |
| `pairwise_limits` | 2 bundles, 2 messages, 1 reinstall per party; 1 one-time pre key, 1 receiver chain, 1 archived state | limits, at most once unless the session was evicted and can be built again, no key reuse, identity pinned |
| `pairwise_liveness` | 1 bundle, 2 messages per party, all failures | every message is read |
| `group_limits` | 3 sender keys with 2 ids and room for 2 states, 1 stored key, 2 ahead, 3 messages, all failures, each distribution processed once | limits, at most once, no key reuse, nothing lost within the limits, duplicates reported |
| `group_redistribution` | 1 key processed twice | *violation*: see findings |
| `key_exchange` | 3 base keys, 2 exchanges and 1 message per party, 2 sequence numbers, each message processed up to twice, failing identity stores | both sides agree, a response completes the exchange it answers |
| `key_exchange_revived` | 1 bundle, 1 exchange, 2 messages per party | *violation*: see findings |
| `formats` | all structures and messages with two keys, numbers at the boundaries of their encodings; one change, or two encodings joined | round trips, authentication, merging, canonical sizes, fingerprints, HKDF |
| `cipher_calls` | 2 threads, 3 calls, 3 cipher objects, 2 of them for one address; callbacks leave their address alone | mutual exclusion, the flag is exact, no key reuse, read once, refinement of `AtomicCalls`, every call returns |
| `pre_keys` | 5 ids for one-time keys, 7 keys in batches of up to 2 from start 0, 2 senders, 2 first messages, 2 signed keys | types of ids, keys available, last resort key kept, no key used again |

Why the bounds are enough. Three messages each way give a full turn of the ratchet with
messages left over to be late. Two bundles per party give simultaneous sessions and a
replaced one. The limits are parameters: runs that are about loss use the code's values,
which the runs never reach; runs that are about eviction set them to 1 or 2, where it
happens all the time (message keys in `receiver_chain` and `group_limits`, receiver chains
and archived states in `pairwise_limits`, sender key states in `group_limits`). In
`pairwise_limits` the second bundle of a party has no one-time pre key, so that messages
whose session can be built again and messages whose session cannot are both received after
their session was evicted. With one stored key and three messages, `group_limits` has a
message that was overtaken by one other and must still be readable, and one that was
overtaken by two and has lost its key. One receiver is enough for groups: receivers share
nothing but the messages. In `group_limits` a receiver processes the distribution messages of one sender
key once (`MaxAgain = 0`); `group_redistribution` shows what happens otherwise. Three
base keys are two exchanges of one party and the answer to one of them, or one exchange of
each and another. Three calls are an outer call, one from its callback, and one of the
other thread. Seven keys on five ids go round, past both the shorter and the longer
circle; two first messages are one that is repeated and one with a key of the same id. An
unsigned int has 8 values in `pre_keys` and a record keeps no archived state, so that both
limits are met. The counter of HKDF has 8 values in `formats`, and the lengths go up to
those that take 7 blocks, the most RFC 5869 allows.

`key_exchange` is restricted to first sessions (`MaxBundles = 0`). `NoKeyReuse` is not
checked there: with a session already there, or with an exchange message processed again,
it does not hold of the code. `key_exchange_revived` shows the first case.

`SYMMETRY` exchanges the two parties, or the ids of sender keys. No definition
distinguishes them (`Peer` is the other party, base keys are ordered by their random
value), and the liveness runs do not use it.

**Fairness.** `pairwise_liveness` assumes `Redelivery`: the transport offers a message
until the call that decrypts it succeeds, and that call is not forever hit by a failing
store or callback. The library has no retry of its own; offering a message again after an
error is what its error codes are for, and a failed call leaves the message decryptable
(`NothingLost`). Nothing else is assumed fair: no party has to send, answer or open a
session. The enabling condition is written out as "the decryption of some message with
this body would return SUCCESS", which is what `ENABLED` of that call amounts to.
`cipher_calls` assumes weak fairness of the steps of each call: a thread that can go on
does, and a callback returns. Weak fairness is enough for the lock because a thread makes
finitely many calls; no order among waiting threads is assumed. Beginning a call is not
fair.

### Findings

- `group_redistribution`: processing a distribution message again puts a state at the
  old iteration in front of the one that has advanced; messages already received are
  decrypted again; `group_cipher.h` promises `SG_ERR_DUPLICATE_MESSAGE`.
- `key_exchange_revived`: a state is archived with its pending key exchange. If a late
  message makes it current again, the response to that exchange builds the same session
  a second time and its sending chain starts over, so that a new message has the key of
  an old one and is rejected as a duplicate it is not.

### Observations

Met while modelling; the properties state them as they are, or leave them out.

- A pre key message is recognised as repeated only while a state with its base key is in
  the record (`session_builder.c:105`), that is, for 40 further sessions. After that, a
  message that used no one-time pre key, or the last resort key, builds its session anew,
  and its plaintext is returned again although `session_cipher.h:100` promises
  `SG_ERR_DUPLICATE_MESSAGE`. `OnceUnlessRebuilt` says that these are the only messages
  that are read twice, and `pairwise_limits` has them.
- Calls from a callback through another cipher object of the same address are not refused
  and are overwritten (section 2, `CallbacksApart`).
- `key_helper.h:55` calls `start` "the starting pre key ID, inclusive". For `start = 0`
  (`Demo/AppDelegate.swift:25`) `start - 1` is 2^32 - 1 and the first id is
  2^32 % (2^24 - 2) = 512, followed by 1, 2, ... That id comes round after 512 further
  keys, so a batch of more than 512 keys has it twice. `Available` counts with it
  (`Distance`), and `PreKeysAssumption` keeps batches below it.
- `key_exchange_message_deserialize` copies the bytes over the buffer object it has just
  allocated (`protocol.c:323`), so `serialized` is not the message afterwards. Nothing
  reads it; `RoundTrip` leaves it out.
- `merge_messages` takes a present but empty bytes field for one that is absent, so a
  second, empty occurrence of a sub-message's field does not replace the first
  (`ConcatenationMerges` says so).
- `merge_messages` also drops the unknown fields of the earlier of two occurrences of a
  sub-message (`ConcatenationMerges` says so).
- `hkdf_expand` counts its blocks with a `uint8_t` that it compares with an `int`
  (`hkdf.c:117-121`). For version 3, whose counter starts at 1, an output of 255 blocks,
  the longest RFC 5869 allows, would need the counter to reach 256, and the loop does not
  end. `HkdfStandard` says so, and that every shorter output is the standard one. The
  library itself never derives more than 3 blocks.
- `SignalCommonCryptoProvider.m` has its SHA-512 function commented out (39-45) and leaves
  the field of the provider unset (155-165). Fingerprints use SHA-512; `FingerprintsAgree`
  is about an application whose provider has it.
- In `protobuf-c.c:1987` the length of a field and of its prefix are added as 32-bit
  numbers. If the sum wraps, the member is shorter than its prefix, and what is left of the
  prefix is scanned as the next tag with wire type 7, which is refused before any member is
  parsed.

## 4. Proofs

All theorems hold for every value of the constants that the named assumptions of the
modules allow. The assumptions only give the constants their types, except that `PreKeys`
has batches that are no larger than the circle of ids. Hypotheses that are more than types
(`CallbacksApart`, `MaxAgain = 0`) are in the statements.

| Module | Theorem | States |
|---|---|---|
| `ReceiverChainProofs` | `TypeCorrect` | `Spec => []TypeOK`: the stored keys stay within the limit, the receiver never passes the sender |
| | `DecryptedAtMostOnce` | `Spec => []AtMostOnce` |
| | `SkippedKeysKept` | `Spec => []SkippedKept`: a skipped key is there until more than `MAX_MESSAGE_KEYS` later messages were reached |
| | `ImplementsChannel` | `Spec => ChannelSpec`: the chain implements `DeliverOnce` |
| `CipherCallsTheorems` | `TypesHold` | `Spec => []TypeOK`: the lock has an owner exactly while it was taken more often than given back |
| | `ExclusiveHolds` | `Spec => []Exclusive`: one thread at a time |
| | `FlagExactHolds` | `Spec => []FlagExact`: an object refuses calls exactly while it is inside its callback |
| | `NoKeyReuseHolds` | `CallbacksApart` implies `Spec => []NoKeyReuse` |
| | `ReadOnceHolds` | `CallbacksApart` implies `Spec => []ReadOnce` |
| | `CallsAreAtomic` | `CallbacksApart` implies `Spec => AtomicSpec`: the calls implement `AtomicCalls` |
| `GroupSessionTheorems` | `GroupTypes` | `Spec => []TypeOK`: the states of a record and the keys of a state stay within their limits |
| | `GroupNoKeyReuse` | `Spec => []NoKeyReuse` for the sender of a group |
| | `GroupAtMostOnce` | `MaxAgain = 0` implies `Spec => []AtMostOnce` |
| | `GroupDuplicateReported` | `MaxAgain = 0` implies `Spec => []DuplicateReported` |
| | `GroupNothingLost` | `MaxAgain = 0` implies `Spec => []NothingLost` |
| `PreKeysProofs` | `TypeHolds` | `Spec => []TypeOK`: the ids are those of one-time keys |
| | `AvailableHolds` | `Spec => []Available`: a published key is found until it is used or its id comes round |
| | `LastResortHolds` | `Spec => LastResortKept` |
| | `NeverAgainHolds` | `Spec => NeverAgain` |

**Receiver chain.** `AtMostOnce` is not inductive: a decryption could return a message
again if a key were stored twice, or stored after its message was returned. `IInv` adds
that stored keys are below the index and disjoint from the messages returned, that what
was returned is below the index, and that the list is `Spread`: entries are at least as
far apart as their places in the list. Hence the n-th entry from the end is at least n
below the index, and evicting from the head of a full list evicts only keys that are more
than `MAX_MESSAGE_KEYS` behind. `RemoveMessageKeysEffect` and `SetMessageKeysEffect` say
what taking a key out and appending the skipped ones with eviction do to such a list;
`DecryptCases` splits a decryption into those two cases; `NextIInv` combines them.
`ImplementsChannel` follows from `DecryptIsNew`: a message that is decrypted was not
returned before.

**Calls.** The heart is `LocalInv`: the record a call is about to store is the stored one
with just its own change, although other calls may have stored in between. It needs
`ApartInv` (no two calls work on the record of one address, unless one only reads), which
needs `PermittedInv` (a call made from a callback keeps what was permitted until it has
loaded), `FlagExact` (the object of a call in its callback has its flag set, so a call
through it is refused) and `LockInv` (the lock has been taken once for each call in
progress, all of one thread, which runs the innermost). `LockInv` and `FlagExact`, with
what they need (`PlaceInv`, `DoneInv`, `ObjectInv`), are proved together as `LInv` without
`CallbacksApart`; the rest, `IInv`, with it. `UsedInv` says that keys used are behind the
stored index. `CipherCallsSteps` states the invariant and what each step does
to the places of calls; `CipherCallsProofs` proves the parts one by one;
`CipherCallsTheorems` combines them, and shows that a successful store is a step of
`AtomicCalls` and every other step a stutter.

**Groups.** `NoKeyReuse` needs to know where the sender's stored chain is: `KeyInv` says
that its record holds the sender key made last, `IdInv` that the messages of that key on
the network are behind its iteration. For the receivers, `MatchInv` relates the stored
record to the history: its states are those of the distributions processed last, each with
a chain that has the invariant of the receiver chain (`ChainOK`, shared through
`MessageKeysProofs`), none ahead of the sender. `ReachInv` says what became of a message
that a chain has passed: given to the application, kept, or more than
`MAX_MESSAGE_KEYS + 1` behind; with it a call that fails loses nothing. `GroupSessionProofs` shows that each step
keeps these. The last three theorems add `HistoryInv`: the distributions processed are of
different sender keys (`OnceInv`, from `MaxAgain = 0`) and the key of a message that was
returned is gone (`ReadInv`). Without that hypothesis they do not hold, which is the
finding of `group_redistribution`.

**Pre keys.** `PreKeyIdRange` is the arithmetic: two remainders never give 0 or the id of
the last resort key. `NeverAgain` needs that a stored key is not spent and stored once
(`StoreInv`) and that messages have base keys of their own (`SentInv`); an id that is used
again then stands for another key, and the message does not decrypt. `LastResortKept`
needs that a batch stays below the id (`Batch`) and that an installation is set up once
(`InstallInv`). `Available` needs to know where on the circle of ids the installation is:
`CircleInv` says that the id of the n-th key is `IdOf(c, n)`, for one of two starting
points (`Circles`: with `Start = 0` the first id lies elsewhere), so two keys with the same
id are a full circle apart; `FoundInv` carries each published key from batch to batch.

Only model-checked: everything about `PairwiseSession` and `KeyExchange`. `NothingLost`
and `DuplicateReported` of `PairwiseSession` are about limits that are not reached and do
not hold for every value of the constants: a limit of 1 receiver chain loses messages by
design. The other properties of the two modules relate the chains of every state in the
records of both parties, and an invariant that carries them is larger than those above
together. `EventuallyRead` and `CallsReturn`, because liveness needs fairness; `LoopAgrees`,
that the closed form in `SetMessageKeys` is what the loop computes, because that is an
induction over the loop; `Formats`, whose operators are recursive.

## 5. Not modelled

- The arithmetic of Curve25519 and Ed25519, VRF signatures, SHA and AES: ideal
  primitives, and field arithmetic is out of TLC's reach.
- Container libraries (`utlist.h`, `uthash.h`, `utarray.h`, `utstring.h`, `vpool.c`):
  lists and maps are TLA+ values. Reference counts, and functions that only read or set
  one field of an object.
- Of `protobuf-c.c`: field types, packed arrays, oneofs, services and text functions that
  no structure of the library uses.
- The Objective-C wrappers and the demo, except where they decide something
  (`generateRegistrationID`, the recursive lock): one call to the C library per method.
- Wrap-around of the 32-bit message counters, which would take 2^32 messages in one chain.
- Bundles and responses with wrong signatures: only genuine messages are on the network.
  The order of checks that refuse a changed message is in `Wire`.
- A sender that processes its own distribution message: `group_session_builder.h:17` says
  a session is for sending "or for receiving, but not both".
- The flag `inside_callback` of the group cipher separately: it works as the one of the
  session cipher in `CipherCalls`.
