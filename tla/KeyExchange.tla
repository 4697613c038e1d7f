----------------------------- MODULE KeyExchange -----------------------------
(***************************************************************************)
(* Sessions built by exchanging key exchange messages (session_builder.c), *)
(* next to the calls of PairwiseSession.  Either party may start, both may *)
(* start at once, and the messages may be lost, delayed or repeated.  A    *)
(* base key pair is named by its random value, so that every order of the  *)
(* two base keys of an exchange occurs.  A call that changes nothing (its  *)
(* first store fails, or a response is stale) is not a step.               *)
(***************************************************************************)
EXTENDS PairwiseSession, Bags

CONSTANTS Values,         \* the random values of base keys
          Sequences,      \* the sequence numbers the generator may draw
          MaxProcess,     \* bound: exchanges a party starts
          MaxDelivered    \* bound: times a party processes one exchange message

VARIABLES values,      \* the values drawn so far
          started,     \* exchanges each party has started
          exchanges,   \* every key exchange message ever sent
          delivered,   \* bag of the ones that were processed
          built        \* the pairs of base keys each party has built sessions from

exchangeVars == <<values, started, exchanges, delivered, built>>

allVars == <<vars, exchangeVars>>

ExchangeInit ==
  /\ Init
  /\ values = {}
  /\ started = [p \in Party |-> 0]
  /\ exchanges = {}
  /\ delivered = EmptyBag
  /\ built = [p \in Party |-> {}]

-----------------------------------------------------------------------------

\* Mutant: neither side yields.
SymmetricIsAliceAlways(ourBase, theirBase) == TRUE

\* ratcheting_session_symmetric_is_alice: the lower base key is Alice's.
SymmetricIsAlice(ourBase, theirBase) == ourBase[3] < theirBase[3]

\* ratcheting_session_symmetric_initialize; sending is the ratchet key that
\* Alice's side generates.
SymmetricInitialize(state, ours, theirs, sending) ==
  IF SymmetricIsAlice(ours.base, theirs.base)
  THEN AliceInitialize(state, ours.identity, ours.base, theirs.identity, theirs.base, None,
                       theirs.ratchet, sending)
  ELSE BobInitialize(state, ours.identity, ours.base, None, ours.ratchet, theirs.identity,
                     theirs.base)

\* session_state_set_pending_key_exchange
SetPendingKeyExchange(state, exchange) == [state EXCEPT !.pending_key_exchange = exchange]

\* key_exchange_message_create, with the signature of the base key
KeyExchangeMessageCreate(p, flags, ours) ==
  [from |-> p, flags |-> flags, sequence |-> ours.sequence, base |-> ours.base,
   signature |-> <<ours.identity, ours.base>>, ratchet |-> ours.ratchet,
   identity |-> ours.identity]

\* curve_verify_signature of the base key with the identity key
VerifyBaseKey(x) == x.signature = <<x.identity, x.base>>

\* The keys a party generates for an exchange.
NewExchange(p, sequence, value) ==
  [sequence |-> sequence, base |-> Key(p, "base", value), ratchet |-> NewKeyPair(p),
   identity |-> Identity(p)]

\* session_builder_process: the exchange is pending in the current state.
Process(p, sequence, value) ==
  LET record == LoadSession(sessions[p])
      exchange == NewExchange(p, sequence, value)
  IN /\ started[p] < MaxProcess
     /\ value \notin values
     /\ sessions' = [sessions EXCEPT ![p] =
          SerializeRecord([record EXCEPT !.state = SetPendingKeyExchange(@, exchange)])]
     /\ generated' = [generated EXCEPT ![p] = @ + 1]
     /\ values' = values \union {value}
     /\ started' = [started EXCEPT ![p] = @ + 1]
     /\ exchanges' = exchanges \union {KeyExchangeMessageCreate(p, {"initiate"}, exchange)}
     /\ UNCHANGED <<preKeys, saved, install, published, bundles, net, returned, kept,
                    delivered, built>>

\* The record with a session built from our keys and those of x, as both handlers
\* build it.
BuildSession(p, record, ours, x) ==
  [MakeRoom(record) EXCEPT !.state =
     SymmetricInitialize(@, ours, x, Key(p, "generated", generated[p] + 2))]

\* The base keys of the exchange that a root or chain key descends from: their
\* agreement is the third part of the master secret.
BaseKeys(kdf) == kdf[1][3]

\* What both handlers leave behind: the session, and the identity unless saving it
\* fails after the session has been stored.
Built(p, record, x, outcome) ==
  /\ IsTrustedIdentity(p, x.identity)
  /\ CopiesIn(x, delivered) < MaxDelivered
  /\ outcome \in {"ok", "identity"}
  /\ sessions' = [sessions EXCEPT ![p] = SerializeRecord(record)]
  /\ generated' = [generated EXCEPT ![p] = @ + 2]
  /\ saved' = IF outcome = "ok" THEN [saved EXCEPT ![p] = x.identity] ELSE saved
  /\ delivered' = delivered (+) SetToBag({x})
  /\ built' = [built EXCEPT ![p] = @ \union {BaseKeys(record.state.root)}]
  /\ UNCHANGED <<preKeys, install, published, bundles, net, returned, kept, started>>

\* session_builder_process_initiate: with the keys of our own pending exchange if
\* there is one, otherwise with new keys; answered unless the call fails.
ProcessInitiate(p, x, value, outcome) ==
  LET record == LoadSession(sessions[p])
      pending == record.state.pending_key_exchange
      ours == IF pending = None THEN NewExchange(p, x.sequence, value) ELSE pending
      flags == {"response"} \union (IF pending = None THEN {} ELSE {"simultaneous"})
      response == KeyExchangeMessageCreate(p, flags, [ours EXCEPT !.sequence = x.sequence])
  IN /\ "initiate" \in x.flags
     /\ VerifyBaseKey(x)
     /\ IF pending = None THEN value \notin values /\ values' = values \union {value}
        ELSE value = Min(Values) /\ UNCHANGED values
     /\ Built(p, BuildSession(p, record, ours, x), x, outcome)
     /\ exchanges' = IF outcome = "ok" THEN exchanges \union {response} ELSE exchanges

\* Mutant: a response is taken for the pending exchange whatever its sequence.
MatchesAnySequence(pending, x) == pending # None

\* The response is the answer to the exchange that is pending.
MatchesSequence(pending, x) == pending # None /\ pending.sequence = x.sequence

\* session_builder_process_response; other responses are stale and ignored.  The
\* session has been stored when the signature turns out to be wrong.
ProcessResponse(p, x, outcome) ==
  LET record == LoadSession(sessions[p])
      pending == record.state.pending_key_exchange
  IN /\ "initiate" \notin x.flags
     /\ MatchesSequence(pending, x)
     /\ Built(p, BuildSession(p, record, pending, x), x,
              IF VerifyBaseKey(x) THEN outcome ELSE "identity")
     /\ UNCHANGED <<values, exchanges>>

ExchangeNext ==
  \/ Next /\ UNCHANGED exchangeVars
  \/ \E p \in Party :
       \/ \E sequence \in Sequences, value \in Values : Process(p, sequence, value)
       \/ \E x \in {y \in exchanges : y.from = Peer(p)}, outcome \in Outcomes :
            \/ \E value \in Values : ProcessInitiate(p, x, value, outcome)
            \/ ProcessResponse(p, x, outcome)

ExchangeSpec == ExchangeInit /\ [][ExchangeNext]_allVars

-----------------------------------------------------------------------------

\* The two sides of an exchange agree: a message of a session that both parties
\* have built from the same keys can be decrypted by its receiver, or its
\* plaintext has been given to the application, whichever of them is Alice,
\* whoever started and in whatever order the messages arrive.
ExchangeAgreed ==
  \A m \in net :
    LET p == Peer(Sender(m))
        kdf == m.message.mac[1][1]
    IN BaseKeys(kdf) \in built[p] => m.message.body \in kept[p] \/ Result(m) = "SUCCESS"

\* A response completes the exchange it answers: the session a party builds from
\* it is one the other party has built already, also when the response is late
\* and another exchange has been started since (unless two exchanges of a party
\* drew the same sequence number).
ResponseCompletes ==
  [][\A p \in Party, x \in exchanges :
       /\ x.from = Peer(p) /\ "response" \in x.flags
       /\ CopiesIn(x, delivered') > CopiesIn(x, delivered)
       /\ \A y, z \in {e \in exchanges : "initiate" \in e.flags /\ e.from = p} :
            y.sequence = z.sequence => y = z
       => built'[p] \subseteq built[p] \union built[Peer(p)]]_allVars

\* session_cipher.h: SG_ERR_DUPLICATE_MESSAGE is for a message that has already
\* been received.
DuplicateMeansReceived ==
  \A m \in net : Result(m) = "DUPLICATE_MESSAGE" => m.message.body \in kept[Peer(Sender(m))]
=============================================================================
