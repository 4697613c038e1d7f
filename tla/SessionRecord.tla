---------------------------- MODULE SessionRecord ----------------------------
(***************************************************************************)
(* A session record: the current state of the sessions with one remote     *)
(* address and the archived ones, most recently current first.             *)
(***************************************************************************)
EXTENDS SessionState

CONSTANT ARCHIVED_STATES_MAX_LENGTH   \* archived states kept (40)

ASSUME ArchivedStatesAssumption == ARCHIVED_STATES_MAX_LENGTH \in Nat

\* session_record_create without a state
FreshRecord == [state |-> EmptyState, previous |-> <<>>, fresh |-> TRUE]

\* Mutant: the state that was current is dropped, not archived.
PromoteStateDropsCurrent(record, promoted) == [record EXCEPT !.state = promoted]

\* session_record_promote_state
PromoteState(record, promoted) ==
  LET archived == <<record.state>> \o record.previous
  IN [record EXCEPT
        !.state = promoted,
        !.previous = SubSeq(archived, 1, Min({Len(archived), ARCHIVED_STATES_MAX_LENGTH}))]

\* session_record_archive_current_state
ArchiveCurrentState(record) == PromoteState(record, EmptyState)

\* Mutant: only the current state is compared.
HasSessionStateCurrentOnly(record, version, base) ==
  record.state.version = version /\ record.state.alice_base = base

\* session_record_has_session_state
HasSessionState(record, version, base) ==
  \E state \in {record.state} \union Range(record.previous) :
    state.version = version /\ state.alice_base = base

\* session_record_serialize
SerializeRecord(record) ==
  [current |-> SerializeState(record.state),
   previous |-> [i \in DOMAIN record.previous |-> SerializeState(record.previous[i])]]

\* session_record_deserialize: what is read back is never fresh.
DeserializeRecord(structure) ==
  [state |-> DeserializeState(structure.current),
   previous |-> [i \in DOMAIN structure.previous |-> DeserializeState(structure.previous[i])],
   fresh |-> FALSE]

\* signal_protocol_session_load_session: a new record if nothing is stored.
LoadSession(stored) == IF stored = None THEN FreshRecord ELSE DeserializeRecord(stored)
=============================================================================
