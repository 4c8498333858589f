-------------------------- MODULE CaseStateMachine --------------------------
(***************************************************************************)
(* The append-only case state machine and the two projections of a broker  *)
(* outcome onto it: record_execution for entries, record_close_result for  *)
(* closes.  Pure operators, shared by every module that writes the ledger. *)
(***************************************************************************)
EXTENDS Sequences, SequencesExt

\* CaseState: the states of a decision case.
CaseStates ==
  {"SCHEDULED", "OBSERVED", "FORECASTED", "ARGUED", "CERTIFIED", "REFUSED",
   "SUBMITTED", "MANAGING", "CLOSED", "HALTED"}

\* CaseEventType: an event is named for the state it leads to.
CaseEvents == CaseStates \ {"SCHEDULED"}

\* _TRANSITIONS: the pairs (state, event) that are legal besides HALTED.
Transitions ==
  {<<"SCHEDULED", "OBSERVED">>, <<"OBSERVED", "FORECASTED">>,
   <<"FORECASTED", "ARGUED">>, <<"ARGUED", "CERTIFIED">>,
   <<"ARGUED", "REFUSED">>, <<"CERTIFIED", "SUBMITTED">>,
   <<"SUBMITTED", "MANAGING">>, <<"MANAGING", "CLOSED">>}

\* transition(current, event) returns a state (the event's) exactly when this
\* holds, and raises InvalidTransition otherwise.
Legal(current, event) ==
  \/ event = "HALTED" /\ current \in CaseStates \ {"CLOSED", "HALTED"}
  \/ <<current, event>> \in Transitions

\* The states from which an outcome may still halt the case.
Haltable == CaseStates \ {"CLOSED", "HALTED", "REFUSED"}

\* ExecutionState: what one entry execution or one entry poll reports.
EntryOutcomes ==
  {"SUBMITTED", "REPLACED", "FILLED", "RECONCILE_REQUIRED", "REJECTED",
   "CANCELED"}

\* Mutant of EntryEvents: a fill of a certified case skips SUBMITTED.
EntryEventsSkipSubmitted(current, outcome) ==
  CASE outcome \in {"SUBMITTED", "REPLACED"} ->
         IF current = "CERTIFIED" THEN <<"SUBMITTED">> ELSE << >>
    [] outcome = "FILLED" ->
         IF current \in {"CERTIFIED", "SUBMITTED"} THEN <<"MANAGING">> ELSE << >>
    [] OTHER -> IF current \in Haltable THEN <<"HALTED">> ELSE << >>

\* record_execution: the events one entry outcome appends, in order, to a case
\* that the locked row shows in state "current".
EntryEvents(current, outcome) ==
  CASE outcome \in {"SUBMITTED", "REPLACED"} ->
         IF current = "CERTIFIED" THEN <<"SUBMITTED">> ELSE << >>
    [] outcome = "FILLED" ->
         IF current = "CERTIFIED" THEN <<"SUBMITTED", "MANAGING">>
         ELSE IF current = "SUBMITTED" THEN <<"MANAGING">> ELSE << >>
    [] OTHER -> IF current \in Haltable THEN <<"HALTED">> ELSE << >>

\* CloseResult.state, PENDING_OWNER left out: record_close_result ignores it.
CloseOutcomes == {"CLOSED", "MANAGING", "RECONCILE_REQUIRED", "REJECTED"}

\* record_close_result: the events a close outcome appends, each in a
\* transaction of its own, to a case first read in state "current".
CloseEvents(current, outcome) ==
  CASE outcome = "CLOSED" ->
         IF current = "SUBMITTED" THEN <<"MANAGING", "CLOSED">>
         ELSE IF current = "MANAGING" THEN <<"CLOSED">> ELSE << >>
    [] outcome = "MANAGING" ->
         IF current = "SUBMITTED" THEN <<"MANAGING">> ELSE << >>
    [] OTHER -> IF current \in Haltable THEN <<"HALTED">> ELSE << >>

\* The state a case is in after a list of events appended in state "current".
AfterEvents(current, events) ==
  IF events = << >> THEN current ELSE Last(events)
=============================================================================
