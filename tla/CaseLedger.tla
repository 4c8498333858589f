----------------------------- MODULE CaseLedger -----------------------------
(***************************************************************************)
(* What the case ledger promises, whoever writes it: a decision window has *)
(* at most one case, its events are only ever appended, each is legal in   *)
(* the state before it, and a case row shows the last event of its log.    *)
(***************************************************************************)
EXTENDS CaseStateMachine

CONSTANT Windows   \* the decision windows, one per (trading date, window)

VARIABLES
  caseState,   \* the state column of the case row of a window, or "NONE"
  log          \* the case's rows of case_events, oldest first

vars == <<caseState, log>>

Init ==
  /\ caseState = [w \in Windows |-> "NONE"]
  /\ log = [w \in Windows |-> << >>]

\* create_scheduled: the unique constraint on (trading_date, decision_window)
\* admits one case.
Open(w) ==
  /\ caseState[w] = "NONE"
  /\ caseState' = [caseState EXCEPT ![w] = "SCHEDULED"]
  /\ UNCHANGED log

\* One transaction on one case: a non-empty list of events, each legal in turn.
\* (A fill seen by a poll appends SUBMITTED and MANAGING together.)
Commit(w, events) ==
  /\ \A i \in DOMAIN events :
       Legal(IF i = 1 THEN caseState[w] ELSE events[i - 1], events[i])
  /\ caseState' = [caseState EXCEPT ![w] = AfterEvents(@, events)]
  /\ log' = [log EXCEPT ![w] = @ \o events]

Next ==
  \E w \in Windows :
    \/ Open(w)
    \/ \E e1 \in CaseEvents : Commit(w, <<e1>>)
    \/ \E e1, e2 \in CaseEvents : Commit(w, <<e1, e2>>)

Spec == Init /\ [][Next]_vars
=============================================================================
