-------------------------- MODULE OperatorControls --------------------------
(***************************************************************************)
(* What the operator may say, and how the worker hears it.  The API and    *)
(* the worker are processes of their own: pause, resume and emergency stop *)
(* travel through the ledger as two artifacts, each written in a           *)
(* transaction of its own.  The command line writes a file beside the      *)
(* worker.  The operator makes one request at a time; what a worker sees   *)
(* between the two writes is what it sees when the second one fails.       *)
(***************************************************************************)
VARIABLES
  entriesOn,   \* entries_enabled of the latest entry_control; TRUE when there is none
  stopActive,  \* active of the latest operator_stop; FALSE when there is none
  local        \* entry-state.json: entry_enabled

operatorVars == <<entriesOn, stopActive, local>>

OperatorTypeOK == operatorVars \in BOOLEAN \X BOOLEAN \X BOOLEAN

OperatorInit == entriesOn = TRUE /\ stopActive = FALSE /\ local = FALSE

\* _write_control: entry_control, then operator_stop.  If a write fails the answer is
\* 503, and what was written before stays.
WriteControl(enabled, active) ==
  /\ entriesOn' = enabled
  /\ stopActive' \in {active, stopActive}
  /\ UNCHANGED local

Pause == WriteControl(FALSE, FALSE)
Resume == WriteControl(TRUE, FALSE)
EmergencyStop == WriteControl(FALSE, TRUE)

\* enable-entries, disable-entries.
WriteEntryState ==
  /\ local' = ~ local
  /\ UNCHANGED <<entriesOn, stopActive>>

OperatorNext == Pause \/ Resume \/ EmergencyStop \/ WriteEntryState

\* Mutant: the gate looks at the file and the stop.
EntriesEnabledUnlessStopped == local /\ ~ stopActive

\* _entry_enabled_with: the file and the latest entry_control, when both can be read.
EntriesEnabled == local /\ entriesOn

\* _operator_stop_active: a stop that cannot be read is taken for none.
StopsRead == {stopActive, FALSE}
=============================================================================
