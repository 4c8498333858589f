-------------------------- MODULE DecisionWindows ---------------------------
(***************************************************************************)
(* The scheduler's decision windows and every writer of the case ledger.   *)
(*                                                                         *)
(* Scheduler processes tick.  A tick that falls in the evaluation minute   *)
(* or the execution minute of a window takes the window's lease and either *)
(* evaluates the window (CaseService.evaluate: one transaction per         *)
(* artifact, one per event) or executes its pending certificate.  Other    *)
(* ticks poll the entry orders of submitted cases and close positions.     *)
(* The broker is reduced here to the outcomes it leads to; EntryExecution  *)
(* and CloseExecution model how those outcomes come about.                 *)
(***************************************************************************)
EXTENDS CaseStateMachine, Naturals

CONSTANTS
  Schedulers,      \* scheduler processes sharing the database
  Windows,         \* decision windows of the day
  EvalAt,          \* WINDOW_TIMES: when the evaluation minute of a window starts
  ExecAt,          \* EXECUTION_TIMES: when its execution minute starts
  TicksPerMinute,  \* clock steps in a minute
  LeaseTtl,        \* lease_ttl, in clock steps
  Horizon,         \* bound: the last clock step
  MaxCrashes,      \* bound: process crashes
  LedgerFails      \* whether a ledger write outside evaluate's try may fail

ASSUME TimesAssumption ==
  /\ EvalAt \in [Windows -> Nat]
  /\ ExecAt \in [Windows -> Nat]

\* lease_ttl is two minutes: no shorter than the minute a window is due.
ASSUME LeaseAssumption ==
  /\ TicksPerMinute \in Nat \ {0}
  /\ LeaseTtl \in Nat
  /\ LeaseTtl >= TicksPerMinute

ASSUME BoundsAssumption ==
  /\ Horizon \in Nat
  /\ MaxCrashes \in Nat
  /\ LedgerFails \in BOOLEAN

VARIABLES
  clock,        \* real time
  caseState,    \* case row per window, "NONE" before create_scheduled
  log,          \* case_events per window
  artifacts,    \* artifact types saved per window
  lease,        \* lease_until per window, 0 when there is no lease row
  openIntent,   \* windows with an entry intent that is not terminal
  fillSeen,     \* windows with a recorded order event that shows filled quantity
  pc,           \* per process: what its current tick does next
  win,          \* per process: the window it works on
  now,          \* per process: the time its tick was started with
  stage,        \* per process: the case event evaluate is about to append
  events,       \* per process: the events record_close_result has yet to append
  crashes,      \* crashes so far
  cutOff,       \* a crash or a refused halt record ended an evaluation
  evaluations,  \* history: leases taken to evaluate each window
  executions,   \* history: executions started for each window
  vetoed        \* history: "no", "before" or "late" (after execution started)

ledger == <<caseState, log, artifacts>>
orders == <<openIntent, fillSeen>>
locals == <<pc, win, now, stage, events>>
faults == <<crashes, cutOff>>
history == <<evaluations, executions, vetoed>>
vars == <<clock, ledger, lease, orders, locals, faults, history>>

NoWindow == "NONE"

\* The artifact that CaseService saves before it appends each event.
ArtifactOf ==
  [OBSERVED   |-> "market_evidence",
   FORECASTED |-> "forecast_distribution",
   ARGUED     |-> "catalyst_assessment",
   CERTIFIED  |-> "trade_certificate",
   REFUSED    |-> "refusal_record",
   HALTED     |-> "halt_record"]

Artifacts ==
  {ArtifactOf[e] : e \in DOMAIN ArtifactOf} \cup
  {"candidate_structures", "execution_record", "operator_veto"}

PcStates ==
  {"idle", "tick", "create", "save", "append", "write", "judge", "pending",
   "check", "execute", "claimed", "poll", "closing", "closeWrite"}

Init ==
  /\ clock = 0
  /\ caseState = [w \in Windows |-> "NONE"]
  /\ log = [w \in Windows |-> << >>]
  /\ artifacts = [w \in Windows |-> {}]
  /\ lease = [w \in Windows |-> 0]
  /\ openIntent = {}
  /\ fillSeen = {}
  /\ pc = [s \in Schedulers |-> "idle"]
  /\ win = [s \in Schedulers |-> NoWindow]
  /\ now = [s \in Schedulers |-> 0]
  /\ stage = [s \in Schedulers |-> "HALTED"]
  /\ events = [s \in Schedulers |-> << >>]
  /\ crashes = 0
  /\ cutOff = FALSE
  /\ evaluations = [w \in Windows |-> 0]
  /\ executions = [w \in Windows |-> 0]
  /\ vetoed = [w \in Windows |-> "no"]

-----------------------------------------------------------------------------
(* Ticks and leases.                                                       *)

\* _evaluation_window_due, _execution_window_due: the time with its seconds cut
\* off is exactly the window's.
EvaluationDue(w, t) == EvalAt[w] <= t /\ t < EvalAt[w] + TicksPerMinute
ExecutionDue(w, t) == ExecAt[w] <= t /\ t < ExecAt[w] + TicksPerMinute

\* Mutants of LeaseUntil: a lease that runs out at once; a lease dated backwards.
LeaseUntilNow(t) == t
LeaseUntilBefore(t) == t - LeaseTtl

\* The lease_until of a lease taken at time t.
LeaseUntil(t) == t + LeaseTtl

Goto(s, label) == pc' = [pc EXCEPT ![s] = label]

\* The tick ends: its locals are gone.
EndTick(s) ==
  /\ Goto(s, "idle")
  /\ win' = [win EXCEPT ![s] = NoWindow]
  /\ now' = [now EXCEPT ![s] = 0]
  /\ stage' = [stage EXCEPT ![s] = "HALTED"]
  /\ events' = [events EXCEPT ![s] = << >>]

\* The tick goes on: it forgets the case it polled or closed.
BackToTick(s) ==
  /\ Goto(s, "tick")
  /\ win' = [win EXCEPT ![s] = NoWindow]
  /\ events' = [events EXCEPT ![s] = << >>]
  /\ UNCHANGED <<now, stage>>

\* tick(now): the time is read once.  The polls and checks before the lease
\* take their own time, so "now" may be old when it is used.
Tick(s) ==
  /\ pc[s] = "idle"
  /\ Goto(s, "tick")
  /\ now' = [now EXCEPT ![s] = clock]
  /\ UNCHANGED <<clock, ledger, lease, orders, win, stage, events, faults, history>>

\* The tick ends before the lease: no window is due, or a gate stops it (the
\* market is closed, a position was worked on, the ledger does not match the
\* broker, entries are disabled).
Skip(s) ==
  /\ pc[s] = "tick"
  /\ EndTick(s)
  /\ UNCHANGED <<clock, ledger, lease, orders, faults, history>>

Due(w, t) == EvaluationDue(w, t) \/ ExecutionDue(w, t)

\* acquire_window_lease finds a lease row that has not run out at "now".
LeaseHeld(s, w) ==
  /\ pc[s] = "tick"
  /\ Due(w, now[s])
  /\ lease[w] > now[s]
  /\ EndTick(s)
  /\ UNCHANGED <<clock, ledger, lease, orders, faults, history>>

\* acquire_window_lease inserts or takes over the row.
AcquireLease(s, w) ==
  /\ pc[s] = "tick"
  /\ Due(w, now[s])
  /\ ~ lease[w] > now[s]
  /\ lease' = [lease EXCEPT ![w] = LeaseUntil(now[s])]
  /\ win' = [win EXCEPT ![s] = w]
  /\ IF ExecutionDue(w, now[s])
     THEN Goto(s, "pending") /\ UNCHANGED evaluations
     ELSE Goto(s, "create") /\ evaluations' = [evaluations EXCEPT ![w] = @ + 1]
  /\ UNCHANGED <<clock, ledger, orders, now, stage, events, faults, executions, vetoed>>

-----------------------------------------------------------------------------
(* CaseService.evaluate.                                                   *)

\* The evaluation ends with an exception and leaves its case where it is.
CutOff(s) == EndTick(s) /\ cutOff' = TRUE

\* create_scheduled; DuplicateDecisionWindow ends the tick.
CreateScheduled(s) ==
  /\ pc[s] = "create"
  /\ IF caseState[win[s]] = "NONE"
     THEN /\ caseState' = [caseState EXCEPT ![win[s]] = "SCHEDULED"]
          /\ \/ /\ Goto(s, "save")
                /\ stage' = [stage EXCEPT ![s] = "OBSERVED"]
                /\ UNCHANGED <<win, now, events, cutOff>>
             \/ LedgerFails /\ CutOff(s)      \* outside the try: the commit's answer is lost
     ELSE EndTick(s) /\ UNCHANGED <<caseState, cutOff>>
  /\ UNCHANGED <<clock, log, artifacts, lease, orders, crashes, history>>

\* Mutant of SaveArtifact: a best-effort save that moves on when it fails.
SaveArtifactBestEffort(s) ==
  /\ pc[s] = "save"
  /\ \/ artifacts' = [artifacts EXCEPT ![win[s]] = @ \cup {ArtifactOf[stage[s]]}]
     \/ UNCHANGED artifacts
  /\ Goto(s, "append")
  /\ UNCHANGED <<clock, caseState, log, lease, orders, win, now, stage, events,
                 faults, history>>

\* The stage's work is done and save_artifact commits its result.
SaveArtifact(s) ==
  /\ pc[s] = "save"
  /\ artifacts' = [artifacts EXCEPT ![win[s]] = @ \cup {ArtifactOf[stage[s]]}]
  /\ Goto(s, "append")
  /\ UNCHANGED <<clock, caseState, log, lease, orders, win, now, stage, events,
                 faults, history>>

\* Mutant of Raise: evaluate without its except clause.
RaiseWithoutHalt(s) == EndTick(s) /\ UNCHANGED cutOff

\* Halting starts over with the halt record; a failure while halting leaves
\* evaluate, and the tick, with an exception.
Raise(s) ==
  IF stage[s] = "HALTED"
  THEN LedgerFails /\ CutOff(s)
  ELSE /\ Goto(s, "save")
       /\ stage' = [stage EXCEPT ![s] = "HALTED"]
       /\ UNCHANGED <<win, now, events, cutOff>>

\* The call of this stage raises before anything is written.
StageFails(s) ==
  /\ pc[s] \in {"save", "append", "write", "judge"}
  /\ Raise(s)
  /\ UNCHANGED <<clock, ledger, lease, orders, crashes, history>>

\* After ARGUED the judge is next; after the last event of a path the case is
\* decided and the tick ends.
Advance(s) ==
  CASE stage[s] = "OBSERVED" ->
         Goto(s, "save") /\ stage' = [stage EXCEPT ![s] = "FORECASTED"]
         /\ UNCHANGED <<win, now, events>>
    [] stage[s] = "FORECASTED" ->
         Goto(s, "save") /\ stage' = [stage EXCEPT ![s] = "ARGUED"]
         /\ UNCHANGED <<win, now, events>>
    [] stage[s] = "ARGUED" -> Goto(s, "judge") /\ UNCHANGED <<win, now, stage, events>>
    [] OTHER -> EndTick(s)

\* append_event reads the case row, without a lock, and transition admits the
\* event in the state it read.
CheckEvent(s) ==
  /\ pc[s] = "append"
  /\ Legal(caseState[win[s]], stage[s])
  /\ Goto(s, "write")
  /\ UNCHANGED <<clock, ledger, lease, orders, win, now, stage, events, faults,
                 history>>

\* It then writes the event and the new state and commits.  Nothing compares
\* the row with what was read, so the state another process wrote in between
\* is overwritten.
AppendEvent(s) ==
  /\ pc[s] = "write"
  /\ caseState' = [caseState EXCEPT ![win[s]] = stage[s]]
  /\ log' = [log EXCEPT ![win[s]] = Append(@, stage[s])]
  /\ \/ Advance(s) /\ UNCHANGED cutOff
     \/ Raise(s)          \* the commit is done but its answer is lost
  /\ UNCHANGED <<clock, artifacts, lease, orders, crashes, history>>

\* append_event raises InvalidTransition: another writer moved the case.
AppendRefused(s) ==
  /\ pc[s] = "append"
  /\ ~ Legal(caseState[win[s]], stage[s])
  /\ IF stage[s] = "HALTED" THEN EndTick(s) /\ UNCHANGED cutOff ELSE Raise(s)
  /\ UNCHANGED <<clock, ledger, lease, orders, crashes, history>>

\* The candidates are saved, then judge.certify answers.
Judge(s, verdict) ==
  /\ pc[s] = "judge"
  /\ artifacts' = [artifacts EXCEPT ![win[s]] = @ \cup {"candidate_structures"}]
  /\ Goto(s, "save")
  /\ stage' = [stage EXCEPT ![s] = verdict]
  /\ UNCHANGED <<clock, caseState, log, lease, orders, win, now, events, faults,
                 history>>

-----------------------------------------------------------------------------
(* Executing the pending certificate, and the operator's veto.             *)

\* pending_certificate: only a case that is CERTIFIED has one.
LoadPending(s) ==
  /\ pc[s] = "pending"
  /\ IF caseState[win[s]] = "CERTIFIED" /\ "trade_certificate" \in artifacts[win[s]]
     THEN Goto(s, "check") /\ UNCHANGED <<win, now, stage, events>>
     ELSE EndTick(s)
  /\ UNCHANGED <<clock, ledger, lease, orders, faults, history>>

\* Mutant of CheckVeto: the veto is not looked up.
CheckVetoForgotten(s) ==
  /\ pc[s] = "check"
  /\ Goto(s, "execute")
  /\ executions' = [executions EXCEPT ![win[s]] = @ + 1]
  /\ UNCHANGED <<clock, ledger, lease, orders, win, now, stage, events, faults,
                 evaluations, vetoed>>

\* operator_veto_exists, read once; then ExecutionService.execute starts.
CheckVeto(s) ==
  /\ pc[s] = "check"
  /\ IF "operator_veto" \in artifacts[win[s]]
     THEN EndTick(s) /\ UNCHANGED executions
     ELSE /\ Goto(s, "execute")
          /\ executions' = [executions EXCEPT ![win[s]] = @ + 1]
          /\ UNCHANGED <<win, now, stage, events>>
  /\ UNCHANGED <<clock, ledger, lease, orders, faults, evaluations, vetoed>>

\* execute passes its preflight and claims the durable entry intent.
ClaimIntent(s) ==
  /\ pc[s] = "execute"
  /\ openIntent' = openIntent \cup {win[s]}
  /\ Goto(s, "claimed")
  /\ UNCHANGED <<clock, ledger, lease, fillSeen, win, now, stage, events, faults,
                 history>>

\* Only a claimed certificate reaches the broker.
OutcomesAt(label) ==
  IF label = "execute" THEN {"REJECTED", "RECONCILE_REQUIRED"} ELSE EntryOutcomes

\* The case row, its events, the execution record and the intent change in the
\* one transaction of record_execution.  "fill" says whether the observations
\* recorded with the outcome show filled quantity: a working, replaced or
\* canceled order may be filled in part.
RecordExecution(w, outcome, fill) ==
  LET appended == EntryEvents(caseState[w], outcome)
  IN  /\ caseState' = [caseState EXCEPT ![w] = AfterEvents(@, appended)]
      /\ log' = [log EXCEPT ![w] = @ \o appended]
      /\ artifacts' = [artifacts EXCEPT ![w] = @ \cup {"execution_record"}]
      /\ outcome = "FILLED" => fill
      /\ fillSeen' = IF fill THEN fillSeen \cup {w} ELSE fillSeen
      /\ openIntent' = IF outcome \in {"FILLED", "CANCELED", "REJECTED"}
                       THEN openIntent \ {w} ELSE openIntent

\* The tick that executed ends.  A tick that polled goes on, unless the outcome
\* is one that halts it.
Record(s, outcome, fill) ==
  /\ \/ pc[s] \in {"execute", "claimed"} /\ outcome \in OutcomesAt(pc[s])
     \/ pc[s] = "poll"
  /\ pc[s] = "execute" => ~ fill
  /\ RecordExecution(win[s], outcome, fill)
  /\ IF pc[s] = "poll" /\ outcome \in {"SUBMITTED", "REPLACED", "FILLED"}
     THEN BackToTick(s) ELSE EndTick(s)
  /\ UNCHANGED <<clock, lease, faults, history>>

\* A read of the ledger, execute, a poll or a write of record_close_result
\* raises and nothing is recorded.
TickRaises(s) ==
  /\ pc[s] \in {"create", "pending", "check", "execute", "claimed", "poll",
                "closing", "closeWrite"}
  /\ EndTick(s)
  /\ UNCHANGED <<clock, ledger, lease, orders, faults, history>>

\* POST /cases/{id}/veto: any case that has a certificate.
Veto(w) ==
  /\ "trade_certificate" \in artifacts[w]
  /\ "operator_veto" \notin artifacts[w]
  /\ artifacts' = [artifacts EXCEPT ![w] = @ \cup {"operator_veto"}]
  /\ vetoed' = [vetoed EXCEPT ![w] = IF executions[w] = 0 THEN "before" ELSE "late"]
  /\ UNCHANGED <<clock, caseState, log, lease, orders, locals, faults,
                 evaluations, executions>>

-----------------------------------------------------------------------------
(* Polling entries and closing positions, in ticks of any minute.  A tick   *)
(* closes before it polls and polls before it manages the position; here it *)
(* may do so in any order and again, as successive ticks do.                *)

\* active_entry_order_chains: open intents of CERTIFIED or SUBMITTED cases.
Poll(s, w) ==
  /\ pc[s] = "tick"
  /\ w \in openIntent
  /\ caseState[w] \in {"CERTIFIED", "SUBMITTED"}
  /\ Goto(s, "poll")
  /\ win' = [win EXCEPT ![s] = w]
  /\ UNCHANGED <<clock, ledger, lease, orders, now, stage, events, faults, history>>

\* record_close_result reads the case of the position that was worked on.
CloseRead(s, w, outcome) ==
  /\ pc[s] = "tick"
  /\ w \in fillSeen
  /\ CloseEvents(caseState[w], outcome) # << >>
  /\ events' = [events EXCEPT ![s] = CloseEvents(caseState[w], outcome)]
  /\ Goto(s, "closing")
  /\ win' = [win EXCEPT ![s] = w]
  /\ UNCHANGED <<clock, ledger, lease, orders, now, stage, faults, history>>

\* ... and appends one event per transaction.  As in evaluate, the row is read
\* and the event checked first: one the case no longer admits raises
\* InvalidTransition and ends the tick.
CloseCheck(s) ==
  /\ pc[s] = "closing"
  /\ IF Legal(caseState[win[s]], Head(events[s]))
     THEN Goto(s, "closeWrite") /\ UNCHANGED <<win, now, stage, events>>
     ELSE EndTick(s)
  /\ UNCHANGED <<clock, ledger, lease, orders, faults, history>>

\* ... and then written over whatever the row shows by now.
CloseAppend(s) ==
  /\ pc[s] = "closeWrite"
  /\ LET w == win[s]
         e == Head(events[s])
     IN  /\ caseState' = [caseState EXCEPT ![w] = e]
         /\ log' = [log EXCEPT ![w] = Append(@, e)]
         /\ IF Len(events[s]) > 1
            THEN /\ Goto(s, "closing")
                 /\ events' = [events EXCEPT ![s] = Tail(@)]
                 /\ UNCHANGED <<win, now, stage>>
            ELSE IF e = "CLOSED" THEN BackToTick(s) ELSE EndTick(s)
  /\ UNCHANGED <<clock, artifacts, lease, orders, faults, history>>

-----------------------------------------------------------------------------
\* A process dies and its supervisor starts a new one, which has only the
\* database.
Crash(s) ==
  /\ crashes < MaxCrashes
  /\ pc[s] # "idle"
  /\ crashes' = crashes + 1
  /\ CutOff(s)
  /\ UNCHANGED <<clock, ledger, lease, orders, history>>

Pass ==
  /\ clock < Horizon
  /\ clock' = clock + 1
  /\ UNCHANGED <<ledger, lease, orders, locals, faults, history>>

\* The steps of a tick that is under way.
Step(s) ==
  \/ Skip(s)
  \/ \E w \in Windows : LeaseHeld(s, w) \/ AcquireLease(s, w)
  \/ CreateScheduled(s) \/ SaveArtifact(s) \/ StageFails(s)
  \/ CheckEvent(s) \/ AppendEvent(s) \/ AppendRefused(s)
  \/ \E verdict \in {"CERTIFIED", "REFUSED"} : Judge(s, verdict)
  \/ LoadPending(s) \/ CheckVeto(s) \/ ClaimIntent(s)
  \/ \E w \in Windows : Poll(s, w)
  \/ \E outcome \in EntryOutcomes, fill \in BOOLEAN : Record(s, outcome, fill)
  \/ TickRaises(s)
  \/ \E w \in Windows, outcome \in CloseOutcomes : CloseRead(s, w, outcome)
  \/ CloseCheck(s) \/ CloseAppend(s)

Next ==
  \/ Pass
  \/ \E s \in Schedulers : Tick(s) \/ Step(s) \/ Crash(s)
  \/ \E w \in Windows : Veto(w)

Spec == Init /\ [][Next]_vars

\* A tick that was started runs on: nothing suspends the process's event loop.
FairSpec == Spec /\ \A s \in Schedulers : WF_vars(Step(s))

-----------------------------------------------------------------------------
TypeOK ==
  /\ clock \in 0..Horizon
  /\ caseState \in [Windows -> CaseStates \cup {"NONE"}]
  /\ log \in [Windows -> Seq(CaseEvents)]
  /\ artifacts \in [Windows -> SUBSET Artifacts]
  /\ lease \in [Windows -> Nat]
  /\ openIntent \subseteq Windows
  /\ fillSeen \subseteq Windows
  /\ pc \in [Schedulers -> PcStates]
  /\ win \in [Schedulers -> Windows \cup {NoWindow}]
  /\ now \in [Schedulers -> Nat]
  /\ stage \in [Schedulers -> DOMAIN ArtifactOf]
  /\ events \in [Schedulers -> Seq(CaseEvents)]
  /\ crashes \in 0..MaxCrashes
  /\ cutOff \in BOOLEAN
  /\ evaluations \in [Windows -> Nat]
  /\ executions \in [Windows -> Nat]
  /\ vetoed \in [Windows -> {"no", "before", "late"}]

\* A window is evaluated at most once and its certificate executed at most
\* once, whatever ticks of whichever processes carry which old "now", because
\* the shared lease outlasts the minute in which the window is due.
OneAttemptPerWindow ==
  \A w \in Windows : evaluations[w] <= 1 /\ executions[w] <= 1

\* A case never shows a state whose evidence is missing: each event evaluate
\* appended is backed by its artifact, and a certificate or a refusal also by
\* the candidates it judged, across crashes and lost commit answers.
EveryEventHasItsArtifact ==
  \A w \in Windows :
    /\ \A i \in DOMAIN log[w] :
         log[w][i] \in DOMAIN ArtifactOf \ {"HALTED"}
           => ArtifactOf[log[w][i]] \in artifacts[w]
    /\ caseState[w] \in {"CERTIFIED", "REFUSED"} => "candidate_structures" \in artifacts[w]
    /\ caseState[w] \in {"SUBMITTED", "MANAGING"} => "execution_record" \in artifacts[w]

\* A veto saved before the execution of the certificate started keeps the case
\* from ever being submitted, by that tick, a poll or a close.
VetoIsFinal ==
  \A w \in Windows :
    vetoed[w] = "before" =>
      caseState[w] \notin {"SUBMITTED", "MANAGING", "CLOSED"} /\ executions[w] = 0

\* Every writer keeps the ledger's promise: each event is legal in the state it
\* is appended to, and the row shows the last event.  One process keeps it;
\* of two, one may append to a case the other has moved since (append_event
\* checks the row before it writes and holds no lock in between).
Ledger == INSTANCE CaseLedger WITH Windows <- Windows, caseState <- caseState, log <- log
LedgerSpec == Ledger!Spec

\* While no process crashes and the halt record can be written, an opened case
\* is decided: it does not stay in the middle of its evaluation, whatever stage
\* fails and whoever else writes the case.
CaseIsDecided ==
  \A w \in Windows :
    caseState[w] = "SCHEDULED" ~>
      \/ caseState[w] \notin {"SCHEDULED", "OBSERVED", "FORECASTED", "ARGUED"}
      \/ cutOff
=============================================================================
