----------------------------- MODULE TradingDay -----------------------------
(***************************************************************************)
(* One trading day: the operator, the broker's market and the worker that  *)
(* refreshes the risk state, proves that it is ready, polls what it left   *)
(* at the broker, closes the position that is due and opens the windows.   *)
(* A step ends where the broker is asked to do something and where a       *)
(* transaction commits; between two steps orders fill, the account moves,  *)
(* the operator writes and the worker may die.  Structures are of one lot, *)
(* and an entry is one order: what part fills and replacements do is in    *)
(* EntryExecution and CloseExecution, and what two processes do to one     *)
(* window in DecisionWindows.                                              *)
(***************************************************************************)
EXTENDS OperatorControls, RiskState, CaseStateMachine

CONSTANTS
  LastWindow,  \* the windows are 1..LastWindow
  Underlying,  \* LEXGUARD_UNDERLYING_ROTATION: the symbol of each window
  MaxEntries,  \* RiskPolicy.max_entries_per_day
  MaxFails     \* bound: how often the worker dies or its ledger refuses a write

Windows == 1..LastWindow

ASSUME DayAssumption ==
  /\ LastWindow \in Nat \ {0} /\ MaxEntries \in Nat \ {0} /\ MaxFails \in Nat
  /\ DOMAIN Underlying = Windows

VARIABLES
  slot,    \* the part of the day: the windows' minutes, the forced exit, the close
  pc,      \* where the worker is in its loop
  ready,   \* runtime_ready
  win,     \* the window whose certificate, order or position the tick works on
  account, \* the equity that execute has read
  result,  \* what the tick has found out about a close and is about to record
  cases,   \* ledger: the state of each window's case
  entry,   \* each window's entry, from its claim in the ledger to the broker's order
  close,   \* the broker's close order of each window's position
  seen,    \* ledger: the latest event of the entry order
  told,    \* ledger: the latest event of the close order
  intent,  \* ledger: the close intent, "working" once it names its order
  owned,   \* ledger: does the close intent name its case?
  fails,   \* deaths and refused writes so far
  held,    \* history: entries were forbidden when this tick began, and still are
  fit,     \* history: there was no drawdown at some moment of this execution
  cut      \* history: closes whose result the worker could not record to the end

locals == <<pc, ready, win, account, result>>
orders == <<entry, close>>
ledger == <<cases, seen, told, intent, owned>>
dayVars == <<slot, locals, orders, ledger, fails>>
vars == <<operatorVars, riskVars, dayVars, held, fit, cut>>

\* 1 and 2 are the minutes of the first window's evaluation and execution, and so on.
EvalSlot(w) == 2 * w - 1
ExecSlot(w) == 2 * w
ExitSlot == 2 * LastWindow + 1
ClosedSlot == ExitSlot + 1

Executing == {"execute", "policy", "submit"}
Recording == {"pollCase", "pollNote", "closeCase", "closeNote"}

PcStates ==
  {"idle", "closes", "entries", "manage", "send", "close", "window", "observe"}
    \cup Executing \cup Recording

Observations == {"none", "working", "unknown", "filled", "ended"}

\* The outcomes of a close, "NO_ORDER" for RECONCILE_REQUIRED without an order id.
Results == CloseOutcomes \cup {"NO_ORDER"}

TypeOK ==
  /\ OperatorTypeOK /\ RiskTypeOK
  /\ slot \in 1..ClosedSlot
  /\ pc \in PcStates
  /\ ready \in BOOLEAN /\ held \in BOOLEAN /\ fit \in BOOLEAN
  /\ win \in Windows \cup {0} /\ account \in Equities \cup {0}
  /\ result \in Results \cup {"none"}
  /\ cases \in [Windows -> CaseStates]
  /\ entry \in [Windows -> {"none", "claimed", "working", "filled", "ended"}]
  /\ close \in [Windows -> {"none", "working", "filled", "ended"}]
  /\ seen \in [Windows -> Observations] /\ told \in [Windows -> Observations]
  /\ intent \in [Windows -> {"none", "claimed", "working", "CLOSED", "REJECTED"}]
  /\ owned \in [Windows -> BOOLEAN]
  /\ fails \in 0..MaxFails /\ cut \subseteq Windows

Init ==
  /\ OperatorInit /\ RiskInit
  /\ slot = 1
  /\ pc = "idle" /\ ready = FALSE /\ win = 0 /\ account = 0 /\ result = "none"
  /\ cases = [w \in Windows |-> "SCHEDULED"]
  /\ entry = [w \in Windows |-> "none"] /\ close = [w \in Windows |-> "none"]
  /\ seen = [w \in Windows |-> "none"] /\ told = [w \in Windows |-> "none"]
  /\ intent = [w \in Windows |-> "none"] /\ owned = [w \in Windows |-> FALSE]
  /\ fails = 0 /\ held = FALSE /\ fit = FALSE /\ cut = {}

-----------------------------------------------------------------------------
(* The broker, and what the ledger expects of it.                          *)

Open(w) == entry[w] = "filled" /\ close[w] # "filled"
OpenWindows == {w \in Windows : Open(w)}
WorkingOrders ==
  {<<"entry", w>> : w \in {v \in Windows : entry[v] = "working"}} \cup
  {<<"close", w>> : w \in {v \in Windows : close[v] = "working"}}

\* expected_broker_state: the orders last seen working and those of active intents.
ExpectedOrders ==
  {<<"entry", w>> : w \in {v \in Windows : seen[v] = "working"}} \cup
  {<<"close", w>> : w \in {v \in Windows : told[v] = "working" \/ intent[v] = "working"}}

\* expected_broker_position_state: the fills on record, of entries and of closes.
ExpectedQuantity(w) ==
  (IF seen[w] = "filled" THEN 1 ELSE 0) - (IF told[w] = "filled" THEN 1 ELSE 0)

\* _compare.
Consistent ==
  /\ WorkingOrders = ExpectedOrders
  /\ \A w \in Windows : ExpectedQuantity(w) = (IF Open(w) THEN 1 ELSE 0)

\* Mutant: a position once closed leaves room for the next.
EntriesTodayOpen == {w \in Windows : cases[w] \in {"SUBMITTED", "MANAGING"}}

\* daily_entry_state.
EntriesToday == {w \in Windows : cases[w] \in {"SUBMITTED", "MANAGING", "CLOSED"}}

\* A working order is filled, or is rejected or expires.
EntryEnds ==
  /\ \E w \in Windows, end \in {"filled", "ended"} :
       entry[w] = "working" /\ entry' = [entry EXCEPT ![w] = end]
  /\ UNCHANGED <<slot, locals, close, ledger, fails>>

CloseEnds ==
  /\ \E w \in Windows, end \in {"filled", "ended"} :
       close[w] = "working" /\ close' = [close EXCEPT ![w] = end]
  /\ UNCHANGED <<slot, locals, entry, ledger, fails>>

\* A tick goes by the time at which it began.
TimePasses ==
  /\ pc = "idle" /\ slot < ClosedSlot
  /\ slot' = slot + 1
  /\ UNCHANGED <<locals, orders, ledger, fails>>

-----------------------------------------------------------------------------
(* watch: the loop around the ticks.                                       *)

\* A refresh that fails changes nothing.
MayRefresh == Refresh \/ UNCHANGED riskVars

\* run_preflight_gate, when it is not ready and every preflight_interval_seconds: a
\* refresh, and then check, which passes when every boundary answers and a risk state
\* verifies.  The tick follows at once.
Preflight(ok) ==
  /\ pc = "idle"
  /\ MayRefresh
  /\ ok => RiskVerified'
  /\ ready' = ok
  /\ pc' = IF ok THEN "closes" ELSE "idle"
  /\ UNCHANGED <<slot, win, account, result, orders, ledger>>

\* A tick without preflight, with the refresh of refresh_interval_seconds or without.
BeginTick ==
  /\ pc = "idle" /\ ready /\ pc' = "closes"
  /\ MayRefresh
  /\ UNCHANGED <<slot, ready, win, account, result, orders, ledger>>

\* A tick that halts, is skipped or is done.
EndTick ==
  /\ pc' = "idle" /\ win' = 0 /\ account' = 0 /\ result' = "none"
  /\ UNCHANGED <<slot, ready, riskVars>>

GoOn(next) ==
  /\ pc' = next
  /\ UNCHANGED <<slot, ready, win, account, result, riskVars>>

\* The tick takes up a window.
TakeUp(w, next) ==
  /\ pc' = next /\ win' = w
  /\ UNCHANGED <<slot, ready, account, result, riskVars>>

-----------------------------------------------------------------------------
(* What becomes of a close: its intent is settled in one transaction, its  *)
(* case told in a second and its order's event written in a third.         *)

Active(w) == intent[w] \in {"claimed", "working"}

Conclude(w, found, next) ==
  /\ win' = w /\ result' = found /\ pc' = next
  /\ UNCHANGED <<slot, ready, account, riskVars>>

\* _reconcile_close, and the end of close: what the order has come to.
ObserveClose(w, next) ==
  /\ close[w] # "none"
  /\ intent' = [intent EXCEPT ![w] = CASE close[w] = "filled" -> "CLOSED"
                                       [] close[w] = "ended" -> "REJECTED"
                                       [] OTHER -> "working"]
  /\ Conclude(w, CASE close[w] = "filled" -> "CLOSED"
                   [] close[w] = "ended" -> "REJECTED"
                   [] OTHER -> "MANAGING", next)
  /\ UNCHANGED <<orders, cases, seen, told, owned>>

\* The broker does not answer; an order that was accepted may have been found before.
ObserveInVain(w, next) ==
  \/ /\ Conclude(w, IF intent[w] = "working" THEN "RECONCILE_REQUIRED" ELSE "NO_ORDER", next)
     /\ UNCHANGED <<orders, ledger>>
  \/ /\ close[w] # "none" /\ intent' = [intent EXCEPT ![w] = "working"]
     /\ Conclude(w, "RECONCILE_REQUIRED", next)
     /\ UNCHANGED <<orders, cases, seen, told, owned>>

\* record_close_result: nothing without a case, otherwise first its event: a close has a
\* case only when a fill was recorded, so that the case has none but one event to come.
RecordCase ==
  /\ pc \in {"pollCase", "closeCase"}
  /\ cases' = IF owned[win]
              THEN [cases EXCEPT ![win] =
                      AfterEvents(@, CloseEvents(@, IF result = "NO_ORDER"
                                                    THEN "RECONCILE_REQUIRED" ELSE result))]
              ELSE cases
  /\ GoOn(IF pc = "pollCase" THEN "pollNote" ELSE "closeNote")
  /\ UNCHANGED <<orders, seen, told, intent, owned>>

\* The order event of a result.
Noted ==
  CASE result = "CLOSED" -> "filled" [] result = "REJECTED" -> "ended"
    [] result = "MANAGING" -> "working" [] OTHER -> "unknown"


\* Whatever the state of the case, a result with an order leaves an event of it.
Notes == owned[win] /\ result # "NO_ORDER"

\* ... and then the order event.  Only a close that the poll found filled lets the tick
\* go on.
RecordOrder ==
  /\ pc \in {"pollNote", "closeNote"}
  /\ told' = IF Notes THEN [told EXCEPT ![win] = Noted] ELSE told
  /\ IF pc = "pollNote" /\ result = "CLOSED"
     THEN /\ pc' = "entries" /\ win' = 0 /\ result' = "none"
          /\ UNCHANGED <<slot, ready, account, riskVars>>
     ELSE EndTick
  /\ UNCHANGED <<orders, cases, seen, intent, owned>>

-----------------------------------------------------------------------------
(* tick: the polls.                                                        *)

\* reconcile_close_intents.  A tick that gets to the position has no active intent, so
\* there is one at most.  One without an order is looked up by its client order id.
PollCloses ==
  /\ pc = "closes"
  /\ \/ /\ \A w \in Windows : ~ Active(w)
        /\ GoOn("entries") /\ UNCHANGED <<orders, ledger>>
     \/ \E w \in Windows : Active(w) /\ ObserveClose(w, "pollCase")

\* The broker does not answer, or the intent has no order: what follows halts the tick.
PollClosesInVain ==
  /\ pc = "closes"
  /\ \E w \in Windows : Active(w) /\ ObserveInVain(w, "pollCase")

\* active_entry_order_chains: from the claim on, until the case is managed or halts.
ActiveChain(w) == cases[w] \in {"CERTIFIED", "SUBMITTED"} /\ entry[w] # "none"

RecordEntry(w, status, outcome) ==
  /\ seen' = [seen EXCEPT ![w] = status]
  /\ cases' = [cases EXCEPT ![w] = AfterEvents(@, EntryEvents(@, outcome))]
  /\ UNCHANGED <<close, told, intent, owned>>

\* What the poll of an order that has not ended comes to.
Found(w) == IF entry[w] = "filled" THEN "FILLED" ELSE "SUBMITTED"

\* _reconcile_entry_orders: the chains are polled and recorded.  An order found working
\* goes on unless its deadline has passed and it is canceled; one that has ended, or a
\* claim without an order, halts, and what was polled with it is left to the next tick.
PollEntries ==
  /\ pc = "entries"
  /\ \/ /\ \A w \in Windows : ActiveChain(w) => entry[w] \in {"working", "filled"}
        /\ seen' = [w \in Windows |-> IF ActiveChain(w) THEN entry[w] ELSE seen[w]]
        /\ cases' = [w \in Windows |->
                      IF ActiveChain(w) THEN AfterEvents(cases[w], EntryEvents(cases[w], Found(w)))
                                        ELSE cases[w]]
        /\ GoOn("manage") /\ UNCHANGED <<orders, told, intent, owned>>
     \/ \E w \in Windows :
          /\ ActiveChain(w)
          /\ \/ /\ entry[w] \in {"working", "ended"}
                /\ entry' = [entry EXCEPT ![w] = "ended"]
                /\ RecordEntry(w, "ended", "CANCELED")
             \/ /\ entry[w] = "claimed" /\ UNCHANGED entry
                /\ RecordEntry(w, "none", "RECONCILE_REQUIRED")
          /\ EndTick

\* The broker does not answer, or its answers do not fit together: without an answer a
\* known order is of unknown state, and an order that is not found leaves no event.
PollEntriesInVain ==
  /\ pc = "entries"
  /\ \E w \in Windows, status \in {"none", "unknown", "filled"} :
       /\ ActiveChain(w)
       /\ status = "none" => seen[w] = "none"
       /\ status = "unknown" => entry[w] # "claimed"
       /\ status = "filled" => entry[w] = "filled"
       /\ RecordEntry(w, status, "RECONCILE_REQUIRED")
  /\ UNCHANGED entry /\ EndTick

-----------------------------------------------------------------------------
(* tick: the position.  There is one at most: no entry is submitted while  *)
(* another is open or working.                                             *)

\* Mutant: the operator's stop is not one of the exits.
ExitIsDueByTime(stop) == slot = ExitSlot

\* TIME_EXIT, and RISK_HALT by the operator; profit, loss, the account's limits and the
\* count of completed observations may close a position at any time.
ExitIsDue(stop) == slot = ExitSlot \/ stop

\* resolve_position_case_id: only a fill the ledger has seen has a case.
Resolved(w) == seen[w] = "filled"

Managing(w) == pc = "manage" /\ slot # ClosedSlot /\ OpenWindows = {w}

\* close: the intent is claimed, with the case as far as it is known now.
ClaimClose(w) ==
  /\ Managing(w) /\ intent[w] = "none"
  /\ intent' = [intent EXCEPT ![w] = "claimed"]
  /\ owned' = [owned EXCEPT ![w] = Resolved(w)]
  /\ UNCHANGED <<orders, cases, seen, told>> /\ TakeUp(w, "send")

\* PENDING_OWNER: a settled intent is never claimed again, and nothing is recorded.
ClosePending(w) ==
  /\ Managing(w) /\ intent[w] \in {"CLOSED", "REJECTED"}
  /\ UNCHANGED <<orders, ledger>> /\ EndTick

\* The broker accepts the close order, and the intent learns its id.
SubmitClose ==
  /\ pc = "send" /\ WorkingOrders = {}
  /\ close' = [close EXCEPT ![win] = "working"]
  /\ intent' = [intent EXCEPT ![win] = "working"]
  /\ UNCHANGED <<entry, cases, seen, told, owned>> /\ GoOn("close")

\* The broker accepts it, but its answer is lost, or the intent cannot be written.
SubmitCloseUnheard ==
  /\ pc = "send" /\ WorkingOrders = {}
  /\ close' = [close EXCEPT ![win] = "working"]
  /\ \E found \in {"NO_ORDER", "RECONCILE_REQUIRED"} : Conclude(win, found, "closeCase")
  /\ UNCHANGED <<entry, ledger>>

\* Another order is working, there is no quote, or the broker does not take the order:
\* the intent stays without one.
CloseFails ==
  /\ pc = "send"
  /\ Conclude(win, "NO_ORDER", "closeCase")
  /\ UNCHANGED <<orders, ledger>>

\* What close finds of its order.
FinishClose == pc = "close" /\ (ObserveClose(win, "closeCase") \/ ObserveInVain(win, "closeCase"))

\* _manage_position without a close: nothing is open, or nothing is due.
HoldPosition ==
  /\ pc = "manage" /\ slot # ClosedSlot
  /\ OpenWindows = {} \/ \E stop \in StopsRead : ~ ExitIsDue(stop)
  /\ GoOn("window") /\ UNCHANGED <<orders, ledger>>

\* The market is closed, or the position cannot be read.
ManageInVain ==
  /\ pc = "manage"
  /\ UNCHANGED <<orders, ledger>> /\ EndTick

-----------------------------------------------------------------------------
(* tick: the windows.                                                      *)

\* No window is due, the broker differs from the ledger, entries are disabled, the
\* gate or the broker cannot be read, or there is nothing to do in the window.
SkipWindow ==
  /\ pc = "window"
  /\ UNCHANGED <<orders, ledger>> /\ EndTick

\* RiskPolicy.evaluate on what the day has seen: nothing held or working, the cap, no
\* symbol twice.
DayAllows(w) ==
  /\ OpenWindows = {} /\ WorkingOrders = {}
  /\ Cardinality(EntriesToday) < MaxEntries
  /\ \A v \in EntriesToday : Underlying[v] # Underlying[w]

\* evaluate: the judge goes by the account and the day.  A case that halts here is as
\* dead as one refused.
Evaluate(w) ==
  /\ pc = "window" /\ slot = EvalSlot(w)
  /\ Consistent /\ EntriesEnabled
  /\ cases[w] = "SCHEDULED"
  /\ \E state \in {"CERTIFIED", "REFUSED"} :
       /\ state = "CERTIFIED" => DayAllows(w) /\ Baseline - equity < MaxDrawdown
       /\ cases' = [cases EXCEPT ![w] = state]
  /\ UNCHANGED <<orders, seen, told, intent, owned>> /\ EndTick

\* _execute_pending, as far as the call of execute.
OpenExecution(w) ==
  /\ pc = "window" /\ slot = ExecSlot(w)
  /\ Consistent /\ EntriesEnabled
  /\ cases[w] = "CERTIFIED"
  /\ UNCHANGED <<orders, ledger>> /\ TakeUp(w, "execute")

\* execute: the account is read before anything else.
ReadAccount ==
  /\ pc = "execute"
  /\ account' = equity /\ pc' = "policy"
  /\ UNCHANGED <<slot, ready, win, result, riskVars, orders, ledger>>

\* build and evaluate on that account, and the claim of the intent.  The day and the
\* peak are the worker's own and do not change meanwhile; the reads of positions and
\* orders are kept apart in EntryExecution.  That an account poorer than the certificate's
\* is refused is left out.
CheckPolicy ==
  /\ pc = "policy"
  /\ DayAllows(win)
  /\ RiskVerified /\ EntryDrawdown(account) < MaxDrawdown
  /\ entry' = [entry EXCEPT ![win] = "claimed"]
  /\ UNCHANGED <<close, ledger>> /\ GoOn("submit")

\* The broker accepts the entry order.
SubmitEntry ==
  /\ pc = "submit"
  /\ entry' = [entry EXCEPT ![win] = "working"]
  /\ UNCHANGED <<close, ledger>> /\ GoOn("observe")

\* The broker accepts it, and its answer is lost.
SubmitEntryUnheard ==
  /\ pc = "submit"
  /\ entry' = [entry EXCEPT ![win] = "working"]
  /\ RecordEntry(win, "none", "RECONCILE_REQUIRED") /\ EndTick

\* Refused by the policy, the quotes or the limits, not proven, or not accepted.
RefuseEntry ==
  /\ pc \in Executing
  /\ \E outcome \in {"REJECTED", "RECONCILE_REQUIRED"} : RecordEntry(win, "none", outcome)
  /\ UNCHANGED entry /\ EndTick

\* What execute finds of its order, and record_execution.
ObserveEntry ==
  /\ pc = "observe"
  /\ \/ entry[win] = "working" /\ RecordEntry(win, "working", "SUBMITTED")
     \/ entry[win] = "filled" /\ RecordEntry(win, "filled", "FILLED")
     \/ entry[win] = "ended" /\ RecordEntry(win, "ended", "CANCELED")
     \/ RecordEntry(win, "unknown", "RECONCILE_REQUIRED")
  /\ UNCHANGED entry /\ EndTick

-----------------------------------------------------------------------------
\* The worker dies and starts anew, or a write of the ledger fails and the tick halts:
\* what has been submitted and committed stays.
WorkerFails ==
  /\ pc # "idle" /\ fails < MaxFails
  /\ fails' = fails + 1
  /\ ready' \in {ready, FALSE}
  /\ pc' = "idle" /\ win' = 0 /\ account' = 0 /\ result' = "none"
  /\ UNCHANGED <<slot, orders, ledger, riskVars>>

WorkerNext ==
  /\ \/ \E ok \in BOOLEAN : Preflight(ok)
     \/ BeginTick
     \/ PollCloses \/ PollClosesInVain \/ RecordCase \/ RecordOrder
     \/ PollEntries \/ PollEntriesInVain
     \/ \E w \in Windows : ClaimClose(w) \/ ClosePending(w)
     \/ SubmitClose \/ SubmitCloseUnheard \/ CloseFails \/ FinishClose
     \/ HoldPosition \/ ManageInVain \/ SkipWindow
     \/ \E w \in Windows : Evaluate(w) \/ OpenExecution(w)
     \/ ReadAccount \/ CheckPolicy
     \/ SubmitEntry \/ SubmitEntryUnheard \/ RefuseEntry \/ ObserveEntry
  /\ UNCHANGED fails

\* What the operator last had written takes entries away.
EntriesTakenAway == ~ local \/ ~ entriesOn

\* The history.  "held": so it has been ever since this tick began.  "fit": so it was
\* at some moment since this execution began.
Follow(action) ==
  /\ action
  /\ held' = /\ EntriesTakenAway' /\ pc' # "idle"
             /\ held \/ (pc' = "closes" /\ pc # "closes")
  /\ fit' = (pc' \in Executing /\ (fit \/ ~ DrawnDown'))

Settled == result \in {"CLOSED", "REJECTED"}

Broker(action) == action /\ UNCHANGED <<operatorVars, riskVars, cut>>
Worker(action) == action /\ UNCHANGED <<operatorVars, cut>>

Next ==
  \/ Follow(OperatorNext /\ UNCHANGED <<riskVars, dayVars, cut>>)
  \/ Follow(EquityMoves /\ UNCHANGED <<operatorVars, dayVars, cut>>)
  \/ Follow(Broker(EntryEnds \/ CloseEnds \/ TimePasses))
  \/ Follow(Worker(WorkerNext))
  \/ Follow(/\ WorkerFails
            /\ cut' = IF pc \in Recording /\ Settled THEN cut \cup {win} ELSE cut
            /\ UNCHANGED operatorVars)

Spec == Init /\ [][Next]_vars

\* The worker's loop never stops; readiness, the polls and the claim of a close that is
\* due succeed again and again if they are tried again and again; a working close order
\* is filled or ends at last.  Nothing is promised of the steps after the claim.
FairSpec ==
  /\ Spec
  /\ WF_vars(Follow(Worker(WorkerNext)))
  /\ SF_vars(Follow(Worker(Preflight(TRUE) /\ UNCHANGED fails)))
  /\ SF_vars(Follow(Worker((PollCloses \/ PollEntries) /\ UNCHANGED fails)))
  /\ SF_vars(Follow(Worker(/\ ExitIsDue(stopActive) /\ UNCHANGED fails
                           /\ \E w \in Windows : ClaimClose(w))))
  /\ WF_vars(Follow(Broker(CloseEnds)))

-----------------------------------------------------------------------------
Accepted == {w \in Windows : entry[w] \notin {"none", "claimed"}}

AcceptsEntry == Accepted' # Accepted

\* "effective: next scheduler tick" (operator.py): a tick that begins while entries are
\* paused, stopped or disabled on the worker's host submits no entry, unless they are
\* enabled again before it is over, whatever the gate saw in an earlier tick.
PausedMeansNoEntry == [][AcceptsEntry => ~ held]_vars

\* Whatever the market does between the reading of the account and the order, and however
\* old the recorded drawdown is: no entry is accepted in whose whole execution the
\* account was MaxDrawdown or more below the highest equity on record, which is all that
\* is known after a refresh has lost its predecessor.
NoEntryInDrawdown == [][AcceptsEntry => fit]_vars

\* The entries of the day whose cases have not halted stay within the cap, also when
\* earlier positions are closed or their closes go unseen.
CapCountsLiveEntries ==
  Cardinality({w \in Accepted : cases[w] # "HALTED"}) <= MaxEntries

\* A position that is due, at the forced exit or by the operator's stop, is closed while
\* the exit stays due and the market open, whatever became of its case, of answers and
\* of the worker - or its close was lost between the claim and the order, or the broker
\* ended the order, and then the intent is in the way of another.
DueExitCloses ==
  LET due == OpenWindows # {} /\ (slot = ExitSlot \/ (stopActive /\ slot < ExitSlot))
  IN  due ~> \/ ~ due
             \/ \E w \in OpenWindows :
                  \/ intent[w] = "REJECTED"
                  \/ intent[w] = "claimed" /\ close[w] = "none" /\ pc = "idle"


\* lablab-draft.md: each decision becomes a replayable case file, from the evidence to
\* the order lifecycle and the reconciled result: a case that manages a position the
\* broker has closed comes to its end.
ManagedCaseEnds ==
  \A w \in Windows :
    (cases[w] = "MANAGING" /\ close[w] = "filled") ~> (cases[w] \in {"CLOSED", "HALTED"})
=============================================================================
