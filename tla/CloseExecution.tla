--------------------------- MODULE CloseExecution ---------------------------
(***************************************************************************)
(* ExecutionService.close and reconcile_close_intents: how the scheduler   *)
(* takes an open structure off, and what becomes of it when an order is    *)
(* rejected, an answer is lost or a process dies on the way.               *)
(*                                                                         *)
(* The close intent is keyed by the legs and the quantity held, and the    *)
(* client order id by the intent.  Every await is a step of its own.       *)
(***************************************************************************)
EXTENDS CaseStateMachine, Integers, FiniteSetsExt

CONSTANTS
  Processes,       \* scheduler processes
  Cases,           \* certified cases, each entered once
  Legs,            \* sets of four option symbols
  LegsOf,          \* the legs of each case's certificate
  Qty,             \* structures of an entry
  OrderIds,        \* ids the broker can give to close orders
  LateEntries,     \* whether an entry fills in parts, and is recorded some time later
  BrokerEnds,      \* whether the broker may reject or expire a working close order
  MaxFaults,       \* bound: failing calls
  MaxCrashes       \* bound: process crashes

ASSUME ConstantsAssumption ==
  /\ Legs # {} /\ LegsOf \in [Cases -> Legs]
  /\ Qty \in Nat \ {0}
  /\ {LateEntries, BrokerEnds} \subseteq BOOLEAN
  /\ MaxFaults \in Nat /\ MaxCrashes \in Nat

VARIABLES
  position,   \* broker: structures held of each set of legs
  order,      \* broker: the close orders
  entryLeft,  \* broker: what the entry order of the holder may yet fill
  entryFilled, \* broker: what it has filled
  caseState,  \* ledger: the case rows
  intent,     \* ledger: the close intent rows, by key
  holder,     \* the case that entered last
  due,        \* the exit rules say Close from now on (TIME_EXIT)
  pc,         \* per process: the next step of its tick
  todo,       \* per process: active intents read at the tick's start, yet to poll
  work,       \* per process: the intent it works on
  obs,        \* per process: the status it read of the order
  flat,       \* per process: whether it saw the legs flat
  results,    \* per process: results yet to record
  halt,       \* per process: a result was not CLOSED
  faults, crashes

broker == <<position, order, entryLeft, entryFilled>>
ledger == <<caseState, intent>>
entry == <<holder, due>>
locals == <<pc, todo, work, obs, flat, results, halt>>
counters == <<faults, crashes>>
vars == <<broker, ledger, entry, locals, counters>>

NoCase == "NO_CASE"
NoOrder == "NO_ORDER"

ASSUME NamesAssumption == NoCase \notin Cases /\ NoOrder \notin OrderIds

-----------------------------------------------------------------------------
(* Intents, orders and what a reading of an order means.                   *)

\* _close_intent_key: the legs with the quantity and side held.
Keys == Legs \X (1..Qty)

WorkingStates == {"NEW", "PARTIALLY_FILLED"}
OrderStates == WorkingStates \cup {"FILLED", "CANCELED", "REJECTED"}
SettledIntents == {"CLOSED", "REJECTED"}
IntentStates == {"NONE", "INTENT", "MANAGING", "RECONCILE_REQUIRED"} \cup SettledIntents

Working(o) == order[o].status \in WorkingStates
OrdersFor(k) == {o \in OrderIds : order[o].key = k /\ order[o].status # "NONE"}

Active(k) == intent[k].state \notin SettledIntents \cup {"NONE"}

NoRow == [state |-> "NONE", order |-> NoOrder, token |-> 0, leased |-> FALSE, case |-> NoCase]
AnyKey == CHOOSE k \in Keys : TRUE
NoWork == [key |-> AnyKey, order |-> NoOrder, token |-> 0,
           case |-> NoCase, given |-> NoCase, origin |-> "none"]

\* Mutant: the positions are not asked.
CloseOutcomeOfOrderAlone(status, isFlat) ==
  CASE status = "FILLED" -> "CLOSED"
    [] status \in {"REJECTED", "CANCELED", "PARTIALLY_FILLED"} -> "CLOSED"
    [] OTHER -> "MANAGING"

\* Mutant: the intent takes the order's status as its state.
CloseOutcomeVerbatim(status, isFlat) == status

\* What the order's status and the legs' positions, read after it, conclude.
CloseOutcome(status, isFlat) ==
  CASE status = "FILLED" -> IF isFlat THEN "CLOSED" ELSE "RECONCILE_REQUIRED"
    [] status \in {"REJECTED", "CANCELED"} -> "REJECTED"
    [] status = "PARTIALLY_FILLED" -> "RECONCILE_REQUIRED"
    [] status = "NEW" -> "MANAGING"

\* The cases with recorded fills of these legs: closed ones stay among them.  The case's
\* state stands for its record: one that halted counts as filled although its order may
\* not have been, and one still SUBMITTED counts as not filled although a part may be on
\* record.  A result for a halted case changes nothing, so only which of two cases with
\* the same legs is told a close may differ.
CasesWith(l) ==
  {c \in Cases : LegsOf[c] = l /\ caseState[c] \in {"MANAGING", "CLOSED", "HALTED"}}

\* resolve_position_case_id: the case, if it is the only one.
ResolvedCase(l) ==
  IF \E c \in Cases : CasesWith(l) = {c} THEN CHOOSE c \in Cases : CasesWith(l) = {c}
  ELSE NoCase

Init ==
  /\ position = [l \in Legs |-> 0]
  /\ order = [o \in OrderIds |-> [key |-> AnyKey, status |-> "NONE", filled |-> 0]]
  /\ entryLeft = 0
  /\ entryFilled = 0
  /\ caseState = [c \in Cases |-> "CERTIFIED"]
  /\ intent = [k \in Keys |-> NoRow]
  /\ holder = NoCase
  /\ due = FALSE
  /\ pc = [p \in Processes |-> "idle"]
  /\ todo = [p \in Processes |-> {}]
  /\ work = [p \in Processes |-> NoWork]
  /\ obs = [p \in Processes |-> "NONE"]
  /\ flat = [p \in Processes |-> FALSE]
  /\ results = [p \in Processes |-> {}]
  /\ halt = [p \in Processes |-> FALSE]
  /\ faults = 0
  /\ crashes = 0

-----------------------------------------------------------------------------
(* Control of a tick.                                                      *)

Goto(p, label) == pc' = [pc EXCEPT ![p] = label]

EndTick(p) ==
  /\ Goto(p, "idle")
  /\ todo' = [todo EXCEPT ![p] = {}]
  /\ work' = [work EXCEPT ![p] = NoWork]
  /\ obs' = [obs EXCEPT ![p] = "NONE"]
  /\ flat' = [flat EXCEPT ![p] = FALSE]
  /\ results' = [results EXCEPT ![p] = {}]
  /\ halt' = [halt EXCEPT ![p] = FALSE]

\* A result of the intent w: the poll goes on with the next intent, a close is
\* recorded at once.
Return(p, w, state) ==
  /\ results' = [results EXCEPT
                   ![p] = @ \cup {[key |-> w.key, case |-> w.case, state |-> state]}]
  /\ Goto(p, IF w.origin = "polled" THEN "poll" ELSE "closed")
  /\ work' = [work EXCEPT ![p] = NoWork]
  /\ obs' = [obs EXCEPT ![p] = "NONE"]
  /\ flat' = [flat EXCEPT ![p] = FALSE]
  /\ UNCHANGED halt

\* Go on with the intent w.
Continue(p, w, label) ==
  /\ work' = [work EXCEPT ![p] = w]
  /\ Goto(p, label)
  /\ UNCHANGED <<obs, flat, results, halt>>

Fault ==
  /\ faults < MaxFaults
  /\ faults' = faults + 1
  /\ UNCHANGED crashes

\* update_close_intent: compare-and-swap on the claim token.
Holds(w) == intent[w.key].token = w.token

Write(w, state, o) ==
  intent' = [intent EXCEPT ![w.key].state = state, ![w.key].leased = FALSE,
                           ![w.key].order = IF o = NoOrder THEN @ ELSE o]

-----------------------------------------------------------------------------
(* reconcile_close_intents.                                                *)

\* active_close_intents: one read, at the start of the tick.
ReadIntents(p) ==
  /\ pc[p] = "idle"
  /\ todo' = [todo EXCEPT
                ![p] = {[key |-> k, order |-> intent[k].order, token |-> intent[k].token,
                         case |-> intent[k].case, given |-> NoCase, origin |-> "polled"] :
                        k \in {j \in Keys : Active(j)}}]
  /\ Goto(p, "poll")
  /\ UNCHANGED <<broker, ledger, entry, work, obs, flat, results, halt, counters>>

PollKnown(p, w) ==
  /\ pc[p] = "poll" /\ w \in todo[p]
  /\ w.order # NoOrder
  /\ todo' = [todo EXCEPT ![p] = @ \ {w}]
  /\ Continue(p, w, "observe")
  /\ UNCHANGED <<broker, ledger, entry, counters>>

\* An intent without an order id: look for the client order id, adopt the order.
PollUnknown(p, w) ==
  /\ pc[p] = "poll" /\ w \in todo[p]
  /\ w.order = NoOrder
  /\ todo' = [todo EXCEPT ![p] = @ \ {w}]
  /\ \/ \E o \in OrdersFor(w.key) :
          IF Holds(w)
          THEN Write(w, "MANAGING", o) /\ Continue(p, [w EXCEPT !.order = o], "observe")
          ELSE Return(p, w, "RECONCILE_REQUIRED") /\ UNCHANGED intent
     \/ OrdersFor(w.key) = {} /\ Return(p, w, "RECONCILE_REQUIRED") /\ UNCHANGED intent
  /\ UNCHANGED <<broker, caseState, entry, counters>>

\* The lookup fails, which reads like an order that is not there.
PollLookupFails(p, w) ==
  /\ pc[p] = "poll" /\ w \in todo[p]
  /\ w.order = NoOrder
  /\ Fault
  /\ todo' = [todo EXCEPT ![p] = @ \ {w}]
  /\ Return(p, w, "RECONCILE_REQUIRED")
  /\ UNCHANGED <<broker, ledger, entry>>

\* _reconcile_close reads the order, then the positions, then writes.
ObserveOrder(p) ==
  /\ pc[p] = "observe"
  /\ obs' = [obs EXCEPT ![p] = order[work[p].order].status]
  /\ Goto(p, "positions")
  /\ UNCHANGED <<broker, ledger, entry, todo, work, flat, results, halt, counters>>

\* _target_positions_flat.
ObservePositions(p) ==
  /\ pc[p] = "positions"
  /\ flat' = [flat EXCEPT ![p] = (position[work[p].key[1]] = 0)]
  /\ Goto(p, "persist")
  /\ UNCHANGED <<broker, ledger, entry, todo, work, obs, results, halt, counters>>

ObserveFails(p) ==
  /\ pc[p] \in {"observe", "positions"}
  /\ Fault
  /\ Return(p, work[p], "RECONCILE_REQUIRED")
  /\ UNCHANGED <<broker, ledger, entry, todo>>

\* A write the claim token does not allow raises, and so ends the tick.  An order
\* just submitted that works is not written again.
Persist(p) ==
  LET outcome == CloseOutcome(obs[p], flat[p])
  IN  /\ pc[p] = "persist"
      /\ IF work[p].origin = "stored" /\ outcome = "MANAGING"
         THEN Return(p, work[p], outcome) /\ UNCHANGED <<todo, intent>>
         ELSE IF Holds(work[p])
         THEN /\ Write(work[p], outcome, work[p].order)
              /\ Return(p, work[p], outcome)
              /\ UNCHANGED todo
         ELSE EndTick(p) /\ UNCHANGED intent
      /\ UNCHANGED <<broker, caseState, entry, counters>>

\* record_close_result of each result; one that is not CLOSED ends the tick.
RecordedCase(r) ==
  IF r.case = NoCase THEN caseState
  ELSE [caseState EXCEPT ![r.case] = AfterEvents(@, CloseEvents(@, r.state))]

RecordPolled(p, r) ==
  /\ pc[p] = "poll" /\ todo[p] = {} /\ r \in results[p]
  /\ caseState' = RecordedCase(r)
  /\ results' = [results EXCEPT ![p] = @ \ {r}]
  /\ halt' = [halt EXCEPT ![p] = @ \/ r.state # "CLOSED"]
  /\ UNCHANGED <<broker, intent, entry, pc, todo, work, obs, flat, counters>>

Polled(p) ==
  /\ pc[p] = "poll" /\ todo[p] = {} /\ results[p] = {}
  /\ IF halt[p] THEN EndTick(p)
     ELSE Goto(p, "manage") /\ UNCHANGED <<todo, work, obs, flat, results, halt>>
  /\ UNCHANGED <<broker, ledger, entry, counters>>

RecordClose(p, r) ==
  /\ pc[p] = "closed" /\ r \in results[p]
  /\ caseState' = RecordedCase(r)
  /\ EndTick(p)
  /\ UNCHANGED <<broker, intent, entry, counters>>

\* The ledger refuses the record.
RecordFails(p) ==
  /\ pc[p] \in {"poll", "closed"} /\ todo[p] = {} /\ results[p] # {}
  /\ Fault
  /\ EndTick(p)
  /\ UNCHANGED <<broker, ledger, entry>>

-----------------------------------------------------------------------------
(* _manage_position and close.                                             *)

Flat == \A l \in Legs : position[l] = 0

\* Nothing is held, or the position manager holds it.
Hold(p) ==
  /\ pc[p] = "manage"
  /\ Flat \/ ~ due
  /\ EndTick(p)
  /\ UNCHANGED <<broker, ledger, entry, counters>>

\* The position manager closes what the snapshot holds: TIME_EXIT when due, any
\* other rule at any time.
Exit(p, l) ==
  /\ pc[p] = "manage"
  /\ position[l] \in 1..Qty
  /\ Continue(p, [NoWork EXCEPT !.key = <<l, position[l]>>], "claim")
  /\ UNCHANGED <<broker, ledger, entry, todo, counters>>

\* The snapshot fails.
SnapshotFails(p) ==
  /\ pc[p] = "manage"
  /\ Fault
  /\ EndTick(p)
  /\ UNCHANGED <<broker, ledger, entry>>

\* Mutant: a settled intent can be claimed again.
ClaimableAlways(k) == ~ intent[k].leased

\* create_or_claim_close_intent: every close brings a fresh token.
Claimable(k) == intent[k].state = "NONE" \/ (Active(k) /\ ~ intent[k].leased)

Claim(p) ==
  LET k     == work[p].key
      case  == ResolvedCase(k[1])
      row   == intent[k]
      owner == IF row.case # NoCase THEN row.case ELSE case
  IN  /\ pc[p] = "claim"
      /\ IF Claimable(k)
         THEN /\ intent' = [intent EXCEPT
                              ![k].state = IF @ = "NONE" THEN "INTENT" ELSE @,
                              ![k].token = @ + 1, ![k].leased = TRUE, ![k].case = owner]
              /\ Continue(p, [work[p] EXCEPT !.token = row.token + 1, !.order = row.order,
                                             !.case = owner, !.given = case, !.origin = "found"],
                          IF row.order = NoOrder THEN "lookup" ELSE "observe")
              /\ UNCHANGED todo
         ELSE EndTick(p) /\ UNCHANGED intent    \* PENDING_OWNER
      /\ UNCHANGED <<broker, caseState, entry, counters>>

\* No earlier order: from here on close returns the case it was given, not the row's.
NotSubmitted(p) == Continue(p, [work[p] EXCEPT !.case = work[p].given], "orders")

\* An earlier submission may have succeeded: adopt its order.
LookUp(p) ==
  /\ pc[p] = "lookup"
  /\ \/ \E o \in OrdersFor(work[p].key) :
          IF Holds(work[p])
          THEN /\ Write(work[p], "MANAGING", o)
               /\ Continue(p, [work[p] EXCEPT !.order = o], "observe")
          ELSE Return(p, work[p], "RECONCILE_REQUIRED") /\ UNCHANGED intent
     \/ /\ OrdersFor(work[p].key) = {}
        /\ NotSubmitted(p)
        /\ UNCHANGED intent
  /\ UNCHANGED <<broker, caseState, entry, todo, counters>>

LookUpFails(p) ==
  /\ pc[p] = "lookup"
  /\ Fault
  /\ NotSubmitted(p)
  /\ UNCHANGED <<broker, ledger, entry, todo>>

AnyWorking == entryLeft > 0 \/ \E o \in OrderIds : Working(o)

\* Mutant: the close is submitted next to working orders.
CheckOrdersSkipped(p) ==
  /\ pc[p] = "orders"
  /\ Continue(p, work[p], "price")
  /\ UNCHANGED <<broker, ledger, entry, todo, counters>>

\* Any working order, an entry's too, keeps the close from being submitted.
CheckOrders(p) ==
  /\ pc[p] = "orders"
  /\ IF ~ AnyWorking THEN Continue(p, work[p], "price") /\ UNCHANGED <<todo, intent>>
     ELSE IF Holds(work[p])
     THEN /\ Write(work[p], "RECONCILE_REQUIRED", NoOrder)
          /\ Return(p, work[p], "RECONCILE_REQUIRED")
          /\ UNCHANGED todo
     ELSE EndTick(p) /\ UNCHANGED intent
  /\ UNCHANGED <<broker, caseState, entry, counters>>

OrdersFail(p) ==
  /\ pc[p] = "orders"
  /\ Fault
  /\ Return(p, work[p], "RECONCILE_REQUIRED")
  /\ UNCHANGED <<broker, ledger, entry, todo>>

\* _close_limit_price from current quotes.
Price(p) ==
  /\ pc[p] = "price"
  /\ Continue(p, work[p], "submit")
  /\ UNCHANGED <<broker, ledger, entry, todo, counters>>

PriceFails(p) ==
  /\ pc[p] = "price"
  /\ Fault
  /\ IF Holds(work[p])
     THEN /\ Write(work[p], "INTENT", NoOrder)
          /\ Return(p, work[p], "RECONCILE_REQUIRED")
          /\ UNCHANGED todo
     ELSE EndTick(p) /\ UNCHANGED intent
  /\ UNCHANGED <<broker, caseState, entry>>

\* The broker takes an order to close what is held, once per client order id.
BrokerAccepts(k) ==
  /\ position[k[1]] >= k[2]
  /\ OrdersFor(k) = {}

Placed(k, o) ==
  /\ BrokerAccepts(k)
  /\ order[o].status = "NONE"
  /\ order' = [order EXCEPT ![o] = [key |-> k, status |-> "NEW", filled |-> 0]]

Submit(p, o) ==
  /\ pc[p] = "submit"
  /\ Placed(work[p].key, o)
  /\ Continue(p, [work[p] EXCEPT !.order = o], "store")
  /\ UNCHANGED <<position, entryLeft, entryFilled, ledger, entry, todo, counters>>

SubmitAnswerLost(p, o) ==
  /\ pc[p] = "submit"
  /\ Fault
  /\ Placed(work[p].key, o)
  /\ Return(p, work[p], "RECONCILE_REQUIRED")
  /\ UNCHANGED <<position, entryLeft, entryFilled, ledger, entry, todo>>

\* The broker refuses the order, or it never arrives.
SubmitRefused(p) ==
  /\ pc[p] = "submit"
  /\ IF BrokerAccepts(work[p].key) THEN Fault ELSE UNCHANGED counters
  /\ Return(p, work[p], "RECONCILE_REQUIRED")
  /\ UNCHANGED <<broker, ledger, entry, todo>>

Store(p) ==
  /\ pc[p] = "store"
  /\ IF Holds(work[p])
     THEN /\ Write(work[p], "MANAGING", work[p].order)
          /\ Continue(p, [work[p] EXCEPT !.origin = "stored"], "observe")
     ELSE Return(p, work[p], "RECONCILE_REQUIRED") /\ UNCHANGED intent
  /\ UNCHANGED <<broker, caseState, entry, todo, counters>>

\* The process dies.
Crash(p) ==
  /\ pc[p] # "idle"
  /\ crashes < MaxCrashes
  /\ crashes' = crashes + 1
  /\ EndTick(p)
  /\ UNCHANGED <<broker, ledger, entry, faults>>

LeaseExpires(k) ==
  /\ intent[k].leased
  /\ intent' = [intent EXCEPT ![k].leased = FALSE]
  /\ UNCHANGED <<broker, caseState, entry, locals, counters>>

-----------------------------------------------------------------------------
(* Entries, the broker and the clock.  An entry of EntryExecution is one    *)
(* order here, with no replacement.                                        *)

\* The tick of an execution minute submits an entry: it found no active close intent, and
\* reconciliation and preflight nothing held and nothing working.  Their reads are one
\* step here; what comes between them is in EntryExecution and TradingDay, and what the
\* order events make the reconciliation expect in TradingDay.
Enter(p, c) ==
  /\ pc[p] = "manage"
  /\ caseState[c] = "CERTIFIED"
  /\ Flat /\ ~ AnyWorking
  /\ \A k \in Keys : ~ Active(k)
  /\ entryLeft' = Qty
  /\ entryFilled' = 0
  /\ caseState' = [caseState EXCEPT ![c] = "SUBMITTED"]
  /\ holder' = c
  /\ due' = FALSE
  /\ EndTick(p)
  /\ UNCHANGED <<position, order, intent, counters>>

\* The entry fills; without LateEntries whole, and recorded before the next tick.
EntryFills(n) ==
  /\ n <= entryLeft
  /\ LateEntries \/ n = Qty
  /\ entryLeft' = entryLeft - n
  /\ entryFilled' = entryFilled + n
  /\ position' = [position EXCEPT ![LegsOf[holder]] = @ + n]
  /\ caseState' = IF LateEntries THEN caseState ELSE [caseState EXCEPT ![holder] = "MANAGING"]
  /\ UNCHANGED <<order, intent, entry, locals, counters>>

EntryDies ==
  /\ LateEntries
  /\ entryLeft > 0
  /\ entryLeft' = 0
  /\ UNCHANGED <<position, order, entryFilled, ledger, entry, locals, counters>>

\* A poll of the entry order records what it saw, by now or earlier.
EntryRecorded ==
  /\ LateEntries
  /\ holder # NoCase /\ caseState[holder] = "SUBMITTED"
  /\ \E outcome \in {"FILLED", "RECONCILE_REQUIRED"} :
       /\ outcome = "FILLED" => entryFilled = Qty
       /\ caseState' = [caseState EXCEPT ![holder] = AfterEvents(@, EntryEvents(@, outcome))]
  /\ UNCHANGED <<broker, intent, entry, locals, counters>>

\* One more structure of a close order fills.
Fill(o) ==
  LET k == order[o].key
      n == order[o].filled + 1
  IN  /\ Working(o)
      /\ order' = [order EXCEPT ![o].filled = n,
                                ![o].status = IF n = k[2] THEN "FILLED" ELSE "PARTIALLY_FILLED"]
      /\ position' = [position EXCEPT ![k[1]] = @ - 1]
      /\ UNCHANGED <<entryLeft, entryFilled, ledger, entry, locals, counters>>

\* The broker rejects the order, or its day ends.
Die(o) ==
  /\ BrokerEnds
  /\ Working(o)
  /\ \E status \in {"CANCELED", "REJECTED"} : order' = [order EXCEPT ![o].status = status]
  /\ UNCHANGED <<position, entryLeft, entryFilled, ledger, entry, locals, counters>>

ExitDue ==
  /\ holder # NoCase
  /\ ~ due
  /\ due' = TRUE
  /\ UNCHANGED <<broker, ledger, holder, locals, counters>>

-----------------------------------------------------------------------------
Step(p) ==
  \/ ReadIntents(p)
  \/ \E w \in todo[p] : PollKnown(p, w) \/ PollUnknown(p, w) \/ PollLookupFails(p, w)
  \/ ObserveOrder(p) \/ ObservePositions(p) \/ ObserveFails(p) \/ Persist(p)
  \/ \E r \in results[p] : RecordPolled(p, r) \/ RecordClose(p, r)
  \/ Polled(p) \/ RecordFails(p)
  \/ Hold(p) \/ \E c \in Cases : Enter(p, c)
  \/ SnapshotFails(p) \/ \E l \in Legs : Exit(p, l)
  \/ Claim(p) \/ LookUp(p) \/ LookUpFails(p) \/ CheckOrders(p) \/ OrdersFail(p)
  \/ Price(p) \/ PriceFails(p)
  \/ \E o \in OrderIds : Submit(p, o) \/ SubmitAnswerLost(p, o)
  \/ SubmitRefused(p) \/ Store(p)

Environment ==
  \/ \E n \in 1..Qty : EntryFills(n)
  \/ EntryDies \/ EntryRecorded
  \/ \E o \in OrderIds : Fill(o) \/ Die(o)
  \/ \E k \in Keys : LeaseExpires(k)
  \/ ExitDue

Next ==
  \/ \E p \in Processes : Step(p) \/ Crash(p)
  \/ Environment

Spec == Init /\ [][Next]_vars

\* Ticks go on for ever, and the broker fills what works.
Fairness ==
  /\ \A p \in Processes : WF_vars(Step(p))
  /\ \A o \in OrderIds : WF_vars(Fill(o))
  /\ WF_vars(EntryDies)

FairSpec == Spec /\ Fairness

-----------------------------------------------------------------------------
(* Properties.                                                             *)

WorkType == [key : Keys, order : OrderIds \cup {NoOrder}, token : Nat,
             case : Cases \cup {NoCase}, given : Cases \cup {NoCase},
             origin : {"none", "polled", "found", "stored"}]

TypeOK ==
  /\ position \in [Legs -> Int]
  /\ order \in [OrderIds -> [key : Keys, status : OrderStates \cup {"NONE"}, filled : 0..Qty]]
  /\ entryLeft \in 0..Qty /\ entryFilled \in 0..Qty
  /\ caseState \in [Cases -> CaseStates]
  /\ intent \in [Keys -> [state : IntentStates, order : OrderIds \cup {NoOrder}, token : Nat,
                          leased : BOOLEAN, case : Cases \cup {NoCase}]]
  /\ holder \in Cases \cup {NoCase}
  /\ due \in BOOLEAN
  /\ pc \in [Processes -> {"idle", "poll", "observe", "positions", "persist", "closed",
                           "manage", "claim", "lookup", "orders", "price", "submit", "store"}]
  /\ \A p \in Processes :
       /\ todo[p] \subseteq WorkType
       /\ work[p] \in WorkType
       /\ results[p] \subseteq [key : Keys, case : Cases \cup {NoCase}, state : CloseOutcomes]
  /\ obs \in [Processes -> OrderStates \cup {"NONE"}]
  /\ flat \in [Processes -> BOOLEAN]
  /\ halt \in [Processes -> BOOLEAN]
  /\ faults \in 0..MaxFaults
  /\ crashes \in 0..MaxCrashes

\* No structure is closed twice: whatever two processes, lost answers, part fills
\* and a position read long before the submission do, what is held never turns
\* into its opposite.
NeverOverclosed == \A l \in Legs : position[l] >= 0

\* A case recorded as CLOSED holds nothing.
ClosedCaseIsFlat ==
  \A c \in Cases : caseState[c] = "CLOSED" /\ holder = c => position[LegsOf[c]] = 0

\* A settled close intent is never written again: no claim, no late poll, no
\* restart gives it another order or state (with one scheduler process).
SettledStays ==
  [][\A k \in Keys : intent[k].state \in SettledIntents => intent'[k] = intent[k]]_vars

\* "Positions are force-flat" (README.md): from the moment the exit rules want the
\* position closed, it becomes flat.
ForcedFlat == due ~> Flat
=============================================================================
