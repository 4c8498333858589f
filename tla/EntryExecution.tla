--------------------------- MODULE EntryExecution ---------------------------
(***************************************************************************)
(* ExecutionService.execute and reconcile_entry_orders against a broker    *)
(* that fills, replaces and cancels orders whenever it likes.              *)
(*                                                                         *)
(* Processes share a ledger (case rows, entry intents, the latest recorded *)
(* observation of each order) and a broker.  Every await of the code is a  *)
(* step of its own, so orders change between a read and its use, between   *)
(* two reads of one observation, and between a mutation and its record.    *)
(***************************************************************************)
EXTENDS CaseStateMachine, Naturals, FiniteSetsExt

CONSTANTS
  Processes,     \* scheduler processes; each runs one tick at a time
  Certs,         \* certificates, each the certificate of one case
  OrderIds,      \* ids the broker can give to orders
  Qty,           \* structures a certificate is for
  ReplaceNow,    \* REPLACE_AFTER = 0: execute replaces a working order at once
  Faults,        \* whether broker calls may fail or lose their answer
  UniqueClientIds,  \* whether the broker refuses a client order id it has seen
  MaxExecutes,   \* executions of one certificate; DecisionWindows proves 1
  MaxCrashes     \* bound: process crashes

ASSUME ConstantsAssumption ==
  /\ Qty \in Nat \ {0}
  /\ ReplaceNow \in BOOLEAN
  /\ Faults \in BOOLEAN
  /\ UniqueClientIds \in BOOLEAN
  /\ MaxExecutes \in Nat
  /\ MaxCrashes \in Nat

VARIABLES
  order,      \* broker: the state of each order
  caseState,  \* ledger: the case row of each certificate
  intent,     \* ledger: the entry intent of each certificate
  seen,       \* ledger: the newest order event of each order
  deadline,   \* the 90 s after the claim: "unset", "running" or "passed"
  pc,         \* per process: the next step of its tick
  cert,       \* per process: the certificate it works on
  phase,      \* per process: what its observation is for
  ids,        \* per process: the order ids it follows
  obs,        \* per process: what it read of each order
  todo,       \* per process: working orders it has yet to cancel
  late,       \* per process: the tick's "now" is past the deadline
  out,        \* per process: the outcome it is about to record
  executes,   \* how often each certificate was executed
  crashes     \* crashes so far

broker == <<order>>
ledger == <<caseState, intent, seen>>
locals == <<pc, cert, phase, ids, obs, todo, late, out>>
counters == <<executes, crashes>>
vars == <<broker, ledger, deadline, locals, counters>>

NoCert == "NO_CERT"
NoOrder == "NO_ORDER"
NoProcess == "NO_PROCESS"   \* a claim token no running execution holds

ASSUME NoneAssumption == NoCert \notin Certs /\ NoOrder \notin OrderIds

-----------------------------------------------------------------------------
(* Order statuses and what the service makes of them.                      *)

PendingRequests == {"PENDING_NEW", "PENDING_REPLACE", "PENDING_CANCEL"}
WorkingStates == {"NEW", "PARTIALLY_FILLED"} \cup PendingRequests
TerminalStates == {"FILLED", "CANCELED", "REJECTED", "REPLACED"}
OrderStates == WorkingStates \cup TerminalStates

Reading == [status : OrderStates \cup {"NONE", "UNKNOWN"}, filled : Nat]
Nothing == [status |-> "NONE", filled |-> 0]
Unknown == [status |-> "UNKNOWN", filled |-> 0]

Working(o) == order[o].status \in WorkingStates

OfStatus(rows, read, states) == {o \in rows : read[o].status \in states}

\* _is_working includes partial fills, _is_partial is that status alone.
WorkingRows(rows, read) == OfStatus(rows, read, WorkingStates)
\* Mutant: any fill counts as filled.
FilledRowsAnyStatus(rows, read) == {o \in rows : read[o].filled > 0}
FilledRows(rows, read) == {o \in OfStatus(rows, read, {"FILLED"}) : read[o].filled > 0}
PartialRows(rows, read) == OfStatus(rows, read, {"PARTIALLY_FILLED"})
RejectedRows(rows, read) == OfStatus(rows, read, {"REJECTED"})
\* Mutant: a requested cancel counts as canceled.
CanceledRowsEarly(rows, read) == OfStatus(rows, read, {"CANCELED", "PENDING_CANCEL"})
CanceledRows(rows, read) == OfStatus(rows, read, {"CANCELED"})

\* _decide: the outcome an observation of the chain settles, or "NONE".
Decision(rows, read) ==
  LET filled   == FilledRows(rows, read)
      partial  == PartialRows(rows, read)
      working  == WorkingRows(rows, read)
      rejected == RejectedRows(rows, read)
      canceled == CanceledRows(rows, read)
  IN  CASE filled # {} ->
             IF (\E o \in filled : filled = {o}) /\ partial = {} /\ working = {}
             THEN "FILLED" ELSE "RECONCILE_REQUIRED"
        [] filled = {} /\ partial # {} -> "RECONCILE_REQUIRED"
        [] filled = {} /\ partial = {} /\ rejected # {} ->
             IF working = {} /\ canceled = {} THEN "REJECTED" ELSE "RECONCILE_REQUIRED"
        [] OTHER ->
             IF canceled # {} /\ canceled = rows THEN "CANCELED"
             ELSE IF working = {} THEN "RECONCILE_REQUIRED" ELSE "NONE"

\* The four kinds of observation and what each concludes.
Cancels(ph, isLate, rows, read) ==
  /\ WorkingRows(rows, read) # {}
  /\ \/ ph = "replaced" /\ FilledRows(rows, read) # {}
     \/ ph = "polled" /\ (isLate \/ FilledRows(rows, read) # {})

Replaces(ph, rows, read) ==
  ph = "submitted" /\ ReplaceNow /\ Decision(rows, read) = "NONE"

Conclusion(ph, rows, read) ==
  IF Decision(rows, read) # "NONE" THEN Decision(rows, read)
  ELSE CASE ph \in {"submitted", "adopted"} -> "SUBMITTED"
         [] ph = "replaced" -> "REPLACED"
         [] ph = "polled" /\ WorkingRows(rows, read) = rows -> "SUBMITTED"
         [] OTHER -> "RECONCILE_REQUIRED"

-----------------------------------------------------------------------------
(* State.                                                                  *)

IntentStates == {"NONE", "INTENT", "SUBMITTED", "FILLED", "CANCELED", "REJECTED"}
ClosedIntents == {"FILLED", "CANCELED", "REJECTED"}

PcStates ==
  {"idle", "checked", "preflight", "orders", "policy", "claim", "submit",
   "persist", "find", "observe", "replace", "cancel", "record"}

Phases == {"none", "submitted", "adopted", "replaced", "raced", "polled", "canceled"}

Init ==
  /\ order = [o \in OrderIds |-> [cert |-> NoCert, status |-> "NONE", qty |-> 0,
                                  filled |-> 0, replaces |-> NoOrder]]
  /\ caseState = [c \in Certs |-> "CERTIFIED"]
  /\ intent = [c \in Certs |-> [state |-> "NONE", ids |-> {}, token |-> NoProcess,
                                leased |-> FALSE]]
  /\ seen = [o \in OrderIds |-> Nothing]
  /\ deadline = [c \in Certs |-> "unset"]
  /\ pc = [p \in Processes |-> "idle"]
  /\ cert = [p \in Processes |-> NoCert]
  /\ phase = [p \in Processes |-> "none"]
  /\ ids = [p \in Processes |-> {}]
  /\ obs = [p \in Processes |-> [o \in OrderIds |-> Nothing]]
  /\ todo = [p \in Processes |-> {}]
  /\ late = [p \in Processes |-> FALSE]
  /\ out = [p \in Processes |-> "NONE"]
  /\ executes = [c \in Certs |-> 0]
  /\ crashes = 0

Goto(p, label) == pc' = [pc EXCEPT ![p] = label]

EndTick(p) ==
  /\ Goto(p, "idle")
  /\ cert' = [cert EXCEPT ![p] = NoCert]
  /\ phase' = [phase EXCEPT ![p] = "none"]
  /\ ids' = [ids EXCEPT ![p] = {}]
  /\ obs' = [obs EXCEPT ![p] = [o \in OrderIds |-> Nothing]]
  /\ todo' = [todo EXCEPT ![p] = {}]
  /\ late' = [late EXCEPT ![p] = FALSE]
  /\ out' = [out EXCEPT ![p] = "NONE"]

\* _record without an observation: only the ids are known.
FinishBlind(p, outcome) ==
  /\ Goto(p, "record")
  /\ out' = [out EXCEPT ![p] = outcome]
  /\ obs' = [obs EXCEPT ![p] = [o \in OrderIds |-> Nothing]]
  /\ UNCHANGED <<cert, phase, ids, todo, late>>

\* Start observing a set of orders.
BeginObserve(p, ph, orders) ==
  /\ Goto(p, "observe")
  /\ phase' = [phase EXCEPT ![p] = ph]
  /\ ids' = [ids EXCEPT ![p] = orders]
  /\ obs' = [obs EXCEPT ![p] = [o \in OrderIds |-> Nothing]]
  /\ todo' = [todo EXCEPT ![p] = {}]
  /\ UNCHANGED <<cert, late, out>>

-----------------------------------------------------------------------------
(* The scheduler's reconciliation and the preflight of execute.            *)

OpenOrders == {o \in OrderIds : Working(o)}
Held == {o \in OrderIds : order[o].filled > 0}

ExpectedOrders == {o \in OrderIds : seen[o].status \in WorkingStates}

\* active_entry_order_chains: the certificates it returns, with the ids of the
\* intent and of the recorded order events.
ChainIds(c) ==
  intent[c].ids \cup {o \in OrderIds : order[o].cert = c /\ seen[o] # Nothing}

\* Mutant: only chains of submitted cases are polled.
ActiveChainSubmittedOnly(c) == caseState[c] = "SUBMITTED" /\ ChainIds(c) # {}

ActiveChain(c) ==
  /\ caseState[c] \in {"CERTIFIED", "SUBMITTED"}
  /\ \/ intent[c].state \notin ClosedIntents \cup {"NONE"}
     \/ ChainIds(c) # {}

\* A tick that gets to an execution has polled every chain without ending, and
\* windows are further apart than the 90 s of a deadline and than a broker takes
\* to carry out a request: no chain is left active, no request pending.
\* reconcile() then reads the open orders.
CheckOrders(p, c) ==
  /\ pc[p] = "idle"
  /\ caseState[c] = "CERTIFIED"
  /\ \A d \in Certs : ~ ActiveChain(d)
  /\ \A d \in Certs \ {c} : deadline[d] # "running"
  /\ \A o \in OpenOrders : order[o].cert = c \/ order[o].status \notin PendingRequests
  /\ Goto(p, "checked")
  /\ cert' = [cert EXCEPT ![p] = c]
  /\ ids' = [ids EXCEPT ![p] = OpenOrders]
  /\ UNCHANGED <<broker, ledger, deadline, phase, obs, todo, late, out, counters>>

\* ... then the positions, then the ledger: the orders must be the recorded
\* working ones and the positions the recorded fills.  The lease of the window
\* and its certificate follow (DecisionWindows).
CheckPositions(p) ==
  /\ pc[p] = "checked"
  /\ IF /\ ids[p] = ExpectedOrders
        /\ \A o \in OrderIds : seen[o].filled = order[o].filled
        /\ executes[cert[p]] < MaxExecutes
     THEN /\ Goto(p, "preflight")
          /\ ids' = [ids EXCEPT ![p] = {}]
          /\ executes' = [executes EXCEPT ![cert[p]] = @ + 1]
          /\ UNCHANGED <<cert, phase, obs, todo, late, out>>
     ELSE EndTick(p) /\ UNCHANGED executes
  /\ UNCHANGED <<broker, ledger, deadline, crashes>>

\* Mutant: the preflight ignores the positions.
PreflightPositionsSkipped(p) ==
  /\ pc[p] = "preflight"
  /\ Goto(p, "orders")
  /\ UNCHANGED <<cert, phase, ids, obs, todo, late, out>>
  /\ UNCHANGED <<broker, ledger, deadline, counters>>

\* _preflight reads the positions, then the orders; either refuses the entry.
PreflightPositions(p) ==
  /\ pc[p] = "preflight"
  /\ IF Held = {}
     THEN Goto(p, "orders") /\ UNCHANGED <<cert, phase, ids, obs, todo, late, out>>
     ELSE FinishBlind(p, "RECONCILE_REQUIRED")
  /\ UNCHANGED <<broker, ledger, deadline, counters>>

PreflightOrders(p) ==
  /\ pc[p] = "orders"
  /\ IF OpenOrders = {}
     THEN Goto(p, "policy") /\ UNCHANGED <<cert, phase, ids, obs, todo, late, out>>
     ELSE FinishBlind(p, "RECONCILE_REQUIRED")
  /\ UNCHANGED <<broker, ledger, deadline, counters>>

\* The certificate has expired, a read fails, a quote is stale, the risk policy
\* says no: an outcome without an order.
Refuse(p, outcome) ==
  /\ pc[p] \in {"preflight", "orders", "policy"}
  /\ FinishBlind(p, outcome)
  /\ UNCHANGED <<broker, ledger, deadline, counters>>

Allow(p) ==
  /\ pc[p] = "policy"
  /\ Goto(p, "claim")
  /\ UNCHANGED <<broker, ledger, deadline, cert, phase, ids, obs, todo, late, out, counters>>

-----------------------------------------------------------------------------
(* Claim, submit, persist.                                                 *)

\* create_or_claim_entry_intent: every execution brings a fresh token, so only
\* a new intent or one whose lease is gone can be claimed.
Claimable(c) ==
  \/ intent[c].state = "NONE"
  \/ intent[c].state \notin ClosedIntents /\ ~ intent[c].leased

Claim(p) ==
  LET c == cert[p]
  IN  /\ pc[p] = "claim"
      /\ Claimable(c)
      /\ intent' = [intent EXCEPT
                      ![c].state = IF @ = "NONE" THEN "INTENT" ELSE @,
                      ![c].token = p, ![c].leased = TRUE]
      /\ deadline' = [deadline EXCEPT ![c] = IF @ = "unset" THEN "running" ELSE @]
      /\ IF intent[c].ids = {}
         THEN Goto(p, "submit") /\ UNCHANGED <<cert, phase, ids, obs, todo, late, out>>
         ELSE BeginObserve(p, "adopted", intent[c].ids)
      /\ UNCHANGED <<broker, caseState, seen, counters>>

ClaimLost(p) ==
  /\ pc[p] = "claim"
  /\ ~ Claimable(cert[p])
  /\ Goto(p, "record")
  /\ out' = [out EXCEPT ![p] = "RECONCILE_REQUIRED"]
  /\ ids' = [ids EXCEPT ![p] = intent[cert[p]].ids]
  /\ UNCHANGED <<broker, ledger, deadline, cert, phase, obs, todo, late, counters>>

NewOrder(c, quantity, status, old) ==
  [cert |-> c, status |-> status, qty |-> quantity, filled |-> 0, replaces |-> old]

\* The broker has seen the client order id derived from the certificate.
ClientIdSeen(c) == \E o \in OrderIds : order[o].cert = c /\ order[o].replaces = NoOrder

\* Mutant: every submission has a client order id of its own.
BrokerAcceptsFreshId(c) == TRUE

BrokerAccepts(c) == ~ (UniqueClientIds /\ ClientIdSeen(c))

\* submit_mleg: the order is accepted and the answer arrives.
Submit(p, o) ==
  /\ pc[p] = "submit"
  /\ order[o].status = "NONE"
  /\ BrokerAccepts(cert[p])
  /\ order' = [order EXCEPT ![o] = NewOrder(cert[p], Qty, "NEW", NoOrder)]
  /\ Goto(p, "persist")
  /\ ids' = [ids EXCEPT ![p] = {o}]
  /\ UNCHANGED <<ledger, deadline, cert, phase, obs, todo, late, out, counters>>

\* The order is accepted but the call raises.
SubmitAnswerLost(p, o) ==
  /\ pc[p] = "submit"
  /\ Faults
  /\ order[o].status = "NONE"
  /\ BrokerAccepts(cert[p])
  /\ order' = [order EXCEPT ![o] = NewOrder(cert[p], Qty, "NEW", NoOrder)]
  /\ FinishBlind(p, "RECONCILE_REQUIRED")
  /\ UNCHANGED <<ledger, deadline, counters>>

\* The broker refuses the order, or it never arrives.
SubmitRefused(p) ==
  /\ pc[p] = "submit"
  /\ Faults \/ ~ BrokerAccepts(cert[p])
  /\ FinishBlind(p, "RECONCILE_REQUIRED")
  /\ UNCHANGED <<broker, ledger, deadline, counters>>

\* update_entry_intent: compare-and-swap on the claim token.
Persist(p) ==
  LET c == cert[p]
  IN  /\ pc[p] = "persist"
      /\ IF intent[c].token = p
         THEN /\ intent' = [intent EXCEPT ![c].state = "SUBMITTED", ![c].ids = ids[p],
                                          ![c].leased = FALSE]
              /\ BeginObserve(p, "submitted", ids[p])
         ELSE FinishBlind(p, "RECONCILE_REQUIRED") /\ UNCHANGED intent
      /\ UNCHANGED <<broker, caseState, seen, deadline, counters>>

-----------------------------------------------------------------------------
(* Polling, observing, deciding.                                           *)

\* One chain of reconcile_entry_orders.
Poll(p, c) ==
  /\ pc[p] = "idle"
  /\ ActiveChain(c)
  /\ cert' = [cert EXCEPT ![p] = c]
  /\ late' = [late EXCEPT ![p] = (deadline[c] = "passed")]
  /\ phase' = [phase EXCEPT ![p] = "polled"]
  /\ ids' = [ids EXCEPT ![p] = ChainIds(c)]
  /\ Goto(p, IF ChainIds(c) = {} THEN "find" ELSE "observe")
  /\ UNCHANGED <<broker, ledger, deadline, obs, todo, out, counters>>

\* _find_client_order: the one order with the certificate's client id, if the
\* lookup does not fail (it swallows its exceptions).
FindClientOrder(p) ==
  LET mine == {o \in OrderIds : order[o].cert = cert[p] /\ order[o].replaces = NoOrder}
  IN  /\ pc[p] = "find"
      /\ \/ mine # {} /\ BeginObserve(p, "polled", mine)
         \/ (Faults \/ mine = {}) /\ FinishBlind(p, "RECONCILE_REQUIRED")
      /\ UNCHANGED <<broker, ledger, deadline, counters>>

\* _observe: one get_order per order, in any order of the ids.
Observe(p, o) ==
  /\ pc[p] = "observe"
  /\ o \in ids[p]
  /\ obs[p][o] = Nothing
  /\ obs' = [obs EXCEPT ![p][o] = [status |-> order[o].status, filled |-> order[o].filled]]
  /\ UNCHANGED <<broker, ledger, deadline, pc, cert, phase, ids, todo, late, out, counters>>

\* A read fails: no observation at all.
ObserveFails(p) ==
  /\ pc[p] = "observe"
  /\ Faults
  /\ FinishBlind(p, "RECONCILE_REQUIRED")
  /\ UNCHANGED <<broker, ledger, deadline, counters>>

Observed(p) == pc[p] = "observe" /\ \A o \in ids[p] : obs[p][o] # Nothing

Conclude(p) ==
  /\ Observed(p)
  /\ ~ Cancels(phase[p], late[p], ids[p], obs[p])
  /\ ~ Replaces(phase[p], ids[p], obs[p])
  /\ Goto(p, "record")
  /\ out' = [out EXCEPT ![p] = Conclusion(phase[p], ids[p], obs[p])]
  /\ UNCHANGED <<broker, ledger, deadline, cert, phase, ids, obs, todo, late, counters>>

DecideReplace(p) ==
  /\ Observed(p)
  /\ Replaces(phase[p], ids[p], obs[p])
  /\ Goto(p, "replace")
  /\ UNCHANGED <<broker, ledger, deadline, cert, phase, ids, obs, todo, late, out, counters>>

DecideCancel(p) ==
  /\ Observed(p)
  /\ Cancels(phase[p], late[p], ids[p], obs[p])
  /\ Goto(p, "cancel")
  /\ todo' = [todo EXCEPT ![p] = WorkingRows(ids[p], obs[p])]
  /\ UNCHANGED <<broker, ledger, deadline, cert, phase, ids, obs, late, out, counters>>

-----------------------------------------------------------------------------
(* Replace and cancel.                                                     *)

\* The broker takes a replacement for an open order; the old order may still
\* fill until the replacement takes over.
Replaced(old, new) ==
  /\ order[old].status \in {"NEW", "PARTIALLY_FILLED"}
  /\ order[new].status = "NONE"
  /\ order' = [order EXCEPT
                 ![old].status = "PENDING_REPLACE",
                 ![new] = NewOrder(order[old].cert, Qty, "PENDING_NEW", old)]

\* replace_order answers with the new order.
Replace(p, old, new) ==
  /\ pc[p] = "replace"
  /\ old \in ids[p]
  /\ Replaced(old, new)
  /\ BeginObserve(p, "replaced", ids[p] \cup {new})
  /\ UNCHANGED <<ledger, deadline, counters>>

\* Every failure of replace_order is a BrokerMutationError: the order may or may
\* not have been replaced.
ReplaceAnswerLost(p, old, new) ==
  /\ pc[p] = "replace"
  /\ Faults
  /\ old \in ids[p]
  /\ Replaced(old, new)
  /\ BeginObserve(p, "raced", ids[p])
  /\ UNCHANGED <<ledger, deadline, counters>>

ReplaceRefused(p) ==
  /\ pc[p] = "replace"
  /\ Faults \/ \A o \in ids[p] : order[o].status \notin {"NEW", "PARTIALLY_FILLED"}
  /\ BeginObserve(p, "raced", ids[p])
  /\ UNCHANGED <<broker, ledger, deadline, counters>>

\* cancel_order of the next working sibling; a refusal is passed over.
Cancel(p, o) ==
  /\ pc[p] = "cancel"
  /\ o \in todo[p]
  /\ todo' = [todo EXCEPT ![p] = @ \ {o}]
  /\ \/ /\ order[o].status \in {"NEW", "PARTIALLY_FILLED"}
        /\ order' = [order EXCEPT ![o].status = "PENDING_CANCEL"]
     \/ /\ Faults \/ order[o].status \notin {"NEW", "PARTIALLY_FILLED"}
        /\ UNCHANGED order
  /\ UNCHANGED <<ledger, deadline, pc, cert, phase, ids, obs, late, out, counters>>

CancelsSent(p) ==
  /\ pc[p] = "cancel"
  /\ todo[p] = {}
  /\ BeginObserve(p, "canceled", ids[p])
  /\ UNCHANGED <<broker, ledger, deadline, counters>>

-----------------------------------------------------------------------------
(* Recording.                                                              *)

\* _save_order_events: the observation of each order, or, without one, a row
\* of unknown status for each id.
NewEvents(p) ==
  [o \in OrderIds |->
     IF o \notin ids[p] THEN seen[o]
     ELSE IF obs[p][o] # Nothing THEN obs[p][o]
     ELSE Unknown]

\* Mutant: the intent takes the outcome as its state.
RecordedIntentVerbatim(i, outcome, orders) ==
  IF i.state = "NONE" THEN i
  ELSE [i EXCEPT !.state = outcome, !.ids = IF orders = {} THEN @ ELSE orders,
                 !.leased = FALSE]

\* The intent's update in record_execution, which asks for no claim token.
RecordedIntent(i, outcome, orders) ==
  IF i.state = "NONE" THEN i
  ELSE [i EXCEPT !.state = IF outcome \in ClosedIntents THEN outcome ELSE "SUBMITTED",
                 !.ids = IF orders = {} THEN @ ELSE orders,
                 !.leased = FALSE]

\* record_execution, one transaction.
Record(p) ==
  LET c == cert[p]
  IN  /\ pc[p] = "record"
      /\ seen' = NewEvents(p)
      /\ intent' = [intent EXCEPT ![c] = RecordedIntent(@, out[p], ids[p])]
      /\ caseState' = [caseState EXCEPT ![c] = AfterEvents(@, EntryEvents(@, out[p]))]
      /\ EndTick(p)
      /\ UNCHANGED <<broker, deadline, counters>>

\* The ledger refuses the record, or the record of another chain polled in the
\* same tick has ended it.
NotRecorded(p) ==
  /\ pc[p] = "record"
  /\ \/ Faults
     \/ /\ phase[p] \in {"polled", "canceled"}
        /\ \E d \in Certs \ {cert[p]} : intent[d].state # "NONE" /\ caseState[d] = "HALTED"
  /\ EndTick(p)
  /\ UNCHANGED <<broker, ledger, deadline, counters>>

\* The process dies; the token of its claim dies with it.
Crash(p) ==
  /\ pc[p] # "idle"
  /\ crashes < MaxCrashes
  /\ crashes' = crashes + 1
  /\ intent' = [c \in Certs |->
                  IF intent[c].token = p THEN [intent[c] EXCEPT !.token = NoProcess]
                  ELSE intent[c]]
  /\ EndTick(p)
  /\ UNCHANGED <<broker, caseState, seen, deadline, executes>>

-----------------------------------------------------------------------------
(* The broker and the clock.                                               *)

\* One more structure fills.  A full fill beats a replacement on its way.
Fill(o) ==
  LET last == order[o].filled + 1 = order[o].qty
  IN  /\ Working(o)
      /\ order[o].status # "PENDING_NEW"
      /\ order[o].filled < order[o].qty
      /\ order' = [q \in OrderIds |->
                     IF q = o
                     THEN [order[q] EXCEPT
                             !.filled = @ + 1,
                             !.status = IF last THEN "FILLED"
                                        ELSE IF @ = "NEW" THEN "PARTIALLY_FILLED" ELSE @]
                     ELSE IF last /\ order[q].replaces = o /\ order[q].status = "PENDING_NEW"
                     THEN [order[q] EXCEPT !.status = "REJECTED"]
                     ELSE order[q]]
      /\ UNCHANGED <<ledger, deadline, locals, counters>>

\* The replacement takes over what the old order has left.
TakeOver(new) ==
  LET old == order[new].replaces
  IN  /\ order[new].status = "PENDING_NEW"
      /\ order' = [order EXCEPT
                     ![old].status = "REPLACED",
                     ![new] = [@ EXCEPT !.status = "NEW",
                                        !.qty = order[old].qty - order[old].filled]]
      /\ UNCHANGED <<ledger, deadline, locals, counters>>

\* A requested cancel takes effect.
CancelDone(o) ==
  /\ order[o].status = "PENDING_CANCEL"
  /\ order' = [order EXCEPT ![o].status = "CANCELED"]
  /\ UNCHANGED <<ledger, deadline, locals, counters>>

\* The broker ends an open order by itself: rejects it, or ends its day.
Die(o, status) ==
  /\ order[o].status \in {"NEW", "PARTIALLY_FILLED"}
  /\ order' = [order EXCEPT ![o].status = status]
  /\ UNCHANGED <<ledger, deadline, locals, counters>>

DeadlinePasses(c) ==
  /\ deadline[c] = "running"
  /\ deadline' = [deadline EXCEPT ![c] = "passed"]
  /\ UNCHANGED <<broker, ledger, locals, counters>>

\* The claim's two minutes run out, after the 90 s of the deadline.
LeaseExpires(c) ==
  /\ deadline[c] = "passed"
  /\ intent[c].leased
  /\ intent' = [intent EXCEPT ![c].leased = FALSE]
  /\ UNCHANGED <<broker, caseState, seen, deadline, locals, counters>>

-----------------------------------------------------------------------------
\* The steps of a tick under way.
Step(p) ==
  \/ CheckPositions(p) \/ PreflightPositions(p) \/ PreflightOrders(p)
  \/ \E outcome \in {"REJECTED", "RECONCILE_REQUIRED"} : Refuse(p, outcome)
  \/ Allow(p) \/ Claim(p) \/ ClaimLost(p)
  \/ \E o \in OrderIds : Submit(p, o) \/ SubmitAnswerLost(p, o)
  \/ SubmitRefused(p) \/ Persist(p) \/ FindClientOrder(p)
  \/ \E o \in OrderIds : Observe(p, o) \/ Cancel(p, o)
  \/ ObserveFails(p) \/ Conclude(p) \/ DecideReplace(p) \/ DecideCancel(p)
  \/ \E old, new \in OrderIds : Replace(p, old, new) \/ ReplaceAnswerLost(p, old, new)
  \/ ReplaceRefused(p) \/ CancelsSent(p) \/ Record(p) \/ NotRecorded(p)

Broker ==
  \E o \in OrderIds :
    \/ Fill(o) \/ TakeOver(o) \/ CancelDone(o)
    \/ \E status \in {"CANCELED", "REJECTED"} : Die(o, status)

Next ==
  \/ \E p \in Processes :
       \/ \E c \in Certs : CheckOrders(p, c) \/ Poll(p, c)
       \/ Step(p) \/ Crash(p)
  \/ Broker
  \/ \E c \in Certs : DeadlinePasses(c) \/ LeaseExpires(c)

Spec == Init /\ [][Next]_vars

\* A started tick runs on; every tick polls every chain; the clock runs; the
\* broker carries out what it accepted (it owes nobody a fill).  A record is
\* dropped for another chain's only while that chain is polled, and the record
\* that ends a tick ends that chain too: a later tick records it.
Fairness ==
  /\ \A p \in Processes : WF_vars(Step(p)) /\ SF_vars(Record(p))
  /\ \A c \in Certs :
       /\ WF_vars(DeadlinePasses(c))
       /\ \A p \in Processes : SF_vars(Poll(p, c))
  /\ \A o \in OrderIds : WF_vars(TakeOver(o)) /\ WF_vars(CancelDone(o))

FairSpec == Spec /\ Fairness

-----------------------------------------------------------------------------
(* Properties.                                                             *)

TypeOK ==
  /\ order \in [OrderIds -> [cert : Certs \cup {NoCert}, status : OrderStates \cup {"NONE"},
                             qty : 0..Qty, filled : 0..Qty, replaces : OrderIds \cup {NoOrder}]]
  /\ caseState \in [Certs -> CaseStates]
  /\ intent \in [Certs -> [state : IntentStates, ids : SUBSET OrderIds,
                           token : Processes \cup {NoProcess}, leased : BOOLEAN]]
  /\ seen \in [OrderIds -> Reading]
  /\ deadline \in [Certs -> {"unset", "running", "passed"}]
  /\ pc \in [Processes -> PcStates]
  /\ cert \in [Processes -> Certs \cup {NoCert}]
  /\ phase \in [Processes -> Phases]
  /\ ids \in [Processes -> SUBSET OrderIds]
  /\ obs \in [Processes -> [OrderIds -> Reading]]
  /\ todo \in [Processes -> SUBSET OrderIds]
  /\ late \in [Processes -> BOOLEAN]
  /\ out \in [Processes -> EntryOutcomes \cup {"NONE"}]
  /\ executes \in [Certs -> 0..MaxExecutes]
  /\ crashes \in 0..MaxCrashes

OrdersOf(c) == {o \in OrderIds : order[o].cert = c}
FilledOf(c) == MapThenSumSet(LAMBDA o : order[o].filled, OrdersOf(c))
Exposed(c) == FilledOf(c) > 0 \/ \E o \in OrdersOf(c) : Working(o)

\* An entry intent recorded as FILLED, CANCELED or REJECTED is never polled
\* again (active_entry_order_chains): no order of its certificate may still be
\* working, although the statuses it was recorded from were read one by one and
\* several steps before, and replacements may have been lost.
ClosedMeansDead ==
  \A c \in Certs : intent[c].state \in ClosedIntents =>
    \A o \in OrdersOf(c) : ~ Working(o)

\* The case that record_execution moves to MANAGING holds all its certificate's
\* structures: partial fills, replacements that carry on a part filled order and
\* cancels that lose against a fill never leave it with fewer or more.
ManagedPositionIsWhole ==
  \A c \in Certs : caseState[c] = "MANAGING" => FilledOf(c) = Qty

\* One certificate never fills more structures than it is for, however often it
\* is executed, by whichever process, and whatever answers are lost.
NoDoubleEntry == \A c \in Certs : FilledOf(c) <= Qty

\* "one open structure" (one-page-writeup.md), of the cases that are not halted: at most
\* one has positions or working orders at the broker.  The chains that must have ended,
\* the reconciliation and the preflight keep a second one out, whatever was lost,
\* replaced or cut off before.  A halted case would break it: an order that its
\* replacement left behind may fill between the preflight's read of the positions and
\* its read of the orders, and is then neither a position nor an order.
OneLiveStructure ==
  \A c, d \in Certs :
    /\ Exposed(c) /\ caseState[c] # "HALTED"
    /\ Exposed(d) /\ caseState[d] # "HALTED"
    => c = d

\* A claimed entry is settled: its case ends as MANAGING or HALTED.
EntryIsSettled ==
  \A c \in Certs : intent[c].state # "NONE" ~> caseState[c] \in {"MANAGING", "HALTED"}

\* The cancel ladder: no order works for ever past the deadline of its
\* submission.
DeadlineCancels ==
  \A o \in OrderIds :
    (Working(o) /\ \E c \in Certs : order[o].cert = c /\ deadline[c] = "passed")
      ~> ~ Working(o)
=============================================================================
