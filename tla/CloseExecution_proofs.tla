------------------------ MODULE CloseExecution_proofs ------------------------
(***************************************************************************)
(* Proofs about CloseExecution: the shape of its reachable states for any  *)
(* processes, cases, legs and quantities; that no structure is closed      *)
(* twice and a closed case is flat, with one process or with legs that     *)
(* each case has to itself; and that a settled intent stays as it is.      *)
(***************************************************************************)
EXTENDS CloseExecution, TLAPS

USE DEF broker, ledger, entry, locals, counters

-----------------------------------------------------------------------------
(* The shape of a reachable state.                                         *)

PcStates ==
  {"idle", "poll", "observe", "positions", "persist", "closed", "manage", "claim", "lookup",
   "orders", "price", "submit", "store"}

RowType == [state : IntentStates, order : OrderIds \cup {NoOrder}, token : Nat,
            leased : BOOLEAN, case : Cases \cup {NoCase}]
OrderType == [key : Keys, status : OrderStates \cup {"NONE"}, filled : 0..Qty]
ResultType == [key : Keys, case : Cases \cup {NoCase}, state : CloseOutcomes]

\* The orders the broker has been given; no other order is stored or polled.
GivenOrders == {o \in OrderIds : order[o].status # "NONE"}

\* The cases whose fills the ledger shows.
Filled == {c \in Cases : caseState[c] \in {"MANAGING", "CLOSED", "HALTED"}}

\* A case named beside a set of legs is one whose fills of these legs are recorded.
Owner(c, l, filled) == c = NoCase \/ (c \in filled /\ LegsOf[c] = l)

GoodWork(w, given, filled) ==
  /\ w \in WorkType
  /\ w.order \in given \cup {NoOrder}
  /\ Owner(w.case, w.key[1], filled) /\ Owner(w.given, w.key[1], filled)

GoodRow(row, k, given, filled) ==
  /\ row.order \in given \cup {NoOrder}
  /\ Owner(row.case, k[1], filled)

GoodResult(r, filled) == r \in ResultType /\ Owner(r.case, r.key[1], filled)

GoodProcess(p) ==
  /\ GoodWork(work[p], GivenOrders, Filled)
  /\ \A w \in todo[p] : GoodWork(w, GivenOrders, Filled)
  /\ \A r \in results[p] : GoodResult(r, Filled)
  /\ pc[p] \in {"observe", "positions", "persist", "store"} => work[p].order # NoOrder
  /\ pc[p] \in {"positions", "persist"} => obs[p] # "NONE"

BrokerShape ==
  /\ position \in [Legs -> Int]
  /\ order \in [OrderIds -> OrderType]
  /\ \A o \in OrderIds : Working(o) => order[o].filled < order[o].key[2]
  /\ entryLeft \in 0..Qty /\ entryFilled \in 0..Qty /\ entryLeft + entryFilled <= Qty

CaseShape == caseState \in [Cases -> CaseStates]

IntentShape ==
  /\ intent \in [Keys -> RowType]
  /\ \A k \in Keys : GoodRow(intent[k], k, GivenOrders, Filled)

EntryShape ==
  /\ holder \in Cases \cup {NoCase} /\ due \in BOOLEAN
  /\ entryLeft > 0 => holder # NoCase
  /\ ~ LateEntries /\ entryLeft > 0 => caseState[holder] = "SUBMITTED"
  /\ holder # NoCase /\ caseState[holder] \in {"MANAGING", "CLOSED"} => entryLeft = 0

LocalTypes ==
  /\ pc \in [Processes -> PcStates]
  /\ todo \in [Processes -> SUBSET WorkType]
  /\ work \in [Processes -> WorkType]
  /\ obs \in [Processes -> OrderStates \cup {"NONE"}]
  /\ flat \in [Processes -> BOOLEAN]
  /\ results \in [Processes -> SUBSET ResultType]
  /\ halt \in [Processes -> BOOLEAN]

LocalShape == LocalTypes /\ \A p \in Processes : GoodProcess(p)

CounterShape == faults \in 0..MaxFaults /\ crashes \in 0..MaxCrashes

Shape ==
  BrokerShape /\ CaseShape /\ IntentShape /\ EntryShape /\ LocalShape /\ CounterShape

-----------------------------------------------------------------------------
(* The helpers keep types.                                                 *)

LEMMA KeyTypes ==
  /\ AnyKey \in Keys
  /\ \A k \in Keys : k[1] \in Legs /\ k[2] \in 1..Qty /\ k = <<k[1], k[2]>>
<1>1. PICK l \in Legs : TRUE  BY ConstantsAssumption
<1>2. 1 \in 1..Qty  BY ConstantsAssumption
<1>3. <<l, 1>> \in Keys  BY <1>1, <1>2 DEF Keys
<1>4. AnyKey \in Keys  BY <1>3 DEF AnyKey
<1> QED  BY <1>4 DEF Keys

LEMMA NoWorkIsGood == \A given, filled : GoodWork(NoWork, given, filled)
<1>1. NoWork \in WorkType  BY KeyTypes DEF NoWork, WorkType
<1> QED  BY <1>1 DEF GoodWork, NoWork, Owner

\* The states a result and a settled order lead to.
LEMMA OutcomeTypes ==
  /\ \A status \in OrderStates, isFlat \in BOOLEAN :
       /\ CloseOutcome(status, isFlat) \in CloseOutcomes
       /\ CloseOutcome(status, isFlat) \in IntentStates
       /\ CloseOutcome(status, isFlat) = "CLOSED" => isFlat
  /\ {"RECONCILE_REQUIRED", "MANAGING"} \subseteq CloseOutcomes
BY DEF OrderStates, WorkingStates, CloseOutcome, CloseOutcomes, IntentStates, SettledIntents

\* What a close's result makes of a case.
LEMMA CloseMovesCase ==
  ASSUME NEW state \in CaseStates, NEW outcome \in CloseOutcomes
  PROVE  LET after == AfterEvents(state, CloseEvents(state, outcome))
         IN  /\ after \in CaseStates
             /\ after = state \/ after \in {"MANAGING", "CLOSED", "HALTED"}
             /\ state \in {"MANAGING", "CLOSED", "HALTED"} =>
                  /\ after \in {"MANAGING", "CLOSED", "HALTED"}
                  /\ after = "MANAGING" => state = "MANAGING"
                  /\ after = "CLOSED" => state = "CLOSED" \/ (outcome = "CLOSED" /\ state = "MANAGING")
<1>1. /\ \A x : AfterEvents(state, <<x>>) = x
      /\ \A x, y : AfterEvents(state, <<x, y>>) = y
      /\ AfterEvents(state, << >>) = state
  BY DEF AfterEvents, Last
<1>2. CASE outcome = "CLOSED"
  BY <1>1, <1>2 DEF CloseEvents, CaseStates
<1>3. CASE outcome = "MANAGING"
  BY <1>1, <1>3 DEF CloseEvents, CaseStates
<1>4. CASE outcome \notin {"CLOSED", "MANAGING"}
  BY <1>1, <1>4 DEF CloseEvents, CaseStates, Haltable
<1> QED  BY <1>2, <1>3, <1>4

\* What an entry's outcome makes of a submitted case.
LEMMA EntryMovesCase ==
  /\ AfterEvents("SUBMITTED", EntryEvents("SUBMITTED", "FILLED")) = "MANAGING"
  /\ AfterEvents("SUBMITTED", EntryEvents("SUBMITTED", "RECONCILE_REQUIRED")) = "HALTED"
<1>1. \A x : AfterEvents("SUBMITTED", <<x>>) = x
  BY DEF AfterEvents, Last
<1>2. EntryEvents("SUBMITTED", "FILLED") = <<"MANAGING">>
  BY DEF EntryEvents
<1>3. EntryEvents("SUBMITTED", "RECONCILE_REQUIRED") = <<"HALTED">>
  BY DEF EntryEvents, Haltable, CaseStates
<1> QED  BY <1>1, <1>2, <1>3
-----------------------------------------------------------------------------
(* What a step does to its process and to an intent.                       *)

\* Orders are only added, and recorded fills stay recorded.
Grows == GivenOrders \subseteq GivenOrders' /\ Filled \subseteq Filled'

LEMMA GoodGrows ==
  ASSUME NEW g, NEW f, NEW gg, NEW ff, g \subseteq gg, f \subseteq ff
  PROVE  /\ \A w : GoodWork(w, g, f) => GoodWork(w, gg, ff)
         /\ \A row, k : GoodRow(row, k, g, f) => GoodRow(row, k, gg, ff)
         /\ \A r : GoodResult(r, f) => GoodResult(r, ff)
BY DEF GoodWork, GoodRow, GoodResult, Owner

\* A process whose locals another process's step leaves alone.
LEMMA ProcessKept ==
  ASSUME LocalShape, Grows, NEW q \in Processes,
         pc'[q] = pc[q], todo'[q] \subseteq todo[q], work'[q] = work[q], obs'[q] = obs[q],
         results'[q] = results[q]
  PROVE  GoodProcess(q)'
BY GoodGrows DEF LocalShape, GoodProcess, Grows

LEMMA LocalsKept ==
  ASSUME LocalShape, Grows, UNCHANGED locals
  PROVE  LocalShape'
<1>1. LocalTypes'  BY DEF LocalShape, LocalTypes
<1>2. \A q \in Processes : GoodProcess(q)'  BY ProcessKept
<1> QED  BY <1>1, <1>2 DEF LocalShape

LEMMA EndTickShape ==
  ASSUME LocalShape, Grows, NEW p \in Processes, EndTick(p)
  PROVE  LocalShape'
<1>1. LocalTypes'
  <2>1. NoWork \in WorkType  BY NoWorkIsGood DEF GoodWork
  <2> QED  BY <2>1 DEF LocalShape, LocalTypes, EndTick, Goto, PcStates
<1>2. GoodProcess(p)'
  <2>1. pc'[p] = "idle" /\ todo'[p] = {} /\ work'[p] = NoWork /\ results'[p] = {}
    BY DEF LocalShape, LocalTypes, EndTick, Goto
  <2> QED  BY <2>1, NoWorkIsGood DEF GoodProcess
<1>3. ASSUME NEW q \in Processes \ {p} PROVE GoodProcess(q)'
  BY ProcessKept DEF LocalShape, LocalTypes, EndTick, Goto
<1> QED  BY <1>1, <1>2, <1>3 DEF LocalShape

TodoShrinks(p) == todo' = todo \/ \E w : todo' = [todo EXCEPT ![p] = @ \ {w}]

LEMMA TodoShrunk ==
  ASSUME LocalTypes, NEW p \in Processes, TodoShrinks(p)
  PROVE  /\ todo' \in [Processes -> SUBSET WorkType]
         /\ \A q \in Processes : todo'[q] \subseteq todo[q]
         /\ \A q \in Processes \ {p} : todo'[q] = todo[q]
BY DEF LocalTypes, TodoShrinks

LEMMA ReturnShape ==
  ASSUME LocalShape, Grows, NEW p \in Processes, NEW w, GoodWork(w, GivenOrders', Filled'),
         NEW st \in CloseOutcomes, Return(p, w, st), TodoShrinks(p)
  PROVE  LocalShape'
<1> DEFINE r == [key |-> w.key, case |-> w.case, state |-> st]
<1>0. LocalTypes  BY DEF LocalShape
<1>1. GoodResult(r, Filled')
  BY DEF GoodWork, GoodResult, WorkType, ResultType
<1>2. r \in ResultType  BY <1>1 DEF GoodResult
<1>3. results' = [results EXCEPT ![p] = @ \cup {r}]  BY DEF Return
<1> HIDE DEF r
<1>4. LocalTypes'
  <2>1. results' \in [Processes -> SUBSET ResultType]
    BY <1>0, <1>2, <1>3 DEF LocalTypes
  <2>2. NoWork \in WorkType  BY NoWorkIsGood DEF GoodWork
  <2>3. work' \in [Processes -> WorkType]
    BY <1>0, <2>2 DEF LocalTypes, Return
  <2> QED  BY <1>0, <2>1, <2>3, TodoShrunk DEF LocalTypes, Return, Goto, PcStates
<1>5. GoodProcess(p)'
  <2>1. pc'[p] \in {"poll", "closed"} /\ work'[p] = NoWork /\ results'[p] = results[p] \cup {r}
    BY <1>0, <1>3 DEF LocalTypes, Return, Goto
  <2>2. \A x \in todo'[p] : GoodWork(x, GivenOrders', Filled')
    BY <1>0, TodoShrunk, GoodGrows DEF LocalShape, GoodProcess, Grows
  <2>3. \A x \in results'[p] : GoodResult(x, Filled')
    BY <1>1, <2>1, GoodGrows DEF LocalShape, GoodProcess, Grows
  <2> QED  BY <2>1, <2>2, <2>3, NoWorkIsGood DEF GoodProcess
<1>6. ASSUME NEW q \in Processes \ {p} PROVE GoodProcess(q)'
  <2>1. /\ pc'[q] = pc[q] /\ work'[q] = work[q] /\ obs'[q] = obs[q] /\ results'[q] = results[q]
        /\ todo'[q] \subseteq todo[q]
    BY <1>0, <1>3, TodoShrunk DEF LocalTypes, Return, Goto
  <2> QED  BY <2>1, ProcessKept
<1> QED  BY <1>4, <1>5, <1>6 DEF LocalShape

LEMMA ContinueShape ==
  ASSUME LocalShape, Grows, NEW p \in Processes, NEW w, GoodWork(w, GivenOrders', Filled'),
         NEW label \in PcStates \ {"positions", "persist"},
         label \in {"observe", "store"} => w.order # NoOrder,
         Continue(p, w, label), TodoShrinks(p)
  PROVE  LocalShape'
<1>0. LocalTypes /\ w \in WorkType  BY DEF LocalShape, GoodWork
<1>1. LocalTypes'
  <2>1. work' \in [Processes -> WorkType]
    BY <1>0 DEF LocalTypes, Continue
  <2> QED  BY <1>0, <2>1, TodoShrunk DEF LocalTypes, Continue, Goto
<1>2. GoodProcess(p)'
  <2>1. pc'[p] = label /\ work'[p] = w /\ results'[p] = results[p]
    BY <1>0 DEF LocalTypes, Continue, Goto
  <2>2. \A x \in todo'[p] : GoodWork(x, GivenOrders', Filled')
    BY <1>0, TodoShrunk, GoodGrows DEF LocalShape, GoodProcess, Grows
  <2>3. \A x \in results'[p] : GoodResult(x, Filled')
    BY <2>1, GoodGrows DEF LocalShape, GoodProcess, Grows
  <2> QED  BY <2>1, <2>2, <2>3 DEF GoodProcess
<1>3. ASSUME NEW q \in Processes \ {p} PROVE GoodProcess(q)'
  <2>1. /\ pc'[q] = pc[q] /\ work'[q] = work[q] /\ obs'[q] = obs[q] /\ results'[q] = results[q]
        /\ todo'[q] \subseteq todo[q]
    BY <1>0, TodoShrunk DEF LocalTypes, Continue, Goto
  <2> QED  BY <2>1, ProcessKept
<1> QED  BY <1>1, <1>2, <1>3 DEF LocalShape

LEMMA IntentsKept ==
  ASSUME IntentShape, Grows, UNCHANGED intent
  PROVE  IntentShape'
BY GoodGrows DEF IntentShape, Grows

LEMMA WriteShape ==
  ASSUME IntentShape, Grows, NEW w, w \in WorkType, NEW state \in IntentStates,
         NEW o \in GivenOrders' \cup {NoOrder}, Write(w, state, o)
  PROVE  IntentShape'
<1> DEFINE row == [intent[w.key] EXCEPT !.state = state, !.leased = FALSE,
                                        !.order = IF o = NoOrder THEN @ ELSE o]
<1>1. w.key \in Keys  BY DEF WorkType
<1>2. intent' = [intent EXCEPT ![w.key] = row]
  BY <1>1 DEF Write, IntentShape, RowType
<1>3. intent[w.key] \in RowType /\ GoodRow(intent[w.key], w.key, GivenOrders', Filled')
  BY <1>1, GoodGrows DEF IntentShape, Grows
<1>4. row \in RowType /\ row.case = intent[w.key].case
      /\ row.order \in {intent[w.key].order, o}
  <2>1. o \in OrderIds \cup {NoOrder}  BY DEF GivenOrders
  <2> QED  BY <1>3, <2>1 DEF RowType
<1>5. GoodRow(row, w.key, GivenOrders', Filled')
  BY <1>3, <1>4 DEF GoodRow
<1> HIDE DEF row
<1>6. intent' \in [Keys -> RowType]
  BY <1>1, <1>2, <1>4 DEF IntentShape
<1>7. ASSUME NEW k \in Keys PROVE GoodRow(intent'[k], k, GivenOrders', Filled')
  <2>1. CASE k = w.key
    BY <1>1, <1>2, <1>5, <2>1 DEF IntentShape
  <2>2. CASE k # w.key
    BY <1>2, <2>2, GoodGrows DEF IntentShape, Grows
  <2> QED  BY <2>1, <2>2
<1> QED  BY <1>6, <1>7 DEF IntentShape
-----------------------------------------------------------------------------
(* Every step keeps the shape: the steps of a process.                     *)

LEMMA SameGood ==
  ASSUME UNCHANGED <<order, caseState>>
  PROVE  Grows /\ GivenOrders' = GivenOrders /\ Filled' = Filled
BY DEF Grows, GivenOrders, Filled

LEMMA QuietShape ==
  ASSUME Shape, UNCHANGED <<position, order, entryLeft, entryFilled, caseState, holder, due>>,
         LocalShape', IntentShape', CounterShape'
  PROVE  Shape'
<1>1. BrokerShape'  BY DEF Shape, BrokerShape, Working
<1>2. CaseShape' /\ EntryShape'  BY DEF Shape, CaseShape, EntryShape
<1> QED  BY <1>1, <1>2 DEF Shape

LEMMA Counted ==
  ASSUME Shape
  PROVE  /\ Fault => CounterShape'
         /\ UNCHANGED counters => CounterShape'
         /\ crashes < MaxCrashes /\ crashes' = crashes + 1 /\ UNCHANGED faults => CounterShape'
BY ConstantsAssumption DEF Shape, CounterShape, Fault

\* The intent a process works on, and the intents it has read.
LEMMA WorkOfProcess ==
  ASSUME Shape, NEW p \in Processes
  PROVE  /\ GoodWork(work[p], GivenOrders, Filled) /\ work[p] \in WorkType
         /\ work[p].key \in Keys /\ work[p].key[1] \in Legs /\ work[p].key[2] \in 1..Qty
         /\ \A w \in todo[p] : GoodWork(w, GivenOrders, Filled) /\ w \in WorkType
<1>1. GoodWork(work[p], GivenOrders, Filled) /\ \A w \in todo[p] : GoodWork(w, GivenOrders, Filled)
  BY DEF Shape, LocalShape, GoodProcess
<1>2. work[p] \in WorkType /\ work[p].key \in Keys
  BY <1>1 DEF GoodWork, WorkType
<1> QED  BY <1>1, <1>2, KeyTypes DEF GoodWork

\* A good row makes good work.
LEMMA WorkOfRow ==
  ASSUME IntentShape, NEW k \in Keys,
         NEW w \in [key : {k}, order : {intent[k].order}, token : Nat,
                    case : {intent[k].case}, given : {NoCase}, origin : {"polled"}]
  PROVE  GoodWork(w, GivenOrders, Filled)
<1>1. intent[k] \in RowType /\ GoodRow(intent[k], k, GivenOrders, Filled)
  BY DEF IntentShape
<1>2. w \in WorkType
  BY <1>1 DEF RowType, WorkType
<1> QED  BY <1>1, <1>2 DEF GoodWork, GoodRow, Owner

LEMMA ReadIntentsShape ==
  ASSUME Shape, NEW p \in Processes, ReadIntents(p)
  PROVE  Shape'
<1> DEFINE read == {[key |-> k, order |-> intent[k].order, token |-> intent[k].token,
                     case |-> intent[k].case, given |-> NoCase, origin |-> "polled"] :
                     k \in {j \in Keys : Active(j)}}
<1>0. LocalShape /\ LocalTypes /\ IntentShape  BY DEF Shape, LocalShape
<1>1. Grows /\ GivenOrders' = GivenOrders /\ Filled' = Filled
  BY SameGood DEF ReadIntents
<1>2. \A w \in read : GoodWork(w, GivenOrders, Filled)
  <2> SUFFICES ASSUME NEW k \in Keys
               PROVE  GoodWork([key |-> k, order |-> intent[k].order, token |-> intent[k].token,
                                case |-> intent[k].case, given |-> NoCase, origin |-> "polled"],
                               GivenOrders, Filled)
    OBVIOUS
  <2>1. intent[k].token \in Nat  BY <1>0 DEF IntentShape, RowType
  <2> QED  BY <1>0, <2>1, WorkOfRow
<1>3. todo' = [todo EXCEPT ![p] = read]  BY DEF ReadIntents
<1> HIDE DEF read
<1>4. LocalTypes'
  <2>1. read \subseteq WorkType  BY <1>2 DEF GoodWork
  <2> QED  BY <1>0, <1>3, <2>1 DEF ReadIntents, LocalTypes, Goto, PcStates
<1>5. GoodProcess(p)'
  <2>1. pc'[p] = "poll" /\ todo'[p] = read /\ work'[p] = work[p] /\ results'[p] = results[p]
    BY <1>0, <1>3 DEF ReadIntents, LocalTypes, Goto
  <2> QED  BY <1>0, <1>1, <1>2, <2>1 DEF LocalShape, GoodProcess
<1>6. ASSUME NEW q \in Processes \ {p} PROVE GoodProcess(q)'
  BY <1>0, <1>1, <1>3, ProcessKept DEF ReadIntents, LocalTypes, Goto
<1>7. LocalShape'  BY <1>4, <1>5, <1>6 DEF LocalShape
<1> QED  BY <1>0, <1>1, <1>7, QuietShape, IntentsKept, Counted DEF ReadIntents

\* What a step does to its process when it neither reads nor records.
Moves(p) ==
  \/ EndTick(p)
  \/ \E w, state : /\ GoodWork(w, GivenOrders', Filled') /\ state \in CloseOutcomes
                   /\ Return(p, w, state) /\ TodoShrinks(p)
  \/ \E w, label : /\ GoodWork(w, GivenOrders', Filled')
                   /\ label \in PcStates \ {"positions", "persist"}
                   /\ label \in {"observe", "store"} => w.order # NoOrder
                   /\ Continue(p, w, label) /\ TodoShrinks(p)

LEMMA MovesShape ==
  ASSUME LocalShape, Grows, NEW p \in Processes, Moves(p)
  PROVE  LocalShape'
BY EndTickShape, ReturnShape, ContinueShape DEF Moves

\* The steps that write neither the broker nor the ledger.
LEMMA LocalSteps ==
  ASSUME Shape, NEW p \in Processes,
         \/ \E w \in todo[p] : PollKnown(p, w) \/ PollLookupFails(p, w)
         \/ ObserveFails(p) \/ Polled(p) \/ RecordFails(p) \/ Hold(p) \/ SnapshotFails(p)
         \/ \E l \in Legs : Exit(p, l)
         \/ LookUpFails(p) \/ OrdersFail(p) \/ Price(p) \/ SubmitRefused(p) \/ Crash(p)
  PROVE  Shape'
<1>0. LocalShape /\ LocalTypes /\ IntentShape  BY DEF Shape, LocalShape
<1>1. UNCHANGED <<position, order, entryLeft, entryFilled, caseState, intent, holder, due>>
  BY DEF PollKnown, PollLookupFails, ObserveFails, Polled, RecordFails, Hold, SnapshotFails, Exit,
         LookUpFails, OrdersFail, Price, SubmitRefused, Crash
<1>2. Grows /\ GivenOrders' = GivenOrders /\ Filled' = Filled  BY <1>1, SameGood
<1>3. CounterShape'
  BY Counted DEF PollKnown, PollLookupFails, ObserveFails, Polled, RecordFails, Hold, SnapshotFails,
         Exit, LookUpFails, OrdersFail, Price, SubmitRefused, Crash
<1>4. SUFFICES LocalShape'
  BY <1>0, <1>1, <1>2, <1>3, IntentsKept, QuietShape
<1>5. ASSUME NEW w, w = work[p] PROVE GoodWork(w, GivenOrders', Filled')
  BY <1>2, <1>5, WorkOfProcess
<1>6. CASE \E w \in todo[p] : PollKnown(p, w) \/ PollLookupFails(p, w)
  <2> SUFFICES ASSUME NEW w \in todo[p], PollKnown(p, w) \/ PollLookupFails(p, w)
               PROVE  Moves(p)
    BY <1>0, <1>2, <1>6, MovesShape
  <2>1. GoodWork(w, GivenOrders', Filled')  BY <1>2, WorkOfProcess
  <2>2. CASE PollKnown(p, w)
    BY <2>1, <2>2 DEF PollKnown, Moves, TodoShrinks, PcStates
  <2>3. CASE PollLookupFails(p, w)
    BY <2>1, <2>3, OutcomeTypes DEF PollLookupFails, Moves, TodoShrinks
  <2> QED  BY <2>2, <2>3
<1>7. CASE ObserveFails(p) \/ OrdersFail(p) \/ SubmitRefused(p)
  <2>1. Return(p, work[p], "RECONCILE_REQUIRED") /\ UNCHANGED todo
    BY <1>7 DEF ObserveFails, OrdersFail, SubmitRefused
  <2>2. Moves(p)
    BY <1>5, <2>1, OutcomeTypes DEF Moves, TodoShrinks
  <2> QED  BY <1>0, <1>2, <2>2, MovesShape
<1>8. CASE RecordFails(p) \/ Hold(p) \/ SnapshotFails(p) \/ Crash(p)
  BY <1>0, <1>2, <1>8, EndTickShape DEF RecordFails, Hold, SnapshotFails, Crash
<1>9. CASE Polled(p)
  <2>1. CASE EndTick(p)  BY <1>0, <1>2, <2>1, EndTickShape
  <2>2. CASE Goto(p, "manage") /\ UNCHANGED <<todo, work, obs, flat, results, halt>>
    <3>1. Continue(p, work[p], "manage")
      BY <1>0, <2>2 DEF Continue, LocalTypes
    <3>2. Moves(p)
      BY <1>5, <2>2, <3>1 DEF Moves, TodoShrinks, PcStates
    <3> QED  BY <1>0, <1>2, <3>2, MovesShape
  <2> QED  BY <1>9, <2>1, <2>2 DEF Polled
<1>10. ASSUME NEW l \in Legs, Exit(p, l) PROVE LocalShape'
  <2> DEFINE w == [NoWork EXCEPT !.key = <<l, position[l]>>]
  <2>1. <<l, position[l]>> \in Keys  BY <1>10 DEF Exit, Keys
  <2>2. w = [key |-> <<l, position[l]>>, order |-> NoOrder, token |-> 0,
             case |-> NoCase, given |-> NoCase, origin |-> "none"]
    BY DEF NoWork
  <2>3. GoodWork(w, GivenOrders', Filled')
    BY <2>1, <2>2 DEF GoodWork, WorkType, Owner
  <2>4. Continue(p, w, "claim") /\ UNCHANGED todo  BY <1>10 DEF Exit
  <2> HIDE DEF w
  <2>5. Moves(p)  BY <2>3, <2>4 DEF Moves, TodoShrinks, PcStates
  <2> QED  BY <1>0, <1>2, <2>5, MovesShape
<1>11. CASE Price(p)
  <2>1. Continue(p, work[p], "submit") /\ UNCHANGED todo  BY <1>11 DEF Price
  <2>2. Moves(p)  BY <1>5, <2>1 DEF Moves, TodoShrinks, PcStates
  <2> QED  BY <1>0, <1>2, <2>2, MovesShape
<1>12. CASE LookUpFails(p)
  <2> DEFINE w == [work[p] EXCEPT !.case = work[p].given]
  <2>1. Continue(p, w, "orders") /\ UNCHANGED todo  BY <1>12 DEF LookUpFails, NotSubmitted
  <2>2. GoodWork(w, GivenOrders', Filled')
    BY <1>2, WorkOfProcess DEF GoodWork, WorkType
  <2> HIDE DEF w
  <2>3. Moves(p)  BY <2>1, <2>2 DEF Moves, TodoShrinks, PcStates
  <2> QED  BY <1>0, <1>2, <2>3, MovesShape
<1> QED  BY <1>6, <1>7, <1>8, <1>9, <1>10, <1>11, <1>12

LEMMA ObserveShape ==
  ASSUME Shape, NEW p \in Processes, ObserveOrder(p) \/ ObservePositions(p)
  PROVE  Shape'
<1>0. LocalShape /\ LocalTypes /\ IntentShape /\ BrokerShape  BY DEF Shape, LocalShape
<1>1. UNCHANGED <<position, order, entryLeft, entryFilled, caseState, intent, holder, due, todo,
                  work, results, halt, faults, crashes>>
  BY DEF ObserveOrder, ObservePositions
<1>2. Grows /\ GivenOrders' = GivenOrders /\ Filled' = Filled  BY <1>1, SameGood
<1>3. work[p].order \in GivenOrders /\ GivenOrders \subseteq OrderIds
  BY <1>0, WorkOfProcess DEF LocalShape, GoodProcess, ObserveOrder, ObservePositions, GoodWork,
                             GivenOrders
<1>4. order[work[p].order].status \in OrderStates
  BY <1>0, <1>3 DEF BrokerShape, GivenOrders, OrderType
<1>5. LocalTypes' /\ GoodProcess(p)'
  <2>1. CASE ObserveOrder(p)
    <3>1. LocalTypes' /\ pc'[p] = "positions" /\ obs'[p] \in OrderStates
      BY <1>0, <1>4, <2>1 DEF ObserveOrder, LocalTypes, Goto, PcStates
    <3>2. obs'[p] # "NONE"  BY <3>1 DEF OrderStates, WorkingStates
    <3> QED  BY <1>0, <1>1, <1>2, <2>1, <3>1, <3>2 DEF LocalShape, GoodProcess, ObserveOrder
  <2>2. CASE ObservePositions(p)
    <3>1. LocalTypes' /\ pc'[p] = "persist" /\ UNCHANGED obs
      BY <1>0, <2>2 DEF ObservePositions, LocalTypes, Goto, PcStates
    <3> QED  BY <1>0, <1>1, <1>2, <2>2, <3>1 DEF LocalShape, GoodProcess, ObservePositions
  <2> QED  BY <2>1, <2>2
<1>6. ASSUME NEW q \in Processes \ {p} PROVE GoodProcess(q)'
  BY <1>0, <1>2, ProcessKept DEF ObserveOrder, ObservePositions, LocalTypes, Goto
<1>7. LocalShape'  BY <1>5, <1>6 DEF LocalShape
<1> QED  BY <1>0, <1>1, <1>2, <1>7, IntentsKept, QuietShape, Counted

\* What a step that writes an intent leaves of it, or does not write.
Writes ==
  \/ UNCHANGED intent
  \/ \E w, state, o : /\ w \in WorkType /\ state \in IntentStates
                      /\ o \in GivenOrders' \cup {NoOrder}
                      /\ Write(w, state, o)

\* Taking over the lookup's order, or the intent's own.
LEMMA Adopted ==
  ASSUME NEW w, GoodWork(w, GivenOrders', Filled'), NEW o \in GivenOrders'
  PROVE  /\ GoodWork([w EXCEPT !.order = o], GivenOrders', Filled')
         /\ [w EXCEPT !.order = o].order = o
         /\ o # NoOrder
<1>1. GivenOrders' \subseteq OrderIds  BY DEF GivenOrders
<1> QED  BY <1>1, NamesAssumption DEF GoodWork, WorkType

LEMMA WritingSteps ==
  ASSUME Shape, NEW p \in Processes,
         \/ \E w \in todo[p] : PollUnknown(p, w)
         \/ Persist(p) \/ LookUp(p) \/ CheckOrders(p) \/ PriceFails(p) \/ Store(p)
  PROVE  Shape'
<1>0. LocalShape /\ LocalTypes /\ IntentShape  BY DEF Shape, LocalShape
<1>1. UNCHANGED <<position, order, entryLeft, entryFilled, caseState, holder, due>>
  BY DEF PollUnknown, Persist, LookUp, CheckOrders, PriceFails, Store
<1>2. Grows /\ GivenOrders' = GivenOrders /\ Filled' = Filled  BY <1>1, SameGood
<1>3. CounterShape'
  BY Counted DEF PollUnknown, Persist, LookUp, CheckOrders, PriceFails, Store
<1>4. SUFFICES Moves(p) /\ Writes
  BY <1>0, <1>1, <1>2, <1>3, MovesShape, IntentsKept, WriteShape, QuietShape DEF Writes
<1>5. /\ \A w \in todo[p] : GoodWork(w, GivenOrders', Filled') /\ w \in WorkType
      /\ GoodWork(work[p], GivenOrders', Filled') /\ work[p] \in WorkType
      /\ work[p].order \in GivenOrders' \cup {NoOrder}
  BY <1>2, WorkOfProcess DEF GoodWork
<1>6. /\ {"MANAGING", "INTENT", "RECONCILE_REQUIRED"} \subseteq IntentStates
      /\ "RECONCILE_REQUIRED" \in CloseOutcomes
      /\ {"observe", "orders", "price", "poll"} \subseteq PcStates \ {"positions", "persist"}
  BY DEF IntentStates, CloseOutcomes, PcStates
<1>7. \A k, o : o \in OrdersFor(k) => o \in GivenOrders'
  BY <1>2 DEF OrdersFor, GivenOrders
<1>8. ASSUME NEW w \in todo[p], PollUnknown(p, w) PROVE Moves(p) /\ Writes
  <2>1. TodoShrinks(p)  BY <1>8 DEF PollUnknown, TodoShrinks
  <2>2. CASE Return(p, w, "RECONCILE_REQUIRED") /\ UNCHANGED intent
    BY <1>5, <1>6, <2>1, <2>2 DEF Moves, Writes
  <2>3. ASSUME NEW o \in OrdersFor(w.key), Write(w, "MANAGING", o),
               Continue(p, [w EXCEPT !.order = o], "observe")
        PROVE  Moves(p) /\ Writes
    <3>1. o \in GivenOrders'  BY <1>7
    <3>2. Writes  BY <1>5, <1>6, <2>3, <3>1 DEF Writes
    <3>3. GoodWork([w EXCEPT !.order = o], GivenOrders', Filled') /\ [w EXCEPT !.order = o].order # NoOrder
      BY <1>5, <3>1, Adopted
    <3> DEFINE x == [w EXCEPT !.order = o]
    <3> HIDE DEF x
    <3>4. Moves(p)
      <4>1. GoodWork(x, GivenOrders', Filled') /\ x.order # NoOrder /\ Continue(p, x, "observe")
        BY <2>3, <3>3 DEF x
      <4> QED  BY <1>6, <2>1, <4>1 DEF Moves
    <3> QED  BY <3>2, <3>4
  <2> QED  BY <1>8, <2>2, <2>3 DEF PollUnknown
<1>9. CASE Persist(p)
  <2> DEFINE outcome == CloseOutcome(obs[p], flat[p])
  <2>1. obs[p] \in OrderStates /\ flat[p] \in BOOLEAN
    BY <1>0, <1>9 DEF Persist, LocalShape, LocalTypes, GoodProcess
  <2>2. outcome \in CloseOutcomes /\ outcome \in IntentStates  BY <2>1, OutcomeTypes
  <2>3. \/ Return(p, work[p], outcome) /\ UNCHANGED <<todo, intent>>
        \/ Write(work[p], outcome, work[p].order) /\ Return(p, work[p], outcome) /\ UNCHANGED todo
        \/ EndTick(p) /\ UNCHANGED intent
    BY <1>9 DEF Persist
  <2> HIDE DEF outcome
  <2>4. Moves(p)  BY <1>5, <2>2, <2>3 DEF Moves, TodoShrinks
  <2>5. Writes  BY <1>5, <2>2, <2>3 DEF Writes
  <2> QED  BY <2>4, <2>5
<1>10. CASE LookUp(p)
  <2>0. TodoShrinks(p)  BY <1>10 DEF LookUp, TodoShrinks
  <2>1. CASE Return(p, work[p], "RECONCILE_REQUIRED") /\ UNCHANGED intent
    BY <1>5, <1>6, <2>0, <2>1 DEF Moves, Writes
  <2>2. ASSUME NEW o \in OrdersFor(work[p].key), Write(work[p], "MANAGING", o),
               Continue(p, [work[p] EXCEPT !.order = o], "observe")
        PROVE  Moves(p) /\ Writes
    <3>1. o \in GivenOrders'  BY <1>7
    <3>2. Writes  BY <1>5, <1>6, <2>2, <3>1 DEF Writes
    <3> DEFINE x == [work[p] EXCEPT !.order = o]
    <3>3. GoodWork(x, GivenOrders', Filled') /\ x.order # NoOrder /\ Continue(p, x, "observe")
      <4> SUFFICES ASSUME NEW w, w = work[p]
                   PROVE  /\ GoodWork([w EXCEPT !.order = o], GivenOrders', Filled')
                          /\ [w EXCEPT !.order = o].order # NoOrder
        BY <2>2
      <4> QED  BY <1>5, <3>1, Adopted
    <3> HIDE DEF x
    <3>4. Moves(p)  BY <1>6, <2>0, <3>3 DEF Moves
    <3> QED  BY <3>2, <3>4
  <2>3. CASE NotSubmitted(p) /\ UNCHANGED intent
    <3> DEFINE x == [work[p] EXCEPT !.case = work[p].given]
    <3>1. GoodWork(x, GivenOrders', Filled') /\ Continue(p, x, "orders")
      BY <1>5, <2>3 DEF NotSubmitted, GoodWork, WorkType
    <3> HIDE DEF x
    <3>2. Moves(p)  BY <1>6, <2>0, <3>1 DEF Moves
    <3> QED  BY <2>3, <3>2 DEF Writes
  <2> QED  BY <1>10, <2>1, <2>2, <2>3 DEF LookUp
<1>11. CASE CheckOrders(p) \/ PriceFails(p)
  <2>1. \/ Continue(p, work[p], "price") /\ UNCHANGED <<todo, intent>>
        \/ /\ \E state \in {"INTENT", "RECONCILE_REQUIRED"} : Write(work[p], state, NoOrder)
           /\ Return(p, work[p], "RECONCILE_REQUIRED") /\ UNCHANGED todo
        \/ EndTick(p) /\ UNCHANGED intent
    BY <1>11 DEF CheckOrders, PriceFails
  <2>2. Moves(p)  BY <1>5, <1>6, <2>1 DEF Moves, TodoShrinks
  <2>3. Writes  BY <1>5, <1>6, <2>1 DEF Writes
  <2> QED  BY <2>2, <2>3
<1>12. CASE Store(p)
  <2>0. work[p].order # NoOrder  BY <1>0, <1>12 DEF Store, LocalShape, GoodProcess
  <2> DEFINE x == [work[p] EXCEPT !.origin = "stored"]
  <2>1. GoodWork(x, GivenOrders', Filled') /\ x.order # NoOrder
    BY <1>5, <2>0 DEF GoodWork, WorkType
  <2>2. \/ Write(work[p], "MANAGING", work[p].order) /\ Continue(p, x, "observe") /\ UNCHANGED todo
        \/ Return(p, work[p], "RECONCILE_REQUIRED") /\ UNCHANGED <<todo, intent>>
    BY <1>12 DEF Store
  <2> HIDE DEF x
  <2>3. Moves(p)  BY <1>5, <1>6, <2>1, <2>2 DEF Moves, TodoShrinks
  <2>4. Writes  BY <1>5, <1>6, <2>2 DEF Writes
  <2> QED  BY <2>3, <2>4
<1> QED  BY <1>8, <1>9, <1>10, <1>11, <1>12

LEMMA ResolvedOwner ==
  ASSUME NEW l
  PROVE  Owner(ResolvedCase(l), l, Filled)
<1>1. CASE \E c \in Cases : CasesWith(l) = {c}
  <2> DEFINE c == CHOOSE c \in Cases : CasesWith(l) = {c}
  <2>1. c \in Cases /\ CasesWith(l) = {c}  BY <1>1
  <2>2. ResolvedCase(l) = c  BY <1>1 DEF ResolvedCase
  <2> HIDE DEF c
  <2>3. c \in CasesWith(l)  BY <2>1
  <2> QED  BY <2>2, <2>3 DEF Owner, CasesWith, Filled
<1>2. CASE ~ \E c \in Cases : CasesWith(l) = {c}
  BY <1>2 DEF ResolvedCase, Owner
<1> QED  BY <1>1, <1>2

LEMMA ClaimShape ==
  ASSUME Shape, NEW p \in Processes, Claim(p)
  PROVE  Shape'
<1> DEFINE case == ResolvedCase(work[p].key[1])
<1> SUFFICES ASSUME NEW k, k = work[p].key, NEW row, row = intent[k],
                    NEW owner, owner = IF row.case # NoCase THEN row.case ELSE case,
                    NEW given, given = case, NEW o, o = row.order,
                    NEW token, token = row.token + 1,
                    NEW state, state = IF row.state = "NONE" THEN "INTENT" ELSE row.state
             PROVE  Shape'
  OBVIOUS
<1>0. LocalShape /\ LocalTypes /\ IntentShape  BY DEF Shape, LocalShape
<1>1. UNCHANGED <<position, order, entryLeft, entryFilled, caseState, holder, due, faults, crashes>>
  BY DEF Claim
<1>2. Grows /\ GivenOrders' = GivenOrders /\ Filled' = Filled  BY <1>1, SameGood
<1>3. CounterShape'  BY <1>1, Counted
<1>4. SUFFICES Moves(p) /\ IntentShape'
  BY <1>0, <1>1, <1>2, <1>3, MovesShape, QuietShape
<1>5. /\ k \in Keys /\ row \in RowType /\ GoodRow(row, k, GivenOrders, Filled)
      /\ work[p] \in WorkType
  BY <1>0, WorkOfProcess DEF IntentShape
<1>6. Owner(case, k[1], Filled) /\ Owner(owner, k[1], Filled)
  BY <1>5, ResolvedOwner DEF GoodRow
<1>7. case \in Cases \cup {NoCase} /\ owner \in Cases \cup {NoCase}
  BY <1>6 DEF Owner, Filled
<1> HIDE DEF case
<1>8. CASE ~ Claimable(k)
  <2>1. EndTick(p) /\ UNCHANGED intent  BY <1>8 DEF Claim
  <2> QED  BY <1>0, <1>2, <2>1, IntentsKept DEF Moves
<1>9. CASE Claimable(k)
  <2> DEFINE new == [row EXCEPT !.state = state, !.token = token, !.leased = TRUE, !.case = owner]
             x == [work[p] EXCEPT !.token = token, !.order = o, !.case = owner, !.given = given,
                                  !.origin = "found"]
             label == IF row.order = NoOrder THEN "lookup" ELSE "observe"
  <2>1. /\ intent' = [intent EXCEPT ![k].state = IF @ = "NONE" THEN "INTENT" ELSE @,
                                    ![k].token = @ + 1, ![k].leased = TRUE, ![k].case = owner]
        /\ Continue(p, x, label) /\ UNCHANGED todo
    BY <1>9 DEF Claim, case
  <2>2. intent' = [intent EXCEPT ![k] = new]
    BY <1>0, <1>5, <2>1 DEF IntentShape, RowType
  <2>0. /\ state \in IntentStates /\ token \in Nat /\ o \in OrderIds \cup {NoOrder}
        /\ given \in Cases \cup {NoCase}
    BY <1>5, <1>7 DEF RowType, IntentStates
  <2>3. new \in RowType /\ new.order = row.order /\ new.case = owner
    BY <1>5, <1>7, <2>0 DEF RowType
  <2>4. GoodRow(new, k, GivenOrders', Filled')
    BY <1>2, <1>5, <1>6, <2>3 DEF GoodRow
  <2>5. GoodWork(x, GivenOrders', Filled')
    <3>1. x \in WorkType /\ x.key = k /\ x.order = row.order /\ x.case = owner /\ x.given = case
      BY <1>5, <1>7, <2>0 DEF WorkType
    <3> QED  BY <1>2, <1>5, <1>6, <3>1 DEF GoodWork, GoodRow
  <2>6. /\ label \in PcStates \ {"positions", "persist"}
        /\ label \in {"observe", "store"} => x.order # NoOrder
    BY <1>5 DEF PcStates, WorkType
  <2> HIDE DEF new, x, label
  <2>7. IntentShape'
    <3>1. intent' \in [Keys -> RowType]  BY <1>0, <1>5, <2>2, <2>3 DEF IntentShape
    <3>2. ASSUME NEW j \in Keys PROVE GoodRow(intent'[j], j, GivenOrders', Filled')
      <4>1. CASE j = k  BY <1>0, <1>5, <2>2, <2>4, <4>1 DEF IntentShape
      <4>2. CASE j # k  BY <1>0, <1>2, <2>2, <4>2 DEF IntentShape
      <4> QED  BY <4>1, <4>2
    <3> QED  BY <3>1, <3>2 DEF IntentShape
  <2>8. Moves(p)  BY <2>1, <2>5, <2>6 DEF Moves, TodoShrinks
  <2> QED  BY <2>7, <2>8
<1> QED  BY <1>8, <1>9

\* A result recorded moves at most its own case, and only on from a recorded fill.
LEMMA RecordedMoves ==
  ASSUME Shape, NEW p \in Processes, NEW r \in results[p], caseState' = RecordedCase(r)
  PROVE  /\ CaseShape' /\ Filled' = Filled
         /\ \A c \in Cases :
              \/ caseState'[c] = caseState[c]
              \/ /\ c = r.case /\ caseState[c] \in {"MANAGING", "CLOSED", "HALTED"}
                 /\ caseState'[c] \in {"MANAGING", "CLOSED", "HALTED"}
                 /\ caseState'[c] = "MANAGING" => caseState[c] = "MANAGING"
                 /\ caseState'[c] = "CLOSED" =>
                      caseState[c] = "CLOSED" \/ (r.state = "CLOSED" /\ caseState[c] = "MANAGING")
<1>1. /\ r \in ResultType /\ Owner(r.case, r.key[1], Filled)
      /\ caseState \in [Cases -> CaseStates]
  BY DEF Shape, LocalShape, GoodProcess, GoodResult, CaseShape
<1>2. CASE r.case = NoCase
  BY <1>1, <1>2 DEF RecordedCase, CaseShape, Filled
<1>3. CASE r.case # NoCase
  <2> DEFINE c == r.case
             after == AfterEvents(caseState[c], CloseEvents(caseState[c], r.state))
  <2>1. /\ c \in Cases /\ caseState[c] \in {"MANAGING", "CLOSED", "HALTED"}
        /\ caseState[c] \in CaseStates /\ r.state \in CloseOutcomes
    BY <1>1, <1>3 DEF Owner, Filled, ResultType
  <2>2. caseState' = [caseState EXCEPT ![c] = after]
    BY <1>3 DEF RecordedCase
  <2>3. /\ after \in CaseStates /\ after \in {"MANAGING", "CLOSED", "HALTED"}
        /\ after = "MANAGING" => caseState[c] = "MANAGING"
        /\ after = "CLOSED" =>
             caseState[c] = "CLOSED" \/ (r.state = "CLOSED" /\ caseState[c] = "MANAGING")
    BY <2>1, CloseMovesCase
  <2> HIDE DEF after
  <2>4. CaseShape'  BY <1>1, <2>2, <2>3 DEF CaseShape
  <2>5. ASSUME NEW d \in Cases
        PROVE  IF d = c THEN caseState'[d] = after ELSE caseState'[d] = caseState[d]
    BY <1>1, <2>2
  <2>6. Filled' = Filled
    BY <2>1, <2>3, <2>5 DEF Filled
  <2> QED  BY <2>1, <2>3, <2>4, <2>5, <2>6
<1> QED  BY <1>2, <1>3

LEMMA RecordShape ==
  ASSUME Shape, NEW p \in Processes, NEW r \in results[p], RecordPolled(p, r) \/ RecordClose(p, r)
  PROVE  Shape'
<1>0. LocalShape /\ LocalTypes /\ IntentShape /\ EntryShape /\ BrokerShape
  BY DEF Shape, LocalShape
<1>1. /\ UNCHANGED <<position, order, entryLeft, entryFilled, intent, holder, due, faults, crashes>>
      /\ caseState' = RecordedCase(r)
  BY DEF RecordPolled, RecordClose
<1>2. CaseShape' /\ Filled' = Filled  BY <1>1, RecordedMoves
<1>3. Grows /\ GivenOrders' = GivenOrders  BY <1>1, <1>2 DEF Grows, GivenOrders
<1>4. LocalShape'
  <2>1. CASE RecordClose(p, r)  BY <1>0, <1>3, <2>1, EndTickShape DEF RecordClose
  <2>2. CASE RecordPolled(p, r)
    <3>1. LocalTypes' /\ \A q \in Processes : results'[q] \subseteq results[q]
      BY <1>0, <2>2 DEF RecordPolled, LocalTypes
    <3>2. ASSUME NEW q \in Processes PROVE GoodProcess(q)'
      BY <1>0, <1>2, <1>3, <2>2, <3>1 DEF RecordPolled, LocalShape, GoodProcess
    <3> QED  BY <3>1, <3>2 DEF LocalShape
  <2> QED  BY <2>1, <2>2
<1>5. EntryShape'
  <2>1. holder # NoCase => holder \in Cases  BY <1>0 DEF EntryShape
  <2>2. holder # NoCase /\ caseState[holder] = "SUBMITTED" => caseState'[holder] = "SUBMITTED"
    BY <1>1, <2>1, RecordedMoves
  <2>3. holder # NoCase /\ caseState'[holder] \in {"MANAGING", "CLOSED"} =>
          caseState[holder] \in {"MANAGING", "CLOSED"}
    BY <1>1, <2>1, RecordedMoves
  <2> QED  BY <1>0, <1>1, <2>2, <2>3 DEF EntryShape
<1>6. BrokerShape'  BY <1>0, <1>1 DEF BrokerShape, Working
<1>7. CounterShape'  BY <1>1, Counted
<1> QED  BY <1>0, <1>1, <1>2, <1>3, <1>4, <1>5, <1>6, <1>7, IntentsKept DEF Shape
-----------------------------------------------------------------------------
(* Every step keeps the shape: orders, entries and the broker.             *)

\* The broker's view of one order taken.
LEMMA PlacedOrder ==
  ASSUME Shape, NEW k \in Keys, NEW o \in OrderIds, Placed(k, o),
         UNCHANGED <<position, entryLeft, entryFilled>>
  PROVE  /\ BrokerShape' /\ o \in GivenOrders' /\ GivenOrders \subseteq GivenOrders'
         /\ order'[o] = [key |-> k, status |-> "NEW", filled |-> 0]
         /\ \A i \in OrderIds \ {o} : order'[i] = order[i]
<1> DEFINE new == [key |-> k, status |-> "NEW", filled |-> 0]
<1>0. BrokerShape  BY DEF Shape
<1>1. order' = [order EXCEPT ![o] = new]  BY DEF Placed
<1>2. /\ new \in [key : Keys, status : OrderStates \cup {"NONE"}, filled : 0..Qty]
      /\ new.filled < new.key[2] /\ new.status = "NEW"
  BY KeyTypes, ConstantsAssumption DEF OrderStates, WorkingStates
<1> HIDE DEF new
<1>3. order'[o] = new /\ \A i \in OrderIds \ {o} : order'[i] = order[i]
  BY <1>0, <1>1 DEF BrokerShape
<1>4. BrokerShape'
  <2>1. order' \in [OrderIds -> OrderType]
    BY <1>0, <1>1, <1>2 DEF BrokerShape, OrderType
  <2>2. \A i \in OrderIds : Working(i)' => order'[i].filled < order'[i].key[2]
    BY <1>0, <1>2, <1>3 DEF BrokerShape, Working
  <2> QED  BY <1>0, <2>1, <2>2 DEF BrokerShape
<1>5. o \in GivenOrders' /\ GivenOrders \subseteq GivenOrders'
  BY <1>2, <1>3 DEF GivenOrders
<1> QED  BY <1>3, <1>4, <1>5 DEF new

LEMMA SubmitShape ==
  ASSUME Shape, NEW p \in Processes, NEW o \in OrderIds, Submit(p, o) \/ SubmitAnswerLost(p, o)
  PROVE  Shape'
<1>0. LocalShape /\ IntentShape /\ EntryShape /\ CaseShape  BY DEF Shape
<1>1. /\ Placed(work[p].key, o)
      /\ UNCHANGED <<position, entryLeft, entryFilled, caseState, intent, holder, due, todo>>
  BY DEF Submit, SubmitAnswerLost
<1>2. BrokerShape' /\ o \in GivenOrders' /\ GivenOrders \subseteq GivenOrders'
  BY <1>1, WorkOfProcess, PlacedOrder
<1>3. Grows /\ Filled' = Filled /\ CaseShape' /\ EntryShape'
  BY <1>0, <1>1, <1>2 DEF Grows, Filled, CaseShape, EntryShape
<1>4. GoodWork(work[p], GivenOrders', Filled') /\ work[p] \in WorkType
  BY <1>2, <1>3, WorkOfProcess, GoodGrows
<1>5. CounterShape'  BY Counted DEF Submit, SubmitAnswerLost
<1>6. LocalShape'
  <2>1. CASE Submit(p, o)
    <3> DEFINE x == [work[p] EXCEPT !.order = o]
    <3>1. GoodWork(x, GivenOrders', Filled') /\ x.order # NoOrder
      <4> SUFFICES ASSUME NEW w, w = work[p]
                   PROVE  /\ GoodWork([w EXCEPT !.order = o], GivenOrders', Filled')
                          /\ [w EXCEPT !.order = o].order # NoOrder
        OBVIOUS
      <4> QED  BY <1>2, <1>4, Adopted
    <3>2. Continue(p, x, "store") /\ UNCHANGED todo  BY <2>1 DEF Submit
    <3> HIDE DEF x
    <3>3. Moves(p)  BY <3>1, <3>2 DEF Moves, TodoShrinks, PcStates
    <3> QED  BY <1>0, <1>3, <3>3, MovesShape
  <2>2. CASE SubmitAnswerLost(p, o)
    <3>1. Moves(p)  BY <1>4, <2>2, OutcomeTypes DEF SubmitAnswerLost, Moves, TodoShrinks
    <3> QED  BY <1>0, <1>3, <3>1, MovesShape
  <2> QED  BY <2>1, <2>2
<1> QED  BY <1>0, <1>1, <1>2, <1>3, <1>5, <1>6, IntentsKept DEF Shape

LEMMA EnterShape ==
  ASSUME Shape, NEW p \in Processes, NEW c \in Cases, Enter(p, c)
  PROVE  Shape'
<1>0. LocalShape /\ IntentShape /\ EntryShape /\ CaseShape /\ BrokerShape  BY DEF Shape
<1>1. /\ UNCHANGED <<position, order, intent, faults, crashes>>
      /\ entryLeft' = Qty /\ entryFilled' = 0 /\ holder' = c /\ due' = FALSE
      /\ caseState[c] = "CERTIFIED" /\ caseState' = [caseState EXCEPT ![c] = "SUBMITTED"]
      /\ EndTick(p)
  BY DEF Enter
<1>2. CaseShape' /\ caseState'[c] = "SUBMITTED"  BY <1>0, <1>1 DEF CaseShape, CaseStates
<1>3. Filled' = Filled /\ GivenOrders' = GivenOrders
  <2>1. \A d \in Cases : caseState'[d] = caseState[d] \/ (d = c /\ caseState'[d] = "SUBMITTED")
    BY <1>0, <1>1 DEF CaseShape
  <2> QED  BY <1>1, <2>1 DEF Filled, GivenOrders
<1>4. LocalShape' /\ IntentShape'
  BY <1>0, <1>1, <1>3, EndTickShape, IntentsKept DEF Grows
<1>5. BrokerShape'
  BY <1>0, <1>1, ConstantsAssumption DEF BrokerShape, Working
<1>6. EntryShape'
  BY <1>1, <1>2, NamesAssumption DEF EntryShape
<1>7. CounterShape'  BY <1>1, Counted
<1> QED  BY <1>2, <1>4, <1>5, <1>6, <1>7 DEF Shape

\* The case that an entry's progress may move is the one that holds it.
LEMMA EntrySteps ==
  ASSUME Shape, (\E n \in 1..Qty : EntryFills(n)) \/ EntryDies \/ EntryRecorded
  PROVE  /\ Shape'
         /\ \A c \in Cases : caseState'[c] = caseState[c] \/ (c = holder /\ caseState[c] = "SUBMITTED"
                                                              /\ caseState'[c] \in {"MANAGING", "HALTED"})
<1>0. LocalShape /\ IntentShape /\ EntryShape /\ CaseShape /\ BrokerShape  BY DEF Shape
<1>1. UNCHANGED <<order, intent, holder, due, pc, todo, work, obs, flat, results, halt, faults, crashes>>
  BY DEF EntryFills, EntryDies, EntryRecorded
<1>2. /\ BrokerShape'
      /\ entryLeft' <= entryLeft /\ entryLeft' \in Nat
  <2>1. ASSUME NEW n \in 1..Qty, EntryFills(n)
        PROVE  BrokerShape' /\ entryLeft' <= entryLeft /\ entryLeft' \in Nat
    <3>1. /\ entryLeft' = entryLeft - n /\ entryFilled' = entryFilled + n /\ n <= entryLeft
          /\ position' = [position EXCEPT ![LegsOf[holder]] = @ + n]
      BY <2>1 DEF EntryFills
    <3>2. position' \in [Legs -> Int]
      <4>1. \A l \in Legs : position[l] + n \in Int  BY <1>0 DEF BrokerShape
      <4> QED  BY <1>0, <3>1, <4>1 DEF BrokerShape
    <3>3. entryLeft' \in 0..Qty /\ entryFilled' \in 0..Qty /\ entryLeft' + entryFilled' <= Qty
      BY <1>0, <3>1, ConstantsAssumption DEF BrokerShape
    <3> QED  BY <1>0, <1>1, <3>1, <3>2, <3>3 DEF BrokerShape, Working
  <2>2. CASE EntryDies
    BY <1>0, <1>1, <2>2, ConstantsAssumption DEF BrokerShape, EntryDies, Working
  <2>3. CASE EntryRecorded
    BY <1>0, <1>1, <2>3, ConstantsAssumption DEF BrokerShape, EntryRecorded, Working
  <2> QED  BY <2>1, <2>2, <2>3
<1>3. \/ UNCHANGED caseState /\ (EntryDies \/ LateEntries)
      \/ /\ holder \in Cases /\ caseState[holder] = "SUBMITTED"
         /\ \E state \in {"MANAGING", "HALTED"} :
              /\ caseState' = [caseState EXCEPT ![holder] = state]
              /\ state = "MANAGING" => entryLeft' = 0
         /\ LateEntries \/ entryLeft' = 0
  <2>1. ASSUME NEW n \in 1..Qty, EntryFills(n), ~ LateEntries
        PROVE  /\ holder \in Cases /\ caseState[holder] = "SUBMITTED"
               /\ caseState' = [caseState EXCEPT ![holder] = "MANAGING"] /\ entryLeft' = 0
    <3>1. /\ entryLeft' = entryLeft - n /\ n = Qty /\ n <= entryLeft
          /\ caseState' = [caseState EXCEPT ![holder] = "MANAGING"]
      BY <2>1 DEF EntryFills
    <3>2. entryLeft > 0 /\ entryLeft <= Qty  BY <1>0, <3>1, ConstantsAssumption DEF BrokerShape
    <3> QED  BY <1>0, <2>1, <3>1, <3>2, ConstantsAssumption DEF EntryShape, BrokerShape
  <2>2. ASSUME NEW n \in 1..Qty, EntryFills(n), LateEntries PROVE UNCHANGED caseState
    BY <2>2 DEF EntryFills
  <2>3. ASSUME EntryRecorded
        PROVE  /\ LateEntries
               /\ holder \in Cases /\ caseState[holder] = "SUBMITTED"
               /\ \E state \in {"MANAGING", "HALTED"} :
                    /\ caseState' = [caseState EXCEPT ![holder] = state]
                    /\ state = "MANAGING" => entryLeft' = 0
    <3>1. PICK outcome \in {"FILLED", "RECONCILE_REQUIRED"} :
            /\ outcome = "FILLED" => entryFilled = Qty
            /\ caseState' = [caseState EXCEPT ![holder] = AfterEvents(@, EntryEvents(@, outcome))]
      BY <2>3 DEF EntryRecorded
    <3>2. /\ holder \in Cases /\ caseState[holder] = "SUBMITTED" /\ LateEntries
          /\ UNCHANGED entryLeft
      BY <1>0, <2>3 DEF EntryRecorded, EntryShape
    <3>3. caseState' = [caseState EXCEPT ![holder] =
                          AfterEvents("SUBMITTED", EntryEvents("SUBMITTED", outcome))]
      BY <3>1, <3>2
    <3>4. CASE outcome = "FILLED"
      <4>1. caseState' = [caseState EXCEPT ![holder] = "MANAGING"]
        BY <3>3, <3>4, EntryMovesCase
      <4>2. entryLeft' = 0
        BY <1>0, <3>1, <3>2, <3>4, ConstantsAssumption DEF BrokerShape
      <4> QED  BY <3>2, <4>1, <4>2
    <3>5. CASE outcome = "RECONCILE_REQUIRED"
      BY <3>2, <3>3, <3>5, EntryMovesCase
    <3> QED  BY <3>1, <3>4, <3>5
  <2>4. ASSUME EntryDies PROVE UNCHANGED caseState  BY <2>4 DEF EntryDies
  <2> QED  BY <2>1, <2>2, <2>3, <2>4
<1>4. \A c \in Cases : caseState'[c] = caseState[c] \/ (c = holder /\ caseState[c] = "SUBMITTED"
                                                        /\ caseState'[c] \in {"MANAGING", "HALTED"})
  BY <1>0, <1>3 DEF CaseShape
<1>5. CaseShape'  BY <1>0, <1>3 DEF CaseShape, CaseStates
<1>6. Grows  BY <1>1, <1>4 DEF Grows, GivenOrders, Filled
<1>7. EntryShape'
  <2>1. CASE UNCHANGED caseState /\ (EntryDies \/ LateEntries)
    <3>1. EntryDies => LateEntries  BY DEF EntryDies
    <3> QED  BY <1>0, <1>1, <1>2, <2>1, <3>1 DEF EntryShape, BrokerShape
  <2>2. ASSUME holder \in Cases, caseState[holder] = "SUBMITTED", LateEntries \/ entryLeft' = 0,
               NEW state \in {"MANAGING", "HALTED"},
               caseState' = [caseState EXCEPT ![holder] = state],
               state = "MANAGING" => entryLeft' = 0
        PROVE  EntryShape'
    <3>1. caseState'[holder] = state  BY <1>0, <2>2 DEF CaseShape
    <3> QED  BY <1>0, <1>1, <1>2, <2>2, <3>1 DEF EntryShape, BrokerShape
  <2> QED  BY <1>3, <2>1, <2>2
<1>8. LocalShape' /\ IntentShape' /\ CounterShape'
  BY <1>0, <1>1, <1>6, LocalsKept, IntentsKept, Counted
<1> QED  BY <1>2, <1>4, <1>5, <1>7, <1>8 DEF Shape

\* One order changed at the broker, which stays a given one.
LEMMA OrderChanged ==
  ASSUME BrokerShape, NEW o \in OrderIds, Working(o),
         NEW status \in OrderStates, NEW n \in 0..Qty,
         order' = [order EXCEPT ![o].filled = n, ![o].status = status],
         status \in WorkingStates => n < order[o].key[2]
  PROVE  /\ order' \in [OrderIds -> OrderType]
         /\ \A i \in OrderIds : Working(i)' => order'[i].filled < order'[i].key[2]
         /\ GivenOrders' = GivenOrders
         /\ \A i \in OrderIds \ {o} : order'[i] = order[i]
         /\ order'[o] = [key |-> order[o].key, status |-> status, filled |-> n]
<1> DEFINE new == [order[o] EXCEPT !.filled = n, !.status = status]
<1>1. order \in [OrderIds -> OrderType] /\ order[o] \in OrderType  BY DEF BrokerShape
<1>2. order' = [order EXCEPT ![o] = new]  BY <1>1 DEF OrderType
<1>3. /\ new \in OrderType /\ new.status = status /\ new.filled = n /\ new.key = order[o].key
      /\ new = [key |-> order[o].key, status |-> status, filled |-> n]
  <2>1. new \in OrderType /\ new.status = status /\ new.filled = n /\ new.key = order[o].key
    BY <1>1 DEF OrderType
  <2>2. ASSUME NEW x \in OrderType
        PROVE  x = [key |-> x.key, status |-> x.status, filled |-> x.filled]
    BY DEF OrderType
  <2> QED  BY <2>1, <2>2
<1> HIDE DEF new
<1>4. order' \in [OrderIds -> OrderType]  BY <1>1, <1>2, <1>3
<1>5. order'[o] = new /\ \A i \in OrderIds \ {o} : order'[i] = order[i]  BY <1>1, <1>2
<1>6. \A i \in OrderIds : Working(i)' => order'[i].filled < order'[i].key[2]
  BY <1>3, <1>5 DEF Working, BrokerShape
<1>7. GivenOrders' = GivenOrders
  <2>1. status # "NONE" /\ order[o].status # "NONE"
    BY DEF OrderStates, WorkingStates, Working
  <2> QED  BY <1>3, <1>5, <2>1 DEF GivenOrders
<1> QED  BY <1>3, <1>4, <1>5, <1>6, <1>7

\* What the broker does with a working order: one more structure filled, or its end.
LEMMA FillChange ==
  ASSUME Shape, NEW o \in OrderIds, Fill(o)
  PROVE  LET k == order[o].key
             n == order[o].filled + 1
             status == IF n = k[2] THEN "FILLED" ELSE "PARTIALLY_FILLED"
         IN  /\ k \in Keys /\ k[1] \in Legs /\ k[2] \in 1..Qty /\ n \in 1..Qty /\ n <= k[2]
             /\ order'[o] = [key |-> k, status |-> status, filled |-> n]
             /\ \A i \in OrderIds \ {o} : order'[i] = order[i]
             /\ position' = [position EXCEPT ![k[1]] = @ - 1]
             /\ BrokerShape' /\ GivenOrders' = GivenOrders
<1> DEFINE k == order[o].key
           n == order[o].filled + 1
           status == IF n = k[2] THEN "FILLED" ELSE "PARTIALLY_FILLED"
<1>0. BrokerShape /\ Working(o)  BY DEF Shape, Fill
<1>1. k \in Keys /\ k[1] \in Legs /\ k[2] \in 1..Qty /\ order[o].filled \in 0..Qty
  BY <1>0, KeyTypes DEF BrokerShape, OrderType
<1>2. n \in 1..Qty /\ n <= k[2]
  BY <1>0, <1>1, ConstantsAssumption DEF BrokerShape
<1>3. /\ order' = [order EXCEPT ![o].filled = n, ![o].status = status]
      /\ position' = [position EXCEPT ![k[1]] = @ - 1]
      /\ UNCHANGED <<entryLeft, entryFilled>>
  BY DEF Fill
<1>4. status \in OrderStates /\ (status \in WorkingStates => n < k[2]) /\ n \in 0..Qty
  BY <1>1, <1>2 DEF OrderStates, WorkingStates
<1> HIDE DEF status, n
<1>5. /\ order' \in [OrderIds -> OrderType]
      /\ \A i \in OrderIds : Working(i)' => order'[i].filled < order'[i].key[2]
      /\ GivenOrders' = GivenOrders
      /\ \A i \in OrderIds \ {o} : order'[i] = order[i]
      /\ order'[o] = [key |-> k, status |-> status, filled |-> n]
  BY <1>0, <1>3, <1>4, OrderChanged
<1>6. position' \in [Legs -> Int]
  <2>1. \A l \in Legs : position[l] - 1 \in Int  BY <1>0 DEF BrokerShape
  <2> QED  BY <1>0, <1>1, <1>3, <2>1 DEF BrokerShape
<1>7. BrokerShape'  BY <1>0, <1>3, <1>5, <1>6 DEF BrokerShape
<1> QED  BY <1>1, <1>2, <1>3, <1>5, <1>7 DEF status, n

LEMMA DieChange ==
  ASSUME Shape, NEW o \in OrderIds, Die(o)
  PROVE  /\ BrokerShape' /\ GivenOrders' = GivenOrders /\ UNCHANGED position
         /\ \A i \in OrderIds \ {o} : order'[i] = order[i]
         /\ ~ Working(o)' /\ order'[o].key = order[o].key
<1>0. BrokerShape /\ Working(o)  BY DEF Shape, Die
<1>1. PICK status \in {"CANCELED", "REJECTED"} : order' = [order EXCEPT ![o].status = status]
  BY DEF Die
<1>2. order[o].filled \in 0..Qty  BY <1>0 DEF BrokerShape, OrderType
<1>3. order' = [order EXCEPT ![o].filled = order[o].filled, ![o].status = status]
  BY <1>0, <1>1 DEF BrokerShape
<1>4. status \in OrderStates /\ status \notin WorkingStates  BY DEF OrderStates, WorkingStates
<1>5. /\ order' \in [OrderIds -> OrderType]
      /\ \A i \in OrderIds : Working(i)' => order'[i].filled < order'[i].key[2]
      /\ GivenOrders' = GivenOrders
      /\ \A i \in OrderIds \ {o} : order'[i] = order[i]
      /\ order'[o] = [key |-> order[o].key, status |-> status, filled |-> order[o].filled]
  BY <1>0, <1>2, <1>3, <1>4, OrderChanged
<1>6. BrokerShape'  BY <1>0, <1>5 DEF BrokerShape, Die
<1> QED  BY <1>4, <1>5, <1>6 DEF Working, Die

LEMMA BrokerSteps ==
  ASSUME Shape, NEW o \in OrderIds, Fill(o) \/ Die(o)
  PROVE  Shape'
<1>1. /\ UNCHANGED <<entryLeft, caseState, intent, holder, due, pc, todo, work, obs, flat, results,
                     halt, faults, crashes>>
  BY DEF Fill, Die
<1>2. BrokerShape' /\ GivenOrders' = GivenOrders
  BY FillChange, DieChange
<1>3. Grows  BY <1>1, <1>2 DEF Grows, Filled
<1>4. CaseShape' /\ EntryShape'  BY <1>1 DEF Shape, CaseShape, EntryShape
<1> QED  BY <1>1, <1>2, <1>3, <1>4, LocalsKept, IntentsKept, Counted DEF Shape

LEMMA OtherSteps ==
  ASSUME Shape, (\E k \in Keys : LeaseExpires(k)) \/ ExitDue \/ UNCHANGED vars
  PROVE  Shape'
<1>1. ASSUME NEW k \in Keys, LeaseExpires(k) PROVE Shape'
  <2>1. UNCHANGED <<position, order, entryLeft, entryFilled, caseState, holder, due, pc, todo,
                    work, obs, flat, results, halt, faults, crashes>>
    BY <1>1 DEF LeaseExpires
  <2>2. Grows /\ GivenOrders' = GivenOrders /\ Filled' = Filled  BY <2>1, SameGood
  <2>3. IntentShape'
    <3> DEFINE new == [intent[k] EXCEPT !.leased = FALSE]
    <3>1. intent' = [intent EXCEPT ![k] = new]
      BY <1>1 DEF LeaseExpires, Shape, IntentShape, RowType
    <3>2. new \in RowType /\ new.order = intent[k].order /\ new.case = intent[k].case
      BY DEF Shape, IntentShape, RowType
    <3> HIDE DEF new
    <3>3. intent' \in [Keys -> RowType]  BY <3>1, <3>2 DEF Shape, IntentShape
    <3>4. \A j \in Keys : intent'[j].order = intent[j].order /\ intent'[j].case = intent[j].case
      BY <3>1, <3>2 DEF Shape, IntentShape
    <3> QED  BY <2>2, <3>3, <3>4 DEF Shape, IntentShape, GoodRow
  <2>4. LocalShape' /\ CounterShape'  BY <2>1, <2>2, LocalsKept, Counted DEF Shape
  <2> QED  BY <2>1, <2>3, <2>4, QuietShape
<1>2. CASE ExitDue \/ UNCHANGED vars
  <2>1. /\ UNCHANGED <<position, order, entryLeft, entryFilled, caseState, intent, holder, pc, todo,
                       work, obs, flat, results, halt, faults, crashes>>
        /\ due' \in BOOLEAN
    BY <1>2 DEF ExitDue, vars, Shape, EntryShape
  <2>2. Grows  BY <2>1, SameGood
  <2>3. LocalShape' /\ IntentShape' /\ CounterShape'
    BY <2>1, <2>2, LocalsKept, IntentsKept, Counted DEF Shape
  <2>4. BrokerShape' /\ CaseShape' /\ EntryShape'
    BY <2>1 DEF Shape, BrokerShape, CaseShape, EntryShape, Working
  <2> QED  BY <2>3, <2>4 DEF Shape
<1> QED  BY <1>1, <1>2

LEMMA EveryStepShape ==
  ASSUME Shape, [Next]_vars
  PROVE  Shape'
<1>1. ASSUME NEW p \in Processes, Step(p) PROVE Shape'
  <2>1. CASE ReadIntents(p)  BY <2>1, ReadIntentsShape
  <2>2. CASE \/ \E w \in todo[p] : PollKnown(p, w) \/ PollLookupFails(p, w)
             \/ ObserveFails(p) \/ Polled(p) \/ RecordFails(p) \/ Hold(p) \/ SnapshotFails(p)
             \/ \E l \in Legs : Exit(p, l)
             \/ LookUpFails(p) \/ OrdersFail(p) \/ Price(p) \/ SubmitRefused(p)
    BY <2>2, LocalSteps
  <2>3. CASE ObserveOrder(p) \/ ObservePositions(p)  BY <2>3, ObserveShape
  <2>4. CASE \/ \E w \in todo[p] : PollUnknown(p, w)
             \/ Persist(p) \/ LookUp(p) \/ CheckOrders(p) \/ PriceFails(p) \/ Store(p)
    BY <2>4, WritingSteps
  <2>5. CASE Claim(p)  BY <2>5, ClaimShape
  <2>6. CASE \E r \in results[p] : RecordPolled(p, r) \/ RecordClose(p, r)  BY <2>6, RecordShape
  <2>7. CASE \E o \in OrderIds : Submit(p, o) \/ SubmitAnswerLost(p, o)  BY <2>7, SubmitShape
  <2>8. CASE \E c \in Cases : Enter(p, c)  BY <2>8, EnterShape
  <2> QED  BY <1>1, <2>1, <2>2, <2>3, <2>4, <2>5, <2>6, <2>7, <2>8 DEF Step
<1>2. ASSUME NEW p \in Processes, Crash(p) PROVE Shape'  BY <1>2, LocalSteps
<1>3. CASE Environment
  BY <1>3, EntrySteps, BrokerSteps, OtherSteps DEF Environment
<1>4. CASE UNCHANGED vars  BY <1>4, OtherSteps
<1> QED  BY <1>1, <1>2, <1>3, <1>4 DEF Next

LEMMA InitShape == Init => Shape
<1> SUFFICES ASSUME Init PROVE Shape
  OBVIOUS
<1>1. BrokerShape
  <2>1. order \in [OrderIds -> OrderType]
    BY KeyTypes, ConstantsAssumption DEF Init, OrderType
  <2>2. \A o \in OrderIds : ~ Working(o)  BY DEF Init, Working, WorkingStates
  <2>3. position \in [Legs -> Int]  BY DEF Init
  <2>4. entryLeft = 0 /\ entryFilled = 0  BY DEF Init
  <2> QED  BY <2>1, <2>2, <2>3, <2>4, ConstantsAssumption DEF BrokerShape
<1>2. CaseShape  BY DEF Init, CaseShape, CaseStates
<1>3. IntentShape
  <2>1. NoRow \in RowType
    <3>1. "NONE" \in IntentStates /\ 0 \in Nat /\ FALSE \in BOOLEAN  BY DEF IntentStates
    <3> QED  BY <3>1 DEF NoRow, RowType
  <2>2. \A given, filled, k : GoodRow(NoRow, k, given, filled)  BY DEF NoRow, GoodRow, Owner
  <2> QED  BY <2>1, <2>2 DEF Init, IntentShape
<1>4. EntryShape
  <2>1. entryLeft = 0 /\ holder = NoCase /\ due = FALSE  BY DEF Init
  <2>2. ~ (entryLeft > 0)  BY <2>1
  <2> QED  BY <2>1, <2>2 DEF EntryShape
<1>5. LocalShape
  <2>1. NoWork \in WorkType  BY NoWorkIsGood DEF GoodWork
  <2>2. LocalTypes  BY <2>1 DEF Init, LocalTypes, PcStates
  <2>3. \A p \in Processes : GoodProcess(p)  BY NoWorkIsGood DEF Init, GoodProcess
  <2> QED  BY <2>2, <2>3 DEF LocalShape
<1>6. CounterShape  BY ConstantsAssumption DEF Init, CounterShape
<1> QED  BY <1>1, <1>2, <1>3, <1>4, <1>5, <1>6 DEF Shape

LEMMA ShapeInvariant == Spec => []Shape
<1>1. Shape /\ [Next]_vars => Shape'  BY EveryStepShape
<1> QED  BY <1>1, InitShape, PTL DEF Spec

\* TypeOK: the close intents, the orders behind them, the results in flight and the
\* broker's book keep their types, whatever fails and however many processes close.
THEOREM CloseTypeCorrect == Spec => []TypeOK
<1>1. Shape => TypeOK
  <2> SUFFICES ASSUME Shape PROVE TypeOK
    OBVIOUS
  <2>1. /\ position \in [Legs -> Int]
        /\ order \in [OrderIds -> OrderType]
        /\ entryLeft \in 0..Qty /\ entryFilled \in 0..Qty
    BY DEF Shape, BrokerShape
  <2>2. caseState \in [Cases -> CaseStates] /\ intent \in [Keys -> RowType]
    BY DEF Shape, CaseShape, IntentShape
  <2>3. holder \in Cases \cup {NoCase} /\ due \in BOOLEAN /\ faults \in 0..MaxFaults
        /\ crashes \in 0..MaxCrashes
    BY DEF Shape, EntryShape, CounterShape
  <2>4. /\ pc \in [Processes -> PcStates]
        /\ obs \in [Processes -> OrderStates \cup {"NONE"}]
        /\ flat \in [Processes -> BOOLEAN] /\ halt \in [Processes -> BOOLEAN]
        /\ \A p \in Processes :
             todo[p] \subseteq WorkType /\ work[p] \in WorkType /\ results[p] \subseteq ResultType
    BY DEF Shape, LocalShape, LocalTypes
  <2> QED  BY <2>1, <2>2, <2>3, <2>4 DEF TypeOK, OrderType, RowType, PcStates, ResultType
<1> QED  BY <1>1, ShapeInvariant, PTL
-----------------------------------------------------------------------------
(* What the steps of a process leave alone.                                *)

\* Where a process works on a close it has decided and not yet submitted.
Holding == {"claim", "lookup", "orders", "price", "submit"}

OthersKept(p) ==
  \A q \in Processes \ {p} :
    /\ pc'[q] = pc[q] /\ todo'[q] = todo[q] /\ work'[q] = work[q] /\ flat'[q] = flat[q]
    /\ results'[q] = results[q]

\* The key of a close is what the snapshot held, and no order works when it is priced.
KeepsKey(p) ==
  /\ pc'[p] \in Holding =>
       \/ pc[p] \in Holding /\ work'[p].key = work[p].key
       \/ pc'[p] = "claim" /\ position[work'[p].key[1]] = work'[p].key[2]
  /\ pc'[p] \in {"price", "submit"} =>
       pc[p] \in {"price", "submit"} \/ (pc[p] = "orders" /\ ~ AnyWorking)

\* A result says CLOSED of a case only if the process has just seen its legs flat.
SeesFlat(p) ==
  /\ pc'[p] = "persist" =>
       work'[p] = work[p] /\ flat'[p] = (position[work[p].key[1]] = 0)
  /\ \A r \in results'[p] :
       \/ r \in results[p]
       \/ r.state # "CLOSED"
       \/ pc[p] = "persist" /\ flat[p] /\ r.case = work[p].case

Quiet(p) == OthersKept(p) /\ KeepsKey(p) /\ SeesFlat(p)

LEMMA EndTickQuiet ==
  ASSUME LocalTypes, NEW p \in Processes, EndTick(p)
  PROVE  Quiet(p)
<1>1. pc'[p] = "idle" /\ results'[p] = {}
  BY DEF LocalTypes, EndTick, Goto
<1>2. OthersKept(p)
  BY DEF LocalTypes, EndTick, Goto, OthersKept
<1> QED  BY <1>1, <1>2 DEF Quiet, KeepsKey, SeesFlat, Holding

LEMMA ReturnQuiet ==
  ASSUME LocalTypes, NEW p \in Processes, NEW w, NEW st, Return(p, w, st), TodoShrinks(p),
         st # "CLOSED" \/ (pc[p] = "persist" /\ flat[p] /\ w.case = work[p].case)
  PROVE  Quiet(p)
<1> DEFINE r == [key |-> w.key, case |-> w.case, state |-> st]
<1>0. r.state = st /\ r.case = w.case  OBVIOUS
<1>1. results' = [results EXCEPT ![p] = @ \cup {r}]  BY DEF Return
<1> HIDE DEF r
<1>2. pc'[p] \in {"poll", "closed"} /\ results'[p] = results[p] \cup {r}
  BY <1>1 DEF LocalTypes, Return, Goto
<1>3. OthersKept(p)
  BY <1>1, TodoShrunk DEF LocalTypes, Return, Goto, OthersKept
<1> QED  BY <1>0, <1>2, <1>3 DEF Quiet, KeepsKey, SeesFlat, Holding

LEMMA ContinueQuiet ==
  ASSUME LocalTypes, NEW p \in Processes, NEW w, NEW label, label # "persist",
         Continue(p, w, label), TodoShrinks(p),
         label \in Holding =>
           \/ pc[p] \in Holding /\ w.key = work[p].key
           \/ label = "claim" /\ position[w.key[1]] = w.key[2],
         label \in {"price", "submit"} =>
           pc[p] \in {"price", "submit"} \/ (pc[p] = "orders" /\ ~ AnyWorking)
  PROVE  Quiet(p)
<1>1. pc'[p] = label /\ work'[p] = w /\ results'[p] = results[p]
  BY DEF LocalTypes, Continue, Goto
<1>2. OthersKept(p)
  BY TodoShrunk DEF LocalTypes, Continue, Goto, OthersKept
<1> QED  BY <1>1, <1>2 DEF Quiet, KeepsKey, SeesFlat

LEMMA ProcessQuiet ==
  ASSUME Shape, NEW p \in Processes, Step(p) \/ Crash(p)
  PROVE  Quiet(p)
<1>0. LocalShape /\ LocalTypes  BY DEF Shape, LocalShape
<1> DEFINE Ended == EndTick(p)
           Failed == \E w : Return(p, w, "RECONCILE_REQUIRED") /\ TodoShrinks(p)
<1>a. ASSUME Ended \/ Failed PROVE Quiet(p)
  BY <1>0, <1>a, EndTickQuiet, ReturnQuiet
<1>1. CASE \/ ObserveFails(p) \/ RecordFails(p) \/ Hold(p) \/ SnapshotFails(p) \/ OrdersFail(p)
           \/ PriceFails(p) \/ SubmitRefused(p) \/ Crash(p)
           \/ \E w \in todo[p] : PollLookupFails(p, w)
           \/ \E r \in results[p] : RecordClose(p, r)
           \/ \E c \in Cases : Enter(p, c)
           \/ \E o \in OrderIds : SubmitAnswerLost(p, o)
  BY <1>1, <1>a DEF ObserveFails, RecordFails, Hold, SnapshotFails, OrdersFail, PriceFails,
     SubmitRefused, Crash, PollLookupFails, RecordClose, Enter, SubmitAnswerLost, TodoShrinks
<1>2. CASE ReadIntents(p) \/ ObserveOrder(p)
  <2>1. pc'[p] \in {"poll", "positions"} /\ results'[p] = results[p]
    BY <1>0, <1>2 DEF ReadIntents, ObserveOrder, LocalTypes, Goto
  <2>2. OthersKept(p)
    BY <1>0, <1>2 DEF ReadIntents, ObserveOrder, LocalTypes, Goto, OthersKept
  <2> QED  BY <2>1, <2>2 DEF Quiet, KeepsKey, SeesFlat, Holding
<1>3. CASE ObservePositions(p)
  <2>1. pc'[p] = "persist" /\ results'[p] = results[p] /\ work'[p] = work[p]
        /\ flat'[p] = (position[work[p].key[1]] = 0)
    BY <1>0, <1>3 DEF ObservePositions, LocalTypes, Goto
  <2>2. OthersKept(p)
    BY <1>0, <1>3 DEF ObservePositions, LocalTypes, Goto, OthersKept
  <2> QED  BY <2>1, <2>2 DEF Quiet, KeepsKey, SeesFlat, Holding
<1>4. CASE \E r \in results[p] : RecordPolled(p, r)
  <2>1. pc'[p] = "poll" /\ results'[p] \subseteq results[p]
    BY <1>0, <1>4 DEF RecordPolled, LocalTypes
  <2>2. OthersKept(p)
    BY <1>0, <1>4 DEF RecordPolled, LocalTypes, OthersKept
  <2> QED  BY <2>1, <2>2 DEF Quiet, KeepsKey, SeesFlat, Holding
<1>5. CASE Polled(p)
  <2>1. Ended \/ Continue(p, work[p], "manage")
    BY <1>0, <1>5 DEF Polled, Continue, LocalTypes
  <2>2. Continue(p, work[p], "manage") => Quiet(p)
    <3>1. UNCHANGED todo \/ Ended  BY <1>5 DEF Polled
    <3> QED  BY <1>0, <1>a, <3>1, ContinueQuiet DEF Holding, TodoShrinks
  <2> QED  BY <1>a, <2>1, <2>2
<1>6. ASSUME NEW w \in todo[p], PollKnown(p, w) \/ PollUnknown(p, w) PROVE Quiet(p)
  <2>1. TodoShrinks(p)  BY <1>6 DEF PollKnown, PollUnknown, TodoShrinks
  <2>2. Failed \/ \E x : Continue(p, x, "observe")
    BY <1>6, <2>1 DEF PollKnown, PollUnknown
  <2>3. \A x : Continue(p, x, "observe") => Quiet(p)
    BY <1>0, <2>1, ContinueQuiet DEF Holding
  <2> QED  BY <1>a, <2>2, <2>3
<1>7. CASE Persist(p)
  <2> DEFINE outcome == CloseOutcome(obs[p], flat[p])
  <2>1. obs[p] \in OrderStates /\ flat[p] \in BOOLEAN
    BY <1>0, <1>7 DEF Persist, LocalShape, LocalTypes, GoodProcess
  <2>2. outcome = "CLOSED" => flat[p]  BY <2>1, OutcomeTypes
  <2>3. pc[p] = "persist" /\ (Ended \/ (Return(p, work[p], outcome) /\ UNCHANGED todo))
    BY <1>7 DEF Persist
  <2> HIDE DEF outcome
  <2>4. CASE Return(p, work[p], outcome) /\ UNCHANGED todo
    BY <1>0, <2>2, <2>3, <2>4, ReturnQuiet DEF TodoShrinks
  <2> QED  BY <1>a, <2>3, <2>4
<1>8. ASSUME NEW l \in Legs, Exit(p, l) PROVE Quiet(p)
  <2> DEFINE w == [NoWork EXCEPT !.key = <<l, position[l]>>]
  <2>1. w.key = <<l, position[l]>>  BY DEF NoWork
  <2>2. Continue(p, w, "claim") /\ UNCHANGED todo  BY <1>8 DEF Exit
  <2> HIDE DEF w
  <2>3. position[w.key[1]] = w.key[2]  BY <2>1
  <2> QED  BY <1>0, <2>2, <2>3, ContinueQuiet DEF TodoShrinks
<1>9. ASSUME NEW w, w.key = work[p].key, NEW label \in {"lookup", "orders"}, pc[p] \in Holding,
             Continue(p, w, label), UNCHANGED todo
      PROVE  Quiet(p)
  BY <1>0, <1>9, ContinueQuiet DEF TodoShrinks, Holding
<1>10. ASSUME NEW w, NEW label \in {"observe", "store"}, Continue(p, w, label), UNCHANGED todo
       PROVE  Quiet(p)
  BY <1>0, <1>10, ContinueQuiet DEF TodoShrinks, Holding
<1>11. work[p] \in WorkType  BY WorkOfProcess
<1>12. CASE Claim(p)
  <2>0. Ended \/ /\ UNCHANGED todo
                 /\ \E token, o, owner, given :
                      LET w == [work[p] EXCEPT !.token = token, !.order = o, !.case = owner,
                                               !.given = given, !.origin = "found"]
                      IN  Continue(p, w, "lookup") \/ Continue(p, w, "observe")
    BY <1>12 DEF Claim
  <2>1. ASSUME NEW token, NEW o, NEW owner, NEW given, UNCHANGED todo, NEW w,
               w = [work[p] EXCEPT !.token = token, !.order = o, !.case = owner,
                                   !.given = given, !.origin = "found"],
               Continue(p, w, "lookup") \/ Continue(p, w, "observe")
        PROVE  Quiet(p)
    <3>1. w.key = work[p].key  BY <1>11, <2>1 DEF WorkType
    <3>2. pc[p] \in Holding  BY <1>12 DEF Claim, Holding
    <3> QED  BY <1>9, <1>10, <2>1, <3>1, <3>2
  <2> QED  BY <1>a, <2>0, <2>1
<1>13. CASE LookUp(p) \/ LookUpFails(p)
  <2>1. UNCHANGED todo /\ pc[p] \in Holding  BY <1>13 DEF LookUp, LookUpFails, Holding
  <2>2. CASE NotSubmitted(p)
    <3>1. ASSUME NEW w, w = [work[p] EXCEPT !.case = work[p].given] PROVE w.key = work[p].key
      BY <1>11, <3>1 DEF WorkType
    <3>2. PICK w : w.key = work[p].key /\ Continue(p, w, "orders")
      BY <2>2, <3>1 DEF NotSubmitted
    <3> QED  BY <1>9, <2>1, <3>2
  <2>3. Failed \/ NotSubmitted(p) \/ \E w : Continue(p, w, "observe")
    BY <1>13, <2>1 DEF LookUp, LookUpFails, TodoShrinks
  <2> QED  BY <1>a, <1>10, <2>1, <2>2, <2>3
<1>14. CASE CheckOrders(p)
  <2>1. \/ Ended \/ Failed
        \/ Continue(p, work[p], "price") /\ UNCHANGED todo /\ pc[p] = "orders" /\ ~ AnyWorking
    BY <1>14 DEF CheckOrders, TodoShrinks
  <2>2. CASE Continue(p, work[p], "price") /\ UNCHANGED todo /\ pc[p] = "orders" /\ ~ AnyWorking
    BY <1>0, <2>2, ContinueQuiet DEF TodoShrinks, Holding
  <2> QED  BY <1>a, <2>1, <2>2
<1>15. CASE Price(p)
  BY <1>0, <1>15, ContinueQuiet DEF Price, TodoShrinks, Holding
<1>16. CASE Store(p)
  <2>1. CASE Continue(p, [work[p] EXCEPT !.origin = "stored"], "observe")
    <3>1. UNCHANGED todo  BY <1>16 DEF Store
    <3> QED  BY <1>10, <2>1, <3>1
  <2>2. CASE Return(p, work[p], "RECONCILE_REQUIRED")
    <3>1. UNCHANGED todo  BY <1>16 DEF Store
    <3> QED  BY <1>a, <2>2, <3>1 DEF TodoShrinks
  <2> QED  BY <1>16, <2>1, <2>2 DEF Store
<1>17. ASSUME NEW o \in OrderIds, Submit(p, o) PROVE Quiet(p)
  <2>1. Continue(p, [work[p] EXCEPT !.order = o], "store") /\ UNCHANGED todo
    BY <1>17 DEF Submit
  <2> QED  BY <1>10, <2>1
<1> HIDE DEF Ended, Failed
<1> QED
  BY <1>1, <1>2, <1>3, <1>4, <1>5, <1>6, <1>7, <1>8, <1>12, <1>13, <1>14, <1>15, <1>16, <1>17 DEF Step

\* What the steps of a process do to the broker's book and the cases.
LEMMA ProcessEffect ==
  ASSUME NEW p \in Processes, Step(p) \/ Crash(p)
  PROVE  \/ /\ UNCHANGED <<position, order, entryLeft, holder>>
            /\ UNCHANGED caseState \/ \E r \in results[p] : caseState' = RecordedCase(r)
         \/ \E c \in Cases : Enter(p, c)
         \/ /\ pc[p] = "submit"
            /\ \E o \in OrderIds : Submit(p, o) \/ SubmitAnswerLost(p, o)
BY DEF Step, Crash, ReadIntents, PollKnown, PollUnknown, PollLookupFails, ObserveOrder,
   ObservePositions, ObserveFails, Persist, RecordPolled, RecordClose, Polled, RecordFails, Hold,
   SnapshotFails, Exit, Claim, LookUp, LookUpFails, CheckOrders, OrdersFail, Price, PriceFails,
   Submit, SubmitAnswerLost, SubmitRefused, Store
-----------------------------------------------------------------------------
(* The broker's orders cover no more than what is held.                    *)

\* One working order for a set of legs at most, and never for more than is held.
Cover ==
  /\ \A l \in Legs : position[l] >= 0
  /\ \A o \in OrderIds :
       Working(o) => order[o].key[2] - order[o].filled <= position[order[o].key[1]]
  /\ \A o1, o2 \in OrderIds :
       Working(o1) /\ Working(o2) /\ order[o1].key[1] = order[o2].key[1] => o1 = o2

LEMMA OrderTypes ==
  ASSUME BrokerShape, NEW o \in OrderIds
  PROVE  /\ order[o].key \in Keys /\ order[o].key[1] \in Legs /\ order[o].key[2] \in 1..Qty
         /\ order[o].filled \in 0..Qty /\ position[order[o].key[1]] \in Int
<1>1. order[o].key \in Keys /\ order[o].filled \in 0..Qty
  BY DEF BrokerShape, OrderType
<1> QED  BY <1>1, KeyTypes DEF BrokerShape

LEMMA CoverGrows ==
  ASSUME BrokerShape, BrokerShape', Cover, UNCHANGED order,
         \A l \in Legs : position'[l] >= position[l]
  PROVE  Cover'
<1>1. \A l \in Legs : position[l] \in Int /\ position'[l] \in Int
  BY DEF BrokerShape
<1>2. \A l \in Legs : position'[l] >= 0  BY <1>1 DEF Cover
<1>3. ASSUME NEW o \in OrderIds, Working(o)'
      PROVE  order'[o].key[2] - order'[o].filled <= position'[order'[o].key[1]]
  <2>1. order[o].key[2] - order[o].filled <= position[order[o].key[1]]
    BY <1>3 DEF Cover, Working
  <2> QED  BY <1>1, <2>1, OrderTypes, ConstantsAssumption
<1>4. \A o1, o2 \in OrderIds :
        Working(o1)' /\ Working(o2)' /\ order'[o1].key[1] = order'[o2].key[1] => o1 = o2
  BY DEF Cover, Working
<1> QED  BY <1>2, <1>3, <1>4 DEF Cover

LEMMA CoverPlaced ==
  ASSUME Shape, Cover, NEW k \in Keys, NEW o \in OrderIds, Placed(k, o),
         UNCHANGED <<position, entryLeft, entryFilled>>,
         \A i \in OrderIds : Working(i) => order[i].key[1] # k[1]
  PROVE  Cover'
<1>1. /\ order'[o] = [key |-> k, status |-> "NEW", filled |-> 0]
      /\ \A i \in OrderIds \ {o} : order'[i] = order[i]
  BY PlacedOrder
<1>2. position[k[1]] >= k[2] /\ k[1] \in Legs /\ k[2] \in 1..Qty /\ position[k[1]] \in Int
  BY KeyTypes DEF Placed, BrokerAccepts, Shape, BrokerShape
<1>3. order'[o].key = k /\ order'[o].filled = 0  BY <1>1
<1>4. \A i \in OrderIds : i # o => (Working(i)' <=> Working(i)) /\ order'[i] = order[i]
  BY <1>1 DEF Working
<1>5. ASSUME NEW i \in OrderIds, Working(i)'
      PROVE  order'[i].key[2] - order'[i].filled <= position'[order'[i].key[1]]
  <2>1. CASE i = o  BY <1>2, <1>3, <2>1, ConstantsAssumption
  <2>2. CASE i # o  BY <1>4, <1>5, <2>2 DEF Cover
  <2> QED  BY <2>1, <2>2
<1>6. ASSUME NEW i \in OrderIds, NEW j \in OrderIds, Working(i)', Working(j)',
             order'[i].key[1] = order'[j].key[1], i # j
      PROVE  FALSE
  <2>1. CASE i = o  BY <1>3, <1>4, <1>6, <2>1
  <2>2. CASE j = o  BY <1>3, <1>4, <1>6, <2>2
  <2>3. CASE i # o /\ j # o  BY <1>4, <1>6, <2>3 DEF Cover
  <2> QED  BY <2>1, <2>2, <2>3
<1> QED  BY <1>5, <1>6 DEF Cover

LEMMA CoverFill ==
  ASSUME Shape, Cover, NEW o \in OrderIds, Fill(o)
  PROVE  /\ Cover'
         /\ \A l \in Legs : position'[l] <= position[l]
         /\ \A i \in OrderIds : order'[i].key = order[i].key /\ (Working(i)' => Working(i))
<1> SUFFICES ASSUME NEW k, k = order[o].key, NEW n, n = order[o].filled + 1,
                    NEW status, status = IF n = k[2] THEN "FILLED" ELSE "PARTIALLY_FILLED"
             PROVE  /\ Cover'
                    /\ \A l \in Legs : position'[l] <= position[l]
                    /\ \A i \in OrderIds : order'[i].key = order[i].key /\ (Working(i)' => Working(i))
  OBVIOUS
<1>0. BrokerShape /\ Working(o)  BY DEF Shape, Fill
<1>1. /\ k \in Keys /\ k[1] \in Legs /\ k[2] \in 1..Qty /\ n \in 1..Qty /\ n <= k[2]
      /\ order'[o] = [key |-> k, status |-> status, filled |-> n]
      /\ \A i \in OrderIds \ {o} : order'[i] = order[i]
      /\ position' = [position EXCEPT ![k[1]] = @ - 1]
  BY FillChange
<1>2. position \in [Legs -> Int]  BY <1>0 DEF BrokerShape
<1>3. position'[k[1]] = position[k[1]] - 1 /\ \A l \in Legs \ {k[1]} : position'[l] = position[l]
  BY <1>1, <1>2
<1>4. order[o].filled \in 0..Qty /\ k[2] - order[o].filled <= position[k[1]]
  BY <1>0, OrderTypes DEF Cover
<1>5. position[k[1]] >= 1 /\ k[2] - n <= position'[k[1]]
  BY <1>1, <1>2, <1>3, <1>4, ConstantsAssumption
<1>6. order'[o].key = k /\ order'[o].filled = n  BY <1>1
<1>7. \A i \in OrderIds : order'[i].key = order[i].key /\ (Working(i)' => Working(i))
  BY <1>0, <1>1, <1>6 DEF Working
<1>8. \A l \in Legs : position'[l] <= position[l] /\ position'[l] >= 0
  <2> SUFFICES ASSUME NEW l \in Legs PROVE position'[l] <= position[l] /\ position'[l] >= 0
    OBVIOUS
  <2>1. position[l] \in Int /\ position[l] >= 0  BY <1>2 DEF Cover
  <2>2. CASE l = k[1]  BY <1>3, <1>5, <2>1, <2>2
  <2>3. CASE l # k[1]  BY <1>3, <2>1, <2>3
  <2> QED  BY <2>2, <2>3
<1>9. ASSUME NEW i \in OrderIds, Working(i)'
      PROVE  order'[i].key[2] - order'[i].filled <= position'[order'[i].key[1]]
  <2>1. CASE i = o  BY <1>5, <1>6, <2>1
  <2>2. CASE i # o
    <3>1. Working(i) /\ order'[i] = order[i]  BY <1>1, <1>7, <1>9, <2>2
    <3>2. order[i].key[1] # k[1] /\ order[i].key[1] \in Legs
      BY <1>0, <2>2, <3>1, OrderTypes DEF Cover
    <3>3. position'[order[i].key[1]] = position[order[i].key[1]]  BY <1>3, <3>2
    <3> QED  BY <3>1, <3>3 DEF Cover
  <2> QED  BY <2>1, <2>2
<1>10. \A i, j \in OrderIds :
         Working(i)' /\ Working(j)' /\ order'[i].key[1] = order'[j].key[1] => i = j
  BY <1>7 DEF Cover
<1> QED  BY <1>7, <1>8, <1>9, <1>10 DEF Cover

LEMMA CoverDie ==
  ASSUME Shape, Cover, NEW o \in OrderIds, Die(o)
  PROVE  /\ Cover' /\ UNCHANGED position
         /\ \A i \in OrderIds : order'[i].key = order[i].key /\ (Working(i)' => Working(i))
<1>1. /\ UNCHANGED position /\ \A i \in OrderIds \ {o} : order'[i] = order[i]
      /\ ~ Working(o)' /\ order'[o].key = order[o].key
  BY DieChange
<1>2. \A i \in OrderIds : order'[i].key = order[i].key
                          /\ (Working(i)' => Working(i) /\ order'[i] = order[i])
  BY <1>1 DEF Working
<1> QED  BY <1>1, <1>2 DEF Cover

\* Entries and their ends leave the orders alone and only add to what is held.
LEMMA EntryGrows ==
  ASSUME Shape, (\E n \in 1..Qty : EntryFills(n)) \/ EntryDies \/ EntryRecorded
  PROVE  /\ UNCHANGED <<order, holder, pc, work, flat, results>>
         /\ \A l \in Legs : position'[l] >= position[l]
         /\ \A l \in Legs : holder = NoCase \/ l # LegsOf[holder] => position'[l] = position[l]
         /\ entryLeft' <= entryLeft
         /\ position' # position => \E n \in 1..Qty : EntryFills(n)
<1>1. BrokerShape /\ EntryShape  BY DEF Shape
<1>2. \A l \in Legs : position[l] \in Int  BY <1>1 DEF BrokerShape
<1>3. CASE EntryDies \/ EntryRecorded
  BY <1>1, <1>2, <1>3, ConstantsAssumption DEF EntryDies, EntryRecorded, BrokerShape
<1>4. ASSUME NEW n \in 1..Qty, EntryFills(n)
      PROVE  /\ UNCHANGED <<order, holder, pc, work, flat, results>>
             /\ \A l \in Legs : position'[l] >= position[l]
             /\ \A l \in Legs : holder = NoCase \/ l # LegsOf[holder] => position'[l] = position[l]
             /\ entryLeft' <= entryLeft
  <2>1. /\ position' = [position EXCEPT ![LegsOf[holder]] = @ + n] /\ n <= entryLeft
        /\ entryLeft' = entryLeft - n
        /\ UNCHANGED <<order, holder, pc, work, flat, results>>
    BY <1>4 DEF EntryFills
  <2>2. entryLeft \in 0..Qty /\ entryLeft > 0
    BY <1>1, <2>1, ConstantsAssumption DEF BrokerShape
  <2>3. holder \in Cases /\ holder # NoCase  BY <1>1, <2>2 DEF EntryShape
  <2>4. LegsOf[holder] \in Legs  BY <2>3, ConstantsAssumption
  <2>5. position'[LegsOf[holder]] = position[LegsOf[holder]] + n
        /\ \A l \in Legs \ {LegsOf[holder]} : position'[l] = position[l]
    BY <1>1, <2>1, <2>4 DEF BrokerShape
  <2>6. \A l \in Legs : position'[l] >= position[l]
    BY <1>2, <2>4, <2>5, ConstantsAssumption
  <2> QED  BY <2>1, <2>2, <2>3, <2>5, <2>6, ConstantsAssumption
<1> QED  BY <1>3, <1>4

LEMMA OtherQuiet ==
  ASSUME (\E k \in Keys : LeaseExpires(k)) \/ ExitDue \/ UNCHANGED vars
  PROVE  UNCHANGED <<position, order, entryLeft, caseState, holder, pc, work, flat, results>>
BY DEF LeaseExpires, ExitDue, vars

LEMMA BrokerQuiet ==
  ASSUME NEW o \in OrderIds, Fill(o) \/ Die(o)
  PROVE  UNCHANGED <<entryLeft, caseState, holder, pc, work, flat, results>>
BY DEF Fill, Die

\* An entry finds nothing held and nothing working.
LEMMA EnterEffect ==
  ASSUME Shape, NEW p \in Processes, NEW c \in Cases, Enter(p, c)
  PROVE  /\ UNCHANGED <<position, order>> /\ \A l \in Legs : position[l] = 0
         /\ entryLeft = 0 /\ entryLeft' = Qty /\ holder' = c
         /\ caseState[c] = "CERTIFIED" /\ caseState' = [caseState EXCEPT ![c] = "SUBMITTED"]
         /\ \A o \in OrderIds : ~ Working(o)
         /\ pc'[p] = "idle"
<1>1. ~ (entryLeft > 0) /\ entryLeft \in 0..Qty
  BY DEF Enter, AnyWorking, Shape, BrokerShape
<1>2. pc'[p] = "idle"
  BY DEF Enter, EndTick, Goto, Shape, LocalShape, LocalTypes
<1> QED  BY <1>1, <1>2, ConstantsAssumption DEF Enter, Flat, AnyWorking

LEMMA SubmitEffect ==
  ASSUME Shape, NEW p \in Processes, NEW o \in OrderIds, Submit(p, o) \/ SubmitAnswerLost(p, o)
  PROVE  /\ Placed(work[p].key, o) /\ pc[p] = "submit" /\ pc'[p] \in {"store", "poll", "closed"}
         /\ UNCHANGED <<position, entryLeft, entryFilled, caseState, holder>>
<1>1. LocalTypes  BY DEF Shape, LocalShape
<1> QED
  BY <1>1 DEF Submit, SubmitAnswerLost, Continue, Return, Goto, LocalTypes

-----------------------------------------------------------------------------
(* With one process: what no order works on stays so until it submits.     *)

OneProcess == \A p, q \in Processes : p = q

QuietSubmit == \A p \in Processes : pc[p] \in {"price", "submit"} => ~ AnyWorking

OneProcessCover == Cover /\ QuietSubmit

LEMMA OneProcessStep ==
  ASSUME OneProcess, Shape, Shape', OneProcessCover, [Next]_vars
  PROVE  OneProcessCover'
<1>0. Cover /\ QuietSubmit /\ BrokerShape /\ BrokerShape'
  BY DEF OneProcessCover, Shape
<1>1. ASSUME UNCHANGED <<position, order>> PROVE Cover'
  BY <1>0, <1>1, CoverGrows DEF BrokerShape
<1>2. ASSUME \A i \in OrderIds : Working(i)' => Working(i), entryLeft' <= entryLeft,
             NEW q \in Processes, pc[q] \in {"price", "submit"}
      PROVE  ~ AnyWorking'
  <2>1. ~ (entryLeft > 0) /\ ~ (entryLeft' > 0)
    BY <1>0, <1>2, ConstantsAssumption DEF QuietSubmit, AnyWorking, BrokerShape
  <2> QED  BY <1>0, <1>2, <2>1 DEF QuietSubmit, AnyWorking
<1>3. ASSUME NEW p \in Processes, Step(p) \/ Crash(p)
      PROVE  OneProcessCover'
  <2>1. Quiet(p)  BY <1>3, ProcessQuiet
  <2>2. CASE UNCHANGED <<position, order, entryLeft, holder>>
    <3>1. AnyWorking' = AnyWorking  BY <2>2 DEF AnyWorking, Working
    <3>2. QuietSubmit'
      BY <1>0, <2>1, <3>1 DEF OneProcess, QuietSubmit, Quiet, KeepsKey
    <3> QED  BY <1>1, <2>2, <3>2 DEF OneProcessCover
  <2>3. ASSUME NEW c \in Cases, Enter(p, c) PROVE OneProcessCover'
    <3>1. UNCHANGED <<position, order>> /\ pc'[p] = "idle"  BY <2>3, EnterEffect
    <3>2. QuietSubmit'  BY <3>1 DEF OneProcess, QuietSubmit
    <3> QED  BY <1>1, <3>1, <3>2 DEF OneProcessCover
  <2>4. ASSUME NEW o \in OrderIds, Submit(p, o) \/ SubmitAnswerLost(p, o) PROVE OneProcessCover'
    <3>1. /\ Placed(work[p].key, o) /\ pc[p] = "submit" /\ pc'[p] \in {"store", "poll", "closed"}
          /\ UNCHANGED <<position, entryLeft, entryFilled>>
      BY <2>4, SubmitEffect
    <3>2. work[p].key \in Keys  BY WorkOfProcess
    <3>3. \A i \in OrderIds : ~ Working(i)  BY <1>0, <3>1 DEF QuietSubmit, AnyWorking
    <3>4. Cover'  BY <1>0, <3>1, <3>2, <3>3, CoverPlaced
    <3>5. QuietSubmit'  BY <3>1 DEF OneProcess, QuietSubmit
    <3> QED  BY <3>4, <3>5 DEF OneProcessCover
  <2> QED  BY <1>3, <2>2, <2>3, <2>4, ProcessEffect
<1>4. CASE (\E n \in 1..Qty : EntryFills(n)) \/ EntryDies \/ EntryRecorded
  <2>1. /\ UNCHANGED <<order, pc>> /\ entryLeft' <= entryLeft
        /\ \A l \in Legs : position'[l] >= position[l]
    BY <1>4, EntryGrows
  <2>2. Cover'  BY <1>0, <2>1, CoverGrows
  <2>3. QuietSubmit'  BY <1>2, <2>1 DEF QuietSubmit, Working
  <2> QED  BY <2>2, <2>3 DEF OneProcessCover
<1>5. ASSUME NEW o \in OrderIds, Fill(o) \/ Die(o) PROVE OneProcessCover'
  <2>1. Cover' /\ \A i \in OrderIds : Working(i)' => Working(i)
    BY <1>0, <1>5, CoverFill, CoverDie
  <2>2. UNCHANGED <<pc, entryLeft>>  BY <1>5, BrokerQuiet
  <2>3. entryLeft' <= entryLeft  BY <1>0, <2>2, ConstantsAssumption DEF BrokerShape
  <2>4. QuietSubmit'  BY <1>2, <2>1, <2>2, <2>3 DEF QuietSubmit
  <2> QED  BY <2>1, <2>4 DEF OneProcessCover
<1>6. CASE (\E k \in Keys : LeaseExpires(k)) \/ ExitDue \/ UNCHANGED vars
  <2>1. UNCHANGED <<position, order, entryLeft, pc>>  BY <1>6, OtherQuiet
  <2>2. QuietSubmit'  BY <1>0, <2>1 DEF QuietSubmit, AnyWorking, Working
  <2> QED  BY <1>1, <2>1, <2>2 DEF OneProcessCover
<1> QED  BY <1>3, <1>4, <1>5, <1>6 DEF Next, Environment

LEMMA NothingWorksInitially ==
  ASSUME Init
  PROVE  /\ \A o \in OrderIds : ~ Working(o)
         /\ entryLeft = 0 /\ (\A l \in Legs : position[l] = 0)
         /\ \A p \in Processes : pc[p] = "idle" /\ results[p] = {}
         /\ \A c \in Cases : caseState[c] = "CERTIFIED"
BY DEF Init, Working, WorkingStates

LEMMA OneProcessCoverInvariant ==
  ASSUME OneProcess
  PROVE  Spec => []OneProcessCover
<1>1. Init => OneProcessCover
  <2> SUFFICES ASSUME Init PROVE OneProcessCover
    OBVIOUS
  <2>1. \A l \in Legs : position[l] >= 0  BY NothingWorksInitially
  <2> QED  BY <2>1, NothingWorksInitially DEF OneProcessCover, Cover, QuietSubmit
<1>2. Shape /\ Shape' /\ OneProcessCover /\ [Next]_vars => OneProcessCover'
  BY OneProcessStep
<1> QED  BY <1>1, <1>2, ShapeInvariant, PTL DEF Spec

\* NeverOverclosed: the process that submits a close has seen that no order works, and no
\* order is placed before it submits; entries may fill in parts and be recorded late, and
\* cases may share their legs.
THEOREM OneProcessNeverOverclosed ==
  ASSUME OneProcess
  PROVE  Spec => []NeverOverclosed
<1>1. OneProcessCover => NeverOverclosed  BY DEF OneProcessCover, Cover, NeverOverclosed
<1> QED  BY <1>1, OneProcessCoverInvariant, PTL
-----------------------------------------------------------------------------
(* With legs of its own for each case: a key is used once.                 *)

\* Entries fill whole and are recorded at once, and no two cases share their legs.
OwnLegs == ~ LateEntries /\ \A c, d \in Cases : LegsOf[c] = LegsOf[d] => c = d

\* The entry of these legs is over: they will not be held again.
Entered(l) ==
  \E c \in Cases : /\ LegsOf[c] = l /\ caseState[c] # "CERTIFIED"
                   /\ ~ (entryLeft > 0 /\ holder = c)

\* What is held has been entered, and what a close in hand names is at least what is held.
HeldWasEntered == entryLeft \in {0, Qty} /\ \A l \in Legs : position[l] > 0 => Entered(l)

EnoughInHand ==
  \A p \in Processes :
    pc[p] \in Holding => /\ Entered(work[p].key[1])
                         /\ position[work[p].key[1]] <= work[p].key[2]

\* A close the broker would take is for legs without a working order.
Apart ==
  \A p \in Processes, o \in OrderIds :
    /\ pc[p] \in {"price", "submit"} /\ BrokerAccepts(work[p].key) /\ Working(o)
    => order[o].key[1] # work[p].key[1]

OwnLegsCover == Cover /\ HeldWasEntered /\ EnoughInHand /\ Apart

\* The legs whose entry is over stay so, unless a case enters them again.
LEMMA EnteredKept ==
  ASSUME \A d \in Cases : caseState[d] # "CERTIFIED" =>
           /\ caseState'[d] # "CERTIFIED"
           /\ entryLeft' > 0 /\ holder' = d => entryLeft > 0 /\ holder = d
  PROVE  \A l : Entered(l) => Entered(l)'
BY DEF Entered

\* A close in hand is for a set of legs and a quantity, before and after a step.
LEMMA KeyInHand ==
  ASSUME Shape, Shape', NEW q \in Processes
  PROVE  /\ work[q].key \in Keys /\ work'[q].key \in Keys
         /\ \A l \in Legs : position[l] \in Int /\ position'[l] \in Int
<1>1. work[q] \in WorkType /\ work'[q] \in WorkType
  BY DEF Shape, LocalShape, LocalTypes
<1> QED  BY <1>1 DEF WorkType, Shape, BrokerShape

\* What holds of a close in hand while the broker's book and the entries stay.
LEMMA InHandKept ==
  ASSUME Shape, Shape', NEW p \in Processes, Quiet(p), OwnLegsCover,
         UNCHANGED <<position, order, entryLeft, holder>>,
         \A l : Entered(l) => Entered(l)'
  PROVE  EnoughInHand' /\ Apart'
<1>0. HeldWasEntered /\ EnoughInHand /\ Apart  BY DEF OwnLegsCover
<1>1. ASSUME NEW q \in Processes, pc'[q] \in Holding
      PROVE  Entered(work[q].key[1])' /\ position'[work'[q].key[1]] <= work'[q].key[2]
  <2> SUFFICES ASSUME NEW k, k = work'[q].key
               PROVE  Entered(k[1])' /\ position[k[1]] <= k[2]
    BY DEF Entered
  <2>1. k \in Keys /\ k[1] \in Legs /\ k[2] \in 1..Qty /\ position[k[1]] \in Int
    BY KeyInHand, KeyTypes
  <2>2. CASE pc[q] \in Holding /\ work[q].key = k
    BY <1>0, <2>2 DEF EnoughInHand
  <2>3. CASE position[k[1]] = k[2]
    <3>1. position[k[1]] > 0 /\ position[k[1]] <= k[2]  BY <2>1, <2>3, ConstantsAssumption
    <3> QED  BY <1>0, <2>1, <3>1 DEF HeldWasEntered
  <2> QED  BY <1>1, <2>2, <2>3 DEF Quiet, OthersKept, KeepsKey
<1>2. ASSUME NEW q \in Processes, NEW o \in OrderIds, pc'[q] \in {"price", "submit"},
             NEW k, k = work'[q].key, BrokerAccepts(k), Working(o)
      PROVE  order[o].key[1] # k[1]
  <2>1. \/ pc[q] \in {"price", "submit"} /\ work[q].key = k
        \/ ~ AnyWorking
    BY <1>2 DEF Quiet, OthersKept, KeepsKey, Holding
  <2>2. AnyWorking  BY <1>2 DEF AnyWorking
  <2> QED  BY <1>0, <1>2, <2>1, <2>2 DEF Apart
<1>3. Apart'
  BY <1>2 DEF Apart, BrokerAccepts, OrdersFor, Working
<1> QED  BY <1>1, <1>3 DEF EnoughInHand

\* The same when another process has its order taken.
LEMMA InHandSubmitted ==
  ASSUME Shape, Shape', NEW p \in Processes, Quiet(p), OwnLegsCover,
         NEW o \in OrderIds, Submit(p, o) \/ SubmitAnswerLost(p, o)
  PROVE  OwnLegsCover'
<1>0. Cover /\ HeldWasEntered /\ EnoughInHand /\ Apart  BY DEF OwnLegsCover
<1>1. /\ Placed(work[p].key, o) /\ pc[p] = "submit" /\ pc'[p] \in {"store", "poll", "closed"}
      /\ UNCHANGED <<position, entryLeft, entryFilled, caseState, holder>>
  BY SubmitEffect
<1> SUFFICES ASSUME NEW k, k = work[p].key
             PROVE  OwnLegsCover'
  OBVIOUS
<1>2. k \in Keys /\ k[1] \in Legs /\ k[2] \in 1..Qty /\ position[k[1]] \in Int
  BY KeyInHand, KeyTypes
<1>3. /\ order'[o] = [key |-> k, status |-> "NEW", filled |-> 0] /\ order[o].status = "NONE"
      /\ \A i \in OrderIds \ {o} : order'[i] = order[i]
      /\ position[k[1]] >= k[2] /\ BrokerAccepts(k)
  BY <1>1, <1>2, PlacedOrder DEF Placed, BrokerAccepts
<1>4. Cover'
  BY <1>0, <1>1, <1>2, <1>3, CoverPlaced DEF Apart
<1>5. \A l : Entered(l) <=> Entered(l)'  BY <1>1 DEF Entered
<1>6. HeldWasEntered'  BY <1>0, <1>1, <1>5 DEF HeldWasEntered
<1>7. \A q \in Processes : pc'[q] \in Holding => q # p /\ pc[q] = pc'[q] /\ work'[q] = work[q]
  BY <1>1 DEF Quiet, OthersKept, Holding
<1>8. EnoughInHand'
  <2> SUFFICES ASSUME NEW q \in Processes, pc'[q] \in Holding, NEW j, j = work'[q].key
               PROVE  Entered(j[1])' /\ position[j[1]] <= j[2]
    BY <1>1 DEF EnoughInHand, Entered
  <2> QED  BY <1>0, <1>5, <1>7 DEF EnoughInHand
<1>9. ASSUME NEW q \in Processes, NEW i \in OrderIds, pc'[q] \in {"price", "submit"},
             NEW j, j = work'[q].key, position[j[1]] >= j[2],
             \A x \in OrderIds : ~ (order'[x].key = j /\ order'[x].status # "NONE"),
             Working(i)'
      PROVE  order'[i].key[1] # j[1]
  <2>1. pc[q] \in {"price", "submit"} /\ work[q].key = j /\ q # p
    BY <1>7, <1>9 DEF Holding
  <2>2. j \in Keys /\ j[1] \in Legs /\ j[2] \in 1..Qty /\ position[j[1]] \in Int /\ j = <<j[1], j[2]>>
    BY <1>9, KeyInHand, KeyTypes
  <2>3. k = <<k[1], k[2]>>  BY <1>2, KeyTypes
  <2>4. CASE i = o
    <3>1. j # k  BY <1>3, <1>9
    <3>2. position[j[1]] <= j[2] /\ position[k[1]] <= k[2]
      BY <1>0, <1>1, <2>1 DEF EnoughInHand, Holding
    <3>3. j[1] = k[1] => j[2] = k[2]
      BY <1>2, <1>3, <1>9, <2>2, <3>2, ConstantsAssumption
    <3>4. j[1] # k[1]  BY <2>2, <2>3, <3>1, <3>3
    <3> QED  BY <1>3, <2>4, <3>4
  <2>5. CASE i # o
    <3>1. BrokerAccepts(j)
      BY <1>3, <1>9 DEF BrokerAccepts, OrdersFor
    <3>2. Working(i) /\ order'[i] = order[i]  BY <1>3, <1>9, <2>5 DEF Working
    <3> QED  BY <1>0, <2>1, <3>1, <3>2 DEF Apart
  <2> QED  BY <2>4, <2>5
<1>10. Apart'
  <2> SUFFICES ASSUME NEW q \in Processes, NEW i \in OrderIds, pc'[q] \in {"price", "submit"},
                      BrokerAccepts(work[q].key)', Working(i)'
               PROVE  order'[i].key[1] # work'[q].key[1]
    BY DEF Apart
  <2>1. /\ position[work'[q].key[1]] >= work'[q].key[2]
        /\ \A x \in OrderIds : ~ (order'[x].key = work'[q].key /\ order'[x].status # "NONE")
    BY <1>1 DEF BrokerAccepts, OrdersFor
  <2> QED  BY <1>9, <2>1
<1> QED  BY <1>4, <1>6, <1>8, <1>10 DEF OwnLegsCover
\* The entry of a case fills legs that no close in hand names.
LEMMA EntryFillsApart ==
  ASSUME OwnLegs, Shape, Shape', OwnLegsCover, NEW n \in 1..Qty, EntryFills(n)
  PROVE  OwnLegsCover'
<1>0. /\ Cover /\ HeldWasEntered /\ EnoughInHand /\ Apart
      /\ BrokerShape /\ BrokerShape' /\ EntryShape /\ CaseShape
  BY DEF OwnLegsCover, Shape
<1>1. /\ UNCHANGED <<order, holder, pc, work>>
      /\ \A l \in Legs : position'[l] >= position[l]
      /\ \A l \in Legs : holder = NoCase \/ l # LegsOf[holder] => position'[l] = position[l]
  BY EntryGrows
<1>2. n = Qty /\ entryLeft' = entryLeft - n /\ n <= entryLeft
      /\ caseState' = [caseState EXCEPT ![holder] = "MANAGING"]
  BY DEF EntryFills, OwnLegs
<1>3. entryLeft > 0 /\ entryLeft' = 0
  BY <1>0, <1>2, ConstantsAssumption DEF BrokerShape
<1>4. holder \in Cases /\ caseState'[holder] = "MANAGING"
      /\ \A d \in Cases : caseState[d] # "CERTIFIED" => caseState'[d] # "CERTIFIED"
  BY <1>0, <1>2, <1>3 DEF EntryShape, CaseShape
<1>5. \A l : Entered(l) => Entered(l)'
  BY <1>3, <1>4, EnteredKept
<1>6. Cover'  BY <1>0, <1>1, CoverGrows
<1>7. HeldWasEntered'
  <2>1. Entered(LegsOf[holder])'  BY <1>1, <1>3, <1>4 DEF Entered
  <2> QED  BY <1>0, <1>1, <1>3, <1>5, <2>1 DEF HeldWasEntered
<1>8. \A l : Entered(l) => l # LegsOf[holder]
  BY <1>3, <1>4 DEF Entered, OwnLegs
<1>9. ASSUME NEW q \in Processes, pc[q] \in Holding
      PROVE  /\ Entered(work[q].key[1])' /\ Entered(work[q].key[1])
             /\ position'[work[q].key[1]] = position[work[q].key[1]]
             /\ position'[work[q].key[1]] <= work[q].key[2]
  <2>1. work[q].key[1] \in Legs  BY KeyInHand, KeyTypes
  <2>2. Entered(work[q].key[1]) /\ position[work[q].key[1]] <= work[q].key[2]
    BY <1>0, <1>9 DEF EnoughInHand
  <2>3. \A k : k = work[q].key => Entered(k[1])'  BY <1>5, <2>2
  <2> QED  BY <1>1, <1>8, <2>1, <2>2, <2>3 DEF Entered
<1>10. EnoughInHand'  BY <1>1, <1>9 DEF EnoughInHand
<1>11. Apart'
  BY <1>0, <1>1, <1>9 DEF Apart, BrokerAccepts, OrdersFor, Working, Holding
<1> QED  BY <1>6, <1>7, <1>10, <1>11 DEF OwnLegsCover

\* A close order's fill or end at the broker.
LEMMA BrokerStepApart ==
  ASSUME Shape, Shape', OwnLegsCover, NEW o \in OrderIds, Fill(o) \/ Die(o)
  PROVE  OwnLegsCover'
<1>0. Cover /\ HeldWasEntered /\ EnoughInHand /\ Apart  BY DEF OwnLegsCover
<1>1. UNCHANGED <<entryLeft, caseState, holder, pc, work>>  BY BrokerQuiet
<1>2. /\ Cover' /\ \A l \in Legs : position[l] \in Int /\ position'[l] \in Int
      /\ \A i \in OrderIds : order'[i].key = order[i].key /\ (Working(i)' => Working(i))
  BY <1>0, CoverFill, CoverDie DEF Shape, BrokerShape
<1>3. \A l \in Legs : position'[l] <= position[l]
  BY <1>0, <1>2, CoverFill, CoverDie
<1>4. GivenOrders' = GivenOrders  BY FillChange, DieChange
<1>5. \A l : Entered(l) <=> Entered(l)'  BY <1>1 DEF Entered
<1>6. HeldWasEntered'
  <2>1. ASSUME NEW l \in Legs, position'[l] > 0 PROVE Entered(l)'
    <3>1. position[l] > 0  BY <1>2, <1>3, <2>1
    <3> QED  BY <1>0, <1>5, <3>1 DEF HeldWasEntered
  <2> QED  BY <1>0, <1>1, <2>1 DEF HeldWasEntered
<1>7. ASSUME NEW q \in Processes, NEW k, k = work[q].key
      PROVE  /\ k[1] \in Legs /\ k[2] \in Int
             /\ pc[q] \in Holding => Entered(k[1]) /\ position'[k[1]] <= k[2]
             /\ BrokerAccepts(k)' => BrokerAccepts(k)
  <2>1. k[1] \in Legs /\ k[2] \in 1..Qty  BY <1>7, KeyInHand, KeyTypes
  <2>2. k[2] \in Int  BY <2>1, ConstantsAssumption
  <2>3. pc[q] \in Holding => Entered(k[1]) /\ position[k[1]] <= k[2]
    BY <1>0, <1>7 DEF EnoughInHand
  <2>4. \A i \in OrderIds : (order'[i].status # "NONE") <=> (order[i].status # "NONE")
    BY <1>4 DEF GivenOrders
  <2>5. OrdersFor(k)' = OrdersFor(k)
    BY <1>2, <2>4 DEF OrdersFor
  <2>6. BrokerAccepts(k)' => BrokerAccepts(k)
    BY <1>2, <1>3, <2>1, <2>2, <2>5 DEF BrokerAccepts
  <2>7. pc[q] \in Holding => position'[k[1]] <= k[2]
    BY <1>2, <1>3, <2>1, <2>2, <2>3
  <2> QED  BY <2>1, <2>2, <2>3, <2>6, <2>7
<1>8. EnoughInHand'
  <2> SUFFICES ASSUME NEW q \in Processes, pc[q] \in Holding, NEW k, k = work[q].key
               PROVE  Entered(k[1])' /\ position'[k[1]] <= k[2]
    BY <1>1 DEF EnoughInHand, Entered
  <2> QED  BY <1>5, <1>7
<1>9. Apart'
  <2> SUFFICES ASSUME NEW q \in Processes, NEW i \in OrderIds, pc[q] \in {"price", "submit"},
                      NEW k, k = work[q].key, BrokerAccepts(k)', Working(i)'
               PROVE  order'[i].key[1] # k[1]
    BY <1>1 DEF Apart, BrokerAccepts, OrdersFor
  <2>1. BrokerAccepts(work[q].key) /\ Working(i)  BY <1>2, <1>7
  <2> QED  BY <1>0, <1>2, <2>1 DEF Apart
<1> QED  BY <1>2, <1>6, <1>8, <1>9 DEF OwnLegsCover

\* A result recorded, an entry's progress: no case becomes a certified one again.
LEMMA CertifiedOnce ==
  ASSUME Shape, NEW p \in Processes, NEW r \in results[p], caseState' = RecordedCase(r)
  PROVE  \A d \in Cases : caseState[d] # "CERTIFIED" => caseState'[d] # "CERTIFIED"
BY RecordedMoves

LEMMA OwnLegsStep ==
  ASSUME OwnLegs, Shape, Shape', OwnLegsCover, [Next]_vars
  PROVE  OwnLegsCover'
<1>0. Cover /\ HeldWasEntered /\ EnoughInHand /\ Apart /\ BrokerShape /\ BrokerShape'
  BY DEF OwnLegsCover, Shape
<1>1. ASSUME NEW p \in Processes, Step(p) \/ Crash(p)
      PROVE  OwnLegsCover'
  <2>1. Quiet(p)  BY <1>1, ProcessQuiet
  <2>2. CASE /\ UNCHANGED <<position, order, entryLeft, holder>>
             /\ UNCHANGED caseState \/ \E r \in results[p] : caseState' = RecordedCase(r)
    <3>1. \A d \in Cases : caseState[d] # "CERTIFIED" => caseState'[d] # "CERTIFIED"
      BY <2>2, CertifiedOnce
    <3>2. \A l : Entered(l) => Entered(l)'  BY <2>2, <3>1, EnteredKept
    <3>3. Cover'  BY <1>0, <2>2, CoverGrows DEF BrokerShape
    <3>4. HeldWasEntered'  BY <1>0, <2>2, <3>2 DEF HeldWasEntered
    <3>5. EnoughInHand' /\ Apart'  BY <2>1, <2>2, <3>2, InHandKept
    <3> QED  BY <3>3, <3>4, <3>5 DEF OwnLegsCover
  <2>3. ASSUME NEW c \in Cases, Enter(p, c) PROVE OwnLegsCover'
    <3>1. /\ UNCHANGED <<position, order>> /\ \A l \in Legs : position[l] = 0
          /\ entryLeft = 0 /\ entryLeft' = Qty /\ holder' = c
          /\ caseState[c] = "CERTIFIED" /\ caseState' = [caseState EXCEPT ![c] = "SUBMITTED"]
          /\ \A o \in OrderIds : ~ Working(o)
          /\ pc'[p] = "idle"
      BY <2>3, EnterEffect
    <3>2. \A l : Entered(l) => Entered(l)'
      <4>1. \A d \in Cases : caseState[d] # "CERTIFIED" => caseState'[d] # "CERTIFIED" /\ d # c
        BY <3>1 DEF Shape, CaseShape
      <4> QED  BY <3>1, <4>1, EnteredKept
    <3>3. Cover'  BY <1>0, <3>1, CoverGrows
    <3>4. HeldWasEntered'  BY <3>1 DEF HeldWasEntered
    <3>5. EnoughInHand'
      <4> SUFFICES ASSUME NEW q \in Processes, pc'[q] \in Holding, NEW k, k = work'[q].key
                   PROVE  Entered(k[1])' /\ position[k[1]] <= k[2]
        BY <3>1 DEF EnoughInHand, Entered
      <4>1. pc[q] \in Holding /\ work[q].key = k
        BY <2>1, <3>1 DEF Quiet, OthersKept, Holding
      <4> QED  BY <1>0, <3>2, <4>1 DEF EnoughInHand
    <3>6. Apart'  BY <3>1 DEF Apart, Working
    <3> QED  BY <3>3, <3>4, <3>5, <3>6 DEF OwnLegsCover
  <2>4. ASSUME NEW o \in OrderIds, Submit(p, o) \/ SubmitAnswerLost(p, o) PROVE OwnLegsCover'
    BY <2>1, <2>4, InHandSubmitted
  <2> QED  BY <1>1, <2>2, <2>3, <2>4, ProcessEffect
<1>2. ASSUME NEW n \in 1..Qty, EntryFills(n) PROVE OwnLegsCover'  BY <1>2, EntryFillsApart
<1>3. ~ EntryDies /\ ~ EntryRecorded  BY DEF OwnLegs, EntryDies, EntryRecorded
<1>4. ASSUME NEW o \in OrderIds, Fill(o) \/ Die(o) PROVE OwnLegsCover'  BY <1>4, BrokerStepApart
<1>5. CASE (\E k \in Keys : LeaseExpires(k)) \/ ExitDue \/ UNCHANGED vars
  <2>1. UNCHANGED <<position, order, entryLeft, caseState, holder, pc, work>>  BY <1>5, OtherQuiet
  <2>2. Cover'  BY <1>0, <2>1, CoverGrows DEF BrokerShape
  <2>3. \A l : Entered(l) <=> Entered(l)'  BY <2>1 DEF Entered
  <2>4. HeldWasEntered'  BY <1>0, <2>1, <2>3 DEF HeldWasEntered
  <2>5. EnoughInHand'  BY <1>0, <2>1 DEF EnoughInHand, Entered
  <2>6. Apart'  BY <1>0, <2>1 DEF Apart, BrokerAccepts, OrdersFor, Working
  <2> QED  BY <2>2, <2>4, <2>5, <2>6 DEF OwnLegsCover
<1> QED  BY <1>1, <1>2, <1>3, <1>4, <1>5 DEF Next, Environment

LEMMA OwnLegsCoverInvariant ==
  ASSUME OwnLegs
  PROVE  Spec => []OwnLegsCover
<1>1. Init => OwnLegsCover
  <2> SUFFICES ASSUME Init PROVE OwnLegsCover
    OBVIOUS
  <2>1. \A l \in Legs : position[l] >= 0 /\ ~ (position[l] > 0)  BY NothingWorksInitially
  <2> QED
    BY <2>1, NothingWorksInitially DEF OwnLegsCover, Cover, HeldWasEntered, EnoughInHand, Apart, Holding
<1>2. Shape /\ Shape' /\ OwnLegsCover /\ [Next]_vars => OwnLegsCover'
  BY OwnLegsStep
<1> QED  BY <1>1, <1>2, ShapeInvariant, PTL DEF Spec

\* NeverOverclosed: with any number of processes, stale snapshots, lost answers and
\* crashes, when an entry is whole and recorded before the next tick and no two cases
\* share their legs.
THEOREM OwnLegsNeverOverclosed ==
  ASSUME OwnLegs
  PROVE  Spec => []NeverOverclosed
<1>1. OwnLegsCover => NeverOverclosed  BY DEF OwnLegsCover, Cover, NeverOverclosed
<1> QED  BY <1>1, OwnLegsCoverInvariant, PTL
-----------------------------------------------------------------------------
(* A case is recorded as closed after its legs have been seen flat.        *)

\* Somebody has seen the legs of the case flat: the ledger says so, or a process is about to.
SeenFlat(c) ==
  \/ caseState[c] = "CLOSED"
  \/ \E p \in Processes :
       \/ pc[p] = "persist" /\ flat[p] /\ work[p].case = c
       \/ \E r \in results[p] : r.case = c /\ r.state = "CLOSED"

\* The case that entered last, while the ledger calls its position managed or closed.
HeldBy(c) == caseState[c] \in {"MANAGING", "CLOSED"} /\ holder = c

SeenFlatIsFlat ==
  \A c \in Cases : SeenFlat(c) /\ HeldBy(c) => position[LegsOf[c]] <= 0

\* Only a case with recorded fills has been seen flat.
LEMMA SeenWhenFilled ==
  ASSUME Shape, NEW c \in Cases, SeenFlat(c)
  PROVE  c \in Filled
<1>1. c # NoCase  BY NamesAssumption
<1>2. CASE caseState[c] = "CLOSED"  BY <1>2 DEF Filled
<1>3. ASSUME NEW p \in Processes, work[p].case = c PROVE c \in Filled
  BY <1>1, <1>3 DEF Shape, LocalShape, GoodProcess, GoodWork, Owner
<1>4. ASSUME NEW p \in Processes, NEW r \in results[p], r.case = c PROVE c \in Filled
  BY <1>1, <1>4 DEF Shape, LocalShape, GoodProcess, GoodResult, Owner
<1> QED  BY <1>2, <1>3, <1>4 DEF SeenFlat

\* A process sees flat legs only when they are flat, and passes it on.
LEMMA SeenByProcess ==
  ASSUME Shape, Shape', NEW p \in Processes, Quiet(p), UNCHANGED position,
         NEW c \in Cases, SeenFlat(c)', caseState'[c] = "CLOSED" => SeenFlat(c)
  PROVE  SeenFlat(c) \/ position[LegsOf[c]] = 0
<1>0. c # NoCase  BY NamesAssumption
<1>1. ASSUME NEW q \in Processes, pc'[q] = "persist", flat'[q], work'[q].case = c
      PROVE  SeenFlat(c) \/ position[LegsOf[c]] = 0
  <2>1. CASE q # p  BY <1>1, <2>1 DEF SeenFlat, Quiet, OthersKept
  <2>2. CASE q = p
    <3>1. work[p].case = c /\ position[work[p].key[1]] = 0
      BY <1>1, <2>2 DEF Quiet, SeesFlat
    <3>2. LegsOf[c] = work[p].key[1]
      BY <1>0, <3>1 DEF Shape, LocalShape, GoodProcess, GoodWork, Owner
    <3> QED  BY <3>1, <3>2
  <2> QED  BY <2>1, <2>2
<1>2. ASSUME NEW q \in Processes, NEW r \in results'[q], r.case = c, r.state = "CLOSED"
      PROVE  SeenFlat(c)
  <2>1. CASE q # p  BY <1>2, <2>1 DEF SeenFlat, Quiet, OthersKept
  <2>2. CASE q = p  BY <1>2, <2>2 DEF SeenFlat, Quiet, SeesFlat
  <2> QED  BY <2>1, <2>2
<1>3. CASE caseState'[c] = "CLOSED"  BY <1>3
<1> QED  BY <1>1, <1>2, <1>3 DEF SeenFlat

LEMMA SeenFlatStep ==
  ASSUME Shape, Shape', SeenFlatIsFlat, [Next]_vars
  PROVE  SeenFlatIsFlat'
<1> SUFFICES ASSUME NEW c \in Cases, SeenFlat(c)', HeldBy(c)'
             PROVE  position'[LegsOf[c]] <= 0
  BY DEF SeenFlatIsFlat
<1>0. /\ LegsOf[c] \in Legs /\ c # NoCase
      /\ position[LegsOf[c]] \in Int /\ position'[LegsOf[c]] \in Int
      /\ BrokerShape /\ CaseShape /\ EntryShape
  BY ConstantsAssumption, NamesAssumption DEF Shape, BrokerShape
<1>1. ASSUME NEW p \in Processes, Step(p) \/ Crash(p)
      PROVE  position'[LegsOf[c]] <= 0
  <2>1. Quiet(p)  BY <1>1, ProcessQuiet
  <2>2. CASE UNCHANGED <<position, holder, caseState>>
    <3>1. SeenFlat(c) \/ position[LegsOf[c]] = 0
      BY <2>1, <2>2, SeenByProcess DEF SeenFlat
    <3> QED  BY <1>0, <2>2, <3>1 DEF SeenFlatIsFlat, HeldBy
  <2>3. ASSUME UNCHANGED <<position, holder>>, NEW r \in results[p], caseState' = RecordedCase(r)
        PROVE  position'[LegsOf[c]] <= 0
    <3>1. caseState'[c] = "CLOSED" => SeenFlat(c)
      BY <2>3, RecordedMoves DEF SeenFlat
    <3>2. caseState[c] \in {"MANAGING", "CLOSED"}
      BY <2>3, RecordedMoves DEF HeldBy
    <3>3. SeenFlat(c) \/ position[LegsOf[c]] = 0
      BY <2>1, <2>3, <3>1, SeenByProcess
    <3> QED  BY <1>0, <2>3, <3>2, <3>3 DEF SeenFlatIsFlat, HeldBy
  <2>4. ASSUME NEW d \in Cases, Enter(p, d) PROVE FALSE
    <3>1. holder' = d /\ caseState' = [caseState EXCEPT ![d] = "SUBMITTED"]
      BY <2>4, EnterEffect
    <3> QED  BY <1>0, <3>1 DEF HeldBy, CaseShape
  <2>5. ASSUME NEW o \in OrderIds, Submit(p, o) \/ SubmitAnswerLost(p, o)
        PROVE  UNCHANGED <<position, holder, caseState>>
    BY <2>5, SubmitEffect
  <2> QED  BY <1>1, <2>2, <2>3, <2>4, <2>5, ProcessEffect
<1>2. CASE (\E n \in 1..Qty : EntryFills(n)) \/ EntryDies \/ EntryRecorded
  <2>1. /\ UNCHANGED <<holder, pc, work, flat, results>>
        /\ position' # position => \E n \in 1..Qty : EntryFills(n)
    BY <1>2, EntryGrows
  <2>2. CASE caseState'[c] = caseState[c]
    <3>1. SeenFlat(c)  BY <2>1, <2>2 DEF SeenFlat
    <3>2. HeldBy(c)  BY <2>1, <2>2 DEF HeldBy
    <3>3. entryLeft = 0  BY <1>0, <3>2 DEF HeldBy, EntryShape
    <3>4. UNCHANGED position
      BY <2>1, <3>3, ConstantsAssumption DEF EntryFills
    <3> QED  BY <3>1, <3>2, <3>4 DEF SeenFlatIsFlat
  <2>3. CASE caseState[c] = "SUBMITTED" /\ caseState'[c] # "CLOSED"
    <3>1. SeenFlat(c)  BY <2>1, <2>3 DEF SeenFlat
    <3> QED  BY <2>3, <3>1, SeenWhenFilled DEF Filled
  <2> QED  BY <1>2, <2>2, <2>3, EntrySteps
<1>3. ASSUME NEW o \in OrderIds, Fill(o) \/ Die(o) PROVE position'[LegsOf[c]] <= 0
  <2>1. UNCHANGED <<caseState, holder, pc, work, flat, results>>  BY <1>3, BrokerQuiet
  <2>2. SeenFlat(c) /\ HeldBy(c)  BY <2>1 DEF SeenFlat, HeldBy
  <2>3. position[LegsOf[c]] <= 0  BY <2>2 DEF SeenFlatIsFlat
  <2>4. CASE Die(o)  BY <1>0, <2>3, <2>4, DieChange
  <2>5. CASE Fill(o)
    <3> SUFFICES ASSUME NEW l, l = order[o].key[1] PROVE position'[LegsOf[c]] <= 0
      OBVIOUS
    <3>1. l \in Legs /\ position' = [position EXCEPT ![l] = @ - 1]  BY <2>5, FillChange
    <3>2. position'[LegsOf[c]] \in {position[LegsOf[c]], position[LegsOf[c]] - 1}
      BY <1>0, <3>1 DEF BrokerShape
    <3> QED  BY <1>0, <2>3, <3>2
  <2> QED  BY <1>3, <2>4, <2>5
<1>4. CASE (\E k \in Keys : LeaseExpires(k)) \/ ExitDue \/ UNCHANGED vars
  <2>1. UNCHANGED <<position, caseState, holder, pc, work, flat, results>>  BY <1>4, OtherQuiet
  <2>2. SeenFlat(c) /\ HeldBy(c)  BY <2>1 DEF SeenFlat, HeldBy
  <2> QED  BY <2>1, <2>2 DEF SeenFlatIsFlat
<1> QED  BY <1>1, <1>2, <1>3, <1>4 DEF Next, Environment

LEMMA SeenFlatInvariant == Spec => []SeenFlatIsFlat
<1>1. Init => SeenFlatIsFlat
  <2> SUFFICES ASSUME Init PROVE SeenFlatIsFlat
    OBVIOUS
  <2> QED  BY NothingWorksInitially DEF SeenFlatIsFlat, HeldBy
<1>2. Shape /\ Shape' /\ SeenFlatIsFlat /\ [Next]_vars => SeenFlatIsFlat'
  BY SeenFlatStep
<1> QED  BY <1>1, <1>2, ShapeInvariant, PTL DEF Spec

\* ClosedCaseIsFlat: what says CLOSED of a case has seen its legs flat after its entry was
\* over, nothing is entered for it again, and no close goes below zero.
THEOREM ClosedIsFlat ==
  ASSUME OneProcess \/ OwnLegs
  PROVE  Spec => []ClosedCaseIsFlat
<1>1. Spec => []NeverOverclosed
  BY OneProcessNeverOverclosed, OwnLegsNeverOverclosed
<1>2. Shape /\ NeverOverclosed /\ SeenFlatIsFlat => ClosedCaseIsFlat
  <2> SUFFICES ASSUME Shape, NeverOverclosed, SeenFlatIsFlat,
                      NEW c \in Cases, caseState[c] = "CLOSED", holder = c
               PROVE  position[LegsOf[c]] = 0
    BY DEF ClosedCaseIsFlat
  <2>1. LegsOf[c] \in Legs  BY ConstantsAssumption
  <2>2. position[LegsOf[c]] \in Int  BY <2>1 DEF Shape, BrokerShape
  <2>3. position[LegsOf[c]] <= 0  BY DEF SeenFlatIsFlat, SeenFlat, HeldBy
  <2>4. position[LegsOf[c]] >= 0  BY <2>1 DEF NeverOverclosed
  <2> QED  BY <2>2, <2>3, <2>4
<1> QED  BY <1>1, <1>2, ShapeInvariant, SeenFlatInvariant, PTL
-----------------------------------------------------------------------------
(* With one process, a settled intent is in nobody's hands.                *)

\* Where a process may yet write the intent it works on.
AtWork == {"observe", "positions", "persist", "lookup", "orders", "price", "submit", "store"}

Leases == \A k \in Keys : ~ Active(k) => intent[k].leased = FALSE

\* What the process works on and what it has read to poll are active intents, each of its own.
Clean(p) ==
  /\ \A w \in todo[p] : Active(w.key)
  /\ \A w, x \in todo[p] : w.key = x.key => w = x
  /\ pc[p] \in {"manage", "claim"} => todo[p] = {}
  /\ pc[p] \in AtWork => Active(work[p].key) /\ \A w \in todo[p] : w.key # work[p].key

SettledAlone == Leases /\ \A p \in Processes : Clean(p)

SettledKept == \A k \in Keys : intent[k].state \in SettledIntents => intent'[k] = intent[k]

ActiveKept(k) == Active(k) => Active(k)'

LEMMA IntentsSame ==
  ASSUME Leases, UNCHANGED intent
  PROVE  Leases' /\ SettledKept /\ \A k : ActiveKept(k)
BY DEF Leases, SettledKept, ActiveKept, Active

LEMMA WriteSettles ==
  ASSUME IntentShape, Leases, NEW w \in WorkType, Active(w.key),
         NEW state \in IntentStates, NEW o, Write(w, state, o)
  PROVE  /\ Leases' /\ SettledKept
         /\ \A j \in Keys \ {w.key} : ActiveKept(j)
         /\ state \notin SettledIntents \cup {"NONE"} => ActiveKept(w.key)
<1> DEFINE row == [intent[w.key] EXCEPT !.state = state, !.leased = FALSE,
                                        !.order = IF o = NoOrder THEN @ ELSE o]
<1>1. w.key \in Keys  BY DEF WorkType
<1>2. intent' = [intent EXCEPT ![w.key] = row]
  BY <1>1 DEF Write, IntentShape, RowType
<1>3. row.state = state /\ row.leased = FALSE
  BY <1>1 DEF IntentShape, RowType
<1> HIDE DEF row
<1>4. intent'[w.key] = row /\ \A j \in Keys \ {w.key} : intent'[j] = intent[j]
  BY <1>1, <1>2 DEF IntentShape
<1>5. Leases'  BY <1>3, <1>4 DEF Leases, Active
<1>6. SettledKept  BY <1>4 DEF SettledKept, Active
<1>7. \A j \in Keys \ {w.key} : ActiveKept(j)  BY <1>4 DEF ActiveKept, Active
<1>8. state \notin SettledIntents \cup {"NONE"} => ActiveKept(w.key)
  <2> SUFFICES ASSUME NEW k, k = w.key, state \notin SettledIntents \cup {"NONE"}
               PROVE  intent'[k].state \notin SettledIntents \cup {"NONE"}
    BY <1>3, <1>4 DEF ActiveKept, Active
  <2> QED  BY <1>3, <1>4
<1> QED  BY <1>5, <1>6, <1>7, <1>8

LEMMA TodoLeft ==
  ASSUME Shape, NEW p \in Processes, Clean(p), TodoShrinks(p)
  PROVE  /\ \A x \in todo'[p] : x \in todo[p] /\ x.key \in Keys /\ Active(x.key)
         /\ \A x, y \in todo'[p] : x.key = y.key => x = y
<1>1. todo'[p] \subseteq todo[p]  BY TodoShrunk DEF Shape, LocalShape
<1> QED  BY <1>1, WorkOfProcess DEF Clean, WorkType

LEMMA CleanEnd ==
  ASSUME Shape, NEW p \in Processes, EndTick(p)
  PROVE  Clean(p)'
<1>1. pc'[p] = "idle" /\ todo'[p] = {}
  BY DEF Shape, LocalShape, LocalTypes, EndTick, Goto
<1> QED  BY <1>1 DEF Clean, AtWork

LEMMA CleanReturn ==
  ASSUME Shape, NEW p \in Processes, Clean(p), NEW w, NEW state, Return(p, w, state),
         TodoShrinks(p), \A x \in todo'[p] : ActiveKept(x.key)
  PROVE  Clean(p)'
<1>1. pc'[p] \in {"poll", "closed"}
  BY DEF Shape, LocalShape, LocalTypes, Return, Goto
<1>2. \A x \in todo'[p] : Active(x.key)'  BY TodoLeft DEF ActiveKept
<1> QED  BY <1>1, <1>2, TodoLeft DEF Clean, AtWork

LEMMA CleanContinue ==
  ASSUME Shape, NEW p \in Processes, Clean(p), NEW w, NEW label, Continue(p, w, label),
         TodoShrinks(p), \A x \in todo'[p] : ActiveKept(x.key),
         label \in {"manage", "claim"} => todo'[p] = {},
         label \in AtWork => /\ Active(w.key) /\ ActiveKept(w.key)
                             /\ \A x \in todo'[p] : x.key # w.key
  PROVE  Clean(p)'
<1>1. pc'[p] = label /\ work'[p] = w
  BY DEF Shape, LocalShape, LocalTypes, Continue, Goto
<1>2. \A x \in todo'[p] : Active(x.key)'  BY TodoLeft DEF ActiveKept
<1>3. label \in AtWork => Active(w.key)'  BY DEF ActiveKept
<1>4. label \in AtWork => Active(work[p].key)'
  <2> SUFFICES ASSUME NEW k, k = w.key, label \in AtWork PROVE Active(work[p].key)'
    OBVIOUS
  <2>1. Active(k)'  BY <1>3
  <2> QED  BY <1>1, <2>1 DEF Active
<1> QED  BY <1>1, <1>2, <1>4, TodoLeft DEF Clean

\* Taking an intent from those to poll leaves the others.
LEMMA TodoTaken ==
  ASSUME Shape, NEW p \in Processes, Clean(p), NEW w \in todo[p],
         todo' = [todo EXCEPT ![p] = @ \ {w}]
  PROVE  TodoShrinks(p) /\ Active(w.key) /\ \A x \in todo'[p] : x.key # w.key
<1>1. todo'[p] = todo[p] \ {w}
  BY DEF Shape, LocalShape, LocalTypes
<1> QED  BY <1>1 DEF TodoShrinks, Clean
\* What a process's step must show.
CleanStep(p) == Clean(p)' /\ Leases' /\ SettledKept

LEMMA EndIsClean ==
  ASSUME Shape, Leases, NEW p \in Processes, EndTick(p), UNCHANGED intent
  PROVE  CleanStep(p)
BY CleanEnd, IntentsSame DEF CleanStep

LEMMA ReturnIsClean ==
  ASSUME Shape, Leases, NEW p \in Processes, Clean(p), NEW w, NEW state, Return(p, w, state),
         TodoShrinks(p), UNCHANGED intent
  PROVE  CleanStep(p)
BY CleanReturn, IntentsSame DEF CleanStep

LEMMA ContinueIsClean ==
  ASSUME Shape, Leases, NEW p \in Processes, Clean(p), NEW w, NEW label, Continue(p, w, label),
         TodoShrinks(p), UNCHANGED intent,
         label \in {"manage", "claim"} => todo'[p] = {},
         label \in AtWork => Active(w.key) /\ \A x \in todo'[p] : x.key # w.key
  PROVE  CleanStep(p)
BY CleanContinue, IntentsSame DEF CleanStep

\* A write by the holder of an active intent, which then goes on with it or returns.
LEMMA WriteIsClean ==
  ASSUME Shape, Leases, NEW p \in Processes, Clean(p), NEW w \in WorkType, Active(w.key),
         TodoShrinks(p), \A x \in todo'[p] : x.key # w.key,
         NEW state \in IntentStates, NEW o, Write(w, state, o),
         \/ \E outcome : Return(p, w, outcome)
         \/ /\ state \notin SettledIntents \cup {"NONE"}
            /\ \E x : x.key = w.key /\ \E label \in AtWork : Continue(p, x, label)
  PROVE  CleanStep(p)
<1>1. IntentShape  BY DEF Shape
<1>2. /\ Leases' /\ SettledKept
      /\ \A j \in Keys \ {w.key} : ActiveKept(j)
      /\ state \notin SettledIntents \cup {"NONE"} => ActiveKept(w.key)
  BY <1>1, WriteSettles
<1>3. \A x \in todo'[p] : ActiveKept(x.key)  BY <1>2, TodoLeft
<1>4. ASSUME NEW outcome, Return(p, w, outcome) PROVE Clean(p)'
  BY <1>3, <1>4, CleanReturn
<1>5. ASSUME state \notin SettledIntents \cup {"NONE"}, NEW x, NEW label \in AtWork,
             x.key = w.key, Continue(p, x, label)
      PROVE  Clean(p)'
  <2>1. Active(x.key) /\ ActiveKept(x.key)  BY <1>2, <1>5
  <2>2. label \notin {"manage", "claim"}  BY DEF AtWork
  <2> QED  BY <1>3, <1>5, <2>1, <2>2, CleanContinue
<1> QED  BY <1>2, <1>4, <1>5 DEF CleanStep

LEMMA ClaimIsClean ==
  ASSUME Shape, Leases, NEW p \in Processes, Clean(p), Claim(p)
  PROVE  CleanStep(p)
<1> SUFFICES ASSUME NEW k, k = work[p].key, NEW row, row = intent[k],
                    NEW state, state = IF row.state = "NONE" THEN "INTENT" ELSE row.state
             PROVE  CleanStep(p)
  OBVIOUS
<1>0. k \in Keys /\ row \in RowType /\ IntentShape /\ work[p] \in WorkType
  BY WorkOfProcess DEF Shape, IntentShape
<1>1. todo[p] = {}  BY DEF Claim, Clean
<1>2. CASE ~ Claimable(k)
  BY <1>2, EndIsClean DEF Claim
<1>3. CASE Claimable(k)
  <2> SUFFICES ASSUME NEW w, NEW label \in {"lookup", "observe"}, w.key = k,
                      Continue(p, w, label), UNCHANGED todo,
                      NEW new, new.state = state,
                      intent' = [intent EXCEPT ![k] = new]
               PROVE  CleanStep(p)
    <3> DEFINE given == ResolvedCase(k[1])
               owner == IF row.case # NoCase THEN row.case ELSE given
               w == [work[p] EXCEPT !.token = row.token + 1, !.order = row.order, !.case = owner,
                                    !.given = given, !.origin = "found"]
               new == [row EXCEPT !.state = state, !.token = row.token + 1, !.leased = TRUE,
                                  !.case = owner]
    <3>1. w.key = k  BY <1>0 DEF WorkType
    <3>2. new.state = state  BY <1>0 DEF RowType
    <3>3. UNCHANGED todo /\ \E label \in {"lookup", "observe"} : Continue(p, w, label)
      BY <1>3 DEF Claim
    <3>4. intent' = [intent EXCEPT ![k].state = IF @ = "NONE" THEN "INTENT" ELSE @,
                                   ![k].token = @ + 1, ![k].leased = TRUE, ![k].case = owner]
      BY <1>3 DEF Claim
    <3>5. intent' = [intent EXCEPT ![k] = new]
      BY <1>0, <3>4 DEF IntentShape, RowType
    <3> HIDE DEF w, new
    <3> QED  BY <3>1, <3>2, <3>3, <3>5
  <2>2. intent'[k] = new /\ \A j \in Keys \ {k} : intent'[j] = intent[j]
    BY <1>0 DEF IntentShape
  <2>3. row.state \notin SettledIntents /\ state \notin SettledIntents \cup {"NONE"}
    BY <1>3 DEF Claimable, Active, SettledIntents
  <2>4. Leases'  BY <2>2, <2>3 DEF Leases, Active
  <2>5. SettledKept  BY <2>2, <2>3 DEF SettledKept
  <2>6. pc'[p] = label /\ work'[p] = w /\ todo'[p] = {}
    BY <1>1 DEF Shape, LocalShape, LocalTypes, Continue, Goto
  <2>7. Active(work[p].key)'  BY <2>2, <2>3, <2>6 DEF Active
  <2>8. Clean(p)'  BY <2>6, <2>7 DEF Clean
  <2> QED  BY <2>4, <2>5, <2>8 DEF CleanStep
<1> QED  BY <1>2, <1>3

LEMMA ProcessIsClean ==
  ASSUME Shape, Leases, NEW p \in Processes, Clean(p), Step(p) \/ Crash(p)
  PROVE  CleanStep(p)
<1>0. LocalShape /\ LocalTypes /\ IntentShape /\ work[p] \in WorkType
      /\ \A w \in todo[p] : w \in WorkType
  BY WorkOfProcess DEF Shape, LocalShape
<1>u. UNCHANGED todo => TodoShrinks(p)  BY DEF TodoShrinks
<1>a. ASSUME EndTick(p), UNCHANGED intent PROVE CleanStep(p)  BY <1>a, EndIsClean
<1>b. ASSUME NEW w, Return(p, w, "RECONCILE_REQUIRED"), TodoShrinks(p), UNCHANGED intent
      PROVE  CleanStep(p)
  BY <1>b, ReturnIsClean
<1>c. pc[p] \in AtWork => Active(work[p].key) /\ \A x \in todo[p] : x.key # work[p].key
  BY DEF Clean
<1>d. {"MANAGING", "INTENT", "RECONCILE_REQUIRED"} \subseteq IntentStates
      /\ "MANAGING" \notin SettledIntents \cup {"NONE"} /\ {"observe", "lookup", "orders"} \subseteq AtWork
  BY DEF IntentStates, SettledIntents, AtWork
<1>1. CASE \/ RecordFails(p) \/ Hold(p) \/ SnapshotFails(p) \/ Crash(p)
           \/ \E r \in results[p] : RecordClose(p, r)
           \/ \E c \in Cases : Enter(p, c)
  BY <1>1, <1>a DEF RecordFails, Hold, SnapshotFails, Crash, RecordClose, Enter
<1>2. CASE \/ ObserveFails(p) \/ OrdersFail(p) \/ SubmitRefused(p)
           \/ \E w \in todo[p] : PollLookupFails(p, w)
           \/ \E o \in OrderIds : SubmitAnswerLost(p, o)
  BY <1>2, <1>b, <1>u DEF ObserveFails, OrdersFail, SubmitRefused, PollLookupFails,
                          SubmitAnswerLost, TodoShrinks
<1>3. CASE ReadIntents(p)
  <2>1. /\ pc'[p] = "poll" /\ UNCHANGED intent
        /\ \A w \in todo'[p] : w.key \in Keys /\ Active(w.key) /\
             w = [key |-> w.key, order |-> intent[w.key].order, token |-> intent[w.key].token,
                  case |-> intent[w.key].case, given |-> NoCase, origin |-> "polled"]
    BY <1>0, <1>3 DEF ReadIntents, LocalTypes, Goto
  <2>2. \A w \in todo'[p] : Active(w.key)'  BY <2>1 DEF Active
  <2>3. \A w, x \in todo'[p] : w.key = x.key => w = x  BY <2>1
  <2>4. Clean(p)'  BY <2>1, <2>2, <2>3 DEF Clean, AtWork
  <2> QED  BY <2>1, <2>4, IntentsSame DEF CleanStep
<1>4. CASE ObserveOrder(p) \/ ObservePositions(p)
  <2>1. /\ pc'[p] \in AtWork \ {"manage", "claim"} /\ pc[p] \in AtWork
        /\ UNCHANGED <<todo, work, intent>>
    BY <1>0, <1>4 DEF ObserveOrder, ObservePositions, LocalTypes, Goto, AtWork
  <2>2. Clean(p)'  BY <2>1 DEF Clean, Active
  <2> QED  BY <2>1, <2>2, IntentsSame DEF CleanStep
<1>5. CASE \E r \in results[p] : RecordPolled(p, r)
  <2>1. UNCHANGED <<pc, todo, work, intent>>  BY <1>5 DEF RecordPolled
  <2>2. Clean(p)'  BY <2>1 DEF Clean, Active
  <2> QED  BY <2>1, <2>2, IntentsSame DEF CleanStep
<1>6. CASE Polled(p)
  <2>1. UNCHANGED intent  BY <1>6 DEF Polled
  <2>2. CASE Goto(p, "manage") /\ UNCHANGED <<todo, work, obs, flat, results, halt>>
    <3>1. pc'[p] = "manage" /\ todo'[p] = {}
      BY <1>0, <1>6, <2>2 DEF Polled, Goto, LocalTypes
    <3>2. Clean(p)'  BY <3>1 DEF Clean, AtWork
    <3> QED  BY <2>1, <3>2, IntentsSame DEF CleanStep
  <2> QED  BY <1>6, <1>a, <2>1, <2>2 DEF Polled
<1>7. ASSUME NEW w \in todo[p], PollKnown(p, w) PROVE CleanStep(p)
  <2>1. todo' = [todo EXCEPT ![p] = @ \ {w}] /\ Continue(p, w, "observe") /\ UNCHANGED intent
    BY <1>7 DEF PollKnown
  <2>2. TodoShrinks(p) /\ Active(w.key) /\ \A x \in todo'[p] : x.key # w.key
    BY <2>1, TodoTaken
  <2> QED  BY <2>1, <2>2, ContinueIsClean
<1>8. ASSUME NEW w \in todo[p], PollUnknown(p, w) PROVE CleanStep(p)
  <2>1. todo' = [todo EXCEPT ![p] = @ \ {w}]
    BY <1>8 DEF PollUnknown
  <2>2. TodoShrinks(p) /\ Active(w.key) /\ \A x \in todo'[p] : x.key # w.key
    BY <2>1, TodoTaken
  <2>3. CASE Return(p, w, "RECONCILE_REQUIRED") /\ UNCHANGED intent
    BY <1>b, <2>2, <2>3
  <2>4. ASSUME NEW o, Write(w, "MANAGING", o), Continue(p, [w EXCEPT !.order = o], "observe")
        PROVE  CleanStep(p)
    <3>1. w \in WorkType /\ [w EXCEPT !.order = o].key = w.key  BY <1>0 DEF WorkType
    <3> DEFINE x == [w EXCEPT !.order = o]
    <3> HIDE DEF x
    <3>2. x.key = w.key /\ Continue(p, x, "observe")  BY <2>4, <3>1 DEF x
    <3> QED  BY <1>d, <2>2, <2>4, <3>1, <3>2, WriteIsClean
  <2> QED  BY <1>8, <2>3, <2>4 DEF PollUnknown
<1>9. ASSUME pc[p] \in AtWork, UNCHANGED todo, NEW state \in IntentStates, NEW o,
             Write(work[p], state, o), NEW outcome, Return(p, work[p], outcome)
      PROVE  CleanStep(p)
  <2>1. TodoShrinks(p) /\ Active(work[p].key) /\ \A x \in todo'[p] : x.key # work[p].key
    BY <1>c, <1>u, <1>9
  <2> QED  BY <1>0, <1>9, <2>1, WriteIsClean
<1>10. ASSUME pc[p] \in AtWork, UNCHANGED todo, NEW o, Write(work[p], "MANAGING", o),
              NEW x, x.key = work[p].key, Continue(p, x, "observe")
       PROVE  CleanStep(p)
  <2>1. TodoShrinks(p) /\ Active(work[p].key) /\ \A y \in todo'[p] : y.key # work[p].key
    BY <1>c, <1>u, <1>10
  <2> QED  BY <1>0, <1>d, <1>10, <2>1, WriteIsClean
<1>11. ASSUME pc[p] \in AtWork, UNCHANGED <<todo, intent>>, NEW x, x.key = work[p].key,
              NEW label, label \notin {"manage", "claim"}, Continue(p, x, label)
       PROVE  CleanStep(p)
  BY <1>0, <1>c, <1>u, <1>11, ContinueIsClean
<1>12. CASE Persist(p)
  <2> DEFINE outcome == CloseOutcome(obs[p], flat[p])
  <2>1. obs[p] \in OrderStates /\ flat[p] \in BOOLEAN /\ pc[p] \in AtWork
    BY <1>0, <1>12 DEF Persist, LocalShape, LocalTypes, GoodProcess, AtWork
  <2>2. outcome \in IntentStates  BY <2>1, OutcomeTypes
  <2>3. \/ Return(p, work[p], outcome) /\ UNCHANGED <<todo, intent>>
        \/ Write(work[p], outcome, work[p].order) /\ Return(p, work[p], outcome) /\ UNCHANGED todo
        \/ EndTick(p) /\ UNCHANGED intent
    BY <1>12 DEF Persist
  <2> HIDE DEF outcome
  <2>4. CASE Return(p, work[p], outcome) /\ UNCHANGED <<todo, intent>>
    BY <1>u, <2>4, ReturnIsClean
  <2> QED  BY <1>9, <1>a, <2>1, <2>2, <2>3, <2>4
<1>13. ASSUME NEW l \in Legs, Exit(p, l) PROVE CleanStep(p)
  <2>1. /\ todo[p] = {} /\ UNCHANGED <<todo, intent>>
        /\ \E w : Continue(p, w, "claim")
    BY <1>13 DEF Exit, Clean
  <2>2. "claim" \notin AtWork  BY DEF AtWork
  <2> QED  BY <1>u, <2>1, <2>2, ContinueIsClean
<1>14. CASE Claim(p)  BY <1>14, ClaimIsClean
<1>15. CASE LookUp(p) \/ LookUpFails(p)
  <2>1. UNCHANGED todo /\ pc[p] \in AtWork  BY <1>15 DEF LookUp, LookUpFails, AtWork
  <2>2. CASE NotSubmitted(p) /\ UNCHANGED intent
    <3>1. ASSUME NEW w, w = [work[p] EXCEPT !.case = work[p].given] PROVE w.key = work[p].key
      BY <1>0, <3>1 DEF WorkType
    <3>2. PICK w : w.key = work[p].key /\ Continue(p, w, "orders")
      BY <2>2, <3>1 DEF NotSubmitted
    <3> QED  BY <1>11, <2>1, <2>2, <3>2
  <2>3. CASE Return(p, work[p], "RECONCILE_REQUIRED") /\ UNCHANGED intent
    BY <1>b, <1>u, <2>1, <2>3
  <2>4. ASSUME NEW o, Write(work[p], "MANAGING", o),
               Continue(p, [work[p] EXCEPT !.order = o], "observe")
        PROVE  CleanStep(p)
    <3>1. ASSUME NEW w, w = [work[p] EXCEPT !.order = o] PROVE w.key = work[p].key
      BY <1>0, <3>1 DEF WorkType
    <3>2. PICK w : w.key = work[p].key /\ Continue(p, w, "observe")
      BY <2>4, <3>1
    <3> QED  BY <1>10, <2>1, <2>4, <3>2
  <2> QED  BY <1>15, <2>2, <2>3, <2>4 DEF LookUp, LookUpFails
<1>16. CASE CheckOrders(p) \/ PriceFails(p)
  <2>1. pc[p] \in AtWork  BY <1>16 DEF CheckOrders, PriceFails, AtWork
  <2>2. \/ Continue(p, work[p], "price") /\ UNCHANGED <<todo, intent>>
        \/ /\ \E state \in {"INTENT", "RECONCILE_REQUIRED"} : Write(work[p], state, NoOrder)
           /\ Return(p, work[p], "RECONCILE_REQUIRED") /\ UNCHANGED todo
        \/ EndTick(p) /\ UNCHANGED intent
    BY <1>16 DEF CheckOrders, PriceFails
  <2> QED  BY <1>9, <1>11, <1>a, <1>d, <2>1, <2>2
<1>17. CASE Price(p)
  <2>1. pc[p] \in AtWork /\ Continue(p, work[p], "submit") /\ UNCHANGED <<todo, intent>>
    BY <1>17 DEF Price, AtWork
  <2> QED  BY <1>11, <2>1
<1>18. ASSUME NEW o \in OrderIds, Submit(p, o) PROVE CleanStep(p)
  <2>1. /\ pc[p] \in AtWork /\ UNCHANGED <<todo, intent>>
        /\ Continue(p, [work[p] EXCEPT !.order = o], "store")
    BY <1>18 DEF Submit, AtWork
  <2>2. ASSUME NEW w, w = [work[p] EXCEPT !.order = o] PROVE w.key = work[p].key
    BY <1>0, <2>2 DEF WorkType
  <2>3. PICK w : w.key = work[p].key /\ Continue(p, w, "store")
    BY <2>1, <2>2
  <2> QED  BY <1>11, <2>1, <2>3
<1>19. CASE Store(p)
  <2>1. pc[p] \in AtWork /\ UNCHANGED todo  BY <1>19 DEF Store, AtWork
  <2>2. CASE Return(p, work[p], "RECONCILE_REQUIRED") /\ UNCHANGED intent
    BY <1>b, <1>u, <2>1, <2>2
  <2>3. CASE /\ Write(work[p], "MANAGING", work[p].order)
             /\ Continue(p, [work[p] EXCEPT !.origin = "stored"], "observe")
    <3>1. ASSUME NEW w, w = [work[p] EXCEPT !.origin = "stored"] PROVE w.key = work[p].key
      BY <1>0, <3>1 DEF WorkType
    <3>2. PICK w : w.key = work[p].key /\ Continue(p, w, "observe")
      BY <2>3, <3>1
    <3> QED  BY <1>10, <2>1, <2>3, <3>2
  <2> QED  BY <1>19, <2>2, <2>3 DEF Store
<1> QED
  BY <1>1, <1>2, <1>3, <1>4, <1>5, <1>6, <1>7, <1>8, <1>12, <1>13, <1>14, <1>15, <1>16, <1>17,
     <1>18, <1>19 DEF Step

LEMMA SettledStep ==
  ASSUME OneProcess, Shape, SettledAlone, [Next]_vars
  PROVE  SettledAlone' /\ SettledKept
<1>0. Leases /\ \A p \in Processes : Clean(p)  BY DEF SettledAlone
<1>1. ASSUME NEW p \in Processes, Step(p) \/ Crash(p) PROVE SettledAlone' /\ SettledKept
  <2>1. CleanStep(p)  BY <1>0, <1>1, ProcessIsClean
  <2>2. \A q \in Processes : q = p  BY DEF OneProcess
  <2> QED  BY <2>1, <2>2 DEF CleanStep, SettledAlone
<1>2. ASSUME UNCHANGED <<pc, todo, work>>, \A k : Active(k) <=> Active(k)'
      PROVE  \A p \in Processes : Clean(p)'
  <2> SUFFICES ASSUME NEW p \in Processes PROVE Clean(p)'
    OBVIOUS
  <2>1. Clean(p)  BY <1>0
  <2>2. \A k : k = work[p].key => (Active(k) <=> Active(work[p].key)')
    BY <1>2 DEF Active
  <2> QED  BY <1>2, <2>1, <2>2 DEF Clean
<1>3. ASSUME NEW k \in Keys, LeaseExpires(k) PROVE SettledAlone' /\ SettledKept
  <2> DEFINE new == [intent[k] EXCEPT !.leased = FALSE]
  <2>1. intent' = [intent EXCEPT ![k] = new] /\ intent[k].leased /\ UNCHANGED <<pc, todo, work>>
    BY <1>3 DEF LeaseExpires, Shape, IntentShape, RowType
  <2>2. new.state = intent[k].state /\ new.leased = FALSE
    BY DEF Shape, IntentShape, RowType
  <2> HIDE DEF new
  <2>3. intent'[k] = new /\ \A j \in Keys \ {k} : intent'[j] = intent[j]
    BY <2>1 DEF Shape, IntentShape
  <2>4. Active(k)  BY <1>0, <2>1 DEF Leases
  <2>5. SettledKept  BY <2>3, <2>4 DEF SettledKept, Active
  <2>6. \A j \in Keys : Active(j) <=> Active(j)'  BY <2>2, <2>3 DEF Active
  <2>7. Leases'  BY <1>0, <2>2, <2>3, <2>6 DEF Leases
  <2>8. \A p \in Processes : Clean(p)'
    <3> SUFFICES ASSUME NEW p \in Processes PROVE Clean(p)'
      OBVIOUS
    <3>1. Clean(p) /\ work[p].key \in Keys /\ \A w \in todo[p] : w.key \in Keys
      BY <1>0, WorkOfProcess DEF WorkType
    <3>2. \A j \in Keys : j = work[p].key => (Active(j) <=> Active(work[p].key)')
      BY <2>1, <2>6 DEF Active
    <3> QED  BY <2>1, <2>6, <3>1, <3>2 DEF Clean
  <2> QED  BY <2>5, <2>7, <2>8 DEF SettledAlone
<1>4. CASE UNCHANGED <<intent, pc, todo, work>>
  <2>1. Leases' /\ SettledKept  BY <1>0, <1>4, IntentsSame
  <2>2. \A k : Active(k) <=> Active(k)'  BY <1>4 DEF Active
  <2> QED  BY <1>2, <1>4, <2>1, <2>2 DEF SettledAlone
<1>5. Environment => (\E k \in Keys : LeaseExpires(k)) \/ UNCHANGED <<intent, pc, todo, work>>
  BY DEF Environment, EntryFills, EntryDies, EntryRecorded, Fill, Die, ExitDue
<1>6. UNCHANGED vars => UNCHANGED <<intent, pc, todo, work>>  BY DEF vars
<1> QED  BY <1>1, <1>3, <1>4, <1>5, <1>6 DEF Next

\* SettledStays: with one process a settled intent is on no list to poll and in no tick's
\* hands, no claim takes it and no lease of it is left to expire.
THEOREM OneProcessSettledStays ==
  ASSUME OneProcess
  PROVE  Spec => SettledStays
<1>1. Init => SettledAlone
  <2> SUFFICES ASSUME Init PROVE SettledAlone
    OBVIOUS
  <2>1. Leases  BY DEF Init, Leases, NoRow
  <2>2. \A p \in Processes : Clean(p)  BY DEF Init, Clean, AtWork
  <2> QED  BY <2>1, <2>2 DEF SettledAlone
<1>2. Shape /\ SettledAlone /\ [Next]_vars => SettledAlone'
  BY SettledStep
<1>3. Shape /\ SettledAlone /\ [Next]_vars =>
        [\A k \in Keys : intent[k].state \in SettledIntents => intent'[k] = intent[k]]_vars
  BY SettledStep DEF SettledKept
<1> QED  BY <1>1, <1>2, <1>3, ShapeInvariant, PTL DEF Spec, SettledStays
=============================================================================
