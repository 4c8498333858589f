---------------------- MODULE DecisionWindows_refinement ----------------------
(***************************************************************************)
(* Whatever ticks, polls, closes, crashes and vetoes do, the windows keep  *)
(* their types; and where one process writes, the ledger moves as          *)
(* CaseLedger says.                                                        *)
(***************************************************************************)
EXTENDS DecisionWindows, TLAPS

USE DEF ledger, orders, locals, faults, history

\* A process past its lease, poll or close knows its window, and one that closes has an
\* event to append.
Located ==
  \A s \in Schedulers :
    /\ pc[s] \notin {"idle", "tick"} => win[s] \in Windows
    /\ pc[s] \in {"closing", "closeWrite"} => events[s] # << >>

LocalTypes ==
  /\ pc \in [Schedulers -> PcStates]
  /\ win \in [Schedulers -> Windows \cup {NoWindow}]
  /\ now \in [Schedulers -> Nat]
  /\ stage \in [Schedulers -> DOMAIN ArtifactOf]
  /\ events \in [Schedulers -> Seq(CaseEvents)]
  /\ Located

LedgerTypes ==
  /\ caseState \in [Windows -> CaseStates \cup {"NONE"}]
  /\ log \in [Windows -> Seq(CaseEvents)]
  /\ artifacts \in [Windows -> SUBSET Artifacts]

OtherTypes ==
  /\ clock \in 0..Horizon
  /\ lease \in [Windows -> Nat]
  /\ openIntent \subseteq Windows /\ fillSeen \subseteq Windows
  /\ crashes \in 0..MaxCrashes /\ cutOff \in BOOLEAN
  /\ evaluations \in [Windows -> Nat] /\ executions \in [Windows -> Nat]
  /\ vetoed \in [Windows -> {"no", "before", "late"}]

Shape == LocalTypes /\ LedgerTypes /\ OtherTypes

LEMMA Names ==
  /\ DOMAIN ArtifactOf = {"OBSERVED", "FORECASTED", "ARGUED", "CERTIFIED", "REFUSED", "HALTED"}
  /\ DOMAIN ArtifactOf \subseteq CaseEvents
  /\ CaseEvents \subseteq CaseStates
  /\ \A e \in DOMAIN ArtifactOf : ArtifactOf[e] \in Artifacts
  /\ {"candidate_structures", "execution_record", "operator_veto"} \subseteq Artifacts
<1>1. DOMAIN ArtifactOf = {"OBSERVED", "FORECASTED", "ARGUED", "CERTIFIED", "REFUSED", "HALTED"}
  BY DEF ArtifactOf
<1>2. {"OBSERVED", "FORECASTED", "ARGUED", "CERTIFIED", "REFUSED", "HALTED"} \subseteq CaseEvents
  BY DEF CaseEvents, CaseStates
<1>3. CaseEvents \subseteq CaseStates  BY DEF CaseEvents
<1>4. /\ \A e \in DOMAIN ArtifactOf : ArtifactOf[e] \in Artifacts
      /\ {"candidate_structures", "execution_record", "operator_veto"} \subseteq Artifacts
  BY DEF Artifacts
<1> QED  BY <1>1, <1>2, <1>3, <1>4

-----------------------------------------------------------------------------
(* What a step does to its process.                                        *)

LEMMA EndTickLocals ==
  ASSUME LocalTypes, NEW s \in Schedulers, EndTick(s)
  PROVE  LocalTypes'
BY Names DEF LocalTypes, Located, EndTick, Goto, PcStates

LEMMA BackToTickLocals ==
  ASSUME LocalTypes, NEW s \in Schedulers, BackToTick(s)
  PROVE  LocalTypes'
BY DEF LocalTypes, Located, BackToTick, Goto, PcStates

\* A process that works on goes to another label, with its window and its events.
LEMMA WorkOnLocals ==
  ASSUME LocalTypes, NEW s \in Schedulers, NEW label \in PcStates \ {"closing", "closeWrite"},
         NEW next \in DOMAIN ArtifactOf,
         pc[s] \notin {"idle", "tick"}, Goto(s, label), UNCHANGED <<win, now, events>>,
         stage' = stage \/ stage' = [stage EXCEPT ![s] = next]
  PROVE  LocalTypes'
BY DEF LocalTypes, Located, Goto

\* A process that takes up a window.
LEMMA TakeUpLocals ==
  ASSUME LocalTypes, NEW s \in Schedulers, NEW label \in PcStates \ {"closing", "closeWrite"},
         NEW w \in Windows, Goto(s, label), win' = [win EXCEPT ![s] = w],
         UNCHANGED <<now, stage, events>>
  PROVE  LocalTypes'
BY DEF LocalTypes, Located, Goto

LEMMA RaiseLocals ==
  ASSUME Shape, NEW s \in Schedulers, pc[s] \notin {"idle", "tick"}, Raise(s)
  PROVE  LocalTypes' /\ cutOff' \in BOOLEAN
<1>1. CASE stage[s] = "HALTED"
  <2>1. EndTick(s) /\ cutOff' = TRUE  BY <1>1 DEF Raise, CutOff
  <2> QED  BY <2>1, EndTickLocals DEF Shape
<1>2. CASE stage[s] # "HALTED"
  <2>1. /\ Goto(s, "save") /\ stage' = [stage EXCEPT ![s] = "HALTED"]
        /\ UNCHANGED <<win, now, events, cutOff>>
    BY <1>2 DEF Raise
  <2>2. "save" \in PcStates \ {"closing", "closeWrite"} /\ "HALTED" \in DOMAIN ArtifactOf
    BY Names DEF PcStates
  <2>3. LocalTypes'  BY <2>1, <2>2, WorkOnLocals DEF Shape
  <2> QED  BY <2>1, <2>3 DEF Shape, OtherTypes
<1> QED  BY <1>1, <1>2

-----------------------------------------------------------------------------
(* What a writer does to the ledger.                                       *)

LEMMA LastOfOne ==
  ASSUME NEW x PROVE <<x>> # << >> /\ Last(<<x>>) = x
BY DEF Last

LEMMA LastOfTwo ==
  ASSUME NEW x, NEW y PROVE <<x, y>> # << >> /\ Last(<<x, y>>) = y
BY DEF Last

LEMMA AfterOne ==
  ASSUME NEW state, NEW x PROVE AfterEvents(state, <<x>>) = x
BY LastOfOne DEF AfterEvents

LEMMA AfterTwo ==
  ASSUME NEW state, NEW x, NEW y PROVE AfterEvents(state, <<x, y>>) = y
BY LastOfTwo DEF AfterEvents

\* The abstract ledger has the same tables.
LEMMA SameTables ==
  /\ \A state, e : Ledger!Legal(state, e) <=> Legal(state, e)
  /\ \A state, list : Ledger!AfterEvents(state, list) = AfterEvents(state, list)
  /\ Ledger!CaseEvents = CaseEvents
<1>1. \A state, e : Ledger!Legal(state, e) <=> Legal(state, e)
  BY DEF Ledger!Legal, Legal, Ledger!CaseStates, CaseStates, Ledger!Transitions, Transitions
<1>2. \A state, list : Ledger!AfterEvents(state, list) = AfterEvents(state, list)
  BY DEF Ledger!AfterEvents, AfterEvents, Ledger!Last, Last
<1>3. Ledger!CaseEvents = CaseEvents
  BY DEF Ledger!CaseEvents, CaseEvents, Ledger!CaseStates, CaseStates
<1> QED  BY <1>1, <1>2, <1>3

LEMMA CommitOfOne ==
  ASSUME NEW w \in Windows, NEW e \in CaseEvents, Legal(caseState[w], e),
         caseState' = [caseState EXCEPT ![w] = AfterEvents(@, <<e>>)],
         log' = [log EXCEPT ![w] = @ \o <<e>>]
  PROVE  Ledger!Next
<1>1. \A i \in DOMAIN <<e>> : Legal(IF i = 1 THEN caseState[w] ELSE <<e>>[i - 1], <<e>>[i])
  OBVIOUS
<1>2. Ledger!Commit(w, <<e>>)  BY <1>1, SameTables DEF Ledger!Commit
<1> QED  BY <1>2, SameTables DEF Ledger!Next

LEMMA CommitOfTwo ==
  ASSUME NEW w \in Windows, NEW e \in CaseEvents, NEW f \in CaseEvents,
         Legal(caseState[w], e), Legal(e, f),
         caseState' = [caseState EXCEPT ![w] = AfterEvents(@, <<e, f>>)],
         log' = [log EXCEPT ![w] = @ \o <<e, f>>]
  PROVE  Ledger!Next
<1>1. \A i \in DOMAIN <<e, f>> :
        Legal(IF i = 1 THEN caseState[w] ELSE <<e, f>>[i - 1], <<e, f>>[i])
  <2> SUFFICES ASSUME NEW i \in {1, 2}
               PROVE  Legal(IF i = 1 THEN caseState[w] ELSE <<e, f>>[i - 1], <<e, f>>[i])
    OBVIOUS
  <2>1. CASE i = 1  BY <2>1
  <2>2. CASE i = 2  BY <2>2
  <2> QED  BY <2>1, <2>2
<1>2. Ledger!Commit(w, <<e, f>>)  BY <1>1, SameTables DEF Ledger!Commit
<1> QED  BY <1>2, SameTables DEF Ledger!Next

\* A single event appended.
LEMMA OneEvent ==
  ASSUME LedgerTypes, NEW w \in Windows, NEW e \in CaseEvents,
         caseState' = [caseState EXCEPT ![w] = e],
         log' = [log EXCEPT ![w] = Append(@, e)]
  PROVE  /\ Legal(caseState[w], e) => Ledger!Next
         /\ caseState' \in [Windows -> CaseStates \cup {"NONE"}]
         /\ log' \in [Windows -> Seq(CaseEvents)]
<1>1. AfterEvents(caseState[w], <<e>>) = e  BY AfterOne
<1>2. log[w] \in Seq(CaseEvents)  BY DEF LedgerTypes
<1>3. log[w] \o <<e>> = Append(log[w], e)  BY <1>2
<1>4. caseState' = [caseState EXCEPT ![w] = AfterEvents(@, <<e>>)]  BY <1>1
<1>5. log' = [log EXCEPT ![w] = @ \o <<e>>]  BY <1>3
<1>6. Append(log[w], e) \in Seq(CaseEvents)  BY <1>2
<1>7. e \in CaseStates  BY Names
<1> QED  BY <1>4, <1>5, <1>6, <1>7, CommitOfOne DEF LedgerTypes

\* The events of an execution's outcome: none, or one or two that are legal in turn.
LEMMA EntryEventsLegal ==
  ASSUME NEW state \in CaseStates \cup {"NONE"}, NEW outcome \in EntryOutcomes
  PROVE  \/ EntryEvents(state, outcome) = << >>
         \/ \E e \in CaseEvents :
              EntryEvents(state, outcome) = <<e>> /\ Legal(state, e)
         \/ \E e, f \in CaseEvents :
              EntryEvents(state, outcome) = <<e, f>> /\ Legal(state, e) /\ Legal(e, f)
<1>1. /\ "SUBMITTED" \in CaseEvents /\ "MANAGING" \in CaseEvents /\ "HALTED" \in CaseEvents
      /\ Legal("CERTIFIED", "SUBMITTED") /\ Legal("SUBMITTED", "MANAGING")
      /\ \A st \in Haltable : Legal(st, "HALTED")
  BY DEF CaseEvents, CaseStates, Legal, Transitions, Haltable
<1>2. CASE outcome \in {"SUBMITTED", "REPLACED"}  BY <1>1, <1>2 DEF EntryEvents
<1>3. CASE outcome = "FILLED"  BY <1>1, <1>3 DEF EntryEvents
<1>4. CASE outcome \notin {"SUBMITTED", "REPLACED", "FILLED"}  BY <1>1, <1>4 DEF EntryEvents
<1> QED  BY <1>2, <1>3, <1>4

LEMMA RecordExecutionLedger ==
  ASSUME LedgerTypes, NEW w \in Windows, NEW outcome \in EntryOutcomes, NEW fill \in BOOLEAN,
         RecordExecution(w, outcome, fill)
  PROVE  Ledger!Next \/ UNCHANGED <<caseState, log>>
<1> DEFINE appended == EntryEvents(caseState[w], outcome)
<1>1. /\ caseState' = [caseState EXCEPT ![w] = AfterEvents(@, appended)]
      /\ log' = [log EXCEPT ![w] = @ \o appended]
      /\ caseState[w] \in CaseStates \cup {"NONE"}
      /\ caseState = [caseState EXCEPT ![w] = @]
      /\ log[w] \in Seq(CaseEvents) /\ log = [log EXCEPT ![w] = @]
  BY DEF RecordExecution, LedgerTypes
<1>2. \/ appended = << >>
      \/ \E e \in CaseEvents : appended = <<e>> /\ Legal(caseState[w], e)
      \/ \E e, f \in CaseEvents : appended = <<e, f>> /\ Legal(caseState[w], e) /\ Legal(e, f)
  BY <1>1, EntryEventsLegal
<1> HIDE DEF appended
<1>3. CASE appended = << >>
  <2>1. AfterEvents(caseState[w], appended) = caseState[w]  BY <1>3 DEF AfterEvents
  <2>2. log[w] \o appended = log[w]  BY <1>1, <1>3
  <2> QED  BY <1>1, <2>1, <2>2
<1>4. CASE \E e \in CaseEvents : appended = <<e>> /\ Legal(caseState[w], e)
  BY <1>1, <1>4, CommitOfOne
<1>5. CASE \E e, f \in CaseEvents : appended = <<e, f>> /\ Legal(caseState[w], e) /\ Legal(e, f)
  BY <1>1, <1>5, CommitOfTwo
<1> QED  BY <1>2, <1>3, <1>4, <1>5

LEMMA RecordExecutionTypes ==
  ASSUME LedgerTypes, NEW w \in Windows, NEW outcome \in EntryOutcomes, NEW fill \in BOOLEAN,
         openIntent \subseteq Windows, fillSeen \subseteq Windows,
         RecordExecution(w, outcome, fill)
  PROVE  LedgerTypes' /\ openIntent' \subseteq Windows /\ fillSeen' \subseteq Windows
<1> DEFINE appended == EntryEvents(caseState[w], outcome)
           after    == AfterEvents(caseState[w], appended)
<1>1. /\ caseState' = [caseState EXCEPT ![w] = after]
      /\ log' = [log EXCEPT ![w] = @ \o appended]
      /\ artifacts' = [artifacts EXCEPT ![w] = @ \cup {"execution_record"}]
  BY DEF RecordExecution, LedgerTypes
<1>2. caseState[w] \in CaseStates \cup {"NONE"}  BY DEF LedgerTypes
<1>3. after \in CaseStates \cup {"NONE"} /\ appended \in Seq(CaseEvents)
  <2>1. \/ appended = << >>
        \/ \E e \in CaseEvents : appended = <<e>>
        \/ \E e, f \in CaseEvents : appended = <<e, f>>
    BY <1>2, EntryEventsLegal
  <2> HIDE DEF appended
  <2>2. CASE appended = << >>  BY <1>2, <2>2 DEF AfterEvents
  <2>3. CASE \E e \in CaseEvents : appended = <<e>>  BY <2>3, AfterOne, Names
  <2>4. CASE \E e, f \in CaseEvents : appended = <<e, f>>  BY <2>4, AfterTwo, Names
  <2> QED  BY <2>1, <2>2, <2>3, <2>4
<1> HIDE DEF appended, after
<1>4. log[w] \o appended \in Seq(CaseEvents)  BY <1>3 DEF LedgerTypes
<1>5. LedgerTypes'  BY <1>1, <1>3, <1>4, Names DEF LedgerTypes
<1>6. openIntent' \subseteq Windows /\ fillSeen' \subseteq Windows  BY DEF RecordExecution
<1> QED  BY <1>5, <1>6

-----------------------------------------------------------------------------
(* Every step keeps the shape and, when what is written is still legal,    *)
(* moves the ledger legally.                                               *)

\* The event a process is about to write is legal in the state the row shows: the
\* row has not moved since the event was checked.
Checked(s) ==
  /\ pc[s] = "write" => Legal(caseState[win[s]], stage[s])
  /\ pc[s] = "closeWrite" => Legal(caseState[win[s]], Head(events[s]))

AllChecked == \A s \in Schedulers : Checked(s)

Kept == Shape' /\ (AllChecked => [Ledger!Next]_<<caseState, log>>)

\* A step that ends its tick or goes on working, and changes no table.
LEMMA LocalStep ==
  ASSUME Shape, LocalTypes',
         UNCHANGED <<clock, ledger, lease, orders, history>>,
         crashes' \in 0..MaxCrashes, cutOff' \in BOOLEAN
  PROVE  Kept
<1>1. LedgerTypes'  BY DEF Shape, LedgerTypes
<1>2. OtherTypes'  BY DEF Shape, OtherTypes
<1> QED  BY <1>1, <1>2 DEF Kept, Shape

LEMMA TickSteps ==
  ASSUME Shape, NEW s \in Schedulers,
         \/ Tick(s) \/ Skip(s) \/ TickRaises(s) \/ Crash(s) \/ LoadPending(s)
         \/ StageFails(s) \/ AppendRefused(s)
         \/ \E w \in Windows : LeaseHeld(s, w) \/ Poll(s, w)
         \/ \E w \in Windows, outcome \in CloseOutcomes : CloseRead(s, w, outcome)
  PROVE  Kept
<1>0. LocalTypes /\ OtherTypes  BY DEF Shape
<1>1. CASE Tick(s)
  <2>1. LocalTypes'  BY <1>0, <1>1 DEF Tick, Goto, LocalTypes, Located, OtherTypes, PcStates
  <2> QED  BY <1>0, <1>1, <2>1, LocalStep DEF Tick, OtherTypes
<1>2. CASE Skip(s)
  BY <1>0, <1>2, EndTickLocals, LocalStep DEF Skip, OtherTypes
<1>3. CASE TickRaises(s)
  BY <1>0, <1>3, EndTickLocals, LocalStep DEF TickRaises, OtherTypes
<1>4. CASE Crash(s)
  <2>1. crashes' \in 0..MaxCrashes  BY <1>0, <1>4, BoundsAssumption DEF Crash, OtherTypes
  <2>2. EndTick(s) /\ cutOff' \in BOOLEAN /\ UNCHANGED <<clock, ledger, lease, orders, history>>
    BY <1>4 DEF Crash, CutOff
  <2> QED  BY <1>0, <2>1, <2>2, EndTickLocals, LocalStep
<1>5. CASE LoadPending(s)
  <2>1. LocalTypes'
    <3>1. CASE caseState[win[s]] = "CERTIFIED" /\ "trade_certificate" \in artifacts[win[s]]
      BY <1>0, <1>5, <3>1 DEF LoadPending, Goto, LocalTypes, Located, PcStates
    <3>2. CASE ~ (caseState[win[s]] = "CERTIFIED" /\ "trade_certificate" \in artifacts[win[s]])
      BY <1>0, <1>5, <3>2, EndTickLocals DEF LoadPending
    <3> QED  BY <3>1, <3>2
  <2> QED  BY <1>0, <1>5, <2>1, LocalStep DEF LoadPending, OtherTypes
<1>6. CASE StageFails(s)
  <2>1. LocalTypes' /\ cutOff' \in BOOLEAN  BY <1>6, RaiseLocals DEF StageFails
  <2> QED  BY <1>0, <1>6, <2>1, LocalStep DEF StageFails, OtherTypes
<1>7. CASE AppendRefused(s)
  <2>1. LocalTypes' /\ cutOff' \in BOOLEAN
    <3>1. CASE stage[s] = "HALTED"
      <4>1. EndTick(s) /\ UNCHANGED cutOff  BY <1>7, <3>1 DEF AppendRefused
      <4> QED  BY <1>0, <4>1, EndTickLocals DEF OtherTypes
    <3>2. CASE stage[s] # "HALTED"
      BY <1>7, <3>2, RaiseLocals DEF AppendRefused
    <3> QED  BY <3>1, <3>2
  <2> QED  BY <1>0, <1>7, <2>1, LocalStep DEF AppendRefused, OtherTypes
<1>8. ASSUME NEW w \in Windows, LeaseHeld(s, w) PROVE Kept
  BY <1>0, <1>8, EndTickLocals, LocalStep DEF LeaseHeld, OtherTypes
<1>9. ASSUME NEW w \in Windows, Poll(s, w) PROVE Kept
  <2>1. LocalTypes'  BY <1>0, <1>9, TakeUpLocals DEF Poll, PcStates
  <2> QED  BY <1>0, <1>9, <2>1, LocalStep DEF Poll, OtherTypes
<1>10. ASSUME NEW w \in Windows, NEW outcome \in CloseOutcomes, CloseRead(s, w, outcome)
       PROVE  Kept
  <2>1. CloseEvents(caseState[w], outcome) \in Seq(CaseEvents)
    <3>1. {"MANAGING", "CLOSED", "HALTED"} \subseteq CaseEvents  BY DEF CaseEvents, CaseStates
    <3> QED  BY <3>1 DEF CloseEvents
  <2>2. LocalTypes'
    BY <1>0, <1>10, <2>1 DEF CloseRead, Goto, LocalTypes, Located, PcStates
  <2> QED  BY <1>0, <1>10, <2>2, LocalStep DEF CloseRead, OtherTypes
<1> QED  BY <1>1, <1>2, <1>3, <1>4, <1>5, <1>6, <1>7, <1>8, <1>9, <1>10

\* The event is checked; nothing is written yet.
LEMMA CheckSteps ==
  ASSUME Shape, NEW s \in Schedulers, CheckEvent(s) \/ CloseCheck(s)
  PROVE  Kept
<1>0. /\ LocalTypes /\ OtherTypes
      /\ UNCHANGED <<clock, ledger, lease, orders, faults, history>>
  BY DEF Shape, CheckEvent, CloseCheck
<1>1. LocalTypes'
  <2>1. CASE EndTick(s)  BY <1>0, <2>1, EndTickLocals
  <2>2. CASE pc[s] = "append" /\ Goto(s, "write") /\ UNCHANGED <<win, now, stage, events>>
    BY <1>0, <2>2 DEF LocalTypes, Located, Goto, PcStates
  <2>3. CASE pc[s] = "closing" /\ Goto(s, "closeWrite") /\ UNCHANGED <<win, now, stage, events>>
    BY <1>0, <2>3 DEF LocalTypes, Located, Goto, PcStates
  <2> QED  BY <2>1, <2>2, <2>3 DEF CheckEvent, CloseCheck
<1> QED  BY <1>0, <1>1, LocalStep DEF OtherTypes

LEMMA AcquireLeaseStep ==
  ASSUME Shape, NEW s \in Schedulers, NEW w \in Windows, AcquireLease(s, w)
  PROVE  Kept
<1>1. LocalTypes'
  BY DEF Shape, AcquireLease, Goto, LocalTypes, Located, PcStates
<1>2. LedgerTypes' /\ UNCHANGED <<caseState, log>>
  BY DEF Shape, AcquireLease, LedgerTypes
<1>3. lease' \in [Windows -> Nat]
  BY LeaseAssumption DEF Shape, AcquireLease, LocalTypes, OtherTypes, LeaseUntil
<1>4. evaluations' \in [Windows -> Nat]
  BY DEF Shape, AcquireLease, OtherTypes
<1>5. OtherTypes'
  BY <1>3, <1>4 DEF Shape, AcquireLease, OtherTypes
<1> QED  BY <1>1, <1>2, <1>5 DEF Kept, Shape

LEMMA CreateStep ==
  ASSUME Shape, NEW s \in Schedulers, CreateScheduled(s)
  PROVE  Kept
<1>0. LocalTypes /\ OtherTypes /\ LedgerTypes /\ pc[s] = "create" /\ win[s] \in Windows
  BY DEF Shape, LocalTypes, Located, CreateScheduled
<1>1. UNCHANGED <<clock, log, artifacts, lease, orders, crashes, history>>
  BY DEF CreateScheduled
<1>2. CASE caseState[win[s]] = "NONE"
  <2>1. caseState' = [caseState EXCEPT ![win[s]] = "SCHEDULED"]
    BY <1>2 DEF CreateScheduled
  <2>2. Ledger!Next  BY <1>0, <1>1, <1>2, <2>1 DEF Ledger!Next, Ledger!Open
  <2>3. LedgerTypes'  BY <1>0, <1>1, <2>1 DEF LedgerTypes, CaseStates
  <2>4. LocalTypes' /\ cutOff' \in BOOLEAN
    <3>1. CASE /\ Goto(s, "save") /\ stage' = [stage EXCEPT ![s] = "OBSERVED"]
               /\ UNCHANGED <<win, now, events, cutOff>>
      <4>1. "save" \in PcStates \ {"closing", "closeWrite"} /\ "OBSERVED" \in DOMAIN ArtifactOf
        BY Names DEF PcStates
      <4>2. LocalTypes'  BY <1>0, <3>1, <4>1, WorkOnLocals
      <4> QED  BY <1>0, <3>1, <4>2 DEF OtherTypes
    <3>2. CASE CutOff(s)  BY <1>0, <3>2, EndTickLocals DEF CutOff
    <3> QED  BY <1>2, <3>1, <3>2 DEF CreateScheduled
  <2>5. OtherTypes'  BY <1>0, <1>1, <2>4 DEF OtherTypes
  <2> QED  BY <2>2, <2>3, <2>4, <2>5 DEF Kept, Shape
<1>3. CASE caseState[win[s]] # "NONE"
  <2>1. EndTick(s) /\ UNCHANGED <<caseState, cutOff>>  BY <1>3 DEF CreateScheduled
  <2> QED  BY <1>0, <1>1, <2>1, EndTickLocals, LocalStep DEF OtherTypes
<1> QED  BY <1>2, <1>3

\* Saving an artifact, judging and vetoing leave the rows and the events alone.
LEMMA ArtifactSteps ==
  ASSUME Shape,
         \/ \E s \in Schedulers : SaveArtifact(s)
         \/ \E s \in Schedulers, verdict \in {"CERTIFIED", "REFUSED"} : Judge(s, verdict)
         \/ \E w \in Windows : Veto(w)
  PROVE  Kept
<1>0. LocalTypes /\ OtherTypes /\ LedgerTypes  BY DEF Shape
<1>1. ASSUME NEW s \in Schedulers, SaveArtifact(s) PROVE Kept
  <2>1. win[s] \in Windows /\ stage[s] \in DOMAIN ArtifactOf /\ "append" \in PcStates \ {"closing", "closeWrite"}
    BY <1>0, <1>1 DEF SaveArtifact, LocalTypes, Located, PcStates
  <2>2. LocalTypes'  BY <1>0, <1>1, <2>1, WorkOnLocals DEF SaveArtifact
  <2>3. artifacts' = [artifacts EXCEPT ![win[s]] = @ \cup {ArtifactOf[stage[s]]}]
    BY <1>1 DEF SaveArtifact
  <2>4. ArtifactOf[stage[s]] \in Artifacts  BY <2>1, Names
  <2>5. LedgerTypes'  BY <1>0, <1>1, <2>1, <2>3, <2>4 DEF LedgerTypes, SaveArtifact
  <2>6. OtherTypes'  BY <1>0, <1>1 DEF OtherTypes, SaveArtifact
  <2> QED  BY <1>1, <2>2, <2>5, <2>6 DEF Kept, Shape, SaveArtifact
<1>2. ASSUME NEW s \in Schedulers, NEW verdict \in {"CERTIFIED", "REFUSED"}, Judge(s, verdict)
      PROVE  Kept
  <2>1. win[s] \in Windows /\ verdict \in DOMAIN ArtifactOf /\ "save" \in PcStates \ {"closing", "closeWrite"}
    BY <1>0, <1>2, Names DEF Judge, LocalTypes, Located, PcStates
  <2>2. LocalTypes'  BY <1>0, <1>2, <2>1, WorkOnLocals DEF Judge
  <2>3. artifacts' = [artifacts EXCEPT ![win[s]] = @ \cup {"candidate_structures"}]
    BY <1>2 DEF Judge
  <2>4. LedgerTypes'  BY <1>0, <1>2, <2>1, <2>3, Names DEF LedgerTypes, Judge
  <2>5. OtherTypes'  BY <1>0, <1>2 DEF OtherTypes, Judge
  <2> QED  BY <1>2, <2>2, <2>4, <2>5 DEF Kept, Shape, Judge
<1>3. ASSUME NEW w \in Windows, Veto(w) PROVE Kept
  <2>1. LocalTypes'  BY <1>0, <1>3 DEF Veto, LocalTypes, Located
  <2>2. artifacts' = [artifacts EXCEPT ![w] = @ \cup {"operator_veto"}]  BY <1>3 DEF Veto
  <2>3. LedgerTypes'  BY <1>0, <1>3, <2>2, Names DEF LedgerTypes, Veto
  <2>4. OtherTypes'  BY <1>0, <1>3 DEF OtherTypes, Veto
  <2> QED  BY <1>3, <2>1, <2>3, <2>4 DEF Kept, Shape, Veto
<1> QED  BY <1>1, <1>2, <1>3

LEMMA AppendEventStep ==
  ASSUME Shape, NEW s \in Schedulers, AppendEvent(s)
  PROVE  Kept
<1>0. /\ LocalTypes /\ OtherTypes /\ LedgerTypes
      /\ pc[s] \notin {"idle", "tick"} /\ win[s] \in Windows
      /\ stage[s] \in DOMAIN ArtifactOf /\ stage[s] \in CaseEvents
  BY Names DEF Shape, LocalTypes, Located, AppendEvent
<1>1. /\ AllChecked => Ledger!Next
      /\ caseState' \in [Windows -> CaseStates \cup {"NONE"}]
      /\ log' \in [Windows -> Seq(CaseEvents)]
  BY <1>0, OneEvent DEF AppendEvent, AllChecked, Checked
<1>2. LocalTypes' /\ cutOff' \in BOOLEAN
  <2>1. CASE Raise(s)  BY <1>0, <2>1, RaiseLocals
  <2>2. CASE Advance(s) /\ UNCHANGED cutOff
    <3>1. /\ {"save", "judge"} \subseteq PcStates \ {"closing", "closeWrite"}
          /\ {"FORECASTED", "ARGUED"} \subseteq DOMAIN ArtifactOf
      BY Names DEF PcStates
    <3>2. \/ /\ \E next \in {"FORECASTED", "ARGUED"} : stage' = [stage EXCEPT ![s] = next]
             /\ Goto(s, "save") /\ UNCHANGED <<win, now, events>>
          \/ Goto(s, "judge") /\ UNCHANGED <<win, now, stage, events>>
          \/ EndTick(s)
      BY <2>2 DEF Advance
    <3>3. LocalTypes'
      BY <1>0, <3>1, <3>2, WorkOnLocals, EndTickLocals
    <3> QED  BY <1>0, <2>2, <3>3 DEF OtherTypes
  <2> QED  BY <2>1, <2>2 DEF AppendEvent
<1>3. LedgerTypes'  BY <1>0, <1>1 DEF LedgerTypes, AppendEvent
<1>4. OtherTypes'  BY <1>0, <1>2 DEF OtherTypes, AppendEvent
<1> QED  BY <1>1, <1>2, <1>3, <1>4 DEF Kept, Shape

LEMMA ExecutionSteps ==
  ASSUME Shape, NEW s \in Schedulers, CheckVeto(s) \/ ClaimIntent(s)
  PROVE  Kept
<1>0. LocalTypes /\ OtherTypes /\ LedgerTypes  BY DEF Shape
<1>1. /\ UNCHANGED <<clock, ledger, lease, fillSeen, faults, evaluations, vetoed>>
      /\ LedgerTypes'
  BY <1>0 DEF CheckVeto, ClaimIntent, LedgerTypes
<1>2. pc[s] \notin {"idle", "tick"} /\ win[s] \in Windows
  BY <1>0 DEF CheckVeto, ClaimIntent, LocalTypes, Located
<1>3. LocalTypes'
  <2>1. \/ EndTick(s)
        \/ \E label \in {"execute", "claimed"} :
             Goto(s, label) /\ UNCHANGED <<win, now, stage, events>>
    BY DEF CheckVeto, ClaimIntent
  <2>2. {"execute", "claimed"} \subseteq PcStates \ {"closing", "closeWrite"} /\ "HALTED" \in DOMAIN ArtifactOf
    BY Names DEF PcStates
  <2> QED  BY <1>0, <1>2, <2>1, <2>2, EndTickLocals, WorkOnLocals
<1>4. executions' \in [Windows -> Nat] /\ openIntent' \subseteq Windows
  BY <1>0, <1>2 DEF CheckVeto, ClaimIntent, OtherTypes
<1>5. OtherTypes'  BY <1>0, <1>1, <1>4 DEF OtherTypes
<1> QED  BY <1>1, <1>3, <1>5 DEF Kept, Shape

LEMMA RecordStep ==
  ASSUME Shape, NEW s \in Schedulers, NEW outcome \in EntryOutcomes, NEW fill \in BOOLEAN,
         Record(s, outcome, fill)
  PROVE  Kept
<1>0. LocalTypes /\ OtherTypes /\ LedgerTypes  BY DEF Shape
<1>1. win[s] \in Windows /\ RecordExecution(win[s], outcome, fill)
  BY <1>0 DEF Record, LocalTypes, Located
<1>2. Ledger!Next \/ UNCHANGED <<caseState, log>>  BY <1>0, <1>1, RecordExecutionLedger
<1>3. LedgerTypes' /\ openIntent' \subseteq Windows /\ fillSeen' \subseteq Windows
  BY <1>0, <1>1, RecordExecutionTypes DEF OtherTypes
<1>4. EndTick(s) \/ BackToTick(s)  BY DEF Record
<1>5. LocalTypes'  BY <1>0, <1>4, EndTickLocals, BackToTickLocals
<1>6. OtherTypes'  BY <1>0, <1>3 DEF OtherTypes, Record
<1> QED  BY <1>2, <1>3, <1>5, <1>6 DEF Kept, Shape

LEMMA CloseAppendStep ==
  ASSUME Shape, NEW s \in Schedulers, CloseAppend(s)
  PROVE  Kept
<1> DEFINE w == win[s]
           e == Head(events[s])
<1>0. LocalTypes /\ OtherTypes /\ LedgerTypes  BY DEF Shape
<1>1. /\ w \in Windows /\ events[s] \in Seq(CaseEvents) /\ events[s] # << >>
      /\ e \in CaseEvents
  <2>1. w \in Windows /\ events[s] \in Seq(CaseEvents) /\ events[s] # << >>
    BY <1>0 DEF CloseAppend, LocalTypes, Located
  <2> QED  BY <2>1
<1>2. /\ caseState' = [caseState EXCEPT ![w] = e]
      /\ log' = [log EXCEPT ![w] = Append(@, e)]
  BY DEF CloseAppend
<1>3. AllChecked => Legal(caseState[w], e)
  BY DEF CloseAppend, AllChecked, Checked
<1> HIDE DEF w, e
<1>4. /\ AllChecked => Ledger!Next
      /\ caseState' \in [Windows -> CaseStates \cup {"NONE"}]
      /\ log' \in [Windows -> Seq(CaseEvents)]
  BY <1>0, <1>1, <1>2, <1>3, OneEvent
<1> USE DEF w, e
<1>5. LedgerTypes'  BY <1>0, <1>4 DEF CloseAppend, LedgerTypes
<1>6. LocalTypes'
  <2>1. CASE Len(events[s]) > 1
    <3>1. Goto(s, "closing") /\ events' = [events EXCEPT ![s] = Tail(@)] /\ UNCHANGED <<win, now, stage>>
      BY <2>1 DEF CloseAppend
    <3>2. Tail(events[s]) \in Seq(CaseEvents) /\ Tail(events[s]) # << >>
      BY <1>1, <2>1
    <3> QED  BY <1>0, <1>1, <3>1, <3>2 DEF LocalTypes, Located, Goto, PcStates
  <2>2. CASE ~ Len(events[s]) > 1
    <3>1. EndTick(s) \/ BackToTick(s)  BY <2>2 DEF CloseAppend
    <3> QED  BY <1>0, <3>1, EndTickLocals, BackToTickLocals
  <2> QED  BY <2>1, <2>2
<1>7. OtherTypes'  BY <1>0 DEF CloseAppend, OtherTypes
<1> QED  BY <1>4, <1>5, <1>6, <1>7 DEF Kept, Shape

LEMMA PassStep ==
  ASSUME Shape, Pass
  PROVE  Kept
<1>1. LocalTypes' /\ LedgerTypes'  BY DEF Shape, Pass, LocalTypes, Located, LedgerTypes
<1>2. clock' \in 0..Horizon  BY BoundsAssumption DEF Shape, Pass, OtherTypes
<1>3. OtherTypes'  BY <1>2 DEF Shape, Pass, OtherTypes
<1> QED  BY <1>1, <1>3 DEF Kept, Shape, Pass

LEMMA IdleStep ==
  ASSUME Shape, UNCHANGED vars
  PROVE  Kept
BY DEF Shape, vars, Kept, LocalTypes, Located, LedgerTypes, OtherTypes

LEMMA EveryStep ==
  ASSUME Shape, [Next]_vars
  PROVE  Kept
<1>1. CASE Pass  BY <1>1, PassStep
<1>2. ASSUME NEW s \in Schedulers, Tick(s) \/ Step(s) \/ Crash(s)
      PROVE  Kept
  <2>1. CASE Tick(s) \/ Crash(s)  BY <2>1, TickSteps
  <2>2. CASE Step(s)
    <3>1. CASE \/ Skip(s) \/ TickRaises(s) \/ LoadPending(s) \/ StageFails(s) \/ AppendRefused(s)
               \/ \E w \in Windows : LeaseHeld(s, w) \/ Poll(s, w)
               \/ \E w \in Windows, outcome \in CloseOutcomes : CloseRead(s, w, outcome)
      BY <3>1, TickSteps
    <3>2. CASE \E w \in Windows : AcquireLease(s, w)  BY <3>2, AcquireLeaseStep
    <3>3. CASE CreateScheduled(s)  BY <3>3, CreateStep
    <3>4. CASE SaveArtifact(s) \/ \E verdict \in {"CERTIFIED", "REFUSED"} : Judge(s, verdict)
      BY <3>4, ArtifactSteps
    <3>5. CASE AppendEvent(s)  BY <3>5, AppendEventStep
    <3>6. CASE CheckVeto(s) \/ ClaimIntent(s)  BY <3>6, ExecutionSteps
    <3>7. CASE \E outcome \in EntryOutcomes, fill \in BOOLEAN : Record(s, outcome, fill)
      BY <3>7, RecordStep
    <3>8. CASE CloseAppend(s)  BY <3>8, CloseAppendStep
    <3>9. CASE CheckEvent(s) \/ CloseCheck(s)  BY <3>9, CheckSteps
    <3> QED  BY <2>2, <3>1, <3>2, <3>3, <3>4, <3>5, <3>6, <3>7, <3>8, <3>9 DEF Step
  <2> QED  BY <1>2, <2>1, <2>2
<1>3. CASE \E w \in Windows : Veto(w)  BY <1>3, ArtifactSteps
<1>4. CASE UNCHANGED vars  BY <1>4, IdleStep
<1> QED  BY <1>1, <1>2, <1>3, <1>4 DEF Next

LEMMA InitShape ==
  ASSUME Init
  PROVE  Shape /\ Ledger!Init
<1>1. LocalTypes  BY Names DEF Init, LocalTypes, Located, PcStates
<1>2. LedgerTypes  BY DEF Init, LedgerTypes
<1>3. OtherTypes
  <2>1. 0 \in 0..Horizon /\ 0 \in 0..MaxCrashes  BY BoundsAssumption
  <2>2. lease \in [Windows -> Nat] /\ evaluations \in [Windows -> Nat]
    BY DEF Init
  <2>3. executions \in [Windows -> Nat] /\ vetoed \in [Windows -> {"no", "before", "late"}]
    BY DEF Init
  <2>4. openIntent \subseteq Windows /\ fillSeen \subseteq Windows /\ cutOff \in BOOLEAN
    BY DEF Init
  <2>5. clock = 0 /\ crashes = 0  BY DEF Init
  <2> QED  BY <2>1, <2>2, <2>3, <2>4, <2>5 DEF OtherTypes
<1>4. Ledger!Init  BY DEF Init, Ledger!Init
<1> QED  BY <1>1, <1>2, <1>3, <1>4 DEF Shape

-----------------------------------------------------------------------------
\* TypeOK: the variables of the scheduler processes and of the database keep
\* their types, the events in flight of a close and the logs included.
THEOREM WindowsTypeCorrect == Spec => []TypeOK
<1>1. Init => Shape  BY InitShape
<1>2. Shape /\ [Next]_vars => Shape'  BY EveryStep DEF Kept
<1>3. Shape => TypeOK  BY DEF Shape, LocalTypes, LedgerTypes, OtherTypes, TypeOK
<1> QED  BY <1>1, <1>2, <1>3, PTL DEF Spec

-----------------------------------------------------------------------------
(* With one process, nothing moves a row between the check and the write.   *)

OneProcess == \A s, t \in Schedulers : s = t

\* A process comes to a write only from the check before it.
LEMMA OnlyChecksLeadToWrites ==
  ASSUME Shape, NEW s \in Schedulers, Tick(s) \/ Crash(s) \/ Step(s)
  PROVE  pc'[s] \notin {"write", "closeWrite"} \/ CheckEvent(s) \/ CloseCheck(s)
<1>0. pc \in [Schedulers -> PcStates]  BY DEF Shape, LocalTypes
<1>1. ASSUME EndTick(s) \/ BackToTick(s) \/ Raise(s)
      PROVE  pc'[s] \notin {"write", "closeWrite"}
  BY <1>0, <1>1 DEF EndTick, BackToTick, Raise, CutOff, Goto
<1>2. ASSUME NEW label \in PcStates \ {"write", "closeWrite"}, Goto(s, label)
      PROVE  pc'[s] \notin {"write", "closeWrite"}
  BY <1>0, <1>2 DEF Goto
<1>3. CASE \/ Tick(s) \/ Crash(s) \/ Skip(s) \/ TickRaises(s) \/ LoadPending(s) \/ StageFails(s)
           \/ \E w \in Windows : LeaseHeld(s, w) \/ Poll(s, w) \/ AcquireLease(s, w)
           \/ \E w \in Windows, outcome \in CloseOutcomes : CloseRead(s, w, outcome)
  BY <1>1, <1>2, <1>3 DEF Tick, Crash, CutOff, Skip, TickRaises, LoadPending, StageFails,
     LeaseHeld, Poll, AcquireLease, CloseRead, PcStates
<1>4. CASE CreateScheduled(s) \/ SaveArtifact(s) \/ AppendRefused(s)
           \/ \E verdict \in {"CERTIFIED", "REFUSED"} : Judge(s, verdict)
  BY <1>1, <1>2, <1>4 DEF CreateScheduled, CutOff, SaveArtifact, AppendRefused, Judge, PcStates
<1>5. CASE AppendEvent(s)
  <2>1. Advance(s) => \/ EndTick(s)
                      \/ \E label \in {"save", "judge"} : Goto(s, label)
    BY DEF Advance
  <2> QED  BY <1>1, <1>2, <1>5, <2>1 DEF AppendEvent, PcStates
<1>6. CASE CheckVeto(s) \/ ClaimIntent(s)
           \/ \E outcome \in EntryOutcomes, fill \in BOOLEAN : Record(s, outcome, fill)
  BY <1>1, <1>2, <1>6 DEF CheckVeto, ClaimIntent, Record, PcStates
<1>7. CASE CloseAppend(s)
  BY <1>1, <1>2, <1>7 DEF CloseAppend, PcStates
<1> QED  BY <1>3, <1>4, <1>5, <1>6, <1>7 DEF Step

LEMMA ChecksStand ==
  ASSUME OneProcess, Shape, AllChecked, [Next]_vars
  PROVE  AllChecked'
<1>1. CASE Pass \/ UNCHANGED vars \/ \E w \in Windows : Veto(w)
  <2>1. UNCHANGED <<pc, win, stage, events, caseState>>
    BY <1>1 DEF Pass, vars, Veto
  <2> QED  BY <2>1 DEF AllChecked, Checked
<1>2. ASSUME NEW s \in Schedulers, Tick(s) \/ Step(s) \/ Crash(s)
      PROVE  AllChecked'
  <2>1. SUFFICES Checked(s)'
    BY DEF OneProcess, AllChecked
  <2>2. CASE pc'[s] \notin {"write", "closeWrite"}
    BY <2>2 DEF Checked
  <2>3. CASE CheckEvent(s)
    BY <2>3 DEF CheckEvent, Checked, Goto, Shape, LocalTypes
  <2>4. CASE CloseCheck(s)
    <3>1. CASE EndTick(s)
      BY <3>1 DEF EndTick, Goto, Checked, Shape, LocalTypes
    <3>2. CASE /\ Goto(s, "closeWrite") /\ UNCHANGED <<win, now, stage, events>>
               /\ Legal(caseState[win[s]], Head(events[s]))
      BY <2>4, <3>2 DEF CloseCheck, Goto, Checked, Shape, LocalTypes
    <3> QED  BY <2>4, <3>1, <3>2 DEF CloseCheck
  <2> QED  BY <1>2, <2>2, <2>3, <2>4, OnlyChecksLeadToWrites
<1> QED  BY <1>1, <1>2 DEF Next

\* LedgerSpec: with one scheduler process, whatever evaluate, record_execution,
\* record_close_result, vetoes, failing writes and restarts do, a window has at most
\* one case, its events are only appended, and each is legal in the state before it.
\* Two processes break it: append_event holds no lock from its check to its write.
THEOREM ImplementsLedger ==
  ASSUME OneProcess
  PROVE  Spec => LedgerSpec
<1>1. Init => Shape /\ AllChecked /\ Ledger!Init
  <2>1. Init => AllChecked  BY DEF Init, AllChecked, Checked
  <2> QED  BY <2>1, InitShape
<1>2. Shape /\ AllChecked /\ [Next]_vars =>
        Shape' /\ AllChecked' /\ [Ledger!Next]_Ledger!vars
  BY EveryStep, ChecksStand DEF Kept, Ledger!vars
<1> QED  BY <1>1, <1>2, PTL DEF Spec, LedgerSpec, Ledger!Spec
=============================================================================
