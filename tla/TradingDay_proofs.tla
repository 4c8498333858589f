-------------------------- MODULE TradingDay_proofs --------------------------
(***************************************************************************)
(* The day for any number of windows, any limits and any equities: no      *)
(* entry while entries are taken away, none in a drawdown, and the cap.    *)
(***************************************************************************)
EXTENDS TradingDay, FiniteSetTheorems, TLAPS

USE DEF OperatorTypeOK, RiskTypeOK, operatorVars, riskVars, dayVars, locals, orders, ledger

-----------------------------------------------------------------------------
(* Maxima, and what the ledger makes of an outcome.                        *)

LEMMA MaxOfThree ==
  ASSUME NEW a \in Int, NEW b \in Int, NEW c \in Int
  PROVE  /\ Max({a, b, c}) \in {a, b, c}
         /\ Max({a, b, c}) >= a /\ Max({a, b, c}) >= b /\ Max({a, b, c}) >= c
<1>1. \E x \in {a, b, c} : \A y \in {a, b, c} : x >= y
  <2>1. CASE a >= b /\ a >= c  BY <2>1
  <2>2. CASE b >= a /\ b >= c  BY <2>2
  <2>3. CASE c >= a /\ c >= b  BY <2>3
  <2> QED  BY <2>1, <2>2, <2>3
<1>2. /\ Max({a, b, c}) \in {a, b, c}
      /\ \A y \in {a, b, c} : Max({a, b, c}) >= y
  BY <1>1 DEF Max
<1> QED  BY <1>2

LEMMA MaxOfTwo ==
  ASSUME NEW a \in Int, NEW b \in Int
  PROVE  Max({a, b}) \in {a, b} /\ Max({a, b}) >= a /\ Max({a, b}) >= b
<1>1. {a, b} = {a, b, b}  OBVIOUS
<1> QED  BY <1>1, MaxOfThree

\* The states of a case that has not been entered, and of one that counts for the day.
Fresh == {"SCHEDULED", "CERTIFIED", "REFUSED"}
Counted == {"SUBMITTED", "MANAGING", "CLOSED"}

LEMMA LastOfOne ==
  ASSUME NEW x PROVE <<x>> # << >> /\ Last(<<x>>) = x
BY DEF Last

LEMMA LastOfTwo ==
  ASSUME NEW x, NEW y PROVE <<x, y>> # << >> /\ Last(<<x, y>>) = y
BY DEF Last

LEMMA EntryMoves ==
  ASSUME NEW s \in {"CERTIFIED", "SUBMITTED"}, NEW outcome \in EntryOutcomes
  PROVE  AfterEvents(s, EntryEvents(s, outcome)) \in {"SUBMITTED", "MANAGING", "HALTED"}
<1>1. CASE outcome \in {"SUBMITTED", "REPLACED"}
  BY <1>1, LastOfOne DEF AfterEvents, EntryEvents
<1>2. CASE outcome = "FILLED"
  BY <1>2, LastOfOne, LastOfTwo DEF AfterEvents, EntryEvents
<1>3. CASE outcome \notin {"SUBMITTED", "REPLACED", "FILLED"}
  BY <1>3, LastOfOne DEF AfterEvents, EntryEvents, Haltable, CaseStates
<1> QED  BY <1>1, <1>2, <1>3

LEMMA RefusalHalts ==
  ASSUME NEW outcome \in {"REJECTED", "RECONCILE_REQUIRED"}
  PROVE  AfterEvents("CERTIFIED", EntryEvents("CERTIFIED", outcome)) = "HALTED"
BY LastOfOne DEF AfterEvents, EntryEvents, Haltable, CaseStates

LEMMA CloseMoves ==
  ASSUME NEW s \in CaseStates, NEW outcome \in CloseOutcomes,
         NEW t, t = AfterEvents(s, CloseEvents(s, outcome))
  PROVE  /\ t \in CaseStates
         /\ t \in Fresh => t = s
         /\ t \in Counted => s \in Counted
         /\ t \in {s, "MANAGING", "CLOSED", "HALTED"}
<1>1. CASE outcome = "CLOSED"
  BY <1>1, LastOfOne, LastOfTwo DEF AfterEvents, CloseEvents, CaseStates, Fresh, Counted
<1>2. CASE outcome = "MANAGING"
  BY <1>2, LastOfOne DEF AfterEvents, CloseEvents, CaseStates, Fresh, Counted
<1>3. CASE outcome \notin {"CLOSED", "MANAGING"}
  BY <1>3, LastOfOne DEF AfterEvents, CloseEvents, CaseStates, Fresh, Counted, Haltable
<1> QED  BY <1>1, <1>2, <1>3

-----------------------------------------------------------------------------
(* The risk state.                                                         *)

\* The recorded peak is the highest equity on record, once anything was recorded.
PeakKnown ==
  /\ peak = 0 => highest = 0
  /\ peak # 0 => peak = Max({highest, Baseline})

LEMMA RefreshKeepsTypes ==
  ASSUME TypeOK, MayRefresh
  PROVE  RiskTypeOK' /\ (PeakKnown => PeakKnown')
<1>1. CASE UNCHANGED riskVars  BY <1>1 DEF TypeOK, PeakKnown
<1>2. CASE Refresh
  <2>1. PICK previous \in {peak, 0} :
           /\ peak' = Recorded(previous)
           /\ highest' = Max({IF previous = peak THEN highest ELSE 0, equity})
           /\ UNCHANGED equity
    BY <1>2 DEF Refresh, PreviousPeaks
  <2> DEFINE before == IF previous = peak THEN highest ELSE 0
  <2>2. /\ previous \in Nat /\ before \in Nat /\ Baseline \in Nat /\ Baseline > 0
        /\ equity \in Nat /\ equity > 0 /\ highest \in Nat /\ peak \in Nat
    BY RiskAssumption DEF TypeOK
  <2>3. /\ peak' \in {previous, Baseline, equity}
        /\ peak' >= previous /\ peak' >= Baseline /\ peak' >= equity
    BY <2>1, <2>2, MaxOfThree DEF Recorded
  <2>4. highest' = Max({before, equity})  BY <2>1
  <2> HIDE DEF before
  <2>5. highest' \in {before, equity} /\ highest' >= before /\ highest' >= equity
    BY <2>2, <2>4, MaxOfTwo
  <2>6. RiskTypeOK'  BY <2>1, <2>2, <2>3, <2>5 DEF TypeOK
  <2> HIDE DEF RiskTypeOK
  <2>7. highest \in Int /\ highest' \in Int /\ Baseline \in Int /\ peak' \in Int
    BY <2>2, <2>6 DEF RiskTypeOK
  <2>8. ASSUME PeakKnown PROVE PeakKnown'
    <3>1. CASE previous # 0
      <4>1. previous = peak /\ before = highest /\ peak = Max({highest, Baseline})
        BY <2>1, <2>8, <3>1 DEF PeakKnown, before
      <4>2. peak \in {highest, Baseline} /\ peak >= highest /\ peak >= Baseline
        BY <2>7, <4>1, MaxOfTwo
      <4>3. peak' \in {highest', Baseline} /\ peak' >= highest' /\ peak' >= Baseline
        BY <2>2, <2>3, <2>5, <4>1, <4>2
      <4>4. /\ Max({highest', Baseline}) \in {highest', Baseline}
            /\ Max({highest', Baseline}) >= highest' /\ Max({highest', Baseline}) >= Baseline
        BY <2>7, MaxOfTwo
      <4>5. peak' = Max({highest', Baseline})  BY <2>7, <4>3, <4>4
      <4> QED  BY <2>2, <2>3, <4>5 DEF PeakKnown
    <3>2. CASE previous = 0
      <4>1. before = 0  BY <2>8, <3>2 DEF PeakKnown, before
      <4>2. highest' = equity  BY <2>2, <2>5, <4>1
      <4>3. /\ Max({highest', Baseline}) \in {highest', Baseline}
            /\ Max({highest', Baseline}) >= highest' /\ Max({highest', Baseline}) >= Baseline
        BY <2>7, MaxOfTwo
      <4>4. peak' = Max({highest', Baseline})  BY <2>2, <2>3, <2>7, <3>2, <4>2, <4>3
      <4> QED  BY <2>2, <2>3, <4>4 DEF PeakKnown
    <3> QED  BY <3>1, <3>2
  <2> QED  BY <2>6, <2>8
<1> QED  BY <1>1, <1>2 DEF MayRefresh

-----------------------------------------------------------------------------
(* The invariant.                                                          *)

\* A case that is not certified has no entry before it is submitted.
Unentered ==
  /\ \A w \in Windows : cases[w] \in Fresh \cup Counted \cup {"HALTED"}
  /\ \A w \in Windows : cases[w] \in {"SCHEDULED", "REFUSED"} => entry[w] = "none"

\* After the polls of a tick no certified case has an entry, until this tick's own.
Polled ==
  pc \in {"manage", "window", "execute", "policy"} =>
    \A w \in Windows : cases[w] = "CERTIFIED" => entry[w] = "none"

\* What the tick works on.
AtWork ==
  /\ pc \in Executing \cup {"observe"} => win \in Windows /\ cases[win] = "CERTIFIED"
  /\ pc \in {"submit", "observe"} => entry[win] # "none"
  /\ pc \in {"send", "close"} \cup Recording => win \in Windows
  /\ pc \in Recording => result \in Results

\* The cases that count against the cap: those of the day's entries, and those whose
\* entry may be at the broker before the ledger knows of it.
Counting ==
  {w \in Windows : cases[w] \in Counted \/ (cases[w] = "CERTIFIED" /\ entry[w] # "none")}

CapHolds == Cardinality(Counting) <= MaxEntries

DayInv == TypeOK /\ Unentered /\ Polled /\ AtWork /\ CapHolds

LEMMA CountingFinite == IsFiniteSet(Counting)
<1>1. IsFiniteSet(Windows)  BY DayAssumption, FS_Interval DEF Windows
<1> QED  BY <1>1, FS_Subset DEF Counting

LEMMA CountingShrinks ==
  ASSUME DayInv, Counting' \subseteq Counting
  PROVE  CapHolds'
<1>1. /\ Cardinality(Counting') \in Nat
      /\ Cardinality(Counting) \in Nat
      /\ Cardinality(Counting') <= Cardinality(Counting)
  BY CountingFinite, FS_Subset, FS_CardinalityType
<1> QED  BY <1>1, DayAssumption DEF DayInv, CapHolds

-----------------------------------------------------------------------------
(* What an action leaves to be shown.                                      *)

\* The types of what the day keeps besides the cases.
DayTypes ==
  /\ slot \in 1..ClosedSlot
  /\ pc \in PcStates
  /\ ready \in BOOLEAN
  /\ win \in Windows \cup {0} /\ account \in Equities \cup {0}
  /\ result \in Results \cup {"none"}
  /\ entry \in [Windows -> {"none", "claimed", "working", "filled", "ended"}]
  /\ close \in [Windows -> {"none", "working", "filled", "ended"}]
  /\ seen \in [Windows -> Observations] /\ told \in [Windows -> Observations]
  /\ intent \in [Windows -> {"none", "claimed", "working", "CLOSED", "REJECTED"}]
  /\ owned \in [Windows -> BOOLEAN]

CasesTyped == cases \in [Windows -> CaseStates]

DayKept ==
  /\ RiskTypeOK' /\ DayTypes' /\ CasesTyped'
  /\ Unentered' /\ Polled' /\ AtWork' /\ CapHolds'

\* One window's case moves, and counts for the day only if it did before.
LEMMA CaseMoves ==
  ASSUME DayInv, NEW w \in Windows, NEW s \in Counted \cup {"HALTED"},
         cases' = [cases EXCEPT ![w] = s],
         s \in Counted => w \in Counting,
         \A v \in Windows \ {w} : entry'[v] = entry[v],
         pc' \notin {"manage", "window", "execute", "policy"}
  PROVE  CasesTyped' /\ Unentered' /\ Polled' /\ CapHolds'
<1>1. s \in CaseStates /\ s \notin Fresh  BY DEF Counted, CaseStates, Fresh
<1>2. /\ cases'[w] = s
      /\ \A v \in Windows \ {w} : cases'[v] = cases[v]
  BY DEF DayInv, TypeOK
<1>3. CasesTyped'  BY <1>1 DEF CasesTyped, DayInv, TypeOK
<1>4. Unentered'  BY <1>1, <1>2 DEF DayInv, Unentered, Fresh
<1>5. Polled'  BY DEF Polled
<1>6. Counting' \subseteq Counting  BY <1>1, <1>2 DEF Counting, Fresh
<1> QED  BY <1>3, <1>4, <1>5, <1>6, CountingShrinks

\* No case moves, and no order appears.
LEMMA CasesUnchanged ==
  ASSUME DayInv, UNCHANGED cases,
         \A w \in Windows : entry[w] = "none" => entry'[w] = "none",
         pc' \in {"manage", "window", "execute", "policy"} =>
           pc \in {"manage", "window", "execute", "policy"}
  PROVE  CasesTyped' /\ Unentered' /\ Polled' /\ CapHolds'
<1>1. CasesTyped'  BY DEF CasesTyped, DayInv, TypeOK
<1>2. Unentered'  BY DEF DayInv, Unentered
<1>3. Polled'  BY DEF DayInv, Polled
<1>4. Counting' \subseteq Counting  BY DEF Counting
<1> QED  BY <1>1, <1>2, <1>3, <1>4, CountingShrinks

LEMMA PcStatesAre ==
  /\ PcStates = {"idle", "closes", "entries", "manage", "send", "close", "window", "observe",
                 "execute", "policy", "submit", "pollCase", "pollNote", "closeCase", "closeNote"}
  /\ Executing = {"execute", "policy", "submit"}
  /\ Recording = {"pollCase", "pollNote", "closeCase", "closeNote"}
  /\ Results = {"CLOSED", "MANAGING", "RECONCILE_REQUIRED", "REJECTED", "NO_ORDER"}
BY DEF PcStates, Executing, Recording, Results, CloseOutcomes

-----------------------------------------------------------------------------
(* Every action keeps the invariant.                                       *)

LEMMA LoopKeepsDay ==
  ASSUME DayInv,
         \/ \E ok \in BOOLEAN : Preflight(ok)
         \/ BeginTick \/ HoldPosition \/ ManageInVain \/ SkipWindow \/ ReadAccount \/ WorkerFails
         \/ \E w \in Windows : ClosePending(w)
  PROVE  DayKept
<1> USE DEF Preflight, BeginTick, HoldPosition, ManageInVain, SkipWindow, ReadAccount,
            WorkerFails, ClosePending, EndTick, GoOn
<1>1. MayRefresh  BY DEF MayRefresh
<1>2. RiskTypeOK'  BY <1>1, RefreshKeepsTypes DEF DayInv
<1>3. /\ UNCHANGED <<cases, entry, close, seen, told, intent, owned, slot>>
      /\ ready' \in BOOLEAN
      /\ \/ pc' \in {"idle", "closes"}
         \/ pc = "manage" /\ pc' = "window"
         \/ pc = "execute" /\ pc' = "policy" /\ UNCHANGED win
      /\ win' \in {win, 0} /\ account' \in {account, equity, 0} /\ result' \in {result, "none"}
  BY DEF DayInv, TypeOK
<1>4. DayTypes'  BY <1>3, PcStatesAre DEF DayTypes, DayInv, TypeOK, ClosedSlot, ExitSlot
<1>5. AtWork'  BY <1>3, PcStatesAre DEF AtWork, DayInv
<1>6. CasesTyped' /\ Unentered' /\ Polled' /\ CapHolds'  BY <1>3, CasesUnchanged
<1> QED  BY <1>2, <1>4, <1>5, <1>6 DEF DayKept

\* What a close finds, when it is told and when it is recorded.
LEMMA ObserveKeepsDay ==
  ASSUME DayInv, NEW w \in Windows, NEW next \in {"pollCase", "closeCase"},
         ObserveClose(w, next) \/ ObserveInVain(w, next)
  PROVE  DayKept
<1> USE DEF ObserveClose, ObserveInVain, Conclude
<1>1. /\ UNCHANGED <<cases, entry, close, seen, told, owned, slot, ready, account>>
      /\ UNCHANGED riskVars
      /\ pc' = next /\ win' = w
  OBVIOUS
<1>2. result' \in Results  BY PcStatesAre
<1>3. intent' \in [Windows -> {"none", "claimed", "working", "CLOSED", "REJECTED"}]
  BY DEF DayInv, TypeOK
<1>4. RiskTypeOK'  BY <1>1 DEF DayInv, TypeOK
<1>5. DayTypes'
  BY <1>1, <1>2, <1>3, PcStatesAre DEF DayTypes, DayInv, TypeOK, ClosedSlot, ExitSlot
<1>6. AtWork'  BY <1>1, <1>2, PcStatesAre DEF AtWork
<1>7. CasesTyped' /\ Unentered' /\ Polled' /\ CapHolds'  BY <1>1, CasesUnchanged
<1> QED  BY <1>4, <1>5, <1>6, <1>7 DEF DayKept

LEMMA PollClosesKeepsDay ==
  ASSUME DayInv, PollCloses \/ PollClosesInVain \/ FinishClose
  PROVE  DayKept
<1>1. CASE \E w \in Windows, next \in {"pollCase", "closeCase"} :
             ObserveClose(w, next) \/ ObserveInVain(w, next)
  BY <1>1, ObserveKeepsDay
<1>2. CASE GoOn("entries") /\ UNCHANGED <<orders, ledger>>
  <2>1. /\ UNCHANGED <<cases, entry, close, seen, told, intent, owned, slot, ready>>
        /\ UNCHANGED <<win, account, result>> /\ UNCHANGED riskVars /\ pc' = "entries"
    BY <1>2 DEF GoOn
  <2>2. RiskTypeOK'  BY <2>1 DEF DayInv, TypeOK
  <2>3. DayTypes'  BY <2>1, PcStatesAre DEF DayTypes, DayInv, TypeOK, ClosedSlot, ExitSlot
  <2>4. AtWork'  BY <2>1, PcStatesAre DEF AtWork
  <2>5. CasesTyped' /\ Unentered' /\ Polled' /\ CapHolds'  BY <2>1, CasesUnchanged
  <2> QED  BY <2>2, <2>3, <2>4, <2>5 DEF DayKept
<1>3. pc = "close" => win \in Windows  BY DEF DayInv, AtWork
<1> QED  BY <1>1, <1>2, <1>3 DEF PollCloses, PollClosesInVain, FinishClose

LEMMA SendKeepsDay ==
  ASSUME DayInv,
         \/ \E w \in Windows : ClaimClose(w)
         \/ SubmitClose \/ SubmitCloseUnheard \/ CloseFails
  PROVE  DayKept
<1> USE DEF ClaimClose, SubmitClose, SubmitCloseUnheard, CloseFails, GoOn, TakeUp, Conclude
<1>1. pc = "send" => win \in Windows  BY DEF DayInv, AtWork
<1>2. /\ UNCHANGED <<cases, entry, seen, told, slot, ready, account>>
      /\ UNCHANGED riskVars
      /\ win' \in Windows
      /\ pc' \in {"send", "close", "closeCase"}
      /\ result' \in Results \cup {"none"} /\ (pc' = "closeCase" => result' \in Results)
  BY <1>1, PcStatesAre DEF DayInv, TypeOK
<1>3. /\ close' \in [Windows -> {"none", "working", "filled", "ended"}]
      /\ intent' \in [Windows -> {"none", "claimed", "working", "CLOSED", "REJECTED"}]
      /\ owned' \in [Windows -> BOOLEAN]
  BY DEF DayInv, TypeOK, Resolved
<1>4. RiskTypeOK'  BY <1>2 DEF DayInv, TypeOK
<1>5. DayTypes'
  BY <1>2, <1>3, PcStatesAre DEF DayTypes, DayInv, TypeOK, ClosedSlot, ExitSlot
<1>6. AtWork'  BY <1>2, PcStatesAre DEF AtWork
<1>7. CasesTyped' /\ Unentered' /\ Polled' /\ CapHolds'  BY <1>2, CasesUnchanged
<1> QED  BY <1>4, <1>5, <1>6, <1>7 DEF DayKept

LEMMA RecordCaseKeepsDay ==
  ASSUME DayInv, RecordCase
  PROVE  DayKept
<1>1. win \in Windows /\ result \in Results  BY PcStatesAre DEF RecordCase, DayInv, AtWork
<1>2. /\ UNCHANGED <<entry, close, seen, told, intent, owned, slot, ready, win, account, result>>
      /\ UNCHANGED riskVars /\ pc' \in {"pollNote", "closeNote"}
  BY DEF RecordCase, GoOn
<1>3. RiskTypeOK' /\ DayTypes' /\ AtWork'
  BY <1>1, <1>2, PcStatesAre DEF AtWork, DayTypes, DayInv, TypeOK, ClosedSlot, ExitSlot
<1>4. CASE UNCHANGED cases
  <2>1. CasesTyped' /\ Unentered' /\ Polled' /\ CapHolds'  BY <1>2, <1>4, CasesUnchanged
  <2> QED  BY <1>3, <2>1 DEF DayKept
<1>5. CASE cases' # cases
  <2> DEFINE outcome == IF result = "NO_ORDER" THEN "RECONCILE_REQUIRED" ELSE result
             t == AfterEvents(cases[win], CloseEvents(cases[win], outcome))
  <2>1. outcome \in CloseOutcomes  BY <1>1, PcStatesAre DEF CloseOutcomes
  <2>2. cases' = [cases EXCEPT ![win] = t]  BY <1>5 DEF RecordCase
  <2>3. cases[win] \in CaseStates  BY <1>1 DEF DayInv, TypeOK
  <2> HIDE DEF outcome
  <2>4. t = AfterEvents(cases[win], CloseEvents(cases[win], outcome))  OBVIOUS
  <2> HIDE DEF t
  <2>5. /\ t \in CaseStates /\ (t \in Fresh => t = cases[win])
        /\ t \in Counted => cases[win] \in Counted
        /\ t \in {cases[win], "MANAGING", "CLOSED", "HALTED"}
    BY <2>1, <2>3, <2>4, CloseMoves
  <2>6. t # cases[win]  BY <1>1, <1>5, <2>2 DEF DayInv, TypeOK
  <2>7. t \in Counted \cup {"HALTED"}  BY <2>5, <2>6 DEF Counted
  <2>8. t \in Counted => win \in Counting  BY <1>1, <2>5 DEF Counting
  <2>9. CasesTyped' /\ Unentered' /\ Polled' /\ CapHolds'
    BY <1>1, <1>2, <2>2, <2>7, <2>8, CaseMoves
  <2> QED  BY <1>3, <2>9 DEF DayKept
<1> QED  BY <1>4, <1>5

LEMMA RecordOrderKeepsDay ==
  ASSUME DayInv, RecordOrder
  PROVE  DayKept
<1>1. /\ UNCHANGED <<cases, entry, close, seen, intent, owned, slot, ready>>
      /\ UNCHANGED riskVars /\ pc' \in {"entries", "idle"}
      /\ win' = 0 /\ account' \in {account, 0} /\ result' = "none"
  BY DEF RecordOrder, EndTick
<1>2. told' \in [Windows -> Observations]
  <2>1. Noted \in Observations  BY DEF Noted, Observations
  <2> QED  BY <2>1 DEF RecordOrder, DayInv, TypeOK
<1>3. RiskTypeOK'  BY <1>1 DEF DayInv, TypeOK
<1>4. DayTypes'
  BY <1>1, <1>2, PcStatesAre DEF DayTypes, DayInv, TypeOK, ClosedSlot, ExitSlot
<1>5. AtWork'  BY <1>1, PcStatesAre DEF AtWork
<1>6. CasesTyped' /\ Unentered' /\ Polled' /\ CapHolds'  BY <1>1, CasesUnchanged
<1> QED  BY <1>3, <1>4, <1>5, <1>6 DEF DayKept

\* record_execution for one chain that is polled: its case counts already.
LEMMA RecordEntryKeepsDay ==
  ASSUME DayInv, NEW w \in Windows, cases[w] \in {"CERTIFIED", "SUBMITTED"}, entry[w] # "none",
         NEW status \in Observations, NEW outcome \in EntryOutcomes,
         RecordEntry(w, status, outcome), EndTick,
         entry' \in [Windows -> {"none", "claimed", "working", "filled", "ended"}],
         \A v \in Windows \ {w} : entry'[v] = entry[v]
  PROVE  DayKept
<1> DEFINE s == AfterEvents(cases[w], EntryEvents(cases[w], outcome))
<1>1. s \in {"SUBMITTED", "MANAGING", "HALTED"}  BY EntryMoves
<1>2. cases' = [cases EXCEPT ![w] = s]  BY DEF RecordEntry
<1> HIDE DEF s
<1>3. s \in Counted \cup {"HALTED"}  BY <1>1 DEF Counted
<1>4. w \in Counting  BY DEF Counting, Counted
<1>5. /\ UNCHANGED <<close, told, intent, owned, slot, ready>> /\ UNCHANGED riskVars
      /\ pc' = "idle" /\ win' = 0 /\ account' = 0 /\ result' = "none"
      /\ seen' \in [Windows -> Observations]
  BY DEF RecordEntry, EndTick, DayInv, TypeOK
<1>6. CasesTyped' /\ Unentered' /\ Polled' /\ CapHolds'
  BY <1>2, <1>3, <1>4, <1>5, CaseMoves
<1>7. RiskTypeOK' /\ DayTypes' /\ AtWork'
  BY <1>5, PcStatesAre DEF AtWork, DayTypes, DayInv, TypeOK, ClosedSlot, ExitSlot
<1> QED  BY <1>6, <1>7 DEF DayKept

\* The polls of a tick that goes on: no certified case keeps its entry.
LEMMA PollsKeepDay ==
  ASSUME DayInv, pc = "entries",
         \A w \in Windows : ActiveChain(w) => entry[w] \in {"working", "filled"},
         seen' = [w \in Windows |-> IF ActiveChain(w) THEN entry[w] ELSE seen[w]],
         cases' = [w \in Windows |->
                    IF ActiveChain(w) THEN AfterEvents(cases[w], EntryEvents(cases[w], Found(w)))
                                      ELSE cases[w]],
         GoOn("manage"), UNCHANGED <<orders, told, intent, owned>>
  PROVE  DayKept
<1>1. \A w \in Windows :
         /\ ActiveChain(w) => cases'[w] \in {"SUBMITTED", "MANAGING", "HALTED"}
         /\ ~ ActiveChain(w) => cases'[w] = cases[w]
  <2> SUFFICES ASSUME NEW w \in Windows, ActiveChain(w)
               PROVE  cases'[w] \in {"SUBMITTED", "MANAGING", "HALTED"}
    OBVIOUS
  <2>1. Found(w) \in EntryOutcomes  BY DEF Found, EntryOutcomes
  <2>2. cases[w] \in {"CERTIFIED", "SUBMITTED"}  BY DEF ActiveChain
  <2>3. cases'[w] = AfterEvents(cases[w], EntryEvents(cases[w], Found(w)))  OBVIOUS
  <2> QED  BY <2>1, <2>2, <2>3, EntryMoves
<1>2. \A w \in Windows : ActiveChain(w) <=> cases[w] \in {"CERTIFIED", "SUBMITTED"} /\ entry[w] # "none"
  BY DEF ActiveChain
<1>3. seen' \in [Windows -> Observations]  BY DEF DayInv, TypeOK, Observations
<1>4. CasesTyped'
  <2>1. \A w \in Windows : cases'[w] \in CaseStates  BY <1>1 DEF CaseStates, DayInv, TypeOK
  <2> QED  BY <2>1 DEF CasesTyped
<1> HIDE DEF ActiveChain
<1>5. /\ UNCHANGED <<entry, close, told, intent, owned, slot, ready, win, account, result>>
      /\ UNCHANGED riskVars /\ pc' = "manage"
  BY DEF GoOn
<1>6. Unentered'  BY <1>1, <1>2, <1>5 DEF DayInv, Unentered, Counted, Fresh
<1>7. Polled'  BY <1>1, <1>2, <1>5 DEF Polled
<1>8. Counting' \subseteq Counting  BY <1>1, <1>2, <1>5 DEF Counting, Counted
<1>9. CapHolds'  BY <1>8, CountingShrinks
<1>10. RiskTypeOK' /\ DayTypes' /\ AtWork'
  BY <1>3, <1>5, PcStatesAre DEF AtWork, DayTypes, DayInv, TypeOK, ClosedSlot, ExitSlot
<1> QED  BY <1>4, <1>6, <1>7, <1>9, <1>10 DEF DayKept

LEMMA PollEntriesKeepsDay ==
  ASSUME DayInv, PollEntries \/ PollEntriesInVain
  PROVE  DayKept
<1>1. CASE \E w \in Windows, status \in Observations, outcome \in EntryOutcomes :
             /\ ActiveChain(w) /\ RecordEntry(w, status, outcome) /\ EndTick
             /\ entry' \in {entry, [entry EXCEPT ![w] = "ended"]}
  <2>1. PICK w \in Windows, status \in Observations, outcome \in EntryOutcomes :
           /\ ActiveChain(w) /\ RecordEntry(w, status, outcome) /\ EndTick
           /\ entry' \in {entry, [entry EXCEPT ![w] = "ended"]}
    BY <1>1
  <2>2. /\ entry' \in [Windows -> {"none", "claimed", "working", "filled", "ended"}]
        /\ \A v \in Windows \ {w} : entry'[v] = entry[v]
    BY <2>1 DEF DayInv, TypeOK
  <2>3. cases[w] \in {"CERTIFIED", "SUBMITTED"} /\ entry[w] # "none"  BY <2>1 DEF ActiveChain
  <2> QED  BY <2>1, <2>2, <2>3, RecordEntryKeepsDay
<1>2. /\ {"none", "unknown", "filled", "ended"} \subseteq Observations
      /\ {"CANCELED", "RECONCILE_REQUIRED"} \subseteq EntryOutcomes
  BY DEF Observations, EntryOutcomes
<1>3. CASE PollEntriesInVain  BY <1>1, <1>2, <1>3 DEF PollEntriesInVain
<1>4. CASE PollEntries
  <2>1. CASE /\ \A w \in Windows : ActiveChain(w) => entry[w] \in {"working", "filled"}
             /\ seen' = [w \in Windows |-> IF ActiveChain(w) THEN entry[w] ELSE seen[w]]
             /\ cases' = [w \in Windows |->
                           IF ActiveChain(w)
                           THEN AfterEvents(cases[w], EntryEvents(cases[w], Found(w)))
                           ELSE cases[w]]
             /\ GoOn("manage") /\ UNCHANGED <<orders, told, intent, owned>>
    BY <1>4, <2>1, PollsKeepDay DEF PollEntries
  <2> QED  BY <1>1, <1>2, <1>4, <2>1 DEF PollEntries
<1> QED  BY <1>3, <1>4

LEMMA EvaluateKeepsDay ==
  ASSUME DayInv, NEW w \in Windows, Evaluate(w)
  PROVE  DayKept
<1>1. /\ UNCHANGED <<entry, close, seen, told, intent, owned, slot, ready>> /\ UNCHANGED riskVars
      /\ pc' = "idle" /\ win' = 0 /\ account' = 0 /\ result' = "none"
      /\ cases[w] = "SCHEDULED"
  BY DEF Evaluate, EndTick
<1>2. PICK s \in {"CERTIFIED", "REFUSED"} : cases' = [cases EXCEPT ![w] = s]
  BY DEF Evaluate
<1>3. entry[w] = "none"  BY <1>1 DEF DayInv, Unentered
<1>4. /\ cases'[w] = s /\ \A v \in Windows \ {w} : cases'[v] = cases[v]
      /\ s \in CaseStates /\ s \in Fresh /\ s \notin Counted
  BY <1>2 DEF DayInv, TypeOK, CaseStates, Fresh, Counted
<1>5. CasesTyped'  BY <1>2, <1>4 DEF CasesTyped, DayInv, TypeOK
<1>6. Unentered' /\ Polled'  BY <1>1, <1>3, <1>4 DEF DayInv, Unentered, Polled
<1>7. Counting' \subseteq Counting  BY <1>1, <1>3, <1>4 DEF Counting
<1>8. RiskTypeOK' /\ DayTypes' /\ AtWork'
  BY <1>1, PcStatesAre DEF AtWork, DayTypes, DayInv, TypeOK, ClosedSlot, ExitSlot
<1> QED  BY <1>5, <1>6, <1>7, <1>8, CountingShrinks DEF DayKept

LEMMA OpenExecutionKeepsDay ==
  ASSUME DayInv, NEW w \in Windows, OpenExecution(w)
  PROVE  DayKept
<1>1. /\ UNCHANGED <<cases, entry, close, seen, told, intent, owned, slot, ready, account, result>>
      /\ UNCHANGED riskVars
      /\ pc = "window" /\ pc' = "execute" /\ win' = w /\ cases[w] = "CERTIFIED"
  BY DEF OpenExecution, TakeUp
<1>2. RiskTypeOK' /\ DayTypes' /\ AtWork'
  BY <1>1, PcStatesAre DEF AtWork, DayTypes, DayInv, TypeOK, ClosedSlot, ExitSlot
<1>3. CasesTyped' /\ Unentered' /\ Polled' /\ CapHolds'  BY <1>1, CasesUnchanged
<1> QED  BY <1>2, <1>3 DEF DayKept

\* The claim: nothing else counted but the entries of the day.
LEMMA CheckPolicyKeepsDay ==
  ASSUME DayInv, CheckPolicy
  PROVE  DayKept
<1>1. /\ UNCHANGED <<cases, close, seen, told, intent, owned, slot, ready, win, account, result>>
      /\ UNCHANGED riskVars
      /\ pc = "policy" /\ pc' = "submit" /\ Cardinality(EntriesToday) < MaxEntries
      /\ entry' = [entry EXCEPT ![win] = "claimed"]
  BY DEF CheckPolicy, GoOn, DayAllows
<1>2. win \in Windows /\ cases[win] = "CERTIFIED"
  BY <1>1, PcStatesAre DEF DayInv, AtWork
<1>3. entry'[win] = "claimed" /\ \A v \in Windows \ {win} : entry'[v] = entry[v]
  BY <1>1, <1>2 DEF DayInv, TypeOK
<1>4. Counting = EntriesToday
  BY <1>1 DEF DayInv, Polled, Counting, Counted, EntriesToday
<1>5. Counting' \subseteq Counting \cup {win}  BY <1>1, <1>3 DEF Counting
<1>6. CapHolds'
  <2>1. IsFiniteSet(Counting \cup {win})  BY CountingFinite, FS_AddElement
  <2>2. /\ Cardinality(Counting) \in Nat /\ Cardinality(Counting \cup {win}) \in Nat
        /\ Cardinality(Counting') \in Nat
        /\ Cardinality(Counting') <= Cardinality(Counting \cup {win})
    BY <1>5, <2>1, CountingFinite, FS_Subset, FS_CardinalityType
  <2>3. Cardinality(Counting \cup {win}) =
          IF win \in Counting THEN Cardinality(Counting) ELSE Cardinality(Counting) + 1
    BY CountingFinite, FS_AddElement
  <2> QED  BY <1>1, <1>4, <2>2, <2>3, DayAssumption DEF CapHolds
<1>7. CasesTyped' /\ Unentered' /\ Polled'
  BY <1>1, <1>2, <1>3 DEF CasesTyped, DayInv, TypeOK, Unentered, Polled
<1>8. RiskTypeOK' /\ DayTypes' /\ AtWork'
  BY <1>1, <1>2, <1>3, PcStatesAre DEF AtWork, DayTypes, DayInv, TypeOK, ClosedSlot, ExitSlot
<1> QED  BY <1>6, <1>7, <1>8 DEF DayKept

LEMMA SubmitEntryKeepsDay ==
  ASSUME DayInv, SubmitEntry
  PROVE  DayKept
<1>1. /\ UNCHANGED <<cases, close, seen, told, intent, owned, slot, ready, win, account, result>>
      /\ UNCHANGED riskVars
      /\ pc = "submit" /\ pc' = "observe"
      /\ entry' = [entry EXCEPT ![win] = "working"]
  BY DEF SubmitEntry, GoOn
<1>2. win \in Windows /\ cases[win] = "CERTIFIED" /\ entry[win] # "none"
  BY <1>1, PcStatesAre DEF DayInv, AtWork
<1>3. /\ entry' \in [Windows -> {"none", "claimed", "working", "filled", "ended"}]
      /\ entry'[win] = "working" /\ \A v \in Windows \ {win} : entry'[v] = entry[v]
  BY <1>1, <1>2 DEF DayInv, TypeOK
<1>4. CasesTyped' /\ Unentered' /\ Polled' /\ CapHolds'
  BY <1>1, <1>2, <1>3, CasesUnchanged
<1>5. RiskTypeOK' /\ DayTypes' /\ AtWork'
  BY <1>1, <1>2, <1>3, PcStatesAre DEF AtWork, DayTypes, DayInv, TypeOK, ClosedSlot, ExitSlot
<1> QED  BY <1>4, <1>5 DEF DayKept

LEMMA EntryEndingsKeepDay ==
  ASSUME DayInv, SubmitEntryUnheard \/ ObserveEntry
  PROVE  DayKept
<1>1. win \in Windows /\ cases[win] = "CERTIFIED" /\ entry[win] # "none"
  BY PcStatesAre DEF SubmitEntryUnheard, ObserveEntry, DayInv, AtWork
<1>2. PICK status \in Observations, outcome \in EntryOutcomes : RecordEntry(win, status, outcome)
  BY DEF SubmitEntryUnheard, ObserveEntry, Observations, EntryOutcomes
<1>3. EndTick /\ entry' \in {entry, [entry EXCEPT ![win] = "working"]}
  BY DEF SubmitEntryUnheard, ObserveEntry
<1>4. /\ entry' \in [Windows -> {"none", "claimed", "working", "filled", "ended"}]
      /\ \A v \in Windows \ {win} : entry'[v] = entry[v]
  BY <1>3 DEF DayInv, TypeOK
<1> QED  BY <1>1, <1>2, <1>3, <1>4, RecordEntryKeepsDay

LEMMA RefuseEntryKeepsDay ==
  ASSUME DayInv, RefuseEntry
  PROVE  DayKept
<1>1. PICK outcome \in {"REJECTED", "RECONCILE_REQUIRED"} : RecordEntry(win, "none", outcome)
  BY DEF RefuseEntry
<1>2. win \in Windows /\ cases[win] = "CERTIFIED"  BY DEF RefuseEntry, DayInv, AtWork
<1>3. cases' = [cases EXCEPT ![win] = "HALTED"]
  BY <1>1, <1>2, RefusalHalts DEF RecordEntry
<1>4. /\ UNCHANGED <<entry, close, told, intent, owned, slot, ready>> /\ UNCHANGED riskVars
      /\ pc' = "idle" /\ win' = 0 /\ account' = 0 /\ result' = "none"
      /\ seen' \in [Windows -> Observations]
  BY <1>1 DEF RefuseEntry, RecordEntry, EndTick, DayInv, TypeOK, Observations
<1>5. "HALTED" \notin Counted  BY DEF Counted
<1>6. CasesTyped' /\ Unentered' /\ Polled' /\ CapHolds'
  BY <1>2, <1>3, <1>4, <1>5, CaseMoves
<1>7. RiskTypeOK' /\ DayTypes' /\ AtWork'
  BY <1>4, PcStatesAre DEF AtWork, DayTypes, DayInv, TypeOK, ClosedSlot, ExitSlot
<1> QED  BY <1>6, <1>7 DEF DayKept

LEMMA WorkerKeepsDay ==
  ASSUME DayInv, WorkerNext \/ WorkerFails
  PROVE  DayKept
BY LoopKeepsDay, PollClosesKeepsDay, SendKeepsDay, RecordCaseKeepsDay, RecordOrderKeepsDay,
   PollEntriesKeepsDay, EvaluateKeepsDay, OpenExecutionKeepsDay, CheckPolicyKeepsDay,
   SubmitEntryKeepsDay, EntryEndingsKeepDay, RefuseEntryKeepsDay
   DEF WorkerNext

LEMMA BrokerKeepsDay ==
  ASSUME DayInv, EntryEnds \/ CloseEnds \/ TimePasses, UNCHANGED riskVars
  PROVE  DayKept
<1> USE DEF EntryEnds, CloseEnds, TimePasses
<1>1. UNCHANGED <<pc, ready, win, account, result, cases, seen, told, intent, owned>>
  OBVIOUS
<1>2. slot' \in 1..ClosedSlot
  BY DayAssumption DEF ClosedSlot, ExitSlot, DayInv, TypeOK
<1>3. /\ entry' \in [Windows -> {"none", "claimed", "working", "filled", "ended"}]
      /\ \A w \in Windows : (entry[w] = "none" <=> entry'[w] = "none")
  BY DEF DayInv, TypeOK
<1>4. close' \in [Windows -> {"none", "working", "filled", "ended"}]
  BY DEF DayInv, TypeOK
<1>5. CasesTyped' /\ Unentered' /\ Polled' /\ CapHolds'  BY <1>1, <1>3, CasesUnchanged
<1>6. RiskTypeOK' /\ DayTypes'  BY <1>1, <1>2, <1>3, <1>4 DEF DayTypes, DayInv, TypeOK
<1>7. AtWork'  BY <1>1, <1>3, PcStatesAre DEF AtWork, DayInv
<1> QED  BY <1>5, <1>6, <1>7 DEF DayKept

LEMMA OutsideKeepsDay ==
  ASSUME DayInv, UNCHANGED dayVars, EquityMoves \/ UNCHANGED riskVars
  PROVE  DayKept
<1>1. RiskTypeOK'  BY DEF DayInv, TypeOK, EquityMoves
<1>2. CasesTyped' /\ Unentered' /\ Polled' /\ CapHolds'  BY CasesUnchanged
<1>3. DayTypes' /\ AtWork'  BY PcStatesAre DEF DayTypes, AtWork, DayInv, TypeOK, ClosedSlot, ExitSlot
<1> QED  BY <1>1, <1>2, <1>3 DEF DayKept

LEMMA NextKeepsDay ==
  ASSUME DayInv, [Next]_vars
  PROVE  DayInv'
<1>1. DayKept
  BY WorkerKeepsDay, BrokerKeepsDay, OutsideKeepsDay DEF Next, Follow, Worker, Broker, vars
<1>2. OperatorTypeOK'
  BY DEF DayInv, TypeOK, Next, Follow, Worker, Broker, vars, EquityMoves, OperatorNext,
         Pause, Resume, EmergencyStop, WriteEntryState, WriteControl
<1>3. held' \in BOOLEAN /\ fit' \in BOOLEAN  BY DEF DayInv, TypeOK, Next, Follow, vars
<1>4. fails' \in 0..MaxFails
  <2>1. UNCHANGED fails \/ (fails < MaxFails /\ fails' = fails + 1)
    BY DEF Next, Follow, Worker, Broker, vars, WorkerNext, WorkerFails, EntryEnds, CloseEnds,
           TimePasses
  <2> QED  BY <2>1, DayAssumption DEF DayInv, TypeOK
<1>5. cut' \subseteq Windows
  <2>1. cut' \subseteq cut \cup {win} /\ (cut' # cut => pc \in Recording)
    BY DEF Next, Follow, Worker, Broker, vars
  <2> QED  BY <2>1 DEF DayInv, TypeOK, AtWork
<1> QED  BY <1>1, <1>2, <1>3, <1>4, <1>5 DEF DayKept, DayTypes, CasesTyped, DayInv, TypeOK

LEMMA InitDay ==
  ASSUME Init
  PROVE  DayInv
<1>1. TypeOK
  <2>1. OperatorTypeOK  BY DEF Init, OperatorInit
  <2>2. RiskTypeOK  BY DEF Init, RiskInit
  <2>3. slot \in 1..ClosedSlot  BY DayAssumption DEF Init, ClosedSlot, ExitSlot
  <2>4. cases \in [Windows -> CaseStates]  BY DEF Init, CaseStates
  <2>5. fails \in 0..MaxFails  BY DayAssumption DEF Init
  <2>6. seen \in [Windows -> Observations] /\ told \in [Windows -> Observations]
    BY DEF Init, Observations
  <2> QED  BY <2>1, <2>2, <2>3, <2>4, <2>5, <2>6, PcStatesAre DEF Init, TypeOK
<1>2. Unentered /\ Polled  BY DEF Init, Unentered, Polled, Fresh
<1>3. AtWork  BY PcStatesAre DEF Init, AtWork
<1>4. CapHolds
  <2>1. Counting = {}  BY DEF Init, Counting, Counted
  <2> QED  BY <2>1, FS_EmptySet, DayAssumption DEF CapHolds
<1> QED  BY <1>1, <1>2, <1>3, <1>4 DEF DayInv

LEMMA DayInvariant == Spec => []DayInv
<1>1. Init => DayInv  BY InitDay
<1>2. DayInv /\ [Next]_vars => DayInv'  BY NextKeepsDay
<1> QED  BY <1>1, <1>2, PTL DEF Spec

-----------------------------------------------------------------------------
(* The cap.                                                                *)

\* Every variable of the day keeps its type, and a recorded peak is never below the
\* baseline (RiskStateService.refresh), for all limits, windows and equities.
THEOREM DayTypeCorrect == Spec => []TypeOK
<1>1. DayInv => TypeOK  BY DEF DayInv
<1> QED  BY <1>1, DayInvariant, PTL

\* However many windows and entries a day has and however often the worker dies, also
\* between the broker's answer and the ledger: the entries the broker took for cases
\* that have not halted stay within max_entries_per_day (daily_entry_state).
THEOREM CapKept == Spec => []CapCountsLiveEntries
<1>1. ASSUME DayInv PROVE CapCountsLiveEntries
  <2> DEFINE Live == {w \in Accepted : cases[w] # "HALTED"}
  <2>1. Live \subseteq Counting
    BY <1>1 DEF DayInv, Unentered, Accepted, Counting, Fresh, Counted
  <2>2. /\ Cardinality(Live) <= Cardinality(Counting)
        /\ Cardinality(Live) \in Nat /\ Cardinality(Counting) \in Nat
    BY <2>1, CountingFinite, FS_Subset, FS_CardinalityType
  <2>3. Cardinality(Counting) <= MaxEntries  BY <1>1 DEF DayInv, CapHolds
  <2> QED  BY <2>2, <2>3, DayAssumption DEF CapCountsLiveEntries
<1> QED  BY <1>1, DayInvariant, PTL

-----------------------------------------------------------------------------
(* Entries taken away.                                                     *)

\* Only a submission puts an entry before the broker.
LEMMA OnlySubmitEnters ==
  ASSUME DayInv, [Next]_vars, AcceptsEntry
  PROVE  pc = "submit"
<1>1. SUFFICES ASSUME pc # "submit" PROVE Accepted' = Accepted
  BY DEF AcceptsEntry
<1>2. CASE UNCHANGED entry  BY <1>2 DEF Accepted
<1>3. CASE \E w \in Windows, end \in {"filled", "ended"} :
             entry[w] \in {"working", "ended"} /\ entry' = [entry EXCEPT ![w] = end]
  BY <1>3 DEF Accepted, DayInv, TypeOK
<1>4. CASE pc = "policy" /\ entry' = [entry EXCEPT ![win] = "claimed"]
  <2>1. win \in Windows /\ entry[win] = "none"
    BY <1>4, PcStatesAre DEF DayInv, AtWork, Polled
  <2> QED  BY <1>4, <2>1 DEF Accepted, DayInv, TypeOK
<1>5. CASE WorkerNext \/ WorkerFails
  BY <1>1, <1>2, <1>3, <1>4, <1>5
     DEF WorkerNext, WorkerFails, Preflight, BeginTick, PollCloses, PollClosesInVain, RecordCase,
         RecordOrder, PollEntries, PollEntriesInVain, ClaimClose, ClosePending, SubmitClose,
         SubmitCloseUnheard, CloseFails, FinishClose, HoldPosition, ManageInVain, SkipWindow,
         Evaluate, OpenExecution, ReadAccount, CheckPolicy, SubmitEntry, SubmitEntryUnheard,
         RefuseEntry, ObserveEntry, ObserveClose, ObserveInVain
<1>6. CASE EntryEnds  BY <1>3, <1>6 DEF EntryEnds
<1> QED  BY <1>2, <1>5, <1>6 DEF Next, Follow, Worker, Broker, CloseEnds, TimePasses, vars

\* How a worker comes to its program counter.
LEMMA ExecutionBegins ==
  ASSUME WorkerNext \/ WorkerFails, pc' \in Executing, pc \notin Executing
  PROVE  EntriesEnabled
<1>1. pc' \in {"execute", "policy", "submit"} /\ pc \notin {"execute", "policy", "submit"}
  BY PcStatesAre
<1>2. \E w \in Windows : OpenExecution(w)
  BY <1>1
     DEF WorkerNext, WorkerFails, Preflight, BeginTick, PollCloses, PollClosesInVain, RecordCase,
         RecordOrder, PollEntries, PollEntriesInVain, ClaimClose, ClosePending, SubmitClose,
         SubmitCloseUnheard, CloseFails, FinishClose, HoldPosition, ManageInVain, SkipWindow,
         Evaluate, ReadAccount, CheckPolicy, SubmitEntry, SubmitEntryUnheard,
         RefuseEntry, ObserveEntry, ObserveClose, ObserveInVain, EndTick, GoOn, TakeUp, Conclude
<1> QED  BY <1>2 DEF OpenExecution

\* No tick that began with entries taken away has come as far as an execution.
HeldBack == held => pc \notin Executing \cup {"idle"} /\ EntriesTakenAway

LEMMA HeldBackKept ==
  ASSUME DayInv, HeldBack, [Next]_vars
  PROVE  HeldBack'
<1>1. CASE UNCHANGED vars  BY <1>1 DEF vars, HeldBack, EntriesTakenAway, Executing
<1>2. CASE Next
  <2> SUFFICES ASSUME held' PROVE pc' \notin Executing \cup {"idle"} /\ EntriesTakenAway'
    BY DEF HeldBack, Executing
  <2>1. /\ EntriesTakenAway' /\ pc' # "idle"
        /\ held \/ (pc' = "closes" /\ pc # "closes")
    BY <1>2 DEF Next, Follow
  <2>2. ASSUME pc' \in Executing PROVE FALSE
    <3>1. held /\ pc \notin Executing /\ EntriesTakenAway
      BY <2>1, <2>2, PcStatesAre DEF HeldBack
    <3>2. WorkerNext \/ WorkerFails
      BY <1>2, <2>2, <3>1 DEF Next, Follow, Worker, Broker, EntryEnds, CloseEnds, TimePasses
    <3>3. EntriesEnabled  BY <2>2, <3>1, <3>2, ExecutionBegins
    <3> QED  BY <3>1, <3>3 DEF EntriesEnabled, EntriesTakenAway
  <2> QED  BY <2>1, <2>2
<1> QED  BY <1>1, <1>2

\* A tick that begins while entries are paused, stopped or disabled submits no entry
\* (operator.py, _entry_enabled_with), for all windows and limits.
THEOREM PauseHolds == Spec => PausedMeansNoEntry
<1>1. Init => HeldBack  BY DEF Init, HeldBack
<1>2. DayInv /\ HeldBack /\ [Next]_vars => HeldBack'  BY HeldBackKept
<1>3. DayInv /\ HeldBack /\ [Next]_vars => [AcceptsEntry => ~ held]_vars
  BY OnlySubmitEnters, PcStatesAre DEF HeldBack
<1> QED  BY <1>1, <1>2, <1>3, DayInvariant, PTL DEF Spec, PausedMeansNoEntry

-----------------------------------------------------------------------------
(* The drawdown.                                                           *)

LEMMA PeakKnownKept ==
  ASSUME DayInv, PeakKnown, [Next]_vars
  PROVE  PeakKnown'
<1>1. MayRefresh \/ UNCHANGED <<peak, highest>>
  BY DEF Next, Follow, Worker, Broker, WorkerNext, WorkerFails, vars, EquityMoves, Preflight,
         BeginTick, PollCloses, PollClosesInVain, RecordCase, RecordOrder, PollEntries,
         PollEntriesInVain, ClaimClose, ClosePending, SubmitClose, SubmitCloseUnheard, CloseFails,
         FinishClose, HoldPosition, ManageInVain, SkipWindow, Evaluate, OpenExecution,
         ReadAccount, CheckPolicy, SubmitEntry, SubmitEntryUnheard, RefuseEntry, ObserveEntry,
         ObserveClose, ObserveInVain, EndTick, GoOn, TakeUp, Conclude
<1>2. CASE UNCHANGED <<peak, highest>>  BY <1>2 DEF PeakKnown
<1> QED  BY <1>1, <1>2, RefreshKeepsTypes DEF DayInv

\* The account that was read was the broker's during this execution, and what the policy
\* lets through was fit then.
Witnessed ==
  /\ pc = "policy" /\ Max({highest, Baseline}) - account < MaxDrawdown => fit
  /\ pc = "submit" => fit

LEMMA ExecutionGoesOn ==
  ASSUME WorkerNext \/ WorkerFails, pc' \in {"policy", "submit"}
  PROVE  ReadAccount \/ CheckPolicy
BY DEF WorkerNext, WorkerFails, Preflight, BeginTick, PollCloses, PollClosesInVain, RecordCase,
       RecordOrder, PollEntries, PollEntriesInVain, ClaimClose, ClosePending, SubmitClose,
       SubmitCloseUnheard, CloseFails, FinishClose, HoldPosition, ManageInVain, SkipWindow,
       Evaluate, OpenExecution, SubmitEntry, SubmitEntryUnheard, RefuseEntry, ObserveEntry,
       ObserveClose, ObserveInVain, EndTick, GoOn, TakeUp, Conclude

LEMMA WitnessedKept ==
  ASSUME DayInv, PeakKnown, Witnessed, [Next]_vars
  PROVE  Witnessed'
<1>1. CASE UNCHANGED vars  BY <1>1 DEF vars, Witnessed
<1>2. CASE Next
  <2>1. fit' = (pc' \in Executing /\ (fit \/ ~ DrawnDown'))  BY <1>2 DEF Next, Follow
  <2>2. CASE UNCHANGED <<pc, account, highest>>
    BY <2>1, <2>2, PcStatesAre DEF Witnessed
  <2>3. CASE WorkerNext \/ WorkerFails
    <3> SUFFICES ASSUME pc' \in {"policy", "submit"} PROVE Witnessed'
      BY DEF Witnessed
    <3>1. CASE ReadAccount
      <4>1. /\ pc' = "policy" /\ account' = equity /\ UNCHANGED <<equity, highest>>
        BY <3>1 DEF ReadAccount
      <4>2. Max({highest', Baseline}) - account' < MaxDrawdown => ~ DrawnDown'
        <5>1. DrawnDown' <=> Max({highest', Baseline}) - equity' >= MaxDrawdown
          BY DEF DrawnDown
        <5>2. /\ Max({highest', Baseline}) \in Int /\ equity' \in Int /\ MaxDrawdown \in Int
              /\ account' = equity'
          <6>1. highest \in Int /\ Baseline \in Int /\ equity \in Int /\ MaxDrawdown \in Int
            BY RiskAssumption DEF DayInv, TypeOK
          <6>2. Max({highest, Baseline}) \in {highest, Baseline}  BY <6>1, MaxOfTwo
          <6> QED  BY <4>1, <6>1, <6>2
        <5> QED  BY <5>1, <5>2
      <4> QED  BY <2>1, <4>1, <4>2, PcStatesAre DEF Witnessed
    <3>2. CASE CheckPolicy
      <4>1. /\ pc = "policy" /\ pc' = "submit" /\ peak > 0
            /\ Max({peak, Baseline}) - account < MaxDrawdown
        BY <3>2 DEF CheckPolicy, GoOn, RiskVerified, EntryDrawdown
      <4>2. peak = Max({highest, Baseline}) /\ peak >= Baseline
            /\ peak \in Int /\ Baseline \in Int
        BY <4>1, RiskAssumption DEF PeakKnown, DayInv, TypeOK
      <4>3. Max({peak, Baseline}) = peak
        <5>1. Max({peak, Baseline}) \in {peak, Baseline} /\ Max({peak, Baseline}) >= peak
          BY <4>2, MaxOfTwo
        <5> QED  BY <4>2, <5>1
      <4>4. fit  BY <4>1, <4>2, <4>3 DEF Witnessed
      <4> QED  BY <2>1, <4>1, <4>4, PcStatesAre DEF Witnessed
    <3> QED  BY <2>3, <3>1, <3>2, ExecutionGoesOn
  <2> QED  BY <1>2, <2>2, <2>3
           DEF Next, Follow, Worker, Broker, EntryEnds, CloseEnds, TimePasses, EquityMoves
<1> QED  BY <1>1, <1>2

\* No entry is accepted in whose whole execution the account was MaxDrawdown below the
\* highest equity on record (build, refresh), for all equities, limits and windows, and
\* although refreshes may lose their predecessor and the account moves at any time.
THEOREM DrawdownHolds == Spec => NoEntryInDrawdown
<1>1. Init => PeakKnown /\ Witnessed  BY DEF Init, RiskInit, PeakKnown, Witnessed
<1>2. DayInv /\ PeakKnown /\ [Next]_vars => PeakKnown'  BY PeakKnownKept
<1>3. DayInv /\ PeakKnown /\ Witnessed /\ [Next]_vars => Witnessed'  BY WitnessedKept
<1>4. DayInv /\ Witnessed /\ [Next]_vars => [AcceptsEntry => fit]_vars
  BY OnlySubmitEnters DEF Witnessed
<1> QED  BY <1>1, <1>2, <1>3, <1>4, DayInvariant, PTL DEF Spec, NoEntryInDrawdown
=============================================================================
