----------------------- MODULE DecisionWindows_proofs -----------------------
(***************************************************************************)
(* Proofs about DecisionWindows, for any number of processes and windows,  *)
(* any clock and any lease no shorter than the minute a window is due: one *)
(* attempt per window, from the leases; a veto that holds and an artifact  *)
(* for every event, from what each row of the ledger was written after.    *)
(***************************************************************************)
EXTENDS DecisionWindows_refinement

\* The part of the type invariant that the lease argument needs.
LeaseTypes ==
  /\ clock \in Nat
  /\ lease \in [Windows -> Nat]
  /\ pc \in [Schedulers -> PcStates]
  /\ win \in [Schedulers -> Windows \cup {NoWindow}]
  /\ now \in [Schedulers -> Nat]
  /\ evaluations \in [Windows -> Nat]
  /\ executions \in [Windows -> Nat]

\* A process past the lease of an execution and not yet executing.
AboutToExecute(s, w) == pc[s] \in {"pending", "check"} /\ win[s] = w

\* Why a second attempt finds the lease held: an attempt leaves a lease that
\* runs past the minute the window is due in, and "now" lies in that minute.
LeaseInv ==
  \A w \in Windows :
    /\ evaluations[w] <= 1
    /\ evaluations[w] = 1 => lease[w] >= EvalAt[w] + TicksPerMinute
    /\ executions[w] <= 1
    /\ executions[w] = 1 => lease[w] >= ExecAt[w] + TicksPerMinute
    /\ \A s \in Schedulers :
         AboutToExecute(s, w) =>
           /\ executions[w] = 0
           /\ lease[w] >= ExecAt[w] + TicksPerMinute
           /\ \A r \in Schedulers : AboutToExecute(r, w) => r = s

IInv == LeaseTypes /\ LeaseInv

-----------------------------------------------------------------------------
\* A tick that ends or goes back to its polls, one that works on a window, and
\* one that moves to its next step: the three things a step without a lease does
\* to the process that takes it.
Settles(s) == EndTick(s) \/ BackToTick(s)

TakesUp(s) ==
  \E w \in Windows, l \in {"poll", "closing"} :
    Goto(s, l) /\ win' = [win EXCEPT ![s] = w] /\ now' = now

MovesOn(s) ==
  \E l \in PcStates \ {"pending"} :
    /\ l = "check" => pc[s] = "pending"
    /\ Goto(s, l) /\ win' = win /\ now' = now

Quiet(s) ==
  /\ Settles(s) \/ TakesUp(s) \/ MovesOn(s)
  /\ UNCHANGED <<clock, lease, evaluations, executions>>

\* Only taking a lease and starting an execution are not quiet.
LEMMA QuietSteps ==
  ASSUME LeaseTypes, NEW s \in Schedulers, Step(s)
  PROVE  \/ Quiet(s)
         \/ \E w \in Windows : AcquireLease(s, w)
         \/ CheckVeto(s)
<1> USE DEF ledger, orders, history
<1>1. CASE Skip(s)
  BY <1>1 DEF Skip, Quiet, Settles
<1>2. ASSUME NEW w \in Windows, LeaseHeld(s, w)
      PROVE  Quiet(s)
  BY <1>2 DEF LeaseHeld, Quiet, Settles
<1>3. CASE CreateScheduled(s)
  <2>1. EndTick(s) \/ (Goto(s, "save") /\ win' = win /\ now' = now)
    BY <1>3 DEF CreateScheduled, CutOff
  <2>2. UNCHANGED <<clock, lease, evaluations, executions>>
    BY <1>3 DEF CreateScheduled, CutOff
  <2>3. QED
    BY <2>1, <2>2 DEF Quiet, Settles, MovesOn, PcStates
<1>4. CASE SaveArtifact(s)
  BY <1>4 DEF SaveArtifact, Quiet, MovesOn, PcStates
<1>5. CASE StageFails(s)
  <2>1. EndTick(s) \/ (Goto(s, "save") /\ win' = win /\ now' = now)
    BY <1>5 DEF StageFails, Raise, CutOff
  <2>2. QED
    BY <1>5, <2>1 DEF StageFails, Quiet, Settles, MovesOn, PcStates
<1>6. CASE CheckEvent(s)
  BY <1>6 DEF CheckEvent, Quiet, MovesOn, PcStates
<1>6a. CASE AppendEvent(s)
  <2>1. \/ EndTick(s)
        \/ Goto(s, "save") /\ win' = win /\ now' = now
        \/ Goto(s, "judge") /\ win' = win /\ now' = now
    BY <1>6a DEF AppendEvent, Advance, Raise, CutOff
  <2>2. QED
    BY <1>6a, <2>1 DEF AppendEvent, Quiet, Settles, MovesOn, PcStates
<1>7. CASE AppendRefused(s)
  <2>1. EndTick(s) \/ (Goto(s, "save") /\ win' = win /\ now' = now)
    BY <1>7 DEF AppendRefused, Raise, CutOff
  <2>2. QED
    BY <1>7, <2>1 DEF AppendRefused, Quiet, Settles, MovesOn, PcStates
<1>8. ASSUME NEW verdict \in {"CERTIFIED", "REFUSED"}, Judge(s, verdict)
      PROVE  Quiet(s)
  BY <1>8 DEF Judge, Quiet, MovesOn, PcStates
<1>9. CASE LoadPending(s)
  <2>1. EndTick(s) \/ (Goto(s, "check") /\ win' = win /\ now' = now)
    BY <1>9 DEF LoadPending
  <2>2. QED
    BY <1>9, <2>1 DEF LoadPending, Quiet, Settles, MovesOn, PcStates
<1>10. CASE ClaimIntent(s)
  BY <1>10 DEF ClaimIntent, Quiet, MovesOn, PcStates
<1>11. ASSUME NEW w \in Windows, Poll(s, w)
       PROVE  Quiet(s)
  BY <1>11 DEF Poll, Quiet, TakesUp
<1>12. ASSUME NEW outcome \in EntryOutcomes, NEW fill \in BOOLEAN,
              Record(s, outcome, fill)
       PROVE  Quiet(s)
  <2>1. Settles(s)
    BY <1>12 DEF Record, Settles
  <2>2. QED
    BY <1>12, <2>1 DEF Record, Quiet
<1>13. CASE TickRaises(s)
  BY <1>13 DEF TickRaises, Quiet, Settles
<1>14. ASSUME NEW w \in Windows, NEW outcome \in CloseOutcomes,
              CloseRead(s, w, outcome)
       PROVE  Quiet(s)
  BY <1>14 DEF CloseRead, Quiet, TakesUp
<1>15. CASE CloseAppend(s)
  <2>1. Settles(s) \/ (Goto(s, "closing") /\ win' = win /\ now' = now)
    BY <1>15 DEF CloseAppend, Settles
  <2>2. QED
    BY <1>15, <2>1 DEF CloseAppend, Quiet, MovesOn, PcStates
<1>15a. CASE CloseCheck(s)
  <2>1. Settles(s) \/ (Goto(s, "closeWrite") /\ win' = win /\ now' = now)
    BY <1>15a DEF CloseCheck, Settles
  <2>2. QED
    BY <1>15a, <2>1 DEF CloseCheck, Quiet, MovesOn, PcStates
<1>16. QED
  BY <1>1, <1>2, <1>3, <1>4, <1>5, <1>6, <1>7, <1>8, <1>9, <1>10, <1>11, <1>12,
     <1>13, <1>14, <1>15, <1>6a, <1>15a DEF Step

-----------------------------------------------------------------------------
\* Every variable the lease argument is about keeps its type.
LEMMA LeaseTypesInvariant == Spec => []LeaseTypes
<1>1. Init => LeaseTypes
  BY DEF Init, LeaseTypes, PcStates
<1>2. LeaseTypes /\ [Next]_vars => LeaseTypes'
  <2> SUFFICES ASSUME LeaseTypes, [Next]_vars
               PROVE  LeaseTypes'
    OBVIOUS
  <2>1. CASE Pass
    BY <2>1 DEF Pass, LeaseTypes, locals, history
  <2>2. ASSUME NEW w \in Windows, Veto(w)
        PROVE  LeaseTypes'
    BY <2>2 DEF Veto, LeaseTypes, locals
  <2>3. ASSUME NEW s \in Schedulers, Tick(s)
        PROVE  LeaseTypes'
    BY <2>3 DEF Tick, Goto, LeaseTypes, PcStates, history
  <2>4. ASSUME NEW s \in Schedulers, Crash(s)
        PROVE  LeaseTypes'
    BY <2>4 DEF Crash, CutOff, EndTick, Goto, LeaseTypes, PcStates, history
  <2>5. ASSUME NEW s \in Schedulers, Step(s)
        PROVE  LeaseTypes'
    <3>1. CASE Quiet(s)
      <4>1. /\ pc' \in [Schedulers -> PcStates]
            /\ win' \in [Schedulers -> Windows \cup {NoWindow}]
            /\ now' \in [Schedulers -> Nat]
        <5>1. CASE Settles(s)
          <6>1. CASE EndTick(s)
            BY <6>1 DEF EndTick, Goto, LeaseTypes, PcStates
          <6>2. CASE BackToTick(s)
            BY <6>2 DEF BackToTick, Goto, LeaseTypes, PcStates
          <6>3. QED
            BY <5>1, <6>1, <6>2 DEF Settles
        <5>2. CASE TakesUp(s)
          BY <5>2 DEF TakesUp, Goto, LeaseTypes, PcStates
        <5>3. CASE MovesOn(s)
          BY <5>3 DEF MovesOn, Goto, LeaseTypes
        <5>4. QED
          BY <3>1, <5>1, <5>2, <5>3 DEF Quiet
      <4>2. QED
        BY <3>1, <4>1 DEF Quiet, LeaseTypes
    <3>2. ASSUME NEW w \in Windows, AcquireLease(s, w)
          PROVE  LeaseTypes'
      BY <3>2, LeaseAssumption
      DEF AcquireLease, LeaseUntil, Goto, LeaseTypes, PcStates
    <3>3. CASE CheckVeto(s)
      <4>1. EndTick(s) \/ (Goto(s, "execute") /\ win' = win /\ now' = now)
        BY <3>3 DEF CheckVeto
      <4>2. executions' \in [Windows -> Nat]
        BY <3>3 DEF CheckVeto, LeaseTypes
      <4>3. UNCHANGED <<clock, lease, evaluations>>
        BY <3>3 DEF CheckVeto
      <4>4. CASE EndTick(s)
        BY <4>2, <4>3, <4>4 DEF EndTick, Goto, LeaseTypes, PcStates
      <4>5. CASE Goto(s, "execute") /\ win' = win /\ now' = now
        BY <4>2, <4>3, <4>5 DEF Goto, LeaseTypes, PcStates
      <4>6. QED
        BY <4>1, <4>4, <4>5
    <3>4. QED
      BY <2>5, <3>1, <3>2, <3>3, QuietSteps
  <2>6. CASE UNCHANGED vars
    BY <2>6 DEF vars, locals, faults, history, LeaseTypes
  <2>7. QED
    BY <2>1, <2>2, <2>3, <2>4, <2>5, <2>6 DEF Next
<1>3. QED
  BY <1>1, <1>2, PTL DEF Spec

-----------------------------------------------------------------------------
\* LeaseInv only looks at the lease, the two counters and who is about to
\* execute: a step that leaves those alone, or takes a process out, keeps it.
LEMMA LeaseInvKept ==
  ASSUME LeaseInv,
         UNCHANGED <<lease, evaluations, executions>>,
         \A s \in Schedulers, w \in Windows :
           AboutToExecute(s, w)' => AboutToExecute(s, w)
  PROVE  LeaseInv'
<1>1. \A w \in Windows : lease[w]' = lease[w] /\ evaluations[w]' = evaluations[w]
                         /\ executions[w]' = executions[w]
  OBVIOUS
<1>2. QED
  BY <1>1 DEF LeaseInv

\* The lease argument is inductive.
LEMMA LeaseInvInductive ==
  ASSUME LeaseTypes, LeaseTypes', LeaseInv, [Next]_vars
  PROVE  LeaseInv'
<1>1. CASE Pass
  BY <1>1, LeaseInvKept DEF Pass, locals, history, AboutToExecute
<1>2. ASSUME NEW w \in Windows, Veto(w)
      PROVE  LeaseInv'
  BY <1>2, LeaseInvKept DEF Veto, locals, AboutToExecute
<1>3. ASSUME NEW s \in Schedulers, Tick(s)
      PROVE  LeaseInv'
  BY <1>3, LeaseInvKept DEF Tick, Goto, history, AboutToExecute, LeaseTypes
<1>4. ASSUME NEW s \in Schedulers, Crash(s)
      PROVE  LeaseInv'
  BY <1>4, LeaseInvKept DEF Crash, CutOff, EndTick, Goto, history, AboutToExecute, LeaseTypes
<1>5. ASSUME NEW s \in Schedulers, Quiet(s)
      PROVE  LeaseInv'
  <2>1. \A r \in Schedulers, w \in Windows :
          AboutToExecute(r, w)' => AboutToExecute(r, w)
    BY <1>5 DEF Quiet, Settles, TakesUp, MovesOn, EndTick, BackToTick, Goto,
                AboutToExecute, LeaseTypes
  <2>2. QED
    BY <1>5, <2>1, LeaseInvKept DEF Quiet
<1>6. ASSUME NEW s \in Schedulers, NEW w \in Windows, AcquireLease(s, w)
      PROVE  LeaseInv'
  <2>1. lease[w] <= now[s] /\ lease'[w] = now[s] + LeaseTtl
    BY <1>6 DEF AcquireLease, LeaseUntil, LeaseTypes
  <2>2. /\ evaluations[w] \in Nat /\ executions[w] \in Nat
        /\ lease[w] \in Nat /\ now[s] \in Nat
        /\ EvalAt[w] \in Nat /\ ExecAt[w] \in Nat
    BY TimesAssumption DEF LeaseTypes
  <2>3. /\ evaluations[w] <= 1
        /\ evaluations[w] = 1 => lease[w] >= EvalAt[w] + TicksPerMinute
        /\ executions[w] <= 1
        /\ executions[w] = 1 => lease[w] >= ExecAt[w] + TicksPerMinute
    BY DEF LeaseInv
  <2>4. CASE ExecutionDue(w, now[s])
    <3>1. executions[w] = 0
      BY <2>1, <2>2, <2>3, <2>4, LeaseAssumption DEF ExecutionDue
    <3>2. \A r \in Schedulers : ~ AboutToExecute(r, w)
      BY <2>1, <2>2, <2>4, LeaseAssumption DEF LeaseInv, ExecutionDue
    <3>3. lease'[w] >= ExecAt[w] + TicksPerMinute
      BY <2>1, <2>2, <2>4, LeaseAssumption DEF ExecutionDue
    <3>4. lease'[w] > lease[w]
      BY <2>1, <2>2, LeaseAssumption
    <3>5. UNCHANGED <<evaluations, executions>>
      BY <1>6, <2>4 DEF AcquireLease
    <3>6. \A r \in Schedulers, v \in Windows :
            AboutToExecute(r, v)' => (AboutToExecute(r, v) \/ (r = s /\ v = w))
      BY <1>6 DEF AcquireLease, Goto, AboutToExecute, LeaseTypes
    <3>7. \A v \in Windows : v # w => lease'[v] = lease[v]
      BY <1>6 DEF AcquireLease, LeaseTypes
    <3>8. QED
      BY <3>1, <3>2, <3>3, <3>4, <3>5, <3>6, <3>7, TimesAssumption, LeaseAssumption
      DEF LeaseInv, LeaseTypes
  <2>5. CASE ~ ExecutionDue(w, now[s])
    <3>1. EvaluationDue(w, now[s])
      BY <1>6, <2>5 DEF AcquireLease, Due
    <3>2. evaluations[w] = 0
      BY <2>1, <2>2, <2>3, <3>1, LeaseAssumption DEF EvaluationDue
    <3>3. lease'[w] >= EvalAt[w] + TicksPerMinute
      BY <2>1, <2>2, <3>1, LeaseAssumption DEF EvaluationDue
    <3>4. lease'[w] > lease[w]
      BY <2>1, <2>2, LeaseAssumption
    <3>5. executions' = executions /\ evaluations' = [evaluations EXCEPT ![w] = @ + 1]
      BY <1>6, <2>5 DEF AcquireLease
    <3>6. \A r \in Schedulers, v \in Windows :
            AboutToExecute(r, v)' => AboutToExecute(r, v)
      BY <1>6, <2>5 DEF AcquireLease, Goto, AboutToExecute, LeaseTypes
    <3>7. \A v \in Windows : v # w => lease'[v] = lease[v] /\ evaluations'[v] = evaluations[v]
      BY <1>6, <3>5 DEF AcquireLease, LeaseTypes
    <3>8. evaluations'[w] = 1
      BY <3>2, <3>5 DEF LeaseTypes
    <3>9. ASSUME NEW v \in Windows
          PROVE  /\ evaluations'[v] <= 1
                 /\ evaluations'[v] = 1 => lease'[v] >= EvalAt[v] + TicksPerMinute
                 /\ lease'[v] >= lease[v]
      BY <2>2, <3>3, <3>4, <3>7, <3>8 DEF LeaseInv, LeaseTypes
    <3>10. ASSUME NEW v \in Windows, lease[v] >= ExecAt[v] + TicksPerMinute
           PROVE  lease'[v] >= ExecAt[v] + TicksPerMinute
      BY <3>9, <3>10, TimesAssumption, LeaseAssumption DEF LeaseTypes
    <3>11. QED
      BY <3>5, <3>6, <3>9, <3>10 DEF LeaseInv
  <2>6. QED
    BY <2>4, <2>5
<1>7. ASSUME NEW s \in Schedulers, CheckVeto(s)
      PROVE  LeaseInv'
  <2>1. UNCHANGED <<lease, evaluations>>
    BY <1>7 DEF CheckVeto
  <2>2. CASE "operator_veto" \in artifacts[win[s]]
    <3>1. EndTick(s) /\ UNCHANGED executions
      BY <1>7, <2>2 DEF CheckVeto
    <3>2. QED
      BY <2>1, <3>1, LeaseInvKept DEF EndTick, Goto, AboutToExecute, LeaseTypes
  <2>3. CASE "operator_veto" \notin artifacts[win[s]]
    <3>1. /\ Goto(s, "execute") /\ win' = win
          /\ executions' = [executions EXCEPT ![win[s]] = @ + 1]
      BY <1>7, <2>3 DEF CheckVeto
    <3>2. \A r \in Schedulers, w \in Windows :
            AboutToExecute(r, w)' => AboutToExecute(r, w) /\ r # s
      BY <3>1 DEF Goto, AboutToExecute, LeaseTypes
    <3>3. \A w \in Windows : w # win[s] => executions'[w] = executions[w]
      BY <3>1 DEF LeaseTypes
    <3>4. ASSUME NEW w \in Windows, w = win[s]
          PROVE  /\ executions[w] = 0 /\ executions'[w] = 1
                 /\ lease[w] >= ExecAt[w] + TicksPerMinute
                 /\ \A r \in Schedulers : AboutToExecute(r, w) => r = s
      <4>1. AboutToExecute(s, w)
        BY <1>7, <3>4 DEF CheckVeto, AboutToExecute
      <4>2. QED
        BY <3>1, <3>4, <4>1 DEF LeaseInv, LeaseTypes
    <3>5. QED
      BY <2>1, <3>2, <3>3, <3>4 DEF LeaseInv, LeaseTypes
  <2>4. QED
    BY <2>2, <2>3
<1>8. CASE UNCHANGED vars
  BY <1>8, LeaseInvKept DEF vars, locals, faults, history, AboutToExecute
<1>9. QED
  BY <1>1, <1>2, <1>3, <1>4, <1>5, <1>6, <1>7, <1>8, QuietSteps DEF Next

\* No window is evaluated twice and no certificate executed twice, however many
\* processes tick, however late they use the time their tick was started with,
\* and wherever they crash: the lease outlasts the minute a window is due.
THEOREM OneAttempt == Spec => []OneAttemptPerWindow
<1>1. Init => LeaseInv
  BY DEF Init, LeaseInv, AboutToExecute
<1>2. LeaseTypes /\ LeaseTypes' /\ LeaseInv /\ [Next]_vars => LeaseInv'
  BY LeaseInvInductive
<1>3. LeaseInv => OneAttemptPerWindow
  BY DEF LeaseInv, OneAttemptPerWindow
<1>4. QED
  BY <1>1, <1>2, <1>3, LeaseTypesInvariant, PTL DEF Spec
-----------------------------------------------------------------------------
(* The operator's veto and the evidence behind the events.                 *)

USE DEF ledger, orders, locals, faults, history

\* The events a close may yet append.
CloseMoves == {"MANAGING", "CLOSED", "HALTED"}

\* Why an early veto holds: it is in the ledger for every execution still to start, and
\* only a case whose execution was started has an entry intent to poll or can have
\* been submitted.
VetoRow(w) ==
  /\ vetoed[w] = "before" => "operator_veto" \in artifacts[w] /\ executions[w] = 0
  /\ caseState[w] \in {"SUBMITTED", "MANAGING", "CLOSED"} \/ w \in openIntent
       => executions[w] > 0

\* What EveryEventHasItsArtifact says of one window.
EvidenceRow(w) ==
  /\ \A i \in DOMAIN log[w] :
       log[w][i] \in DOMAIN ArtifactOf \ {"HALTED"} => ArtifactOf[log[w][i]] \in artifacts[w]
  /\ caseState[w] \in {"CERTIFIED", "REFUSED"} => "candidate_structures" \in artifacts[w]
  /\ caseState[w] \in {"SUBMITTED", "MANAGING"} => "execution_record" \in artifacts[w]

\* A process executes what was started; an evaluation about to append has saved what
\* the event rests on, and one with a verdict has saved the candidates it judged.  A
\* close checked its event in a state only an execution leads to.
LocalInv(s) ==
  /\ events[s] \in Seq(CloseMoves)
  /\ pc[s] \in {"execute", "claimed", "poll"} => executions[win[s]] > 0
  /\ pc[s] \in {"append", "write"} => ArtifactOf[stage[s]] \in artifacts[win[s]]
  /\ pc[s] \in {"save", "append", "write"} /\ stage[s] \in {"CERTIFIED", "REFUSED"}
       => "candidate_structures" \in artifacts[win[s]]
  /\ pc[s] = "closeWrite" /\ Head(events[s]) \in {"MANAGING", "CLOSED"}
       => executions[win[s]] > 0
  /\ pc[s] = "closeWrite" /\ Head(events[s]) = "MANAGING"
       => "execution_record" \in artifacts[win[s]]

CaseInv ==
  /\ \A w \in Windows : VetoRow(w) /\ EvidenceRow(w)
  /\ \A s \in Schedulers : LocalInv(s)

Others(s) ==
  \A r \in Schedulers \ {s} :
    pc'[r] = pc[r] /\ win'[r] = win[r] /\ stage'[r] = stage[r] /\ events'[r] = events[r]

\* Artifacts are only added, executions only counted.
Grows ==
  \A w \in Windows : artifacts[w] \subseteq artifacts'[w] /\ executions[w] <= executions'[w]

\* What another process does leaves what this one relies on.
LEMMA OthersKept ==
  ASSUME Shape, Shape', CaseInv, NEW s \in Schedulers, Others(s), Grows, LocalInv(s)'
  PROVE  \A r \in Schedulers : LocalInv(r)'
<1> SUFFICES ASSUME NEW r \in Schedulers \ {s} PROVE LocalInv(r)'
  OBVIOUS
<1>1. LocalInv(r) /\ UNCHANGED <<pc[r], win[r], stage[r], events[r]>>
  BY DEF CaseInv, Others
<1>2. CASE pc[r] \in {"idle", "tick"}
  BY <1>1, <1>2 DEF LocalInv
<1>3. CASE pc[r] \notin {"idle", "tick"}
  <2>1. win[r] \in Windows
    BY <1>3 DEF Shape, LocalTypes, Located
  <2>2. /\ artifacts[win[r]] \subseteq artifacts'[win[r]]
        /\ executions[win[r]] \in Nat /\ executions'[win[r]] \in Nat
        /\ executions[win[r]] <= executions'[win[r]]
    BY <2>1 DEF Grows, Shape, OtherTypes
  <2> QED  BY <1>1, <2>2 DEF LocalInv
<1> QED  BY <1>2, <1>3

\* A step that leaves the case rows, their artifacts and their intents alone.
LEMMA QuietCases ==
  ASSUME Shape, Shape', CaseInv, NEW s \in Schedulers, Others(s), LocalInv(s)',
         UNCHANGED <<caseState, log, artifacts, openIntent, executions, vetoed>>
  PROVE  CaseInv'
<1>1. Grows
  BY DEF Grows, Shape, OtherTypes
<1>2. \A w \in Windows : (VetoRow(w) /\ EvidenceRow(w))'
  BY DEF CaseInv, VetoRow, EvidenceRow
<1> QED  BY <1>1, <1>2, OthersKept DEF CaseInv

LEMMA EndTickCases ==
  ASSUME Shape, NEW s \in Schedulers, EndTick(s)
  PROVE  Others(s) /\ LocalInv(s)'
<1>1. pc'[s] = "idle" /\ events'[s] = << >>
  BY DEF EndTick, Goto, Shape, LocalTypes
<1>2. << >> \in Seq(CloseMoves)
  OBVIOUS
<1> QED  BY <1>1, <1>2 DEF EndTick, Goto, Shape, LocalTypes, Others, LocalInv

\* A failing call starts the halt record, which rests on nothing.
LEMMA RaiseCases ==
  ASSUME Shape, CaseInv, NEW s \in Schedulers, Raise(s)
  PROVE  Others(s) /\ LocalInv(s)'
<1>1. CASE stage[s] = "HALTED"
  BY <1>1, EndTickCases DEF Raise, CutOff
<1>2. CASE stage[s] # "HALTED"
  <2>1. /\ Goto(s, "save") /\ stage' = [stage EXCEPT ![s] = "HALTED"]
        /\ UNCHANGED <<win, now, events>>
    BY <1>2 DEF Raise
  <2>2. pc'[s] = "save" /\ stage'[s] = "HALTED" /\ events'[s] \in Seq(CloseMoves)
    BY <2>1 DEF Goto, Shape, LocalTypes, CaseInv, LocalInv
  <2>3. LocalInv(s)'
    BY <2>2 DEF LocalInv
  <2> QED  BY <2>1, <2>3 DEF Goto, Shape, LocalTypes, Others
<1> QED  BY <1>1, <1>2

\* The steps that only move their process.
LEMMA QuietProcessSteps ==
  ASSUME Shape, Shape', CaseInv, NEW s \in Schedulers,
         \/ Tick(s) \/ Skip(s) \/ TickRaises(s) \/ Crash(s) \/ LoadPending(s)
         \/ StageFails(s) \/ AppendRefused(s)
         \/ \E w \in Windows : LeaseHeld(s, w) \/ AcquireLease(s, w) \/ Poll(s, w)
         \/ \E w \in Windows, outcome \in CloseOutcomes : CloseRead(s, w, outcome)
  PROVE  CaseInv'
<1>0. UNCHANGED <<caseState, log, artifacts, openIntent, executions, vetoed>>
  BY DEF Tick, Skip, TickRaises, Crash, LoadPending, StageFails, AppendRefused, LeaseHeld,
         AcquireLease, Poll, CloseRead
<1>1. SUFFICES Others(s) /\ LocalInv(s)'
  BY <1>0, QuietCases
<1>2. CASE EndTick(s)
  BY <1>2, EndTickCases
<1>3. CASE Raise(s)
  BY <1>3, RaiseCases
<1>4. ASSUME NEW label \in {"tick", "check", "pending", "create"}, Goto(s, label),
             UNCHANGED <<stage, events>>,
             win' = win \/ \E w \in Windows : win' = [win EXCEPT ![s] = w]
      PROVE  Others(s) /\ LocalInv(s)'
  <2>1. pc'[s] = label /\ events'[s] \in Seq(CloseMoves)
    BY <1>4 DEF Goto, Shape, LocalTypes, CaseInv, LocalInv
  <2>2. LocalInv(s)'
    BY <2>1 DEF LocalInv
  <2> QED  BY <1>4, <2>2 DEF Goto, Shape, LocalTypes, Others
<1>5. ASSUME NEW w \in Windows, Poll(s, w) PROVE Others(s) /\ LocalInv(s)'
  <2>1. pc'[s] = "poll" /\ win'[s] = w /\ events'[s] \in Seq(CloseMoves) /\ executions'[w] > 0
    BY <1>0, <1>5 DEF Poll, Goto, Shape, LocalTypes, CaseInv, LocalInv, VetoRow
  <2>2. LocalInv(s)'
    BY <2>1 DEF LocalInv
  <2> QED  BY <1>5, <2>2 DEF Poll, Goto, Shape, LocalTypes, Others
<1>6. ASSUME NEW w \in Windows, NEW outcome \in CloseOutcomes, CloseRead(s, w, outcome)
      PROVE  Others(s) /\ LocalInv(s)'
  <2>1. CloseEvents(caseState[w], outcome) \in Seq(CloseMoves)
    BY DEF CloseEvents, CloseMoves
  <2>2. pc'[s] = "closing" /\ events'[s] \in Seq(CloseMoves)
    BY <1>6, <2>1 DEF CloseRead, Goto, Shape, LocalTypes
  <2>3. LocalInv(s)'
    BY <2>2 DEF LocalInv
  <2> QED  BY <1>6, <2>3 DEF CloseRead, Goto, Shape, LocalTypes, Others
<1>7. CASE Tick(s)
  BY <1>4, <1>7 DEF Tick
<1>8. CASE Skip(s) \/ TickRaises(s) \/ Crash(s) \/ \E w \in Windows : LeaseHeld(s, w)
  BY <1>2, <1>8 DEF Skip, TickRaises, Crash, CutOff, LeaseHeld
<1>9. CASE LoadPending(s)
  BY <1>2, <1>4, <1>9 DEF LoadPending
<1>10. CASE StageFails(s) \/ AppendRefused(s)
  BY <1>2, <1>3, <1>10 DEF StageFails, AppendRefused
<1>11. ASSUME NEW w \in Windows, AcquireLease(s, w) PROVE Others(s) /\ LocalInv(s)'
  BY <1>4, <1>11 DEF AcquireLease
<1> QED  BY <1>5, <1>6, <1>7, <1>8, <1>9, <1>10, <1>11
-----------------------------------------------------------------------------
(* The steps that write a case, an artifact, an intent or an execution.     *)

\* The window and the process of a step past its lease.
LEMMA AtWindow ==
  ASSUME Shape, NEW s \in Schedulers, pc[s] \notin {"idle", "tick"}
  PROVE  /\ win[s] \in Windows /\ stage[s] \in DOMAIN ArtifactOf
         /\ executions[win[s]] \in Nat
         /\ log[win[s]] \in Seq(CaseEvents)
BY DEF Shape, LocalTypes, LedgerTypes, OtherTypes, Located

\* A process that works on without new events and without a claim on its new label.
LEMMA WorksOn ==
  ASSUME Shape, CaseInv, NEW s \in Schedulers, NEW label \in {"save", "judge"},
         NEW next \in DOMAIN ArtifactOf, Goto(s, label), UNCHANGED <<win, events>>,
         stage' = stage \/ stage' = [stage EXCEPT ![s] = next],
         label = "save" => stage'[s] \notin {"CERTIFIED", "REFUSED"}
  PROVE  Others(s) /\ LocalInv(s)'
<1>1. pc'[s] = label /\ events'[s] \in Seq(CloseMoves)
  BY DEF Goto, Shape, LocalTypes, CaseInv, LocalInv
<1>2. LocalInv(s)'
  BY <1>1 DEF LocalInv
<1> QED  BY <1>2 DEF Goto, Shape, LocalTypes, Others

\* One event that evaluate may append, with its artifact and, for a verdict, the
\* candidates saved.
LEMMA EventWithEvidence ==
  ASSUME Shape, CaseInv, NEW w \in Windows, NEW e \in CaseEvents,
         caseState' = [caseState EXCEPT ![w] = e], log' = [log EXCEPT ![w] = Append(@, e)],
         UNCHANGED <<artifacts, openIntent, executions, vetoed>>,
         e \in DOMAIN ArtifactOf \ {"HALTED"} => ArtifactOf[e] \in artifacts[w],
         e \in {"CERTIFIED", "REFUSED"} => "candidate_structures" \in artifacts[w],
         e \in {"SUBMITTED", "MANAGING"} => "execution_record" \in artifacts[w],
         e \in {"SUBMITTED", "MANAGING", "CLOSED"} => executions[w] > 0
  PROVE  Grows /\ \A v \in Windows : (VetoRow(v) /\ EvidenceRow(v))'
<1>1. Grows
  BY DEF Grows, Shape, OtherTypes
<1>2. ASSUME NEW v \in Windows \ {w} PROVE (VetoRow(v) /\ EvidenceRow(v))'
  <2>1. log'[v] = log[v] /\ caseState'[v] = caseState[v]
    BY DEF Shape, LedgerTypes
  <2> QED  BY <2>1 DEF CaseInv, VetoRow, EvidenceRow
<1>3. log'[w] = Append(log[w], e) /\ caseState'[w] = e /\ log[w] \in Seq(CaseEvents)
  BY DEF Shape, LedgerTypes
<1>4. VetoRow(w)'
  BY <1>3 DEF CaseInv, VetoRow
<1>5. ASSUME NEW i \in DOMAIN log'[w], log'[w][i] \in DOMAIN ArtifactOf \ {"HALTED"}
      PROVE  ArtifactOf[log'[w][i]] \in artifacts[w]
  <2>1. log'[w][i] = e \/ (i \in DOMAIN log[w] /\ log'[w][i] = log[w][i])
    BY <1>3, <1>5
  <2> QED  BY <1>5, <2>1 DEF CaseInv, EvidenceRow
<1>6. EvidenceRow(w)'
  BY <1>3, <1>5 DEF EvidenceRow
<1> QED  BY <1>1, <1>2, <1>4, <1>6

LEMMA CreateCases ==
  ASSUME Shape, Shape', CaseInv, NEW s \in Schedulers, CreateScheduled(s)
  PROVE  CaseInv'
<1>1. win[s] \in Windows  BY AtWindow DEF CreateScheduled
<1>2. CASE caseState[win[s]] = "NONE"
  <2>1. /\ caseState' = [caseState EXCEPT ![win[s]] = "SCHEDULED"]
        /\ UNCHANGED <<log, artifacts, openIntent, executions, vetoed>>
    BY <1>2 DEF CreateScheduled
  <2>2. Others(s) /\ LocalInv(s)'
    <3>1. CASE CutOff(s)  BY <3>1, EndTickCases DEF CutOff
    <3>2. CASE /\ Goto(s, "save") /\ stage' = [stage EXCEPT ![s] = "OBSERVED"]
               /\ UNCHANGED <<win, events>>
      <4>1. stage'[s] = "OBSERVED"  BY <3>2 DEF Shape, LocalTypes
      <4> QED  BY <3>2, <4>1, WorksOn, Names
    <3> QED  BY <1>2, <3>1, <3>2 DEF CreateScheduled
  <2>3. Grows  BY <2>1 DEF Grows, Shape, OtherTypes
  <2>4. ASSUME NEW v \in Windows PROVE (VetoRow(v) /\ EvidenceRow(v))'
    <3>1. caseState'[v] = caseState[v] \/ caseState'[v] = "SCHEDULED"
      BY <2>1 DEF Shape, LedgerTypes
    <3> QED  BY <2>1, <3>1 DEF CaseInv, VetoRow, EvidenceRow
  <2> QED  BY <2>2, <2>3, <2>4, OthersKept DEF CaseInv
<1>3. CASE caseState[win[s]] # "NONE"
  BY <1>3, EndTickCases, QuietCases DEF CreateScheduled
<1> QED  BY <1>2, <1>3

\* An artifact saved.
LEMMA ArtifactSaved ==
  ASSUME Shape, CaseInv, NEW w \in Windows, NEW a,
         artifacts' = [artifacts EXCEPT ![w] = @ \cup {a}],
         UNCHANGED <<caseState, log, openIntent, executions>>,
         \A v \in Windows : vetoed'[v] = "before" =>
           vetoed[v] = "before" \/ (v = w /\ a = "operator_veto" /\ executions[w] = 0)
  PROVE  Grows /\ a \in artifacts'[w] /\ \A v \in Windows : (VetoRow(v) /\ EvidenceRow(v))'
<1>1. \A v \in Windows : artifacts[v] \subseteq artifacts'[v]
  BY DEF Shape, LedgerTypes
<1>2. a \in artifacts'[w]
  BY DEF Shape, LedgerTypes
<1>3. Grows
  BY <1>1 DEF Grows, Shape, OtherTypes
<1>4. ASSUME NEW v \in Windows PROVE VetoRow(v)'
  BY <1>1, <1>2 DEF CaseInv, VetoRow
<1>5. ASSUME NEW v \in Windows PROVE EvidenceRow(v)'
  BY <1>1 DEF CaseInv, EvidenceRow
<1> QED  BY <1>2, <1>3, <1>4, <1>5

LEMMA ArtifactCases ==
  ASSUME Shape, Shape', CaseInv, NEW s \in Schedulers,
         SaveArtifact(s) \/ \E verdict \in {"CERTIFIED", "REFUSED"} : Judge(s, verdict)
  PROVE  CaseInv'
<1>1. win[s] \in Windows  BY AtWindow DEF SaveArtifact, Judge
<1>2. CASE SaveArtifact(s)
  <2>1. /\ artifacts' = [artifacts EXCEPT ![win[s]] = @ \cup {ArtifactOf[stage[s]]}]
        /\ UNCHANGED <<caseState, log, openIntent, executions, vetoed, win, stage, events>>
        /\ pc[s] = "save" /\ Goto(s, "append")
    BY <1>2 DEF SaveArtifact
  <2>2. /\ Grows /\ ArtifactOf[stage[s]] \in artifacts'[win[s]]
        /\ \A v \in Windows : (VetoRow(v) /\ EvidenceRow(v))'
    BY <1>1, <2>1, ArtifactSaved
  <2>3. pc'[s] = "append" /\ Others(s)
    BY <2>1 DEF Goto, Others, Shape, LocalTypes
  <2>4. artifacts[win[s]] \subseteq artifacts'[win[s]]
    BY <1>1, <2>2 DEF Grows
  <2>5. LocalInv(s)'
    BY <2>1, <2>2, <2>3, <2>4 DEF LocalInv, CaseInv
  <2> QED  BY <2>2, <2>3, <2>5, OthersKept DEF CaseInv
<1>3. ASSUME NEW verdict \in {"CERTIFIED", "REFUSED"}, Judge(s, verdict) PROVE CaseInv'
  <2>1. /\ artifacts' = [artifacts EXCEPT ![win[s]] = @ \cup {"candidate_structures"}]
        /\ UNCHANGED <<caseState, log, openIntent, executions, vetoed, win, events>>
        /\ Goto(s, "save") /\ stage' = [stage EXCEPT ![s] = verdict]
    BY <1>3 DEF Judge
  <2>2. /\ Grows /\ "candidate_structures" \in artifacts'[win[s]]
        /\ \A v \in Windows : (VetoRow(v) /\ EvidenceRow(v))'
    BY <1>1, <2>1, ArtifactSaved
  <2>3. pc'[s] = "save" /\ Others(s)
    BY <2>1 DEF Goto, Others, Shape, LocalTypes
  <2>4. LocalInv(s)'
    BY <2>1, <2>2, <2>3 DEF LocalInv, CaseInv
  <2> QED  BY <2>2, <2>3, <2>4, OthersKept DEF CaseInv
<1> QED  BY <1>2, <1>3

LEMMA VetoCases ==
  ASSUME Shape, Shape', CaseInv, NEW w \in Windows, Veto(w)
  PROVE  CaseInv'
<1>1. /\ artifacts' = [artifacts EXCEPT ![w] = @ \cup {"operator_veto"}]
      /\ UNCHANGED <<caseState, log, openIntent, executions, pc, win, stage, events>>
      /\ \A v \in Windows : vetoed'[v] = "before" =>
           vetoed[v] = "before" \/ (v = w /\ executions[w] = 0)
  BY DEF Veto, Shape, OtherTypes
<1>2. Grows /\ \A v \in Windows : (VetoRow(v) /\ EvidenceRow(v))'
  BY <1>1, ArtifactSaved
<1>3. \A s \in Schedulers : LocalInv(s)'
  <2> SUFFICES ASSUME NEW s \in Schedulers PROVE LocalInv(s)'
    OBVIOUS
  <2>1. CASE pc[s] \in {"idle", "tick"}  BY <1>1, <2>1 DEF LocalInv, CaseInv
  <2>2. CASE pc[s] \notin {"idle", "tick"}
    <3>1. artifacts[win[s]] \subseteq artifacts'[win[s]]  BY <1>2, <2>2, AtWindow DEF Grows
    <3> QED  BY <1>1, <3>1 DEF LocalInv, CaseInv
  <2> QED  BY <2>1, <2>2
<1> QED  BY <1>2, <1>3 DEF CaseInv

LEMMA AppendCases ==
  ASSUME Shape, Shape', CaseInv, NEW s \in Schedulers, AppendEvent(s)
  PROVE  CaseInv'
<1> DEFINE w == win[s]
           e == stage[s]
<1>1. w \in Windows /\ e \in DOMAIN ArtifactOf /\ e \in CaseEvents
  BY AtWindow, Names DEF AppendEvent
<1>2. /\ caseState' = [caseState EXCEPT ![w] = e] /\ log' = [log EXCEPT ![w] = Append(@, e)]
      /\ UNCHANGED <<artifacts, openIntent, executions, vetoed>>
      /\ pc[s] = "write"
  BY DEF AppendEvent
<1>3. /\ ArtifactOf[e] \in artifacts[w]
      /\ e \in {"CERTIFIED", "REFUSED"} => "candidate_structures" \in artifacts[w]
      /\ e \notin {"SUBMITTED", "MANAGING", "CLOSED"}
  BY <1>1, <1>2, Names DEF CaseInv, LocalInv
<1> HIDE DEF w, e
<1>4. Grows /\ \A v \in Windows : (VetoRow(v) /\ EvidenceRow(v))'
  BY <1>1, <1>2, <1>3, EventWithEvidence
<1> USE DEF w, e
<1>5. Others(s) /\ LocalInv(s)'
  <2>1. CASE Raise(s)  BY <2>1, RaiseCases
  <2>2. CASE Advance(s)
    <3>1. CASE EndTick(s)  BY <3>1, EndTickCases
    <3>2. ASSUME NEW next \in {"FORECASTED", "ARGUED"}, Goto(s, "save"),
                 stage' = [stage EXCEPT ![s] = next], UNCHANGED <<win, events>>
          PROVE  Others(s) /\ LocalInv(s)'
      <4>1. stage'[s] = next /\ next \in DOMAIN ArtifactOf
        BY <3>2, Names DEF Shape, LocalTypes
      <4> QED  BY <3>2, <4>1, WorksOn
    <3>3. CASE Goto(s, "judge") /\ UNCHANGED <<win, stage, events>>
      BY <1>1, <3>3, WorksOn
    <3> QED  BY <2>2, <3>1, <3>2, <3>3 DEF Advance
  <2> QED  BY <2>1, <2>2 DEF AppendEvent
<1> QED  BY <1>4, <1>5, OthersKept DEF CaseInv

\* An execution starts only without a veto, and a claim only after an execution.
LEMMA ExecutionCases ==
  ASSUME Shape, Shape', CaseInv, NEW s \in Schedulers, CheckVeto(s) \/ ClaimIntent(s)
  PROVE  CaseInv'
<1>1. win[s] \in Windows /\ executions[win[s]] \in Nat
  BY AtWindow DEF CheckVeto, ClaimIntent
<1>2. CASE CheckVeto(s) /\ "operator_veto" \in artifacts[win[s]]
  BY <1>2, EndTickCases, QuietCases DEF CheckVeto
<1>3. CASE CheckVeto(s) /\ "operator_veto" \notin artifacts[win[s]]
  <2>1. /\ Goto(s, "execute") /\ executions' = [executions EXCEPT ![win[s]] = @ + 1]
        /\ UNCHANGED <<win, stage, events, caseState, log, artifacts, openIntent, vetoed>>
    BY <1>3 DEF CheckVeto
  <2>2. \A v \in Windows : executions'[v] >= executions[v] /\ executions[v] \in Nat
                           /\ (v # win[s] => executions'[v] = executions[v])
    BY <2>1 DEF Shape, OtherTypes
  <2>3. Grows
    BY <2>1, <2>2 DEF Grows, Shape, OtherTypes
  <2>4. ASSUME NEW v \in Windows PROVE VetoRow(v)'
    BY <1>3, <2>1, <2>2 DEF CaseInv, VetoRow
  <2>5. ASSUME NEW v \in Windows PROVE EvidenceRow(v)'
    BY <2>1 DEF CaseInv, EvidenceRow
  <2>6. executions'[win[s]] > 0 /\ pc'[s] = "execute" /\ Others(s)
    BY <1>1, <2>1 DEF Goto, Others, Shape, LocalTypes, OtherTypes
  <2>7. LocalInv(s)'
    BY <2>1, <2>6 DEF LocalInv, CaseInv
  <2> QED  BY <2>3, <2>4, <2>5, <2>6, <2>7, OthersKept DEF CaseInv
<1>4. CASE ClaimIntent(s)
  <2>1. /\ pc[s] = "execute" /\ Goto(s, "claimed") /\ openIntent' = openIntent \cup {win[s]}
        /\ UNCHANGED <<win, stage, events, caseState, log, artifacts, executions, vetoed>>
    BY <1>4 DEF ClaimIntent
  <2>2. executions[win[s]] > 0
    BY <2>1 DEF CaseInv, LocalInv
  <2>3. Grows
    BY <2>1 DEF Grows, Shape, OtherTypes
  <2>4. ASSUME NEW v \in Windows PROVE (VetoRow(v) /\ EvidenceRow(v))'
    BY <2>1, <2>2 DEF CaseInv, VetoRow, EvidenceRow
  <2>5. pc'[s] = "claimed" /\ Others(s)
    BY <2>1 DEF Goto, Others, Shape, LocalTypes
  <2>6. LocalInv(s)'
    BY <2>1, <2>2, <2>5 DEF LocalInv, CaseInv
  <2> QED  BY <2>3, <2>4, <2>5, <2>6, OthersKept DEF CaseInv
<1> QED  BY <1>2, <1>3, <1>4
\* An execution's outcome: its events, its record and its intent in one transaction.
LEMMA RecordCases ==
  ASSUME Shape, Shape', CaseInv, NEW s \in Schedulers, NEW outcome \in EntryOutcomes,
         NEW fill \in BOOLEAN, Record(s, outcome, fill)
  PROVE  CaseInv'
<1> SUFFICES ASSUME NEW w, w = win[s] PROVE CaseInv'
  OBVIOUS
<1> DEFINE appended == EntryEvents(caseState[w], outcome)
<1>1. /\ w \in Windows /\ log[w] \in Seq(CaseEvents) /\ executions[w] > 0
      /\ caseState[w] \in CaseStates \cup {"NONE"}
  BY AtWindow DEF Record, CaseInv, LocalInv, Shape, LedgerTypes
<1>2. /\ caseState' = [caseState EXCEPT ![w] = AfterEvents(@, appended)]
      /\ log' = [log EXCEPT ![w] = @ \o appended]
      /\ artifacts' = [artifacts EXCEPT ![w] = @ \cup {"execution_record"}]
      /\ openIntent' \subseteq openIntent
      /\ UNCHANGED <<executions, vetoed>>
  BY DEF Record, RecordExecution
<1>3. /\ appended \in {<< >>, <<"SUBMITTED">>, <<"MANAGING">>, <<"SUBMITTED", "MANAGING">>,
                       <<"HALTED">>}
      /\ AfterEvents(caseState[w], appended) \in {caseState[w], "SUBMITTED", "MANAGING", "HALTED"}
  <2>1. appended \in {<< >>, <<"SUBMITTED">>, <<"MANAGING">>, <<"SUBMITTED", "MANAGING">>,
                      <<"HALTED">>}
    BY DEF EntryEvents
  <2> HIDE DEF appended
  <2>2. AfterEvents(caseState[w], << >>) = caseState[w]  BY DEF AfterEvents
  <2> QED  BY <2>1, <2>2, AfterOne, AfterTwo
<1> HIDE DEF appended
<1>4. \A v \in Windows : artifacts[v] \subseteq artifacts'[v]
  BY <1>2 DEF Shape, LedgerTypes
<1>5. Grows
  BY <1>2, <1>4 DEF Grows, Shape, OtherTypes
<1>6. ASSUME NEW v \in Windows \ {w} PROVE (VetoRow(v) /\ EvidenceRow(v))'
  <2>1. log'[v] = log[v] /\ caseState'[v] = caseState[v]
    BY <1>2 DEF Shape, LedgerTypes
  <2> QED  BY <1>2, <1>4, <2>1 DEF CaseInv, VetoRow, EvidenceRow
<1>7. /\ log'[w] = log[w] \o appended
      /\ caseState'[w] \in {caseState[w], "SUBMITTED", "MANAGING", "HALTED"}
      /\ "execution_record" \in artifacts'[w]
  BY <1>1, <1>2, <1>3 DEF Shape, LedgerTypes
<1>8. VetoRow(w)'
  BY <1>1, <1>2, <1>4, <1>7 DEF CaseInv, VetoRow
<1>9. ASSUME NEW i \in DOMAIN log'[w], log'[w][i] \in DOMAIN ArtifactOf \ {"HALTED"}
      PROVE  ArtifactOf[log'[w][i]] \in artifacts'[w]
  <2>1. \/ i \in DOMAIN log[w] /\ log'[w][i] = log[w][i]
        \/ \E j \in DOMAIN appended : log'[w][i] = appended[j]
    <3>1. appended \in Seq(CaseEvents)
      <4>1. {"SUBMITTED", "MANAGING", "HALTED"} \subseteq CaseEvents
        BY DEF CaseEvents, CaseStates
      <4>2. /\ << >> \in Seq(CaseEvents)
            /\ \A a \in CaseEvents : <<a>> \in Seq(CaseEvents)
            /\ \A a, b \in CaseEvents : <<a, b>> \in Seq(CaseEvents)
        OBVIOUS
      <4> QED  BY <1>3, <4>1, <4>2
    <3> QED  BY <1>1, <1>7, <1>9, <3>1
  <2>2. \A j \in DOMAIN appended : appended[j] \in {"SUBMITTED", "MANAGING", "HALTED"}
    BY <1>3
  <2>3. i \in DOMAIN log[w] /\ log'[w][i] = log[w][i]
    BY <1>9, <2>1, <2>2, Names
  <2>4. ArtifactOf[log[w][i]] \in artifacts[w]
    BY <1>1, <1>9, <2>3 DEF CaseInv, EvidenceRow
  <2> QED  BY <1>1, <1>4, <2>3, <2>4
<1>10. EvidenceRow(w)'
  <2>1. caseState'[w] \in {"CERTIFIED", "REFUSED"} => caseState'[w] = caseState[w]
    BY <1>7
  <2>2. caseState'[w] \in {"CERTIFIED", "REFUSED"} => "candidate_structures" \in artifacts'[w]
    BY <1>1, <1>4, <2>1 DEF CaseInv, EvidenceRow
  <2> QED  BY <1>7, <1>9, <2>2 DEF EvidenceRow
<1>11. Others(s) /\ LocalInv(s)'
  <2>1. CASE EndTick(s)  BY <2>1, EndTickCases
  <2>2. CASE BackToTick(s)
    <3>1. pc'[s] = "tick" /\ events'[s] = << >>
      BY <2>2 DEF BackToTick, Goto, Shape, LocalTypes
    <3>2. << >> \in Seq(CloseMoves)
      OBVIOUS
    <3>3. LocalInv(s)'
      BY <3>1, <3>2 DEF LocalInv
    <3> QED  BY <2>2, <3>3 DEF BackToTick, Goto, Shape, LocalTypes, Others
  <2> QED  BY <2>1, <2>2 DEF Record
<1> QED  BY <1>1, <1>5, <1>6, <1>8, <1>10, <1>11, OthersKept DEF CaseInv

\* A close appends what a managed case admits: nothing that execution did not start.
LEMMA CloseAppendCases ==
  ASSUME Shape, Shape', CaseInv, NEW s \in Schedulers, CloseAppend(s)
  PROVE  CaseInv'
<1> DEFINE w == win[s]
           e == Head(events[s])
<1>1. /\ w \in Windows /\ events[s] \in Seq(CloseMoves) /\ events[s] # << >>
      /\ e \in CloseMoves
  <2>1. w \in Windows /\ events[s] \in Seq(CloseMoves) /\ events[s] # << >>
    BY DEF CloseAppend, Shape, LocalTypes, Located, CaseInv, LocalInv
  <2> QED  BY <2>1
<1>2. /\ UNCHANGED <<artifacts, openIntent, executions, vetoed>>
      /\ caseState' = [caseState EXCEPT ![w] = e] /\ log' = [log EXCEPT ![w] = Append(@, e)]
  BY DEF CloseAppend
<1>3. /\ e \in CaseEvents /\ e \notin DOMAIN ArtifactOf \ {"HALTED"}
      /\ e \notin {"CERTIFIED", "REFUSED", "SUBMITTED"}
  BY <1>1, Names DEF CloseMoves, CaseEvents, CaseStates
<1>4. /\ e = "MANAGING" => "execution_record" \in artifacts[w]
      /\ e \in {"MANAGING", "CLOSED"} => executions[w] > 0
  BY DEF CloseAppend, CaseInv, LocalInv
<1>5. Grows /\ \A v \in Windows : (VetoRow(v) /\ EvidenceRow(v))'
  <2> HIDE DEF w, e
  <2> QED  BY <1>1, <1>2, <1>3, <1>4, EventWithEvidence
<1>6. Others(s) /\ LocalInv(s)'
  <2>1. CASE EndTick(s)  BY <2>1, EndTickCases
  <2>2. CASE BackToTick(s)
    <3>1. pc'[s] = "tick" /\ events'[s] = << >>
      BY <2>2 DEF BackToTick, Goto, Shape, LocalTypes
    <3>2. << >> \in Seq(CloseMoves)
      OBVIOUS
    <3>3. LocalInv(s)'
      BY <3>1, <3>2 DEF LocalInv
    <3> QED  BY <2>2, <3>3 DEF BackToTick, Goto, Shape, LocalTypes, Others
  <2>3. CASE /\ Goto(s, "closing") /\ events' = [events EXCEPT ![s] = Tail(@)]
             /\ UNCHANGED <<win, now, stage>>
    <3>1. Tail(events[s]) \in Seq(CloseMoves)
      BY <1>1
    <3>2. events'[s] \in Seq(CloseMoves) /\ pc'[s] = "closing"
      BY <2>3, <3>1 DEF Goto, Shape, LocalTypes
    <3>3. LocalInv(s)'
      BY <3>2 DEF LocalInv
    <3> QED  BY <2>3, <3>3 DEF Goto, Shape, LocalTypes, Others
  <2> QED  BY <2>1, <2>2, <2>3 DEF CloseAppend
<1> QED  BY <1>5, <1>6, OthersKept DEF CaseInv

\* An event that passes its check rests on what the state it was checked in rests on.
LEMMA CheckCases ==
  ASSUME Shape, Shape', CaseInv, NEW s \in Schedulers, CheckEvent(s) \/ CloseCheck(s)
  PROVE  CaseInv'
<1>0. UNCHANGED <<caseState, log, artifacts, openIntent, executions, vetoed>>
  BY DEF CheckEvent, CloseCheck
<1>1. SUFFICES Others(s) /\ LocalInv(s)'
  BY <1>0, QuietCases
<1>2. CASE EndTick(s)
  BY <1>2, EndTickCases
<1>3. CASE pc[s] = "append" /\ Goto(s, "write") /\ UNCHANGED <<win, now, stage, events>>
  <2>1. pc'[s] = "write" /\ Others(s)
    BY <1>3 DEF Goto, Shape, LocalTypes, Others
  <2>2. LocalInv(s)'
    BY <1>0, <1>3, <2>1 DEF LocalInv, CaseInv
  <2> QED  BY <2>1, <2>2
<1>4. CASE /\ pc[s] = "closing" /\ Goto(s, "closeWrite")
           /\ UNCHANGED <<win, now, stage, events>>
           /\ Legal(caseState[win[s]], Head(events[s]))
  <2> DEFINE w == win[s]
             e == Head(events[s])
  <2>1. w \in Windows  BY <1>4, AtWindow
  <2>2. /\ e = "MANAGING" => caseState[w] = "SUBMITTED"
        /\ e = "CLOSED" => caseState[w] = "MANAGING"
    BY <1>4 DEF Legal, Transitions
  <2>3. /\ e = "MANAGING" => "execution_record" \in artifacts[w]
        /\ e \in {"MANAGING", "CLOSED"} => executions[w] > 0
    BY <2>1, <2>2 DEF CaseInv, VetoRow, EvidenceRow
  <2>4. pc'[s] = "closeWrite" /\ Others(s)
    BY <1>4 DEF Goto, Shape, LocalTypes, Others
  <2>5. LocalInv(s)'
    BY <1>0, <1>4, <2>3, <2>4 DEF LocalInv, CaseInv
  <2> QED  BY <2>4, <2>5
<1> QED  BY <1>2, <1>3, <1>4 DEF CheckEvent, CloseCheck

LEMMA CaseInvInductive ==
  ASSUME Shape, Shape', CaseInv, [Next]_vars
  PROVE  CaseInv'
<1>1. CASE Pass \/ UNCHANGED vars
  <2>1. UNCHANGED <<caseState, log, artifacts, openIntent, executions, vetoed,
                    pc, win, stage, events>>
    BY <1>1 DEF Pass, vars
  <2> QED  BY <2>1 DEF CaseInv, VetoRow, EvidenceRow, LocalInv
<1>2. ASSUME NEW s \in Schedulers, Tick(s) \/ Crash(s) PROVE CaseInv'
  BY <1>2, QuietProcessSteps
<1>3. ASSUME NEW s \in Schedulers, Step(s) PROVE CaseInv'
  <2>1. CASE \/ Skip(s) \/ TickRaises(s) \/ LoadPending(s) \/ StageFails(s) \/ AppendRefused(s)
             \/ \E w \in Windows : LeaseHeld(s, w) \/ AcquireLease(s, w) \/ Poll(s, w)
             \/ \E w \in Windows, outcome \in CloseOutcomes : CloseRead(s, w, outcome)
    BY <2>1, QuietProcessSteps
  <2>2. CASE CreateScheduled(s)  BY <2>2, CreateCases
  <2>3. CASE SaveArtifact(s) \/ \E verdict \in {"CERTIFIED", "REFUSED"} : Judge(s, verdict)
    BY <2>3, ArtifactCases
  <2>4. CASE AppendEvent(s)  BY <2>4, AppendCases
  <2>5. CASE CheckVeto(s) \/ ClaimIntent(s)  BY <2>5, ExecutionCases
  <2>6. CASE \E outcome \in EntryOutcomes, fill \in BOOLEAN : Record(s, outcome, fill)
    BY <2>6, RecordCases
  <2>7. CASE CloseAppend(s)  BY <2>7, CloseAppendCases
  <2>8. CASE CheckEvent(s) \/ CloseCheck(s)  BY <2>8, CheckCases
  <2> QED  BY <1>3, <2>1, <2>2, <2>3, <2>4, <2>5, <2>6, <2>7, <2>8 DEF Step
<1>4. CASE \E w \in Windows : Veto(w)  BY <1>4, VetoCases
<1> QED  BY <1>1, <1>2, <1>3, <1>4 DEF Next

LEMMA CaseInvariant == Spec => [](Shape /\ CaseInv)
<1>1. Init => Shape /\ CaseInv
  <2> SUFFICES ASSUME Init PROVE CaseInv
    BY InitShape
  <2>1. << >> \in Seq(CloseMoves)
    OBVIOUS
  <2> QED  BY <2>1 DEF Init, CaseInv, VetoRow, EvidenceRow, LocalInv
<1>2. Shape /\ CaseInv /\ [Next]_vars => (Shape /\ CaseInv)'
  BY EveryStep, CaseInvInductive DEF Kept
<1> QED  BY <1>1, <1>2, PTL DEF Spec

\* A veto that the operator saved before the execution of the certificate began is
\* final: no tick, poll, close or restart of any number of processes submits the case.
THEOREM EarlyVetoHolds == Spec => []VetoIsFinal
<1>1. Shape /\ CaseInv => VetoIsFinal
  BY DEF Shape, OtherTypes, CaseInv, VetoRow, VetoIsFinal
<1> QED  BY <1>1, CaseInvariant, PTL

\* EveryEventHasItsArtifact: no crash, lost commit answer or failing stage leaves a case
\* with an event whose evidence, candidates or execution record is missing.
THEOREM EvidenceComplete == Spec => []EveryEventHasItsArtifact
<1>1. CaseInv => EveryEventHasItsArtifact
  BY DEF CaseInv, EvidenceRow, EveryEventHasItsArtifact
<1> QED  BY <1>1, CaseInvariant, PTL
=============================================================================
