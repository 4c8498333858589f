----------------------------- MODULE RiskState -----------------------------
(***************************************************************************)
(* The durable risk state: the peak of the account's equity as far as it   *)
(* was recorded, refreshed from the broker.  The drawdown recorded beside  *)
(* it is left out: an entry is checked against the one from the peak too,  *)
(* and may be refused without it.  The worker alone refreshes here.        *)
(***************************************************************************)
EXTENDS Integers, FiniteSetsExt

CONSTANTS
  Equities,      \* the equities the account may have
  Baseline,      \* LEXGUARD_COMPETITION_BASELINE
  MaxDrawdown    \* RiskPolicy.max_competition_drawdown

ASSUME RiskAssumption ==
  /\ Equities \subseteq Nat \ {0} /\ Baseline \in Nat \ {0}
  /\ MaxDrawdown \in Nat \ {0}

VARIABLES
  equity,   \* the broker's account
  peak,     \* competition_peak_equity of the latest risk_state; 0 when there is none
  highest   \* history: the highest equity seen since a refresh lost its predecessor

riskVars == <<equity, peak, highest>>

RiskTypeOK ==
  /\ equity \in Equities
  /\ peak \in Nat /\ (peak # 0 => peak >= Baseline)
  /\ highest \in Nat

RiskInit ==
  /\ equity \in Equities
  /\ peak = 0 /\ highest = 0

\* _previous_state: a read that fails is taken for a state that was never written.
PreviousPeaks == {peak, 0}

\* Mutant: the first refresh takes the account as it is.
RecordedOfAccount(previous) == Max({previous, equity})

Recorded(previous) == Max({previous, Baseline, equity})

\* RiskStateService.refresh.
Refresh ==
  \E previous \in PreviousPeaks :
    /\ peak' = Recorded(previous)
    /\ highest' = Max({IF previous = peak THEN highest ELSE 0, equity})
    /\ UNCHANGED equity

\* _verified_risk_state.
RiskVerified == peak > 0

\* The market.
EquityMoves ==
  /\ equity' \in Equities \ {equity}
  /\ UNCHANGED <<peak, highest>>

\* Mutant: the account's own drawdown only.
EntryDrawdownOfAccount(account) == Baseline - account

\* build: the drawdown of the account that was read, from the recorded peak or from the
\* baseline, whatever is worse.
EntryDrawdown(account) == Max({peak, Baseline}) - account

\* How far the account is below the highest equity on record.
DrawnDown == Max({highest, Baseline}) - equity >= MaxDrawdown
=============================================================================
