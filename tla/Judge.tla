-------------------------------- MODULE Judge --------------------------------
(***************************************************************************)
(* From quotes to a certificate: CandidateService.generate, RiskPolicy.    *)
(* evaluate and Judge.certify as operators.  A chain gives each contract a *)
(* quote; a forecast is the set of distributions over terminal prices that *)
(* admissible_distributions makes of it, with weights of one total.        *)
(***************************************************************************)
EXTENDS Payoff

CONSTANTS
  Contracts,           \* records [strike, right, expiry]
  NoQuote,             \* what a chain gives for a contract it does not list
  Prices,              \* terminal prices of the forecast's nodes
  Capacity,            \* portfolio_capacity: most lots of one structure
  MaxQuoteWidth,
  FrictionPerWidth,    \* friction_fraction, in units of money
  Fees,                \* of the four legs of one lot
  MaxTradeLoss,        \* also the candidates' risk budget
  MaxDailyLoss,
  MaxDrawdown,
  MaxEntries

ASSUME LimitsAssumption ==
  /\ {Capacity, MaxQuoteWidth, FrictionPerWidth, Fees, MaxEntries} \subseteq Nat
  /\ {MaxTradeLoss, MaxDailyLoss, MaxDrawdown} \subseteq Nat \ {0}

\* OptionQuote: a strike is positive, a bid and an ask are not negative.
Quotes == [bid : Nat, ask : Nat, usable : BOOLEAN]

ASSUME MarketAssumption ==
  /\ IsFiniteSet(Contracts)
  /\ Contracts \subseteq [strike : Nat \ {0}, right : {"P", "C"}, expiry : Nat]
  /\ NoQuote \notin Quotes
  /\ IsFiniteSet(Prices) /\ Prices \subseteq Nat

-----------------------------------------------------------------------------
(* Candidates.                                                             *)

\* _eligible_quotes.  "usable" stands for the expiry within three days, the
\* required feed, an open interest not known to be zero, an age of two minutes.
Eligible(chain) ==
  {k \in Contracts : /\ chain[k] # NoQuote
                     /\ chain[k].usable
                     /\ chain[k].bid <= chain[k].ask
                     /\ chain[k].ask - chain[k].bid <= MaxQuoteWidth}

\* Mutant: the puts may lie above the calls.
CondorsCrossed(contracts) ==
  {condor \in contracts \X contracts \X contracts \X contracts :
     /\ \A i \in Legs : condor[i].right = Rights[i] /\ condor[i].expiry = condor[1].expiry
     /\ condor[1].strike < condor[2].strike
     /\ condor[3].strike # condor[4].strike}

\* Two puts and two calls of one expiry, in the order of their strikes.
Condors(contracts) ==
  {condor \in contracts \X contracts \X contracts \X contracts :
     /\ \A i \in Legs : condor[i].right = Rights[i] /\ condor[i].expiry = condor[1].expiry
     /\ \A i \in 1..3 : condor[i].strike < condor[i + 1].strike}

LegsOf(condor, strategy) ==
  [i \in Legs |-> [strike |-> condor[i].strike, right |-> condor[i].right,
                   expiry |-> condor[i].expiry, side |-> Sides(strategy)[i]]]

ContractOf(leg) == [strike |-> leg.strike, right |-> leg.right, expiry |-> leg.expiry]

SumOfLegs(F(_)) == F(1) + F(2) + F(3) + F(4)

\* What it takes to trade the legs at once: asks are paid, bids received.
Executable(legs, chain) ==
  LET flow(i) == IF legs[i].side = "BUY" THEN chain[ContractOf(legs[i])].ask
                 ELSE -chain[ContractOf(legs[i])].bid
  IN  SumOfLegs(flow)

Costs(legs, chain) ==
  LET width(i) == chain[ContractOf(legs[i])].ask - chain[ContractOf(legs[i])].bid
  IN  SumOfLegs(width) * FrictionPerWidth + Fees

OneLot(condor, strategy, chain) ==
  LET legs == LegsOf(condor, strategy)
  IN  [strategy |-> strategy, legs |-> legs, quantity |-> 1,
       limit |-> Executable(legs, chain), costs |-> Costs(legs, chain)]

SignIsRight(c) == IF c.strategy = "LONG_VOL" THEN c.limit > 0 ELSE c.limit < 0

Quantity(lot) == Min({Capacity, MaxTradeLoss \div ExactMaxLoss(lot)})

Expected(c, distribution) ==
  MapThenSumSet(LAMBDA price : distribution[price] * StructurePnl(c, price), Prices)

RobustEv(c, forecast) == Min({Expected(c, d) : d \in forecast})

\* generate.
Candidates(chain, forecast) ==
  LET lots  == {OneLot(condor, strategy, chain) :
                  condor \in Condors(Eligible(chain)), strategy \in Strategies}
      sound == {lot \in lots : /\ SignIsRight(lot)
                               /\ ExactMaxLoss(lot) > 0
                               /\ Quantity(lot) > 0}
  IN  {[lot EXCEPT !.quantity = Quantity(lot)] : lot \in sound}

\* rank_candidates: the more expected the better, then the less at risk, then the
\* smaller limit, then the symbols; generate lists long structures first.
RankKey(c, forecast) ==
  <<-RobustEv(c, forecast), ExactMaxLoss(c), IF c.limit < 0 THEN -c.limit ELSE c.limit,
    c.legs[1].expiry, c.legs[1].strike, c.legs[2].strike, c.legs[3].strike,
    c.legs[4].strike, IF c.strategy = "LONG_VOL" THEN 0 ELSE 1>>

Precedes(a, b) ==
  \E i \in DOMAIN a : a[i] < b[i] /\ \A j \in 1..(i - 1) : a[j] = b[j]

First(candidates, forecast) ==
  CHOOSE c \in candidates :
    \A d \in candidates \ {c} : Precedes(RankKey(c, forecast), RankKey(d, forecast))

-----------------------------------------------------------------------------
(* The risk policy.  A context says how the account and the day stand.     *)

\* RiskPolicy.evaluate: every reason that applies.  "ready" stands for the account's
\* status, option level, feed and endpoint; "early" for a minute before the
\* window's earliest execution.  Two reasons are elsewhere: DTE_OUT_OF_RANGE never applies
\* to an eligible quote ("usable"), and CERTIFICATE_EXPIRED is Proposal!Expire, which the
\* code checks before it builds a context.
Reasons(c, context) ==
  LET loss == ExactMaxLoss(c)
      applies ==
        [MAX_TRADE_LOSS |-> loss > MaxTradeLoss,
         DAILY_LOSS_LIMIT |-> context.pnl <= -MaxDailyLoss
                                \/ context.pnl - loss <= -MaxDailyLoss,
         COMPETITION_DRAWDOWN |-> context.drawdown >= MaxDrawdown,
         OPEN_STRUCTURE_OR_ORDER |-> context.busy,
         DAILY_ENTRY_LIMIT |-> context.entries >= MaxEntries,
         SAME_SYMBOL_REENTRY |-> context.traded,
         ENTRY_WINDOW_CLOSED |-> context.attempt /\ context.early,
         STALE_EVIDENCE |-> context.stale,
         ACCOUNT_NOT_READY |-> ~ context.ready,
         INVALID_SIGN |-> ~ SignIsRight(c)]
  IN  {reason \in DOMAIN applies : applies[reason]}

-----------------------------------------------------------------------------
(* The judge.                                                              *)

Certificate(c, context, forecast) ==
  [candidate |-> c, loss |-> ExactMaxLoss(c), ev |-> RobustEv(c, forecast),
   equity |-> context.equity, pnl |-> context.pnl, drawdown |-> context.drawdown]

Refusal(reasons) == [refused |-> reasons]
IsCertificate(judgment) == "candidate" \in DOMAIN judgment

\* Mutant: the judge looks at the best candidate only.
CertifiableFirstOnly(candidates, context, forecast) ==
  {c \in {First(candidates, forecast)} :
     RobustEv(c, forecast) > 0 /\ Reasons(c, context) = {}}

\* A candidate is passed over if nothing is expected of it or the policy objects.
Certifiable(candidates, context, forecast) ==
  {c \in candidates : RobustEv(c, forecast) > 0 /\ Reasons(c, context) = {}}

\* certify.
Certify(candidates, context, forecast) ==
  LET certifiable == Certifiable(candidates, context, forecast)
      unexpected  == {c \in candidates : RobustEv(c, forecast) <= 0}
  IN  IF candidates = {} THEN Refusal({"NO_ELIGIBLE_CANDIDATE"})
      ELSE IF certifiable # {}
      THEN Certificate(First(certifiable, forecast), context, forecast)
      ELSE Refusal(UNION {Reasons(c, context) : c \in candidates}
                     \cup (IF unexpected = {} THEN {} ELSE {"ROBUST_EV_NON_POSITIVE"}))
=============================================================================
