------------------------------ MODULE Proposal ------------------------------
(***************************************************************************)
(* The life of one proposal in numbers: quotes are collected, a judge      *)
(* certifies a structure, minutes later execute checks it again against    *)
(* the account and the quotes of then, an order works at one limit and is  *)
(* replaced at another, the broker fills it, and at last it is closed.     *)
(* What may fail, repeat or interleave on the way is in DecisionWindows,   *)
(* EntryExecution and CloseExecution; here are the amounts.                *)
(***************************************************************************)
EXTENDS Judge

CONSTANTS
  Chains,         \* the chains a reading may return
  Forecasts,      \* forecasts: sets of distributions
  Contexts,       \* how the account and the day may stand
  MaxImprovement  \* bound: how much better than its limit an order fills

\* Midpoints are whole units of price.  A forecast has at least the distribution it
\* was made with.
ASSUME InputsAssumption ==
  /\ MaxImprovement \in Nat
  /\ Chains \subseteq [Contracts -> Quotes \cup {NoQuote}]
  /\ \A f \in Forecasts : f # {} /\ IsFiniteSet(f) /\ f \subseteq [Prices -> Nat]
  /\ Contexts \subseteq
       [equity : Int, pnl : Int, drawdown : Int, busy : BOOLEAN, entries : Nat,
        traded : BOOLEAN, ready : BOOLEAN, early : BOOLEAN, stale : BOOLEAN,
        attempt : BOOLEAN]
  /\ \A f \in Chains, k \in Contracts :
       f[k] # NoQuote => (f[k].bid + f[k].ask) % 2 = 0

VARIABLES
  stage,
  chain,      \* the quotes of the evidence, later those read last
  forecast,
  judgment,   \* a certificate, a refusal or NoJudgment
  context,    \* the context the policy saw last
  limits,     \* the limit to submit with and the one to replace with
  working,    \* the limit of the working order
  fill,       \* the price it filled at
  closing     \* the close order, or the reason there is none

vars == <<stage, chain, forecast, judgment, context, limits, working, fill, closing>>

NoJudgment == [refused |-> {}]
NoLimits == [initial |-> 0, replacement |-> 0]
NoClose == [refused |-> "NONE"]

Init ==
  /\ stage = "collect"
  /\ chain = [k \in Contracts |-> NoQuote]
  /\ forecast \in Forecasts
  /\ judgment = NoJudgment
  /\ context \in Contexts
  /\ limits = NoLimits
  /\ working = 0
  /\ fill = 0
  /\ closing = NoClose

-----------------------------------------------------------------------------
(* Evaluation.                                                             *)

\* EvidenceService.collect: a closed clock, a failing read, no bars or no quote at
\* all, and there is no evidence: the case halts.
Collect ==
  /\ stage = "collect"
  /\ \/ stage' = "halted" /\ UNCHANGED chain
     \/ /\ chain' \in {f \in Chains : \E k \in Contracts : f[k] # NoQuote}
        /\ stage' = "collected"
  /\ UNCHANGED <<forecast, judgment, context, limits, working, fill, closing>>

\* deliberate: the model's veto, which any failure and any citation of evidence it
\* was not given become.
Veto ==
  /\ stage = "collected"
  /\ judgment' = Refusal({"CATALYST_VETO"})
  /\ stage' = "refused"
  /\ UNCHANGED <<chain, forecast, context, limits, working, fill, closing>>

\* The context of the evaluation is not an attempt to enter.
Judged ==
  /\ stage = "collected"
  /\ judgment' = Certify(Candidates(chain, forecast), [context EXCEPT !.attempt = FALSE],
                         forecast)
  /\ stage' = IF IsCertificate(judgment') THEN "certified" ELSE "refused"
  /\ UNCHANGED <<chain, forecast, context, limits, working, fill, closing>>

-----------------------------------------------------------------------------
(* Execution.                                                              *)

Certified == judgment.candidate

\* _BrokerRiskContextProvider.build: the certificate can tighten what the account
\* says now and never relax it.
EntryContext(seen) ==
  [seen EXCEPT !.pnl = Min({@, judgment.pnl}), !.drawdown = Max({@, judgment.drawdown}),
               !.attempt = TRUE]

\* _refresh_quotes: all four contracts with an executable quote that is fresh.
Fresh(quotes, legs) ==
  \A i \in Legs :
    LET quote == quotes[ContractOf(legs[i])]
    IN  quote # NoQuote /\ quote.usable /\ quote.bid <= quote.ask

Midpoint(legs, quotes) ==
  LET mid(i) == LET quote == quotes[ContractOf(legs[i])]
                    half  == (quote.bid + quote.ask) \div 2
                IN  IF legs[i].side = "BUY" THEN half ELSE -half
  IN  SumOfLegs(mid)

\* Mutant: the ladder may go past the certificate.
EntryLimitsUnbound(c, quotes) ==
  [initial |-> Min({Midpoint(c.legs, quotes), c.limit}),
   replacement |-> Executable(c.legs, quotes)]

\* _entry_limits: never more than the certificate's limit.
EntryLimits(c, quotes) ==
  [initial |-> Min({Midpoint(c.legs, quotes), c.limit}),
   replacement |-> Min({Executable(c.legs, quotes), c.limit})]

LimitsAreSound(c, ladder) ==
  \A limit \in {ladder.initial, ladder.replacement} : SignIsRight([c EXCEPT !.limit = limit])

\* The quotes of the certified contracts move, the rest does not matter any more.
Moved(legs) ==
  {[k \in Contracts |-> IF k \in {ContractOf(legs[i]) : i \in Legs} THEN f[k] ELSE NoQuote] :
     f \in Chains}

\* execute: an account that has lost since, an open position or order, a quote
\* that is gone, the policy, or a limit of the wrong sign ends the attempt.
Execute ==
  /\ stage = "certified"
  /\ \E seen \in Contexts, quotes \in Moved(Certified.legs) :
       /\ context' = EntryContext(seen)
       /\ chain' = quotes
       /\ IF seen.equity < judgment.equity THEN stage' = "rejected" /\ limits' = NoLimits
          ELSE IF seen.busy \/ ~ Fresh(quotes, Certified.legs)
          THEN stage' = "reconcile" /\ limits' = NoLimits
          ELSE IF Reasons(Certified, context') # {}
          THEN stage' = "rejected" /\ limits' = NoLimits
          ELSE LET ladder == EntryLimits(Certified, quotes)
               IN  /\ stage' = IF LimitsAreSound(Certified, ladder) THEN "working"
                               ELSE "reconcile"
                   /\ limits' = ladder
       /\ working' = IF stage' = "working" THEN limits'.initial ELSE 0
  /\ UNCHANGED <<forecast, judgment, fill, closing>>

\* The certificate's ten minutes are over.
Expire ==
  /\ stage = "certified"
  /\ stage' = "rejected"
  /\ UNCHANGED <<chain, forecast, judgment, context, limits, working, fill, closing>>

Replace ==
  /\ stage = "working"
  /\ working # limits.replacement
  /\ working' = limits.replacement
  /\ UNCHANGED <<stage, chain, forecast, judgment, context, limits, fill, closing>>

\* The broker fills at the limit or better.
Fill ==
  /\ stage = "working"
  /\ fill' \in (working - MaxImprovement)..working
  /\ stage' = "filled"
  /\ UNCHANGED <<chain, forecast, judgment, context, limits, working, closing>>

-----------------------------------------------------------------------------
(* Close.                                                                  *)

\* The position a fill leaves: lots of each leg, negative where it was sold.
Position ==
  [i \in Legs |->
     [leg |-> Certified.legs[i],
      lots |-> IF Certified.legs[i].side = "BUY" THEN Certified.quantity
               ELSE -Certified.quantity]]

IsLong(held) == held.lots > 0

\* _validate_close_structure: puts and calls in the order of their strikes carry
\* the sides of a condor, either way round.
\* Mutant: only bought condors are known.
CondorSidesBoughtOnly(position) ==
  [i \in Legs |-> IsLong(position[i])] = <<FALSE, TRUE, TRUE, FALSE>>

CondorSides(position) ==
  [i \in Legs |-> IsLong(position[i])] \in
    {<<TRUE, FALSE, FALSE, TRUE>>, <<FALSE, TRUE, TRUE, FALSE>>}

AbsLots(held) == IF held.lots < 0 THEN -held.lots ELSE held.lots

Divides(d, n) == n % d = 0

\* close_quantity: the greatest common divisor of the legs' lots.
CloseQuantity(position) ==
  Max({d \in 1..Capacity : \A i \in Legs : Divides(d, AbsLots(position[i]))})

\* Mutant: every leg has the position's lots as its ratio.
CloseLegsUnreduced(position) ==
  [i \in Legs |-> [side |-> IF IsLong(position[i]) THEN "SELL" ELSE "BUY",
                   ratio |-> AbsLots(position[i])]]

\* build_close_legs.
CloseLegs(position) ==
  [i \in Legs |-> [side |-> IF IsLong(position[i]) THEN "SELL" ELSE "BUY",
                   ratio |-> AbsLots(position[i]) \div CloseQuantity(position)]]

\* _close_limit_price: what is short is bought at the ask, what is long sold at the bid.
CloseLimit(position, quotes) ==
  LET flow(i) == LET quote == quotes[ContractOf(position[i].leg)]
                 IN  (IF IsLong(position[i]) THEN -quote.bid ELSE quote.ask)
                       * CloseLegs(position)[i].ratio
  IN  SumOfLegs(flow)

\* close, until its order is submitted: it raises on a quote, on a structure that
\* is no condor and on a price of zero.
Close ==
  /\ stage = "filled"
  /\ \E quotes \in Moved(Certified.legs) :
       /\ chain' = quotes
       /\ closing' =
            IF ~ Fresh(quotes, Certified.legs) THEN [refused |-> "QUOTE"]
            ELSE IF ~ CondorSides(Position) THEN [refused |-> "STRUCTURE"]
            ELSE IF CloseLimit(Position, quotes) = 0 THEN [refused |-> "ZERO_PRICE"]
            ELSE [legs |-> CloseLegs(Position), quantity |-> CloseQuantity(Position),
                  limit |-> CloseLimit(Position, quotes)]
       /\ stage' = IF "refused" \in DOMAIN closing' THEN "close_refused" ELSE "closing"
  /\ UNCHANGED <<forecast, judgment, context, limits, working, fill>>

Next == Collect \/ Veto \/ Judged \/ Execute \/ Expire \/ Replace \/ Fill \/ Close

Spec == Init /\ [][Next]_vars

-----------------------------------------------------------------------------
(* Properties.                                                             *)

Stages ==
  {"collect", "halted", "collected", "refused", "certified", "rejected", "reconcile",
   "working", "filled", "closing", "close_refused"}

\* What is certified is a covered condor of a positive number of lots.
TypeOK ==
  /\ stage \in Stages
  /\ forecast \in Forecasts
  /\ {limits.initial, limits.replacement, working, fill} \subseteq Int
  /\ IsCertificate(judgment) =>
       CoveredCondor(Certified) /\ Certified.quantity \in 1..Capacity

\* Every terminal price, not only those of the breakpoints.
AllPrices == 0..(2 * Max({k.strike : k \in Contracts}))

\* What the position really makes: its fill price, without the modelled friction.
Filled == [Certified EXCEPT !.limit = fill, !.costs = Fees]

\* Whatever the underlying does, a filled proposal loses no more than a trade
\* may, and with today's result no more than a day may: from the candidate's
\* quantity over the breakpoints, the policy on the account of the entry and
\* both rungs of the price ladder (max_trade_loss, max_daily_loss).
LossIsBounded ==
  stage = "filled" =>
    \A price \in AllPrices :
      /\ StructurePnl(Filled, price) >= -MaxTradeLoss
      /\ context.pnl + StructurePnl(Filled, price) > -MaxDailyLoss

\* exact_max_loss is exact: no price is worse than the recorded loss, and one is
\* that bad unless nothing can be lost.
CertifiedLossIsExact ==
  stage = "certified" =>
    /\ \A price \in AllPrices : StructurePnl(Certified, price) >= -judgment.loss
    /\ \E price \in AllPrices : StructurePnl(Certified, price) = -judgment.loss

\* The judge certifies only what is expected to gain under every admissible
\* distribution, nothing allowed promises more, and it refuses only if nothing
\* allowed promises anything.
JudgmentIsRight ==
  LET candidates == Candidates(chain, forecast)
      now        == [context EXCEPT !.attempt = FALSE]
      good(c)    == /\ Reasons(c, now) = {}
                    /\ \A d \in forecast : Expected(c, d) > 0
      ev(c)      == Min({Expected(c, d) : d \in forecast})
  IN  /\ stage = "certified" =>
           good(Certified) /\ \A c \in candidates : good(c) => ev(c) <= ev(Certified)
      /\ stage = "refused" /\ judgment.refused # {"CATALYST_VETO"} =>
           \A c \in candidates : ~ good(c)

\* The structure that was entered can always be closed again: the close is refused
\* for a quote or a price of zero only, never for its own shape.
OwnPositionIsClosable == closing # [refused |-> "STRUCTURE"]

\* A close order takes off what is held of every leg, and turns none around.
CloseUndoesEntry ==
  stage = "closing" =>
    \A i \in Legs :
      Position[i].lots + closing.quantity * closing.legs[i].ratio
        * (IF closing.legs[i].side = "BUY" THEN 1 ELSE -1) = 0
=============================================================================
