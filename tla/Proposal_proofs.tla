--------------------------- MODULE Proposal_proofs ---------------------------
(***************************************************************************)
(* The amounts of a proposal, for every market, forecast and account: the  *)
(* candidates are covered condors of at least one lot, the judge takes one *)
(* that nothing else surpasses, and what it certified bounds what the      *)
(* filled order can lose, whichever rung of the ladder was filled.         *)
(***************************************************************************)
EXTENDS Proposal, Payoff_proofs, FiniteFacts_proofs

-----------------------------------------------------------------------------
(* Candidates.                                                             *)

IsChain(quotes) == quotes \in [Contracts -> Quotes \cup {NoQuote}]

LEMMA EligibleQuotes ==
  ASSUME NEW quotes, IsChain(quotes), NEW k \in Eligible(quotes)
  PROVE  /\ k \in Contracts
         /\ quotes[k].bid \in Nat /\ quotes[k].ask \in Nat
         /\ quotes[k].bid <= quotes[k].ask
<1>1. k \in Contracts /\ quotes[k] \in Quotes /\ quotes[k].bid <= quotes[k].ask
  BY DEF Eligible, IsChain
<1> QED  BY <1>1 DEF Quotes

LEMMA CondorFacts ==
  ASSUME NEW contracts, NEW condor \in Condors(contracts)
  PROVE  /\ \A i \in Legs : /\ condor[i] \in contracts /\ condor[i].right = Rights[i]
                            /\ condor[i].expiry = condor[1].expiry
         /\ \A i \in 1..3 : condor[i].strike < condor[i + 1].strike
         /\ condor = <<condor[1], condor[2], condor[3], condor[4]>>
BY DEF Condors, Legs

LEMMA LegFacts ==
  ASSUME NEW contracts, contracts \subseteq Contracts,
         NEW condor \in Condors(contracts), NEW strategy
  PROVE  \A i \in Legs :
           /\ LegsOf(condor, strategy)[i].strike = condor[i].strike
           /\ LegsOf(condor, strategy)[i].right = Rights[i]
           /\ LegsOf(condor, strategy)[i].expiry = condor[1].expiry
           /\ LegsOf(condor, strategy)[i].side = Sides(strategy)[i]
           /\ condor[i].strike \in Nat \ {0} /\ condor[i].expiry \in Nat
           /\ ContractOf(LegsOf(condor, strategy)[i]) = condor[i]
<1> SUFFICES ASSUME NEW i \in Legs
             PROVE  /\ LegsOf(condor, strategy)[i].strike = condor[i].strike
                    /\ LegsOf(condor, strategy)[i].right = Rights[i]
                    /\ LegsOf(condor, strategy)[i].expiry = condor[1].expiry
                    /\ LegsOf(condor, strategy)[i].side = Sides(strategy)[i]
                    /\ condor[i].strike \in Nat \ {0} /\ condor[i].expiry \in Nat
                    /\ ContractOf(LegsOf(condor, strategy)[i]) = condor[i]
  OBVIOUS
<1>1. /\ condor[i] \in Contracts
      /\ condor[i].right = Rights[i] /\ condor[i].expiry = condor[1].expiry
  BY CondorFacts
<1>2. condor[i] \in [strike : Nat \ {0}, right : {"P", "C"}, expiry : Nat]
  BY <1>1, MarketAssumption
<1>3. LegsOf(condor, strategy)[i]
        = [strike |-> condor[i].strike, right |-> condor[i].right,
           expiry |-> condor[i].expiry, side |-> Sides(strategy)[i]]
  BY DEF LegsOf
<1>4. condor[i] = [strike |-> condor[i].strike, right |-> condor[i].right,
                   expiry |-> condor[i].expiry]
  BY <1>2
<1>5. ContractOf(LegsOf(condor, strategy)[i]) = condor[i]
  BY <1>3, <1>4 DEF ContractOf
<1>6. condor[i].strike \in Nat \ {0} /\ condor[i].expiry \in Nat
  BY <1>2
<1> QED  BY <1>1, <1>3, <1>5, <1>6

\* One lot costs its fees at least, and its limit is a sum of quotes.
LEMMA OneLotIsStructure ==
  ASSUME NEW quotes, IsChain(quotes), NEW condor \in Condors(Eligible(quotes)),
         NEW strategy \in Strategies
  PROVE  LET lot == OneLot(condor, strategy, quotes)
         IN  IsStructure(lot) /\ lot.quantity = 1 /\ lot.costs >= Fees
<1> DEFINE lot == OneLot(condor, strategy, quotes)
           legs == LegsOf(condor, strategy)
           quote(i) == quotes[condor[i]]
<1>1. Eligible(quotes) \subseteq Contracts
  BY DEF Eligible
<1>2. \A i \in Legs : /\ quote(i).bid \in Nat /\ quote(i).ask \in Nat
                      /\ quote(i).bid <= quote(i).ask
                      /\ ContractOf(legs[i]) = condor[i]
  <2> SUFFICES ASSUME NEW i \in Legs
               PROVE  /\ quote(i).bid \in Nat /\ quote(i).ask \in Nat
                      /\ quote(i).bid <= quote(i).ask
                      /\ ContractOf(legs[i]) = condor[i]
    OBVIOUS
  <2>1. condor[i] \in Eligible(quotes)
    BY CondorFacts
  <2>2. ContractOf(legs[i]) = condor[i]
    BY <1>1, LegFacts
  <2> QED  BY <2>1, <2>2, EligibleQuotes
<1>3. 1 \in Legs /\ 2 \in Legs /\ 3 \in Legs /\ 4 \in Legs
  BY DEF Legs
<1>4. Executable(legs, quotes) \in Int
  <2> DEFINE flow(i) == IF legs[i].side = "BUY" THEN quotes[ContractOf(legs[i])].ask
                        ELSE -quotes[ContractOf(legs[i])].bid
  <2>1. \A i \in Legs : flow(i) \in Int
    BY <1>2
  <2>2. Executable(legs, quotes) = flow(1) + flow(2) + flow(3) + flow(4)
    BY DEF Executable, SumOfLegs
  <2> HIDE DEF flow
  <2> QED  BY <1>3, <2>1, <2>2
<1>5. Costs(legs, quotes) \in Nat /\ Costs(legs, quotes) >= Fees
  <2> DEFINE width(i) == quotes[ContractOf(legs[i])].ask - quotes[ContractOf(legs[i])].bid
             spread == width(1) + width(2) + width(3) + width(4)
  <2>1. \A i \in Legs : width(i) \in Nat
    BY <1>2
  <2>2. Costs(legs, quotes) = spread * FrictionPerWidth + Fees
    BY DEF Costs, SumOfLegs
  <2> HIDE DEF width
  <2>3. spread \in Nat
    BY <1>3, <2>1
  <2> HIDE DEF spread
  <2>4. FrictionPerWidth \in Nat /\ Fees \in Nat
    BY LimitsAssumption
  <2>5. spread * FrictionPerWidth \in Int /\ 0 * FrictionPerWidth <= spread * FrictionPerWidth
    BY ONLY <2>3, <2>4, TimesKeepsOrder
  <2> QED  BY <2>2, <2>4, <2>5
<1>6. lot = [strategy |-> strategy, legs |-> legs, quantity |-> 1,
             limit |-> Executable(legs, quotes), costs |-> Costs(legs, quotes)]
  BY DEF OneLot
<1>7. \A i \in Legs : /\ legs[i].strike = condor[i].strike /\ legs[i].strike \in Nat \ {0}
                      /\ legs[i].right = Rights[i] /\ legs[i].side = Sides(strategy)[i]
  BY <1>1, LegFacts
<1>8. \A i \in 1..3 : legs[i].strike < legs[i + 1].strike
  <2> SUFFICES ASSUME NEW i \in 1..3 PROVE legs[i].strike < legs[i + 1].strike
    OBVIOUS
  <2>1. i \in Legs /\ i + 1 \in Legs
    BY DEF Legs
  <2>2. condor[i].strike < condor[i + 1].strike
    BY CondorFacts
  <2> QED  BY <1>7, <2>1, <2>2
<1> HIDE DEF legs
<1>9. CoveredCondor(lot)
  BY <1>6, <1>7, <1>8 DEF CoveredCondor
<1> QED  BY <1>4, <1>5, <1>6, <1>7, <1>9 DEF IsStructure

LEMMA LossIsNat ==
  ASSUME NEW c, IsStructure(c)
  PROVE  ExactMaxLoss(c) \in Nat
<1> DEFINE values == {StructurePnl(c, price) : price \in Breakpoints(c)}
<1>1. HasMin(values)
  BY BreakpointsHaveMin
<1> HIDE DEF values
<1>2. Min(values) \in Int
  BY <1>1, MinOf DEF HasMin
<1>3. ExactMaxLoss(c) = Positive(-Min(values))
  BY DEF ExactMaxLoss, values
<1> QED  BY <1>2, <1>3 DEF Positive

\* More lots of a lot that can lose can lose too.
LEMMA MoreLotsLoseToo ==
  ASSUME NEW c, IsStructure(c), NEW n \in Nat \ {0}, ExactMaxLoss(c) > 0, c.quantity = 1,
         NEW d, d = [c EXCEPT !.quantity = n], IsStructure(d),
         d.legs = c.legs, d.limit = c.limit, d.costs = c.costs, d.quantity = n
  PROVE  ExactMaxLoss(d) > 0
<1>1. ExactMaxLoss(c) \in Nat /\ ExactMaxLoss(d) \in Nat
  BY LossIsNat
<1>2. PICK price \in Nat : StructurePnl(c, price) = -ExactMaxLoss(c)
  BY <1>1, LossIsExact
<1>3. Gain(d, price) = Gain(c, price)
  BY DEF Gain
<1>4. Gain(c, price) \in Int /\ Multiplier \in Int /\ c.costs \in Int
  BY WorstAtABreakpoint, MultiplierAssumption DEF IsStructure
<1> DEFINE one == Gain(c, price) * Multiplier - c.costs
<1>5. one \in Int
  BY <1>4
<1>6. StructurePnl(c, price) = one * 1 /\ StructurePnl(d, price) = one * n
  BY <1>3 DEF StructurePnl
<1> HIDE DEF one
<1>7. one <= -1
  BY <1>1, <1>2, <1>5, <1>6
<1>8. one * n \in Int /\ one * n <= (-1) * n
  BY ONLY <1>5, <1>7, TimesKeepsOrder
<1>9. StructurePnl(d, price) >= -ExactMaxLoss(d)
  BY LossIsExact
<1> QED  BY <1>1, <1>6, <1>8, <1>9

\* What every candidate is.
IsOffer(c) ==
  /\ IsStructure(c)
  /\ c.quantity \in 1..Capacity
  /\ c.costs >= Fees
  /\ ExactMaxLoss(c) \in Nat \ {0}
  /\ c = [strategy |-> c.strategy, legs |-> c.legs, quantity |-> c.quantity,
          limit |-> c.limit, costs |-> c.costs]
  /\ \A i \in Legs : ContractOf(c.legs[i]) \in Contracts

LEMMA QuantityIsALot ==
  ASSUME NEW lot, ExactMaxLoss(lot) \in Nat, ExactMaxLoss(lot) > 0, Quantity(lot) > 0
  PROVE  Quantity(lot) \in 1..Capacity
<1> DEFINE n == MaxTradeLoss \div ExactMaxLoss(lot)
<1>1. Capacity \in Nat /\ MaxTradeLoss \in Nat
  BY LimitsAssumption
<1>2. n \in Int
  BY <1>1
<1>3. Quantity(lot) = Min({Capacity, n})
  BY DEF Quantity
<1> HIDE DEF n
<1>4. HasMin({Capacity, n})
  BY <1>1, <1>2 DEF HasMin
<1>5. Quantity(lot) \in {Capacity, n} /\ Quantity(lot) <= Capacity
  BY <1>3, <1>4, MinOf
<1> QED  BY <1>1, <1>2, <1>5

\* A candidate is a condor of eligible quotes in as many lots as the budget allows.
LEMMA CandidatesAreLots ==
  ASSUME NEW quotes, NEW f, NEW c \in Candidates(quotes, f)
  PROVE  \E condor \in Condors(Eligible(quotes)), strategy \in Strategies :
           LET lot == OneLot(condor, strategy, quotes)
           IN  /\ ExactMaxLoss(lot) > 0 /\ Quantity(lot) > 0
               /\ c = [lot EXCEPT !.quantity = Quantity(lot)]
BY DEF Candidates

LEMMA CandidatesAreOffers ==
  ASSUME NEW quotes, IsChain(quotes), NEW f, NEW c \in Candidates(quotes, f)
  PROVE  IsOffer(c)
<1>1. PICK condor \in Condors(Eligible(quotes)), strategy \in Strategies :
        LET lot == OneLot(condor, strategy, quotes)
        IN  /\ ExactMaxLoss(lot) > 0 /\ Quantity(lot) > 0
            /\ c = [lot EXCEPT !.quantity = Quantity(lot)]
  BY CandidatesAreLots
<1> DEFINE lot == OneLot(condor, strategy, quotes)
           n == Quantity(lot)
<1>2. IsStructure(lot) /\ lot.quantity = 1 /\ lot.costs >= Fees
  BY OneLotIsStructure
<1>3. lot = [strategy |-> strategy, legs |-> LegsOf(condor, strategy), quantity |-> 1,
             limit |-> lot.limit, costs |-> lot.costs]
  BY DEF OneLot
<1>4. \A i \in Legs : ContractOf(LegsOf(condor, strategy)[i]) \in Contracts
  <2> SUFFICES ASSUME NEW i \in Legs
               PROVE  ContractOf(LegsOf(condor, strategy)[i]) \in Contracts
    OBVIOUS
  <2>1. Eligible(quotes) \subseteq Contracts
    BY DEF Eligible
  <2>2. condor[i] \in Contracts
    BY <2>1, CondorFacts
  <2> QED  BY <2>1, <2>2, LegFacts
<1>5. ExactMaxLoss(lot) > 0 /\ n > 0 /\ c = [lot EXCEPT !.quantity = n]
  BY <1>1
<1>6. ExactMaxLoss(lot) \in Nat
  BY <1>2, LossIsNat
<1>7. n \in 1..Capacity
  BY <1>5, <1>6, QuantityIsALot
<1>8. n \in Nat \ {0}
  BY <1>7, LimitsAssumption
<1> HIDE DEF lot, n
<1>9. c = [strategy |-> strategy, legs |-> LegsOf(condor, strategy), quantity |-> n,
           limit |-> lot.limit, costs |-> lot.costs]
  BY <1>3, <1>5
<1>10. /\ c.strategy = lot.strategy /\ c.legs = lot.legs /\ c.limit = lot.limit
       /\ c.costs = lot.costs /\ c.quantity = n
       /\ c.legs = LegsOf(condor, strategy)
  BY <1>3, <1>9
<1>11. IsStructure(c)
  BY <1>2, <1>8, <1>10 DEF IsStructure, CoveredCondor
<1>12. ExactMaxLoss(c) > 0
  BY <1>2, <1>5, <1>8, <1>10, <1>11, MoreLotsLoseToo
<1>13. ExactMaxLoss(c) \in Nat
  BY <1>11, LossIsNat
<1> QED  BY <1>2, <1>4, <1>7, <1>9, <1>10, <1>11, <1>12, <1>13 DEF IsOffer
-----------------------------------------------------------------------------
(* The order of the candidates.                                            *)

IsKey(k) == DOMAIN k = 1..9 /\ \A i \in 1..9 : k[i] \in Int

LEMMA OneKeyPrecedes ==
  ASSUME NEW a, IsKey(a), NEW b, IsKey(b), \E i \in 1..9 : a[i] # b[i]
  PROVE  Precedes(a, b) \/ Precedes(b, a)
<1> DEFINE differ == {i \in 1..9 : a[i] # b[i]}
           k == [i \in differ |-> i]
<1>1. differ \subseteq Int /\ differ # {} /\ IsFiniteSet(differ)
  <2>1. IsFiniteSet(1..9)
    <3>1. 1 \in Int /\ 9 \in Int
      OBVIOUS
    <3> QED  BY ONLY <3>1, FS_Interval
  <2>2. differ \in SUBSET (1..9)
    OBVIOUS
  <2>3. IsFiniteSet(differ)
    BY <2>1, <2>2, FS_Subset
  <2> QED  BY <2>3
<1>2. \A i \in differ : k[i] = i
  OBVIOUS
<1> HIDE DEF k, differ
<1>3. PICK i \in differ : \A j \in differ : k[i] <= k[j]
  <2>1. \A j \in differ : k[j] \in Int
    BY <1>1, <1>2
  <2> QED  BY <1>1, <2>1, LeastElement
<1>4. i \in 1..9 /\ a[i] # b[i] /\ \A j \in differ : i <= j
  BY <1>2, <1>3 DEF differ
<1>5. \A j \in 1..(i - 1) : a[j] = b[j]
  <2> SUFFICES ASSUME NEW j \in 1..(i - 1) PROVE a[j] = b[j]
    OBVIOUS
  <2>1. j \in 1..9 /\ ~ (i <= j)
    BY <1>4
  <2> QED  BY <1>4, <2>1 DEF differ
<1>6. a[i] < b[i] \/ b[i] < a[i]
  BY <1>4 DEF IsKey
<1> QED  BY <1>4, <1>5, <1>6 DEF Precedes, IsKey

LEMMA PrecedesIsTransitive ==
  ASSUME NEW a, IsKey(a), NEW b, IsKey(b), NEW c, IsKey(c), Precedes(a, b), Precedes(b, c)
  PROVE  Precedes(a, c)
<1>1. PICK i \in 1..9 : a[i] < b[i] /\ \A j \in 1..(i - 1) : a[j] = b[j]
  BY DEF Precedes, IsKey
<1>2. PICK h \in 1..9 : b[h] < c[h] /\ \A j \in 1..(h - 1) : b[j] = c[j]
  BY DEF Precedes, IsKey
<1>3. a[i] \in Int /\ b[i] \in Int /\ c[i] \in Int /\ a[h] \in Int /\ b[h] \in Int /\ c[h] \in Int
  BY DEF IsKey
<1>4. CASE i <= h
  <2>1. a[i] < c[i]
    <3>1. CASE i = h
      BY <1>1, <1>2, <1>3, <3>1
    <3>2. CASE i < h
      <4>1. i \in 1..(h - 1)
        BY <3>2
      <4> QED  BY <1>1, <1>2, <4>1
    <3> QED  BY <1>4, <3>1, <3>2
  <2>2. \A j \in 1..(i - 1) : a[j] = c[j]
    BY <1>1, <1>2, <1>4
  <2> QED  BY <2>1, <2>2 DEF Precedes, IsKey
<1>5. CASE h < i
  <2>1. h \in 1..(i - 1)
    BY <1>5
  <2>2. a[h] < c[h]
    BY <1>1, <1>2, <2>1
  <2>3. \A j \in 1..(h - 1) : a[j] = c[j]
    BY <1>1, <1>2, <1>5
  <2> QED  BY <2>2, <2>3 DEF Precedes, IsKey
<1> QED  BY <1>4, <1>5
\* The weighted results of a candidate, price by price.
Weighted(c, d) == [price \in Prices |-> d[price] * StructurePnl(c, price)]

LEMMA ExpectedIsASum ==
  ASSUME NEW c, NEW d
  PROVE  Expected(c, d) = SumOver(Weighted(c, d), Prices)
<1> DEFINE f == Weighted(c, d)
           body(g, s) == IF s = {} THEN 0
                         ELSE d[Pick(s)] * StructurePnl(c, Pick(s)) + g[s \ {Pick(s)}]
           g1 == CHOOSE g : g = [s \in SUBSET Prices |-> body(g, s)]
<1>1. Expected(c, d) = g1[Prices]
  BY DEF Expected, MapThenSumSet, MapThenFoldSet, Pick
<1>2. PICK g2 : Tally(g2, f, Prices) /\ SumOver(f, Prices) = g2[Prices]
  BY MarketAssumption, SumHasTally
<1>3. ASSUME NEW g
      PROVE  Tally(g, f, Prices) <=> g = [s \in SUBSET Prices |-> body(g, s)]
  <2> DEFINE other(s) == IF s = {} THEN 0 ELSE f[Pick(s)] + g[s \ {Pick(s)}]
  <2>1. ASSUME NEW s \in SUBSET Prices
        PROVE  body(g, s) = other(s)
    <3>1. CASE s = {}
      BY <3>1
    <3>2. CASE s # {}
      <4>1. Pick(s) \in Prices
        BY <3>2, PickIsIn
      <4> QED  BY <3>2, <4>1 DEF Weighted
    <3> QED  BY <3>1, <3>2
  <2> HIDE DEF body, other
  <2>2. [s \in SUBSET Prices |-> body(g, s)] = [s \in SUBSET Prices |-> other(s)]
    BY <2>1
  <2> QED  BY <2>2 DEF Tally, other
<1>4. Tally(g1, f, Prices)
  <2>1. \E g : g = [s \in SUBSET Prices |-> body(g, s)]
    BY <1>2, <1>3
  <2>2. g1 = [s \in SUBSET Prices |-> body(g1, s)]
    BY <2>1
  <2> HIDE DEF g1, body
  <2> QED  BY <1>3, <2>2
<1> HIDE DEF g1, f
<1>5. SameOn(f, f, Prices)
  BY DEF SameOn
<1>6. At(g1, Prices) = At(g2, Prices)
  BY <1>2, <1>4, <1>5, MarketAssumption, TalliesAgreeAt
<1> QED  BY <1>1, <1>2, <1>6 DEF At, f

LEMMA PnlIsInt ==
  ASSUME NEW c, IsStructure(c), NEW price \in Nat
  PROVE  StructurePnl(c, price) \in Int
<1>1. Gain(c, price) \in Int
  BY WorstAtABreakpoint
<1>2. Gain(c, price) <= Gain(c, price)
  BY <1>1
<1> QED  BY <1>2, PnlFollowsGain

LEMMA ExpectedIsInt ==
  ASSUME NEW c, IsStructure(c), NEW d \in [Prices -> Nat]
  PROVE  Expected(c, d) \in Int
<1>1. ASSUME NEW price \in Prices
      PROVE  Weighted(c, d)[price] \in Int
  <2>1. price \in Nat /\ d[price] \in Nat
    BY MarketAssumption
  <2>2. StructurePnl(c, price) \in Int
    BY <2>1, PnlIsInt
  <2>3. d[price] * StructurePnl(c, price) \in Int
    BY <2>1, <2>2
  <2> QED  BY <2>3 DEF Weighted
<1>2. SumOver(Weighted(c, d), Prices) \in Int
  BY <1>1, MarketAssumption, SumIsInt
<1> QED  BY <1>2, ExpectedIsASum

\* The least expectation of the distributions of a forecast is one of them.
LEMMA RobustIsLeast ==
  ASSUME NEW c, IsStructure(c), NEW f \in Forecasts
  PROVE  /\ RobustEv(c, f) \in Int
         /\ \E d \in f : RobustEv(c, f) = Expected(c, d)
         /\ \A d \in f : RobustEv(c, f) <= Expected(c, d)
<1> DEFINE k == [d \in f |-> Expected(c, d)]
           values == {Expected(c, d) : d \in f}
<1>1. f # {} /\ IsFiniteSet(f) /\ f \subseteq [Prices -> Nat]
  BY InputsAssumption
<1>2. \A d \in f : Expected(c, d) \in Int
  BY <1>1, ExpectedIsInt
<1>3. \A d \in f : k[d] = Expected(c, d)
  OBVIOUS
<1> HIDE DEF k
<1>4. PICK d \in f : \A e \in f : k[d] <= k[e]
  <2>1. \A e \in f : k[e] \in Int
    BY <1>2, <1>3
  <2> QED  BY <1>1, <2>1, LeastElement
<1>5. HasMin(values)
  BY <1>2, <1>3, <1>4 DEF HasMin
<1>6. RobustEv(c, f) = Min(values)
  BY DEF RobustEv
<1> HIDE DEF values
<1>7. RobustEv(c, f) \in values /\ \A v \in values : RobustEv(c, f) <= v
  BY <1>5, <1>6, MinOf
<1> QED  BY <1>2, <1>7 DEF values
\* Its contracts, its strategy and the quotes determine a candidate.
LEMMA SameContractsSameCandidate ==
  ASSUME NEW quotes, IsChain(quotes), NEW f,
         NEW c \in Candidates(quotes, f), NEW d \in Candidates(quotes, f),
         \A i \in Legs : c.legs[i].strike = d.legs[i].strike,
         c.legs[1].expiry = d.legs[1].expiry,
         c.strategy = d.strategy
  PROVE  c = d
<1>1. PICK a \in Condors(Eligible(quotes)), s \in Strategies :
        LET lot == OneLot(a, s, quotes)
        IN  c = [lot EXCEPT !.quantity = Quantity(lot)]
  BY CandidatesAreLots
<1>2. PICK b \in Condors(Eligible(quotes)), t \in Strategies :
        LET lot == OneLot(b, t, quotes)
        IN  d = [lot EXCEPT !.quantity = Quantity(lot)]
  BY CandidatesAreLots
<1>3. c.strategy = s /\ c.legs = LegsOf(a, s)
  BY <1>1 DEF OneLot
<1>4. d.strategy = t /\ d.legs = LegsOf(b, t)
  BY <1>2 DEF OneLot
<1>5. Eligible(quotes) \subseteq Contracts
  BY DEF Eligible
<1>6. \A i \in Legs : /\ LegsOf(a, s)[i].strike = a[i].strike
                      /\ LegsOf(a, s)[i].expiry = a[1].expiry
  BY <1>5, LegFacts
<1>7. \A i \in Legs : /\ LegsOf(b, t)[i].strike = b[i].strike
                      /\ LegsOf(b, t)[i].expiry = b[1].expiry
  BY <1>5, LegFacts
<1>8. \A i \in Legs : a[i] = b[i]
  <2> SUFFICES ASSUME NEW i \in Legs PROVE a[i] = b[i]
    OBVIOUS
  <2>1. 1 \in Legs
    BY DEF Legs
  <2>2. a[i].strike = b[i].strike /\ a[1].expiry = b[1].expiry
    BY <1>3, <1>4, <1>6, <1>7, <2>1
  <2>3. a[i] \in Contracts /\ a[i].right = Rights[i] /\ a[i].expiry = a[1].expiry
    BY <1>5, CondorFacts
  <2>4. b[i] \in Contracts /\ b[i].right = Rights[i] /\ b[i].expiry = b[1].expiry
    BY <1>5, CondorFacts
  <2>5. /\ a[i] \in [strike : Nat \ {0}, right : {"P", "C"}, expiry : Nat]
        /\ b[i] \in [strike : Nat \ {0}, right : {"P", "C"}, expiry : Nat]
    BY <2>3, <2>4, MarketAssumption
  <2>6. a[i].right = b[i].right /\ a[i].expiry = b[i].expiry
    BY <2>2, <2>3, <2>4
  <2> QED  BY ONLY <2>2, <2>5, <2>6
<1>9. a = b
  <2>1. a = <<a[1], a[2], a[3], a[4]>> /\ b = <<b[1], b[2], b[3], b[4]>>
    BY CondorFacts
  <2>2. 1 \in Legs /\ 2 \in Legs /\ 3 \in Legs /\ 4 \in Legs
    BY DEF Legs
  <2>3. a[1] = b[1] /\ a[2] = b[2] /\ a[3] = b[3] /\ a[4] = b[4]
    BY <1>8, <2>2
  <2> QED  BY ONLY <2>1, <2>3
<1> QED  BY <1>1, <1>2, <1>3, <1>4, <1>9

LEMMA KeysAreKeys ==
  ASSUME NEW c, IsOffer(c), NEW f \in Forecasts
  PROVE  IsKey(RankKey(c, f))
<1>1. RobustEv(c, f) \in Int /\ ExactMaxLoss(c) \in Int /\ c.limit \in Int
  BY RobustIsLeast DEF IsOffer, IsStructure
<1>2. \A i \in Legs : c.legs[i].strike \in Int
  BY DEF IsOffer, IsStructure
<1>3. 1 \in Legs /\ 2 \in Legs /\ 3 \in Legs /\ 4 \in Legs
  BY DEF Legs
<1>4. c.legs[1].expiry \in Int
  <2>1. ContractOf(c.legs[1]) \in [strike : Nat \ {0}, right : {"P", "C"}, expiry : Nat]
    BY <1>3, MarketAssumption DEF IsOffer
  <2> QED  BY <2>1 DEF ContractOf
<1> DEFINE k == RankKey(c, f)
<1>5. /\ DOMAIN k = 1..9
      /\ k[1] \in Int /\ k[2] \in Int /\ k[3] \in Int /\ k[4] \in Int /\ k[5] \in Int
      /\ k[6] \in Int /\ k[7] \in Int /\ k[8] \in Int /\ k[9] \in Int
  BY <1>1, <1>2, <1>3, <1>4 DEF RankKey
<1> HIDE DEF k
<1>6. \A i \in 1..9 : k[i] \in Int
  BY <1>5
<1> QED  BY <1>5, <1>6 DEF IsKey, k

LEMMA KeysDiffer ==
  ASSUME NEW quotes, IsChain(quotes), NEW g, NEW f,
         NEW c \in Candidates(quotes, g), NEW d \in Candidates(quotes, g), c # d
  PROVE  \E i \in 1..9 : RankKey(c, f)[i] # RankKey(d, f)[i]
<1> SUFFICES ASSUME \A i \in 1..9 : RankKey(c, f)[i] = RankKey(d, f)[i]
             PROVE  FALSE
  OBVIOUS
<1> DEFINE a == RankKey(c, f)
           b == RankKey(d, f)
<1>1. /\ a[4] = b[4] /\ a[5] = b[5] /\ a[6] = b[6] /\ a[7] = b[7] /\ a[8] = b[8]
      /\ a[9] = b[9]
  OBVIOUS
<1>2. /\ a[4] = c.legs[1].expiry /\ a[5] = c.legs[1].strike /\ a[6] = c.legs[2].strike
      /\ a[7] = c.legs[3].strike /\ a[8] = c.legs[4].strike
      /\ a[9] = IF c.strategy = "LONG_VOL" THEN 0 ELSE 1
  BY DEF RankKey
<1>3. /\ b[4] = d.legs[1].expiry /\ b[5] = d.legs[1].strike /\ b[6] = d.legs[2].strike
      /\ b[7] = d.legs[3].strike /\ b[8] = d.legs[4].strike
      /\ b[9] = IF d.strategy = "LONG_VOL" THEN 0 ELSE 1
  BY DEF RankKey
<1> HIDE DEF a, b
<1>4. \A i \in Legs : c.legs[i].strike = d.legs[i].strike
  <2>1. Legs = {1, 2, 3, 4}
    BY DEF Legs
  <2> QED  BY <1>1, <1>2, <1>3, <2>1
<1>5. c.legs[1].expiry = d.legs[1].expiry
  BY <1>1, <1>2, <1>3
<1>6. c.strategy = d.strategy
  <2>1. IsOffer(c) /\ IsOffer(d)
    BY CandidatesAreOffers
  <2>2. c.strategy \in {"LONG_VOL", "SHORT_VOL"} /\ d.strategy \in {"LONG_VOL", "SHORT_VOL"}
    BY <2>1 DEF IsOffer, IsStructure, Strategies
  <2> DEFINE x == c.strategy
             y == d.strategy
  <2>3. (IF x = "LONG_VOL" THEN 0 ELSE 1) = (IF y = "LONG_VOL" THEN 0 ELSE 1)
    <3>1. a[9] = (IF x = "LONG_VOL" THEN 0 ELSE 1) /\ b[9] = (IF y = "LONG_VOL" THEN 0 ELSE 1)
      BY <1>2, <1>3
    <3>2. a[9] = b[9]
      BY <1>1
    <3> QED  BY ONLY <3>1, <3>2, Zenon
  <2> HIDE DEF x, y
  <2>4. x \in {"LONG_VOL", "SHORT_VOL"} /\ y \in {"LONG_VOL", "SHORT_VOL"}
    BY <2>2 DEF x, y
  <2>5. x = y
    BY ONLY <2>3, <2>4
  <2> QED  BY <2>5 DEF x, y
<1> QED  BY <1>4, <1>5, <1>6, SameContractsSameCandidate

LEMMA CandidatesAreFinite ==
  ASSUME NEW quotes, NEW f
  PROVE  IsFiniteSet(Candidates(quotes, f))
<1> DEFINE choices == ((Contracts \X Contracts) \X (Contracts \X Contracts)) \X Strategies
           lot(x) == OneLot(<<x[1][1][1], x[1][1][2], x[1][2][1], x[1][2][2]>>, x[2], quotes)
           build == [x \in choices |-> [lot(x) EXCEPT !.quantity = Quantity(lot(x))]]
<1>1. IsFiniteSet(choices)
  <2>1. IsFiniteSet(Contracts)
    BY MarketAssumption
  <2>2. IsFiniteSet(Contracts \X Contracts)
    BY <2>1, FS_Product
  <2>3. IsFiniteSet((Contracts \X Contracts) \X (Contracts \X Contracts))
    BY <2>2, FS_Product
  <2>4. IsFiniteSet(Strategies)
    <3>1. IsFiniteSet({"LONG_VOL"})
      BY FS_Singleton
    <3>2. IsFiniteSet({"LONG_VOL"} \cup {"SHORT_VOL"})
      BY <3>1, FS_AddElement
    <3>3. {"LONG_VOL"} \cup {"SHORT_VOL"} = Strategies
      BY DEF Strategies
    <3> QED  BY <3>2, <3>3
  <2> QED  BY <2>3, <2>4, FS_Product
<1>2. Candidates(quotes, f) \in SUBSET {build[x] : x \in choices}
  <2> SUFFICES ASSUME NEW c \in Candidates(quotes, f)
               PROVE  \E x \in choices : c = build[x]
    OBVIOUS
  <2>1. PICK condor \in Condors(Eligible(quotes)), strategy \in Strategies :
          c = [OneLot(condor, strategy, quotes) EXCEPT
                 !.quantity = Quantity(OneLot(condor, strategy, quotes))]
    BY CandidatesAreLots
  <2> DEFINE x == <<<<<<condor[1], condor[2]>>, <<condor[3], condor[4]>>>>, strategy>>
  <2>2. \A i \in Legs : condor[i] \in Contracts
    BY CondorFacts DEF Eligible
  <2>3. condor[1] \in Contracts /\ condor[2] \in Contracts /\ condor[3] \in Contracts
        /\ condor[4] \in Contracts
    BY <2>2 DEF Legs
  <2>4. x \in choices
    BY <2>3
  <2>5. <<x[1][1][1], x[1][1][2], x[1][2][1], x[1][2][2]>> = condor /\ x[2] = strategy
    BY CondorFacts
  <2> HIDE DEF x
  <2>6. lot(x) = OneLot(condor, strategy, quotes)
    BY <2>5
  <2> HIDE DEF lot, choices
  <2>7. build[x] = c
    BY <2>1, <2>4, <2>6
  <2> QED  BY <2>4, <2>7
<1> HIDE DEF choices, build
<1>3. IsFiniteSet({build[x] : x \in choices})
  BY <1>1, FiniteImage
<1> QED  BY <1>2, <1>3, FS_Subset

\* Which of two candidates rank_candidates puts first.
Ranking(candidates, f) ==
  {p \in candidates \X candidates : Precedes(RankKey(p[1], f), RankKey(p[2], f))}

LEMMA RankingIsStrict ==
  ASSUME NEW quotes, IsChain(quotes), NEW g, NEW f \in Forecasts,
         NEW S, S \subseteq Candidates(quotes, g)
  PROVE  StrictOrder(Ranking(S, f), S)
<1>1. \A c \in S : c \in Candidates(quotes, g) /\ IsKey(RankKey(c, f))
  <2> SUFFICES ASSUME NEW c \in S PROVE c \in Candidates(quotes, g) /\ IsKey(RankKey(c, f))
    OBVIOUS
  <2>1. IsOffer(c)
    BY CandidatesAreOffers
  <2> QED  BY <2>1, KeysAreKeys
<1>2. \A c, d \in S : <<c, d>> \in Ranking(S, f) <=> Precedes(RankKey(c, f), RankKey(d, f))
  BY DEF Ranking
<1>3. ASSUME NEW c \in S, NEW d \in S, c # d
      PROVE  <<c, d>> \in Ranking(S, f) \/ <<d, c>> \in Ranking(S, f)
  <2>1. c \in Candidates(quotes, g) /\ d \in Candidates(quotes, g)
    BY <1>1
  <2>2. \E i \in 1..9 : RankKey(c, f)[i] # RankKey(d, f)[i]
    BY <1>3, <2>1, KeysDiffer
  <2>3. Precedes(RankKey(c, f), RankKey(d, f)) \/ Precedes(RankKey(d, f), RankKey(c, f))
    BY <1>1, <2>2, OneKeyPrecedes
  <2> QED  BY <1>2, <2>3
<1>4. ASSUME NEW b \in S, NEW c \in S, NEW d \in S,
             <<b, c>> \in Ranking(S, f), <<c, d>> \in Ranking(S, f)
      PROVE  <<b, d>> \in Ranking(S, f)
  <2>1. Precedes(RankKey(b, f), RankKey(c, f)) /\ Precedes(RankKey(c, f), RankKey(d, f))
    BY <1>2, <1>4
  <2>2. IsKey(RankKey(b, f)) /\ IsKey(RankKey(c, f)) /\ IsKey(RankKey(d, f))
    BY <1>1
  <2>3. Precedes(RankKey(b, f), RankKey(d, f))
    BY <2>1, <2>2, PrecedesIsTransitive
  <2> QED  BY <1>2, <2>3
<1> QED  BY <1>3, <1>4 DEF StrictOrder

\* The first of some candidates is one of them, and none of them promises more.
LEMMA FirstIsBest ==
  ASSUME NEW quotes, IsChain(quotes), NEW g, NEW f \in Forecasts,
         NEW S, S \subseteq Candidates(quotes, g), S # {}
  PROVE  /\ First(S, f) \in S
         /\ \A d \in S : RobustEv(d, f) <= RobustEv(First(S, f), f)
<1>1. IsFiniteSet(S)
  BY CandidatesAreFinite, FS_Subset
<1>2. StrictOrder(Ranking(S, f), S)
  BY RankingIsStrict
<1>3. PICK c \in S : \A d \in S \ {c} : <<c, d>> \in Ranking(S, f)
  BY <1>1, <1>2, FirstOfOrder
<1>4. \A d \in S \ {c} : Precedes(RankKey(c, f), RankKey(d, f))
  BY <1>3 DEF Ranking
<1> DEFINE b == First(S, f)
<1>5. b \in S /\ \A d \in S \ {b} : Precedes(RankKey(b, f), RankKey(d, f))
  BY <1>4 DEF First
<1> HIDE DEF b
<1>6. \A d \in S : RobustEv(d, f) \in Int
  <2> SUFFICES ASSUME NEW d \in S PROVE RobustEv(d, f) \in Int
    OBVIOUS
  <2>1. IsStructure(d)
    BY CandidatesAreOffers DEF IsOffer
  <2> QED  BY <2>1, RobustIsLeast
<1>7. ASSUME NEW d \in S
      PROVE  RobustEv(d, f) <= RobustEv(b, f)
  <2>1. CASE d = b
    BY <1>6, <2>1
  <2>2. CASE d # b
    <3> DEFINE x == RankKey(b, f)
               y == RankKey(d, f)
    <3>1. PICK i \in DOMAIN x : x[i] < y[i] /\ \A j \in 1..(i - 1) : x[j] = y[j]
      BY <1>5, <2>2 DEF Precedes
    <3>2. x[1] = -RobustEv(b, f) /\ y[1] = -RobustEv(d, f) /\ DOMAIN x = 1..9
      BY DEF RankKey
    <3> HIDE DEF x, y
    <3>3. x[1] < y[1] \/ x[1] = y[1]
      <4>1. CASE i = 1
        BY <3>1, <4>1
      <4>2. CASE i # 1
        <5>1. 1 \in 1..(i - 1)
          BY <3>2, <4>2
        <5> QED  BY <3>1, <5>1
      <4> QED  BY <4>1, <4>2
    <3> QED  BY <1>5, <1>6, <3>2, <3>3
  <2> QED  BY <2>1, <2>2
<1> QED  BY <1>5, <1>7 DEF b
-----------------------------------------------------------------------------
(* The judge.                                                              *)

\* The evaluation's context is no attempt to enter.
Seen(account) == [account EXCEPT !.attempt = FALSE]

Good(c, account, f) == Reasons(c, account) = {} /\ \A d \in f : Expected(c, d) > 0

LEMMA GoodIsCertifiable ==
  ASSUME NEW quotes, IsChain(quotes), NEW g, NEW f \in Forecasts, NEW account,
         NEW c \in Candidates(quotes, g)
  PROVE  Good(c, account, f) <=> c \in Certifiable(Candidates(quotes, g), account, f)
<1>1. IsStructure(c)
  BY CandidatesAreOffers DEF IsOffer
<1>2. /\ RobustEv(c, f) \in Int
      /\ \E d \in f : RobustEv(c, f) = Expected(c, d)
      /\ \A d \in f : RobustEv(c, f) <= Expected(c, d)
  BY <1>1, RobustIsLeast
<1>3. \A d \in f : Expected(c, d) \in Int
  <2>1. f \subseteq [Prices -> Nat]
    BY InputsAssumption
  <2> QED  BY <1>1, <2>1, ExpectedIsInt
<1>4. RobustEv(c, f) > 0 <=> \A d \in f : Expected(c, d) > 0
  BY <1>2, <1>3
<1> QED  BY <1>4 DEF Good, Certifiable

LEMMA CertifyIsRight ==
  ASSUME NEW quotes, IsChain(quotes), NEW f \in Forecasts, NEW account,
         NEW j, j = Certify(Candidates(quotes, f), account, f)
  PROVE  /\ IsCertificate(j) =>
              /\ j = Certificate(j.candidate, account, f)
              /\ j.candidate \in Candidates(quotes, f)
              /\ Good(j.candidate, account, f)
              /\ \A c \in Candidates(quotes, f) :
                   Good(c, account, f) => RobustEv(c, f) <= RobustEv(j.candidate, f)
         /\ ~ IsCertificate(j) =>
              \A c \in Candidates(quotes, f) : ~ Good(c, account, f)
<1> DEFINE all == Candidates(quotes, f)
           certifiable == Certifiable(all, account, f)
<1>1. \A c \in all : Good(c, account, f) <=> c \in certifiable
  BY GoodIsCertifiable
<1>2. certifiable \subseteq all
  BY DEF Certifiable
<1>3. CASE all = {}
  <2>1. j = Refusal({"NO_ELIGIBLE_CANDIDATE"})
    BY <1>3 DEF Certify
  <2>2. ~ IsCertificate(j)
    BY <2>1 DEF Refusal, IsCertificate
  <2> QED  BY <1>3, <2>2
<1>4. CASE all # {} /\ certifiable # {}
  <2> DEFINE b == First(certifiable, f)
  <2>1. b \in certifiable /\ \A c \in certifiable : RobustEv(c, f) <= RobustEv(b, f)
    BY <1>2, <1>4, FirstIsBest
  <2>2. j = Certificate(b, account, f)
    BY <1>4 DEF Certify
  <2>3. j.candidate = b /\ IsCertificate(j)
    BY <2>2 DEF Certificate, IsCertificate
  <2> HIDE DEF b, certifiable, all
  <2> QED  BY <1>1, <1>2, <2>1, <2>2, <2>3 DEF all
<1>5. CASE all # {} /\ certifiable = {}
  <2>1. PICK reasons : j = Refusal(reasons)
    BY <1>5 DEF Certify
  <2>2. ~ IsCertificate(j)
    BY <2>1 DEF Refusal, IsCertificate
  <2> QED  BY <1>1, <1>5, <2>2
<1> QED  BY <1>3, <1>4, <1>5

\* A certificate the policy does not object to keeps the limits of a trade and a day.
LEMMA NoReasonNoLoss ==
  ASSUME NEW c, NEW account, Reasons(c, account) = {}
  PROVE  /\ ~ (ExactMaxLoss(c) > MaxTradeLoss)
         /\ ~ (account.pnl - ExactMaxLoss(c) <= -MaxDailyLoss)
<1> DEFINE loss == ExactMaxLoss(c)
           applies ==
             [MAX_TRADE_LOSS |-> loss > MaxTradeLoss,
              DAILY_LOSS_LIMIT |-> account.pnl <= -MaxDailyLoss
                                     \/ account.pnl - loss <= -MaxDailyLoss,
              COMPETITION_DRAWDOWN |-> account.drawdown >= MaxDrawdown,
              OPEN_STRUCTURE_OR_ORDER |-> account.busy,
              DAILY_ENTRY_LIMIT |-> account.entries >= MaxEntries,
              SAME_SYMBOL_REENTRY |-> account.traded,
              ENTRY_WINDOW_CLOSED |-> account.attempt /\ account.early,
              STALE_EVIDENCE |-> account.stale,
              ACCOUNT_NOT_READY |-> ~ account.ready,
              INVALID_SIGN |-> ~ SignIsRight(c)]
<1>1. Reasons(c, account) = {reason \in DOMAIN applies : applies[reason]}
  BY DEF Reasons
<1>2. "MAX_TRADE_LOSS" \in DOMAIN applies /\ "DAILY_LOSS_LIMIT" \in DOMAIN applies
  OBVIOUS
<1>3. /\ applies["MAX_TRADE_LOSS"] = (loss > MaxTradeLoss)
      /\ applies["DAILY_LOSS_LIMIT"]
           = (account.pnl <= -MaxDailyLoss \/ account.pnl - loss <= -MaxDailyLoss)
  OBVIOUS
<1> HIDE DEF applies, loss
<1>4. ~ applies["MAX_TRADE_LOSS"] /\ ~ applies["DAILY_LOSS_LIMIT"]
  BY <1>1, <1>2
<1> QED  BY <1>3, <1>4 DEF loss
-----------------------------------------------------------------------------
(* The position and its close.                                             *)

\* Position, of a structure.
HeldOf(c) ==
  [i \in Legs |-> [leg |-> c.legs[i],
                   lots |-> IF c.legs[i].side = "BUY" THEN c.quantity ELSE -c.quantity]]

LEMMA HeldLots ==
  ASSUME NEW c, IsOffer(c), NEW i \in Legs
  PROVE  LET held == HeldOf(c)[i]
         IN  /\ AbsLots(held) = c.quantity
             /\ IsLong(held) <=> c.legs[i].side = "BUY"
             /\ held.lots = IF IsLong(held) THEN c.quantity ELSE -c.quantity
             /\ held.leg = c.legs[i]
<1>1. c.quantity \in Nat \ {0}
  BY DEF IsOffer, IsStructure
<1> DEFINE held == HeldOf(c)[i]
<1>2. /\ held.lots = IF c.legs[i].side = "BUY" THEN c.quantity ELSE -c.quantity
      /\ held.leg = c.legs[i]
  BY DEF HeldOf
<1> HIDE DEF held
<1>3. CASE c.legs[i].side = "BUY"
  <2>1. held.lots = c.quantity /\ held.lots > 0
    BY <1>1, <1>2, <1>3
  <2> QED  BY <1>1, <1>2, <1>3, <2>1 DEF held, AbsLots, IsLong
<1>4. CASE c.legs[i].side # "BUY"
  <2>1. held.lots = -c.quantity /\ held.lots < 0
    BY <1>1, <1>2, <1>4
  <2> QED  BY <1>1, <1>2, <1>4, <2>1 DEF held, AbsLots, IsLong
<1> QED  BY <1>3, <1>4

\* A number is divided by itself, and by nothing that exceeds it.
LEMMA DividesItself ==
  ASSUME NEW n \in Nat \ {0}
  PROVE  Divides(n, n) /\ n \div n = 1
BY DEF Divides

LEMMA DivisorsAreSmaller ==
  ASSUME NEW n \in Nat \ {0}, NEW d \in Nat \ {0}, Divides(d, n)
  PROVE  d <= n
<1> SUFFICES ASSUME d > n PROVE FALSE
  OBVIOUS
<1>1. n % d = n
  OBVIOUS
<1> QED  BY <1>1 DEF Divides

LEMMA CloseOfAll ==
  ASSUME NEW c, IsOffer(c)
  PROVE  /\ CondorSides(HeldOf(c))
         /\ CloseQuantity(HeldOf(c)) = c.quantity
         /\ \A i \in Legs :
              /\ CloseLegs(HeldOf(c))[i].ratio = 1
              /\ CloseLegs(HeldOf(c))[i].side = IF IsLong(HeldOf(c)[i]) THEN "SELL" ELSE "BUY"
<1> DEFINE held == HeldOf(c)
           n == c.quantity
<1>1. n \in Nat \ {0} /\ n \in 1..Capacity /\ Capacity \in Nat
  BY LimitsAssumption DEF IsOffer, IsStructure
<1>2. \A i \in Legs : AbsLots(held[i]) = n /\ (IsLong(held[i]) <=> c.legs[i].side = "BUY")
  BY HeldLots
<1> HIDE DEF held
<1>3. CondorSides(held)
  <2> DEFINE long == [i \in Legs |-> IsLong(held[i])]
  <2>1. \A i \in Legs : c.legs[i].side = Sides(c.strategy)[i]
    BY DEF IsOffer, IsStructure, CoveredCondor
  <2>2. Legs = 1..4 /\ 1 \in Legs /\ 2 \in Legs /\ 3 \in Legs /\ 4 \in Legs
    BY DEF Legs
  <2>3. /\ c.legs[1].side = Sides(c.strategy)[1] /\ c.legs[2].side = Sides(c.strategy)[2]
        /\ c.legs[3].side = Sides(c.strategy)[3] /\ c.legs[4].side = Sides(c.strategy)[4]
    BY <2>1, <2>2
  <2>4. /\ IsLong(held[1]) <=> c.legs[1].side = "BUY"
        /\ IsLong(held[2]) <=> c.legs[2].side = "BUY"
        /\ IsLong(held[3]) <=> c.legs[3].side = "BUY"
        /\ IsLong(held[4]) <=> c.legs[4].side = "BUY"
    BY <1>2, <2>2
  <2>5. CASE c.strategy = "LONG_VOL"
    <3>1. ~ IsLong(held[1]) /\ IsLong(held[2]) /\ IsLong(held[3]) /\ ~ IsLong(held[4])
      BY <2>3, <2>4, <2>5 DEF Sides
    <3> DEFINE t == <<FALSE, TRUE, TRUE, FALSE>>
    <3>2. t = [i \in 1..4 |-> t[i]]
      OBVIOUS
    <3>3. t[1] = FALSE /\ t[2] = TRUE /\ t[3] = TRUE /\ t[4] = FALSE
      OBVIOUS
    <3> HIDE DEF t
    <3>4. \A i \in 1..4 : IsLong(held[i]) = t[i]
      <4>1. /\ IsLong(held[1]) = t[1] /\ IsLong(held[2]) = t[2]
            /\ IsLong(held[3]) = t[3] /\ IsLong(held[4]) = t[4]
        <5>1. \A i \in Legs : IsLong(held[i]) \in BOOLEAN
          BY DEF IsLong
        <5>2. /\ IsLong(held[1]) \in BOOLEAN /\ IsLong(held[2]) \in BOOLEAN
              /\ IsLong(held[3]) \in BOOLEAN /\ IsLong(held[4]) \in BOOLEAN
          BY <5>1, <2>2
        <5> QED  BY <5>2, <3>1, <3>3, Zenon
      <4>2. \A i \in 1..4 : i = 1 \/ i = 2 \/ i = 3 \/ i = 4
        OBVIOUS
      <4> QED  BY <4>1, <4>2, Zenon
    <3>5. long = t
      BY <2>2, <3>2, <3>4, Zenon
    <3> QED  BY <3>5 DEF CondorSides, t
  <2>6. CASE c.strategy # "LONG_VOL"
    <3>1. IsLong(held[1]) /\ ~ IsLong(held[2]) /\ ~ IsLong(held[3]) /\ IsLong(held[4])
      BY <2>3, <2>4, <2>6 DEF Sides
    <3> DEFINE t == <<TRUE, FALSE, FALSE, TRUE>>
    <3>2. t = [i \in 1..4 |-> t[i]]
      OBVIOUS
    <3>3. t[1] = TRUE /\ t[2] = FALSE /\ t[3] = FALSE /\ t[4] = TRUE
      OBVIOUS
    <3> HIDE DEF t
    <3>4. \A i \in 1..4 : IsLong(held[i]) = t[i]
      <4>1. /\ IsLong(held[1]) = t[1] /\ IsLong(held[2]) = t[2]
            /\ IsLong(held[3]) = t[3] /\ IsLong(held[4]) = t[4]
        <5>1. \A i \in Legs : IsLong(held[i]) \in BOOLEAN
          BY DEF IsLong
        <5>2. /\ IsLong(held[1]) \in BOOLEAN /\ IsLong(held[2]) \in BOOLEAN
              /\ IsLong(held[3]) \in BOOLEAN /\ IsLong(held[4]) \in BOOLEAN
          BY <5>1, <2>2
        <5> QED  BY <5>2, <3>1, <3>3, Zenon
      <4>2. \A i \in 1..4 : i = 1 \/ i = 2 \/ i = 3 \/ i = 4
        OBVIOUS
      <4> QED  BY <4>1, <4>2, Zenon
    <3>5. long = t
      BY <2>2, <3>2, <3>4, Zenon
    <3> QED  BY <3>5 DEF CondorSides, t
  <2> QED  BY <2>5, <2>6
<1>4. CloseQuantity(held) = n
  <2> DEFINE common == {d \in 1..Capacity : \A i \in Legs : Divides(d, AbsLots(held[i]))}
  <2>1. n \in common
    BY <1>1, <1>2, DividesItself
  <2>2. \A d \in common : d <= n
    <3> SUFFICES ASSUME NEW d \in common PROVE d <= n
      OBVIOUS
    <3>1. 1 \in Legs /\ d \in Nat \ {0}
      BY DEF Legs
    <3>2. Divides(d, n)
      BY <1>2, <3>1
    <3> QED  BY <1>1, <3>1, <3>2, DivisorsAreSmaller
  <2>3. \A d \in common : d \in Int
    OBVIOUS
  <2>4. CloseQuantity(held) = Max(common)
    BY DEF CloseQuantity
  <2> HIDE DEF common, n
  <2>5. Max(common) \in common /\ Max(common) >= n
    BY <2>1, <2>2, <1>1, <2>3 DEF Max
  <2> QED  BY <1>1, <2>2, <2>3, <2>4, <2>5
<1>5. \A i \in Legs : /\ CloseLegs(held)[i].ratio = 1
                      /\ CloseLegs(held)[i].side = IF IsLong(held[i]) THEN "SELL" ELSE "BUY"
  <2>1. n \div n = 1
    BY <1>1, DividesItself
  <2> HIDE DEF n
  <2> QED  BY <1>2, <1>4, <2>1 DEF CloseLegs
<1> QED  BY <1>3, <1>4, <1>5 DEF held
-----------------------------------------------------------------------------
(* What can be lost.                                                       *)

LEMMA LossAtABreakpoint ==
  ASSUME NEW c, IsStructure(c), ExactMaxLoss(c) # 0
  PROVE  \E price \in Breakpoints(c) : StructurePnl(c, price) = -ExactMaxLoss(c)
<1> DEFINE values == {StructurePnl(c, price) : price \in Breakpoints(c)}
           worst  == Min(values)
<1>1. HasMin(values)
  BY BreakpointsHaveMin
<1>2. worst \in values /\ worst \in Int
  BY <1>1, MinOf DEF HasMin
<1>3. ExactMaxLoss(c) = IF -worst > 0 THEN -worst ELSE 0
  BY DEF ExactMaxLoss, Positive
<1>4. PICK price \in Breakpoints(c) : StructurePnl(c, price) = worst
  BY <1>2
<1> HIDE DEF worst, values
<1> QED  BY <1>2, <1>3, <1>4

LEMMA StrikesHaveMax ==
  ASSUME NEW k \in Contracts
  PROVE  LET most == Max({x.strike : x \in Contracts})
         IN  most \in Nat /\ k.strike \in Nat \ {0} /\ k.strike <= most
<1> DEFINE strikes == {x.strike : x \in Contracts}
           m == [x \in Contracts |-> -x.strike]
<1>1. \A x \in Contracts : x.strike \in Nat \ {0}
  BY MarketAssumption
<1>2. \A x \in Contracts : m[x] = -x.strike /\ m[x] \in Int
  BY <1>1
<1> HIDE DEF m
<1>3. PICK x \in Contracts : \A y \in Contracts : m[x] <= m[y]
  BY <1>2, MarketAssumption, LeastElement
<1>4. \A y \in Contracts : x.strike >= y.strike
  BY <1>1, <1>2, <1>3
<1>5. x.strike \in strikes /\ \A s \in strikes : x.strike >= s
  BY <1>4
<1>6. Max(strikes) \in strikes /\ \A s \in strikes : Max(strikes) >= s
  BY <1>5 DEF Max
<1> QED  BY <1>1, <1>6

LEMMA BreakpointsArePrices ==
  ASSUME NEW c, IsOffer(c)
  PROVE  Breakpoints(c) \subseteq AllPrices
<1> DEFINE most == Max({x.strike : x \in Contracts})
<1>1. \A i \in Legs : /\ c.legs[i].strike \in Nat \ {0} /\ c.legs[i].strike <= most
                      /\ most \in Nat
  <2> SUFFICES ASSUME NEW i \in Legs
               PROVE  /\ c.legs[i].strike \in Nat \ {0} /\ c.legs[i].strike <= most
                      /\ most \in Nat
    OBVIOUS
  <2>1. ContractOf(c.legs[i]) \in Contracts
    BY DEF IsOffer
  <2>2. ContractOf(c.legs[i]).strike = c.legs[i].strike
    BY DEF ContractOf
  <2> QED  BY <2>1, <2>2, StrikesHaveMax
<1>2. AllPrices = 0..(2 * most)
  BY DEF AllPrices
<1> HIDE DEF most
<1>3. most \in Nat
  BY <1>1 DEF Legs
<1>4. \A s \in Strikes(c) : s \in Nat \ {0} /\ s <= most
  BY <1>1 DEF Strikes
<1>5. /\ Strikes(c) \subseteq Nat \ {0}
      /\ c.legs[1].strike \in Strikes(c) /\ c.legs[4].strike \in Strikes(c)
  BY <1>4 DEF Strikes, Legs
<1>6. /\ Max(Strikes(c)) \in Strikes(c) /\ Min(Strikes(c)) \in Strikes(c)
      /\ Min(Strikes(c)) <= Max(Strikes(c))
  <2>1. IsStructure(c)
    BY DEF IsOffer
  <2>2. /\ Strikes(c) = {c.legs[1].strike, c.legs[2].strike, c.legs[3].strike, c.legs[4].strike}
        /\ c.legs[1].strike < c.legs[2].strike
        /\ c.legs[2].strike < c.legs[3].strike
        /\ c.legs[3].strike < c.legs[4].strike
    BY <2>1, FourStrikes
  <2> DEFINE k1 == c.legs[1].strike
             k2 == c.legs[2].strike
             k3 == c.legs[3].strike
             k4 == c.legs[4].strike
  <2>3. Strikes(c) = {k1, k2, k3, k4} /\ k1 < k2 /\ k2 < k3 /\ k3 < k4
    BY <2>2
  <2>4. k1 \in Int /\ k2 \in Int /\ k3 \in Int /\ k4 \in Int
    BY <1>5, <2>2
  <2> HIDE DEF k1, k2, k3, k4
  <2>5. k4 \in Strikes(c) /\ \A s \in Strikes(c) : k4 >= s
    BY <2>3, <2>4
  <2>6. k1 \in Strikes(c) /\ \A s \in Strikes(c) : k1 <= s
    BY <2>3, <2>4
  <2>7. /\ Max(Strikes(c)) \in Strikes(c) /\ Min(Strikes(c)) \in Strikes(c)
        /\ \A s \in Strikes(c) : Max(Strikes(c)) >= s
    BY <2>5, <2>6 DEF Max, Min
  <2> QED  BY <1>4, <2>7
<1>7. Beyond(c) \in 0..(2 * most)
  <2> DEFINE high == Max(Strikes(c))
             low == Min(Strikes(c))
             width == high - low
  <2>1. high \in Nat \ {0} /\ low \in Nat \ {0} /\ high <= most
    BY <1>4, <1>6
  <2>2. Beyond(c) = high + (IF width > 1 THEN width ELSE 1)
    BY DEF Beyond
  <2>3. low <= high
    BY <1>6
  <2> HIDE DEF high, low
  <2> QED  BY <1>3, <2>1, <2>2, <2>3
<1> QED  BY <1>2, <1>3, <1>4, <1>7 DEF Breakpoints

\* A fill at the limit or better, without the modelled friction, loses no more.
LEMMA FillLosesNoMore ==
  ASSUME NEW c, IsOffer(c), NEW paid \in Int, paid <= c.limit, NEW price \in Nat,
         NEW d, d = [c EXCEPT !.limit = paid, !.costs = Fees]
  PROVE  /\ StructurePnl(d, price) \in Int
         /\ StructurePnl(d, price) >= -ExactMaxLoss(c)
<1>1. /\ d.legs = c.legs /\ d.quantity = c.quantity /\ d.limit = paid /\ d.costs = Fees
      /\ d.strategy = c.strategy
  <2>1. c = [strategy |-> c.strategy, legs |-> c.legs, quantity |-> c.quantity,
             limit |-> c.limit, costs |-> c.costs]
    BY DEF IsOffer
  <2> QED  BY <2>1
<1>2. IsStructure(c) /\ Fees \in Nat /\ c.costs >= Fees
  BY LimitsAssumption DEF IsOffer
<1>3. IsStructure(d)
  <2>1. CoveredCondor(d)
    BY <1>1, <1>2 DEF IsStructure, CoveredCondor
  <2>2. d.strategy \in Strategies /\ \A i \in Legs : d.legs[i].strike \in Nat \ {0}
    BY <1>1, <1>2 DEF IsStructure
  <2>3. d.limit \in Int /\ d.costs \in Nat /\ d.quantity \in Nat \ {0}
    BY <1>1, <1>2 DEF IsStructure
  <2> QED  BY <2>1, <2>2, <2>3 DEF IsStructure
<1>4. /\ Gain(c, price) \in Int /\ Gain(d, price) \in Int
      /\ c.limit \in Int /\ c.costs \in Int /\ c.quantity \in Nat
  <2>1. Gain(c, price) \in Int
    BY <1>2, WorstAtABreakpoint
  <2>2. Gain(d, price) \in Int
    BY <1>3, WorstAtABreakpoint
  <2>3. c.limit \in Int /\ c.costs \in Int /\ c.quantity \in Nat
    BY <1>2 DEF IsStructure
  <2> QED  BY <2>1, <2>2, <2>3
<1>5. Gain(d, price) >= Gain(c, price)
  <2> DEFINE pay(i) == LegPayoff(c.legs[i], price)
  <2>1. \A i \in Legs : pay(i) \in Int
    <3> SUFFICES ASSUME NEW i \in Legs PROVE LegPayoff(c.legs[i], price) \in Int
      OBVIOUS
    <3>1. c.legs[i].strike \in Int
      BY <1>2 DEF IsStructure
    <3> QED  BY <3>1 DEF LegPayoff, Positive
  <2>2. /\ Gain(c, price) = pay(1) + pay(2) + pay(3) + pay(4) - c.limit
        /\ Gain(d, price) = pay(1) + pay(2) + pay(3) + pay(4) - paid
    BY <1>1 DEF Gain
  <2> HIDE DEF pay
  <2>3. pay(1) \in Int /\ pay(2) \in Int /\ pay(3) \in Int /\ pay(4) \in Int
    BY <2>1 DEF Legs
  <2> QED  BY <1>4, <2>2, <2>3
<1> DEFINE x == Gain(c, price) * Multiplier - c.costs
           y == Gain(d, price) * Multiplier - Fees
<1>6. x \in Int /\ y \in Int /\ x <= y
  <2>1. Multiplier \in Nat
    BY MultiplierAssumption
  <2>2. /\ Gain(c, price) * Multiplier \in Int /\ Gain(d, price) * Multiplier \in Int
        /\ Gain(c, price) * Multiplier <= Gain(d, price) * Multiplier
    BY <1>4, <1>5, <2>1, TimesKeepsOrder
  <2> QED  BY <1>2, <1>4, <2>2
<1>7. StructurePnl(c, price) = x * c.quantity /\ StructurePnl(d, price) = y * c.quantity
  BY <1>1 DEF StructurePnl
<1> HIDE DEF x, y
<1>8. /\ x * c.quantity \in Int /\ y * c.quantity \in Int
      /\ x * c.quantity <= y * c.quantity
  BY <1>4, <1>6, TimesKeepsOrder
<1>9. StructurePnl(c, price) >= -ExactMaxLoss(c) /\ ExactMaxLoss(c) \in Int
  BY <1>2, LossIsExact, LossIsNat
<1> QED  BY <1>7, <1>8, <1>9
\* Both rungs of the ladder are whole prices no worse than the certificate's.
LEMMA LadderIsBounded ==
  ASSUME NEW c, IsOffer(c), NEW quotes \in Moved(c.legs), Fresh(quotes, c.legs),
         NEW ladder, ladder = EntryLimits(c, quotes)
  PROVE  /\ ladder.initial \in Int /\ ladder.initial <= c.limit
         /\ ladder.replacement \in Int /\ ladder.replacement <= c.limit
<1> DEFINE at(i) == quotes[ContractOf(c.legs[i])]
<1>1. \A i \in Legs : at(i).bid \in Int /\ at(i).ask \in Int
  <2> SUFFICES ASSUME NEW i \in Legs PROVE at(i).bid \in Int /\ at(i).ask \in Int
    OBVIOUS
  <2>1. ContractOf(c.legs[i]) \in Contracts
    BY DEF IsOffer
  <2>2. PICK f \in Chains :
          quotes = [k \in Contracts |->
                      IF k \in {ContractOf(c.legs[h]) : h \in Legs} THEN f[k] ELSE NoQuote]
    BY DEF Moved
  <2>3. at(i) = f[ContractOf(c.legs[i])]
    BY <2>1, <2>2
  <2>4. f \in [Contracts -> Quotes \cup {NoQuote}]
    BY InputsAssumption
  <2>5. at(i) # NoQuote
    BY DEF Fresh
  <2>6. at(i) \in Quotes
    BY <2>1, <2>3, <2>4, <2>5
  <2> QED  BY <2>6 DEF Quotes
<1>2. 1 \in Legs /\ 2 \in Legs /\ 3 \in Legs /\ 4 \in Legs
  BY DEF Legs
<1>3. Midpoint(c.legs, quotes) \in Int
  <2> DEFINE half(i) == (at(i).bid + at(i).ask) \div 2
             mid(i) == IF c.legs[i].side = "BUY" THEN half(i) ELSE -half(i)
  <2>1. \A i \in Legs : half(i) \in Int
    BY <1>1
  <2>2. \A i \in Legs : mid(i) \in Int
    BY <2>1
  <2>3. Midpoint(c.legs, quotes) = mid(1) + mid(2) + mid(3) + mid(4)
    BY DEF Midpoint, SumOfLegs
  <2> HIDE DEF mid
  <2> QED  BY <1>2, <2>2, <2>3
<1>4. Executable(c.legs, quotes) \in Int
  <2> DEFINE flow(i) == IF c.legs[i].side = "BUY" THEN at(i).ask ELSE -at(i).bid
  <2>1. \A i \in Legs : flow(i) \in Int
    BY <1>1
  <2>2. Executable(c.legs, quotes) = flow(1) + flow(2) + flow(3) + flow(4)
    BY DEF Executable, SumOfLegs
  <2> HIDE DEF flow
  <2> QED  BY <1>2, <2>1, <2>2
<1>5. c.limit \in Int
  BY DEF IsOffer, IsStructure
<1>6. ASSUME NEW m \in Int
      PROVE  Min({m, c.limit}) \in Int /\ Min({m, c.limit}) <= c.limit
  <2>1. HasMin({m, c.limit})
    BY <1>5 DEF HasMin
  <2> QED  BY <1>5, <2>1, MinOf
<1>7. /\ ladder.initial = Min({Midpoint(c.legs, quotes), c.limit})
      /\ ladder.replacement = Min({Executable(c.legs, quotes), c.limit})
  BY DEF EntryLimits
<1> QED  BY <1>3, <1>4, <1>6, <1>7

-----------------------------------------------------------------------------
(* The invariant.                                                          *)

Typed ==
  /\ stage \in Stages
  /\ forecast \in Forecasts
  /\ limits.initial \in Int /\ limits.replacement \in Int /\ working \in Int /\ fill \in Int
  /\ context.pnl \in Int
  /\ stage \in {"collect", "collected"} => context \in Contexts
  /\ stage = "collected" => IsChain(chain)
  /\ stage \in {"certified", "working", "filled"} => IsCertificate(judgment)

\* What a certificate says is so.
Backed ==
  IsCertificate(judgment) =>
    /\ IsOffer(judgment.candidate)
    /\ judgment.loss = ExactMaxLoss(judgment.candidate)
    /\ judgment.pnl \in Int

\* The policy saw what the account may lose, and no order is worse than the certificate.
Bounded ==
  /\ stage \in {"working", "filled"} => Reasons(judgment.candidate, context) = {}
  /\ stage = "working" =>
       /\ working <= judgment.candidate.limit
       /\ limits.replacement <= judgment.candidate.limit
  /\ stage = "filled" => fill <= judgment.candidate.limit

IInv ==
  /\ Typed /\ Backed /\ Bounded
  /\ JudgmentIsRight
  /\ OwnPositionIsClosable /\ CloseUndoesEntry
\* JudgmentIsRight in terms of Good.
Verdict(stg, quotes, f, j, account) ==
  /\ stg = "certified" =>
       /\ Good(j.candidate, Seen(account), f)
       /\ \A c \in Candidates(quotes, f) :
            Good(c, Seen(account), f) => RobustEv(c, f) <= RobustEv(j.candidate, f)
  /\ stg = "refused" /\ j.refused # {"CATALYST_VETO"} =>
       \A c \in Candidates(quotes, f) : ~ Good(c, Seen(account), f)

LEMMA RightIsVerdict ==
  JudgmentIsRight <=> Verdict(stage, chain, forecast, judgment, context)
BY DEF JudgmentIsRight, Verdict, Good, Seen, RobustEv, Certified

LEMMA RightIsVerdictNext ==
  JudgmentIsRight' <=> Verdict(stage', chain', forecast', judgment', context')
BY DEF JudgmentIsRight, Verdict, Good, Seen, RobustEv, Certified

LEMMA NoVerdictYet ==
  ASSUME stage' \notin {"certified", "refused"}
  PROVE  JudgmentIsRight'
BY RightIsVerdictNext DEF Verdict

\* Nothing is closed before the close.
LEMMA NothingClosed ==
  ASSUME IInv, UNCHANGED closing, stage' # "closing"
  PROVE  OwnPositionIsClosable' /\ CloseUndoesEntry'
BY DEF IInv, OwnPositionIsClosable, CloseUndoesEntry

LEMMA AccountPnl ==
  ASSUME NEW account \in Contexts
  PROVE  account.pnl \in Int /\ Seen(account).pnl = account.pnl
BY InputsAssumption DEF Seen

LEMMA InitIInv == Init => IInv
<1> SUFFICES ASSUME Init PROVE IInv
  OBVIOUS
<1>1. ~ IsCertificate(judgment)
  BY DEF Init, NoJudgment, IsCertificate
<1>2. Typed
  <2>1. context.pnl \in Int
    BY AccountPnl DEF Init
  <2>2. limits.initial \in Int /\ limits.replacement \in Int
    BY DEF Init, NoLimits
  <2> QED  BY <2>1, <2>2 DEF Init, Typed, Stages
<1>3. Backed
  BY <1>1 DEF Backed
<1>4. Bounded
  BY DEF Init, Bounded
<1>5. JudgmentIsRight
  BY RightIsVerdict DEF Init, Verdict
<1>6. OwnPositionIsClosable /\ CloseUndoesEntry
  <2>1. closing.refused = "NONE"
    BY DEF Init, NoClose
  <2>2. closing # [refused |-> "STRUCTURE"]
    BY <2>1
  <2> QED  BY <2>2 DEF Init, OwnPositionIsClosable, CloseUndoesEntry
<1> QED  BY <1>2, <1>3, <1>4, <1>5, <1>6 DEF IInv

LEMMA CollectKeeps ==
  ASSUME IInv, Collect
  PROVE  IInv'
<1>1. stage = "collect" /\ stage' \in {"halted", "collected"}
      /\ UNCHANGED <<forecast, judgment, context, limits, working, fill, closing>>
  BY DEF Collect
<1>2. stage' = "collected" => IsChain(chain')
  <2>1. stage' = "collected" => chain' \in Chains
    BY DEF Collect
  <2> QED  BY <2>1, InputsAssumption DEF IsChain
<1>3. Typed'
  BY <1>1, <1>2 DEF IInv, Typed, Stages
<1>4. Backed' /\ Bounded'
  BY <1>1 DEF IInv, Backed, Bounded
<1>5. JudgmentIsRight' /\ OwnPositionIsClosable' /\ CloseUndoesEntry'
  BY <1>1, NoVerdictYet, NothingClosed
<1> QED  BY <1>3, <1>4, <1>5 DEF IInv

LEMMA VetoKeeps ==
  ASSUME IInv, Veto
  PROVE  IInv'
<1>1. /\ stage = "collected" /\ stage' = "refused" /\ judgment' = Refusal({"CATALYST_VETO"})
      /\ UNCHANGED <<chain, forecast, context, limits, working, fill, closing>>
  BY DEF Veto
<1>2. ~ IsCertificate(judgment')
  BY <1>1 DEF Refusal, IsCertificate
<1>3. Typed'
  BY <1>1 DEF IInv, Typed, Stages
<1>4. Backed' /\ Bounded'
  BY <1>1, <1>2 DEF Backed, Bounded, IsCertificate
<1>5. JudgmentIsRight'
  <2>1. judgment'.refused = {"CATALYST_VETO"}
    BY <1>1 DEF Refusal
  <2> QED  BY <1>1, <2>1, RightIsVerdictNext DEF Verdict
<1>6. OwnPositionIsClosable' /\ CloseUndoesEntry'
  BY <1>1, NothingClosed
<1> QED  BY <1>3, <1>4, <1>5, <1>6 DEF IInv

LEMMA JudgedKeeps ==
  ASSUME IInv, Judged
  PROVE  IInv'
<1>1. /\ stage = "collected"
      /\ judgment' = Certify(Candidates(chain, forecast), Seen(context), forecast)
      /\ stage' = IF IsCertificate(judgment') THEN "certified" ELSE "refused"
      /\ UNCHANGED <<chain, forecast, context, limits, working, fill, closing>>
  BY DEF Judged, Seen
<1>2. IsChain(chain) /\ forecast \in Forecasts /\ context \in Contexts
  BY <1>1 DEF IInv, Typed
<1> DEFINE j == judgment'
           all == Candidates(chain, forecast)
<1>3. /\ IsCertificate(j) =>
           /\ j = Certificate(j.candidate, Seen(context), forecast)
           /\ j.candidate \in all
           /\ Good(j.candidate, Seen(context), forecast)
           /\ \A c \in all :
                Good(c, Seen(context), forecast) =>
                  RobustEv(c, forecast) <= RobustEv(j.candidate, forecast)
      /\ ~ IsCertificate(j) => \A c \in all : ~ Good(c, Seen(context), forecast)
  BY <1>1, <1>2, CertifyIsRight
<1>4. Typed'
  BY <1>1, <1>2 DEF IInv, Typed, Stages
<1>5. Backed'
  <2> SUFFICES ASSUME IsCertificate(j)
               PROVE  /\ IsOffer(j.candidate) /\ j.loss = ExactMaxLoss(j.candidate)
                      /\ j.pnl \in Int
    BY DEF Backed
  <2>1. IsOffer(j.candidate)
    BY <1>2, <1>3, CandidatesAreOffers
  <2>2. j = Certificate(j.candidate, Seen(context), forecast)
    BY <1>3
  <2>3. j.loss = ExactMaxLoss(j.candidate) /\ j.pnl = Seen(context).pnl
    BY <2>2 DEF Certificate
  <2> QED  BY <1>2, <2>1, <2>3, AccountPnl
<1>6. Bounded'
  BY <1>1 DEF Bounded
<1>7. JudgmentIsRight'
  <2>1. Verdict(stage', chain, forecast, j, context)
    BY <1>1, <1>3 DEF Verdict
  <2> QED  BY <1>1, <2>1, RightIsVerdictNext
<1>8. OwnPositionIsClosable' /\ CloseUndoesEntry'
  BY <1>1, NothingClosed
<1> QED  BY <1>4, <1>5, <1>6, <1>7, <1>8 DEF IInv
\* What Execute leaves, however it ends.
LEMMA ExecuteEnds ==
  ASSUME Execute
  PROVE  /\ stage = "certified" /\ UNCHANGED <<forecast, judgment, fill, closing>>
         /\ \E seen \in Contexts, quotes \in Moved(Certified.legs) :
              /\ context' = EntryContext(seen)
              /\ \/ stage' \in {"rejected", "reconcile"} /\ limits' = NoLimits
                 \/ /\ Fresh(quotes, Certified.legs)
                    /\ Reasons(Certified, context') = {}
                    /\ limits' = EntryLimits(Certified, quotes)
                    /\ stage' \in {"working", "reconcile"}
         /\ working' = IF stage' = "working" THEN limits'.initial ELSE 0
<1>1. PICK seen \in Contexts, quotes \in Moved(Certified.legs) :
        /\ context' = EntryContext(seen)
        /\ chain' = quotes
        /\ IF seen.equity < judgment.equity THEN stage' = "rejected" /\ limits' = NoLimits
           ELSE IF seen.busy \/ ~ Fresh(quotes, Certified.legs)
           THEN stage' = "reconcile" /\ limits' = NoLimits
           ELSE IF Reasons(Certified, context') # {}
           THEN stage' = "rejected" /\ limits' = NoLimits
           ELSE LET ladder == EntryLimits(Certified, quotes)
                IN  /\ stage' = IF LimitsAreSound(Certified, ladder) THEN "working"
                                ELSE "reconcile"
                    /\ limits' = ladder
        /\ working' = IF stage' = "working" THEN limits'.initial ELSE 0
  BY DEF Execute
<1>2. \/ stage' \in {"rejected", "reconcile"} /\ limits' = NoLimits
      \/ /\ Fresh(quotes, Certified.legs)
         /\ Reasons(Certified, context') = {}
         /\ limits' = EntryLimits(Certified, quotes)
         /\ stage' \in {"working", "reconcile"}
  BY <1>1
<1>3. stage = "certified" /\ UNCHANGED <<forecast, judgment, fill, closing>>
  BY DEF Execute
<1> QED  BY <1>1, <1>2, <1>3

LEMMA ExecuteKeeps ==
  ASSUME IInv, Execute
  PROVE  IInv'
<1>1. stage = "certified" /\ UNCHANGED <<forecast, judgment, fill, closing>>
  BY ExecuteEnds
<1>2. PICK seen \in Contexts, quotes \in Moved(Certified.legs) :
        /\ context' = EntryContext(seen)
        /\ \/ stage' \in {"rejected", "reconcile"} /\ limits' = NoLimits
           \/ /\ Fresh(quotes, Certified.legs)
              /\ Reasons(Certified, context') = {}
              /\ limits' = EntryLimits(Certified, quotes)
              /\ stage' \in {"working", "reconcile"}
  BY ExecuteEnds
<1>3. working' = IF stage' = "working" THEN limits'.initial ELSE 0
  BY ExecuteEnds
<1>4. /\ IsCertificate(judgment) /\ IsOffer(Certified) /\ judgment.pnl \in Int
      /\ Certified = judgment.candidate
  BY <1>1 DEF IInv, Typed, Backed, Certified
<1>5. context'.pnl \in Int
  <2>1. seen.pnl \in Int
    BY AccountPnl
  <2>2. HasMin({seen.pnl, judgment.pnl})
    BY <1>4, <2>1 DEF HasMin
  <2>3. Min({seen.pnl, judgment.pnl}) \in Int
    BY <1>4, <2>1, <2>2, MinOf
  <2>4. seen \in [equity : Int, pnl : Int, drawdown : Int, busy : BOOLEAN, entries : Nat,
                  traded : BOOLEAN, ready : BOOLEAN, early : BOOLEAN, stale : BOOLEAN,
                  attempt : BOOLEAN]
    BY InputsAssumption
  <2>5. context'.pnl = Min({seen.pnl, judgment.pnl})
    BY <1>2, <2>4 DEF EntryContext
  <2> QED  BY <2>3, <2>5
<1>6. /\ stage' \in {"rejected", "reconcile", "working"}
      /\ limits'.initial \in Int /\ limits'.replacement \in Int
      /\ stage' = "working" =>
           /\ Reasons(Certified, context') = {}
           /\ limits'.initial <= Certified.limit /\ limits'.replacement <= Certified.limit
  <2>1. CASE stage' \in {"rejected", "reconcile"} /\ limits' = NoLimits
    BY <2>1 DEF NoLimits
  <2>2. CASE /\ Fresh(quotes, Certified.legs)
             /\ Reasons(Certified, context') = {}
             /\ limits' = EntryLimits(Certified, quotes)
             /\ stage' \in {"working", "reconcile"}
    <3>1. /\ limits'.initial \in Int /\ limits'.initial <= Certified.limit
          /\ limits'.replacement \in Int /\ limits'.replacement <= Certified.limit
      BY <1>4, <2>2, LadderIsBounded
    <3> QED  BY <2>2, <3>1
  <2> QED  BY <1>2, <2>1, <2>2
<1>7. Typed'
  <2>1. working' \in Int
    BY <1>3, <1>6
  <2> QED  BY <1>1, <1>4, <1>5, <1>6, <2>1 DEF IInv, Typed, Stages
<1>8. Backed'
  BY <1>1 DEF IInv, Backed
<1>9. Bounded'
  BY <1>1, <1>3, <1>4, <1>6 DEF Bounded
<1>10. JudgmentIsRight' /\ OwnPositionIsClosable' /\ CloseUndoesEntry'
  BY <1>1, <1>6, NoVerdictYet, NothingClosed
<1> QED  BY <1>7, <1>8, <1>9, <1>10 DEF IInv

LEMMA ExpireKeeps ==
  ASSUME IInv, Expire
  PROVE  IInv'
<1>1. /\ stage = "certified" /\ stage' = "rejected"
      /\ UNCHANGED <<chain, forecast, judgment, context, limits, working, fill, closing>>
  BY DEF Expire
<1>2. Typed'
  BY <1>1 DEF IInv, Typed, Stages
<1>3. Backed' /\ Bounded'
  BY <1>1 DEF IInv, Backed, Bounded
<1>4. JudgmentIsRight' /\ OwnPositionIsClosable' /\ CloseUndoesEntry'
  BY <1>1, NoVerdictYet, NothingClosed
<1> QED  BY <1>2, <1>3, <1>4 DEF IInv

LEMMA ReplaceKeeps ==
  ASSUME IInv, Replace
  PROVE  IInv'
<1>1. /\ stage = "working" /\ working' = limits.replacement
      /\ UNCHANGED <<stage, chain, forecast, judgment, context, limits, fill, closing>>
  BY DEF Replace
<1>2. Typed'
  BY <1>1 DEF IInv, Typed
<1>3. Backed' /\ Bounded'
  BY <1>1 DEF IInv, Backed, Bounded
<1>4. JudgmentIsRight' /\ OwnPositionIsClosable' /\ CloseUndoesEntry'
  BY <1>1, NoVerdictYet, NothingClosed
<1> QED  BY <1>2, <1>3, <1>4 DEF IInv

LEMMA FillKeeps ==
  ASSUME IInv, Fill
  PROVE  IInv'
<1>1. /\ stage = "working" /\ stage' = "filled"
      /\ fill' \in (working - MaxImprovement)..working
      /\ UNCHANGED <<chain, forecast, judgment, context, limits, working, closing>>
  BY DEF Fill
<1>2. IsCertificate(judgment) /\ IsOffer(judgment.candidate) /\ working \in Int
  BY <1>1 DEF IInv, Typed, Backed
<1>3. fill' \in Int /\ fill' <= working
  BY <1>1, <1>2, InputsAssumption
<1>4. judgment.candidate.limit \in Int
  BY <1>2 DEF IsOffer, IsStructure
<1>5. Typed'
  BY <1>1, <1>3 DEF IInv, Typed, Stages
<1>6. Backed'
  BY <1>1 DEF IInv, Backed
<1>7. Bounded'
  <2>1. working <= judgment.candidate.limit /\ Reasons(judgment.candidate, context) = {}
    BY <1>1 DEF IInv, Bounded
  <2>2. fill' <= judgment.candidate.limit
    BY <1>2, <1>3, <1>4, <2>1
  <2> QED  BY <1>1, <2>1, <2>2 DEF Bounded
<1>8. JudgmentIsRight' /\ OwnPositionIsClosable' /\ CloseUndoesEntry'
  BY <1>1, NoVerdictYet, NothingClosed
<1> QED  BY <1>5, <1>6, <1>7, <1>8 DEF IInv

LEMMA CloseKeeps ==
  ASSUME IInv, Close
  PROVE  IInv'
<1> DEFINE c == judgment.candidate
           held == HeldOf(c)
<1>1. /\ stage = "filled" /\ stage' \in {"closing", "close_refused"}
      /\ UNCHANGED <<forecast, judgment, context, limits, working, fill>>
  BY DEF Close
<1>2. IsOffer(c)
  BY <1>1 DEF IInv, Typed, Backed
<1>3. Position = held /\ Position' = held
  BY <1>1 DEF Position, Certified, HeldOf
<1>4. PICK quotes \in Moved(Certified.legs) :
        /\ closing' =
             IF ~ Fresh(quotes, Certified.legs) THEN [refused |-> "QUOTE"]
             ELSE IF ~ CondorSides(held) THEN [refused |-> "STRUCTURE"]
             ELSE IF CloseLimit(held, quotes) = 0 THEN [refused |-> "ZERO_PRICE"]
             ELSE [legs |-> CloseLegs(held), quantity |-> CloseQuantity(held),
                   limit |-> CloseLimit(held, quotes)]
        /\ stage' = IF "refused" \in DOMAIN closing' THEN "close_refused" ELSE "closing"
  BY <1>3 DEF Close
<1>5. /\ CondorSides(held)
      /\ CloseQuantity(held) = c.quantity
      /\ \A i \in Legs : /\ CloseLegs(held)[i].ratio = 1
                         /\ CloseLegs(held)[i].side = IF IsLong(held[i]) THEN "SELL" ELSE "BUY"
  BY <1>2, CloseOfAll
<1> HIDE DEF held
<1>6. \/ closing' = [refused |-> "QUOTE"]
      \/ closing' = [refused |-> "ZERO_PRICE"]
      \/ closing' = [legs |-> CloseLegs(held), quantity |-> CloseQuantity(held),
                     limit |-> CloseLimit(held, quotes)]
  BY <1>4, <1>5
<1>7. OwnPositionIsClosable'
  <2>1. closing' # [refused |-> "STRUCTURE"]
    BY <1>6
  <2> QED  BY <2>1 DEF OwnPositionIsClosable
<1>8. CloseUndoesEntry'
  <2> SUFFICES ASSUME stage' = "closing", NEW i \in Legs
               PROVE  held[i].lots + closing'.quantity * closing'.legs[i].ratio
                        * (IF closing'.legs[i].side = "BUY" THEN 1 ELSE -1) = 0
    BY <1>3 DEF CloseUndoesEntry
  <2>1. "refused" \notin DOMAIN closing'
    BY <1>4
  <2>2. closing' = [legs |-> CloseLegs(held), quantity |-> CloseQuantity(held),
                    limit |-> CloseLimit(held, quotes)]
    BY <1>6, <2>1
  <2>3. /\ closing'.quantity = c.quantity /\ closing'.legs[i].ratio = 1
        /\ closing'.legs[i].side = IF IsLong(held[i]) THEN "SELL" ELSE "BUY"
    BY <1>5, <2>2
  <2>4. held[i].lots = IF IsLong(held[i]) THEN c.quantity ELSE -c.quantity
    BY <1>2, HeldLots DEF held
  <2>5. c.quantity \in Int
    BY <1>2 DEF IsOffer, IsStructure
  <2> HIDE DEF c
  <2>6. CASE IsLong(held[i])
    <3>1. closing'.legs[i].side # "BUY" /\ held[i].lots = c.quantity
      BY <2>3, <2>4, <2>6
    <3> QED  BY <2>3, <2>5, <3>1
  <2>7. CASE ~ IsLong(held[i])
    <3>1. closing'.legs[i].side = "BUY" /\ held[i].lots = -c.quantity
      BY <2>3, <2>4, <2>7
    <3> QED  BY <2>3, <2>5, <3>1
  <2> QED  BY <2>6, <2>7
<1>9. Typed'
  BY <1>1 DEF IInv, Typed, Stages
<1>10. Backed' /\ Bounded'
  BY <1>1 DEF IInv, Backed, Bounded
<1>11. JudgmentIsRight'
  BY <1>1, NoVerdictYet
<1> QED  BY <1>7, <1>8, <1>9, <1>10, <1>11 DEF IInv

LEMMA StepKeepsIInv == IInv /\ [Next]_vars => IInv'
<1> SUFFICES ASSUME IInv, [Next]_vars PROVE IInv'
  OBVIOUS
<1>1. CASE UNCHANGED vars
  <2>1. Typed' /\ Backed' /\ Bounded'
    BY <1>1 DEF IInv, vars, Typed, Backed, Bounded
  <2>2. JudgmentIsRight'
    BY <1>1, RightIsVerdict, RightIsVerdictNext DEF IInv, vars
  <2>3. OwnPositionIsClosable' /\ CloseUndoesEntry'
    BY <1>1 DEF IInv, vars, OwnPositionIsClosable, CloseUndoesEntry, Position, Certified
  <2> QED  BY <2>1, <2>2, <2>3 DEF IInv
<1> QED  BY <1>1, CollectKeeps, VetoKeeps, JudgedKeeps, ExecuteKeeps, ExpireKeeps,
            ReplaceKeeps, FillKeeps, CloseKeeps DEF Next
-----------------------------------------------------------------------------
(* The theorems.                                                           *)

LEMMA InvariantHolds == Spec => []IInv
BY InitIInv, StepKeepsIInv, PTL DEF Spec

\* What is certified is a covered condor of one lot to portfolio_capacity lots, whatever
\* the quotes, the forecast and the limits are (CandidateService._build_candidate).
THEOREM ProposalTypeCorrect == Spec => []TypeOK
<1>1. IInv => TypeOK
  BY DEF IInv, Typed, Backed, TypeOK, Certified, IsOffer, IsStructure
<1> QED  BY <1>1, InvariantHolds, PTL

\* Whatever the underlying does, a filled proposal loses no more than a trade may, and
\* with the day's result no more than a day may: whichever rung of the ladder is filled,
\* however the quotes and the account moved since the certificate.  The recorded loss is
\* the worst at any price, the policy compares it with both limits on the account of the
\* entry, and neither rung is worse than the limit it was computed with.
THEOREM LossStaysBounded == Spec => []LossIsBounded
<1>1. IInv => LossIsBounded
  <2> SUFFICES ASSUME IInv, stage = "filled", NEW price \in AllPrices
               PROVE  /\ StructurePnl(Filled, price) >= -MaxTradeLoss
                      /\ context.pnl + StructurePnl(Filled, price) > -MaxDailyLoss
    BY DEF LossIsBounded
  <2> DEFINE c == judgment.candidate
             pnl == StructurePnl(Filled, price)
  <2>1. /\ IsOffer(c) /\ fill \in Int /\ fill <= c.limit /\ context.pnl \in Int
        /\ Reasons(c, context) = {}
    BY DEF IInv, Typed, Backed, Bounded
  <2>2. price \in Nat
    BY DEF AllPrices
  <2>3. Filled = [c EXCEPT !.limit = fill, !.costs = Fees]
    BY DEF Filled, Certified
  <2>4. pnl \in Int /\ pnl >= -ExactMaxLoss(c)
    BY <2>1, <2>2, <2>3, FillLosesNoMore
  <2>5. /\ ~ (ExactMaxLoss(c) > MaxTradeLoss)
        /\ ~ (context.pnl - ExactMaxLoss(c) <= -MaxDailyLoss)
    BY <2>1, NoReasonNoLoss
  <2>6. ExactMaxLoss(c) \in Int /\ MaxTradeLoss \in Int /\ MaxDailyLoss \in Int
    BY <2>1, LimitsAssumption DEF IsOffer
  <2> HIDE DEF c, pnl
  <2> QED  BY <2>1, <2>4, <2>5, <2>6 DEF pnl
<1> QED  BY <1>1, InvariantHolds, PTL

\* The loss a certificate records is the worst at any price up to twice the highest
\* strike, and the result at some of them (exact_max_loss).
THEOREM CertifiedLossHolds == Spec => []CertifiedLossIsExact
<1>1. IInv => CertifiedLossIsExact
  <2> SUFFICES ASSUME IInv, stage = "certified"
               PROVE  /\ \A price \in AllPrices :
                           StructurePnl(Certified, price) >= -judgment.loss
                      /\ \E price \in AllPrices :
                           StructurePnl(Certified, price) = -judgment.loss
    BY DEF CertifiedLossIsExact
  <2> DEFINE c == judgment.candidate
  <2>1. IsOffer(c) /\ judgment.loss = ExactMaxLoss(c) /\ Certified = c
    BY DEF IInv, Typed, Backed, Certified
  <2>2. IsStructure(c) /\ ExactMaxLoss(c) # 0
    BY <2>1 DEF IsOffer
  <2>3. \A price \in Nat : StructurePnl(c, price) >= -ExactMaxLoss(c)
    BY <2>2, LossIsExact
  <2>4. \E price \in Breakpoints(c) : StructurePnl(c, price) = -ExactMaxLoss(c)
    BY <2>2, LossAtABreakpoint
  <2>5. Breakpoints(c) \subseteq AllPrices
    BY <2>1, BreakpointsArePrices
  <2>6. AllPrices \subseteq Nat
    BY DEF AllPrices
  <2> HIDE DEF c
  <2> QED  BY <2>1, <2>3, <2>4, <2>5, <2>6
<1> QED  BY <1>1, InvariantHolds, PTL

\* Judge.certify certifies only what every distribution of the forecast expects to gain
\* and the policy allows, certifies the one that promises most, and refuses only if there
\* is none.  That there is a first candidate at all needs the ranking to be an order:
\* no two candidates have one key.
THEOREM JudgmentHolds == Spec => []JudgmentIsRight
<1>1. IInv => JudgmentIsRight
  BY DEF IInv
<1> QED  BY <1>1, InvariantHolds, PTL

\* The structure that was entered is never refused for its shape when it is closed
\* (_validate_close_structure knows what _legs builds).
THEOREM OwnPositionCloses == Spec => []OwnPositionIsClosable
<1>1. IInv => OwnPositionIsClosable
  BY DEF IInv
<1> QED  BY <1>1, InvariantHolds, PTL

\* A close order takes off exactly what is held of every leg: the divisor of the legs'
\* lots is the certificate's quantity and every ratio is one (close_quantity,
\* build_close_legs).
THEOREM CloseUndoes == Spec => []CloseUndoesEntry
<1>1. IInv => CloseUndoesEntry
  BY DEF IInv
<1> QED  BY <1>1, InvariantHolds, PTL
=============================================================================
