---------------------------- MODULE Payoff_proofs ----------------------------
(***************************************************************************)
(* exact_max_loss looks at six prices.  That no other price is worse is    *)
(* proved here for every covered condor: between two neighbouring          *)
(* breakpoints one of the two is the worst, and past the last one and      *)
(* below the first one nothing changes.                                    *)
(***************************************************************************)
EXTENDS Payoff, TLAPS

\* A structure in whole units of price and money, as validate_structure leaves it.
IsStructure(c) ==
  /\ CoveredCondor(c) /\ c.strategy \in Strategies
  /\ \A i \in Legs : c.legs[i].strike \in Nat \ {0}
  /\ c.limit \in Int /\ c.costs \in Nat /\ c.quantity \in Nat \ {0}

LEMMA FourStrikes ==
  ASSUME NEW c, IsStructure(c)
  PROVE  /\ Strikes(c) = {c.legs[1].strike, c.legs[2].strike, c.legs[3].strike, c.legs[4].strike}
         /\ Strikes(c) \subseteq Nat \ {0}
         /\ c.legs[1].strike < c.legs[2].strike
         /\ c.legs[2].strike < c.legs[3].strike
         /\ c.legs[3].strike < c.legs[4].strike
<1>1. Legs = {1, 2, 3, 4}  BY DEF Legs
<1> QED  BY <1>1 DEF IsStructure, CoveredCondor, Strikes

LEMMA BeyondIsAPrice ==
  ASSUME NEW c, IsStructure(c)
  PROVE  Beyond(c) \in Nat
<1>1. /\ c.legs[4].strike \in Strikes(c)
      /\ \A y \in Strikes(c) : c.legs[4].strike >= y
      /\ c.legs[1].strike \in Strikes(c)
      /\ \A y \in Strikes(c) : c.legs[1].strike <= y
  <2> DEFINE k(i) == c.legs[i].strike
  <2>1. /\ Strikes(c) = {k(1), k(2), k(3), k(4)} /\ Strikes(c) \subseteq Nat \ {0}
        /\ k(1) < k(2) /\ k(2) < k(3) /\ k(3) < k(4)
    BY FourStrikes
  <2> HIDE DEF k
  <2>2. k(1) \in Int /\ k(2) \in Int /\ k(3) \in Int /\ k(4) \in Int  BY <2>1
  <2>3. /\ k(4) \in Strikes(c) /\ k(1) \in Strikes(c)
        /\ \A y \in Strikes(c) : k(4) >= y /\ k(1) <= y
    BY <2>1, <2>2
  <2> QED  BY <2>3 DEF k
<1>2. Max(Strikes(c)) \in Strikes(c)  BY <1>1 DEF Max
<1>3. Min(Strikes(c)) \in Strikes(c)  BY <1>1 DEF Min
<1>4. Max(Strikes(c)) \in Nat /\ Min(Strikes(c)) \in Nat  BY <1>2, <1>3, FourStrikes
<1> DEFINE width == Max(Strikes(c)) - Min(Strikes(c))
<1>5. Beyond(c) = Max(Strikes(c)) + (IF width > 1 THEN width ELSE 1)  BY DEF Beyond
<1>6. width \in Int  BY <1>4
<1> QED  BY <1>4, <1>5, <1>6

-----------------------------------------------------------------------------
(* The gain of one lot.                                                    *)

LEMMA GainOfLegs ==
  ASSUME NEW c, IsStructure(c), NEW price \in Nat
  PROVE  LET put(i)   == Positive(c.legs[i].strike - price)
             call(i)  == Positive(price - c.legs[i].strike)
             inner    == put(2) - put(1) + call(3) - call(4)
         IN  Gain(c, price) = (IF c.strategy = "LONG_VOL" THEN inner ELSE -inner) - c.limit
<1>1. /\ c.legs[1].right = "P" /\ c.legs[2].right = "P"
      /\ c.legs[3].right = "C" /\ c.legs[4].right = "C"
  BY DEF IsStructure, CoveredCondor, Rights, Legs
<1>2. \A i \in Legs : c.legs[i].strike \in Int  BY DEF IsStructure
<1>3. /\ c.legs[1].strike \in Int /\ c.legs[2].strike \in Int
      /\ c.legs[3].strike \in Int /\ c.legs[4].strike \in Int /\ c.limit \in Int
  BY <1>2 DEF Legs, IsStructure
<1>4. /\ Gain(c, price) = LegPayoff(c.legs[1], price) + LegPayoff(c.legs[2], price)
                          + LegPayoff(c.legs[3], price) + LegPayoff(c.legs[4], price) - c.limit
      /\ 1 \in Legs /\ 2 \in Legs /\ 3 \in Legs /\ 4 \in Legs
  BY DEF Gain, Legs
<1> DEFINE w1 == Positive(c.legs[1].strike - price)
           w2 == Positive(c.legs[2].strike - price)
           w3 == Positive(price - c.legs[3].strike)
           w4 == Positive(price - c.legs[4].strike)
<1>5. w1 \in Int /\ w2 \in Int /\ w3 \in Int /\ w4 \in Int  BY <1>3 DEF Positive
<1>6. \A i \in {1, 2} :
        LegPayoff(c.legs[i], price) =
          LET w == Positive(c.legs[i].strike - price)
          IN  IF c.legs[i].side = "BUY" THEN w ELSE -w
  BY <1>1 DEF LegPayoff
<1>7. \A i \in {3, 4} :
        LegPayoff(c.legs[i], price) =
          LET w == Positive(price - c.legs[i].strike)
          IN  IF c.legs[i].side = "BUY" THEN w ELSE -w
  BY <1>1 DEF LegPayoff
<1>8. CASE c.strategy = "LONG_VOL"
  <2>1. /\ c.legs[1].side = "SELL" /\ c.legs[2].side = "BUY"
        /\ c.legs[3].side = "BUY" /\ c.legs[4].side = "SELL"
    BY <1>4, <1>8 DEF IsStructure, CoveredCondor, Sides
  <2>2. /\ LegPayoff(c.legs[1], price) = -w1 /\ LegPayoff(c.legs[2], price) = w2
        /\ LegPayoff(c.legs[3], price) = w3 /\ LegPayoff(c.legs[4], price) = -w4
    BY <1>6, <1>7, <2>1
  <2> HIDE DEF w1, w2, w3, w4
  <2>3. Gain(c, price) = (w2 - w1 + w3 - w4) - c.limit  BY <1>3, <1>4, <1>5, <2>2
  <2> QED  BY <1>8, <2>3 DEF w1, w2, w3, w4
<1>9. CASE c.strategy # "LONG_VOL"
  <2>1. /\ c.legs[1].side = "BUY" /\ c.legs[2].side = "SELL"
        /\ c.legs[3].side = "SELL" /\ c.legs[4].side = "BUY"
    BY <1>4, <1>9 DEF IsStructure, CoveredCondor, Sides
  <2>2. /\ LegPayoff(c.legs[1], price) = w1 /\ LegPayoff(c.legs[2], price) = -w2
        /\ LegPayoff(c.legs[3], price) = -w3 /\ LegPayoff(c.legs[4], price) = w4
    BY <1>6, <1>7, <2>1
  <2> HIDE DEF w1, w2, w3, w4
  <2>3. Gain(c, price) = -(w2 - w1 + w3 - w4) - c.limit  BY <1>3, <1>4, <1>5, <2>2
  <2> QED  BY <1>9, <2>3 DEF w1, w2, w3, w4
<1> QED  BY <1>8, <1>9

LEMMA WorstAtABreakpoint ==
  ASSUME NEW c, IsStructure(c), NEW price \in Nat
  PROVE  /\ Gain(c, price) \in Int
         /\ \E i \in Legs : Gain(c, c.legs[i].strike) <= Gain(c, price)
<1> DEFINE k1 == c.legs[1].strike
           k2 == c.legs[2].strike
           k3 == c.legs[3].strike
           k4 == c.legs[4].strike
           inner(p) == Positive(k2 - p) - Positive(k1 - p) + Positive(p - k3) - Positive(p - k4)
<1>1. /\ k1 \in Nat /\ k2 \in Nat /\ k3 \in Nat /\ k4 \in Nat /\ c.limit \in Int
      /\ k1 < k2 /\ k2 < k3 /\ k3 < k4
  BY FourStrikes DEF IsStructure
<1>2. \A p \in Nat : Gain(c, p) = (IF c.strategy = "LONG_VOL" THEN inner(p) ELSE -inner(p)) - c.limit
  BY GainOfLegs
<1>3. 1 \in Legs /\ 2 \in Legs /\ 3 \in Legs /\ 4 \in Legs  BY DEF Legs
<1> HIDE DEF k1, k2, k3, k4
<1>4. /\ inner(price) \in Int
      /\ inner(k1) = k2 - k1 /\ inner(k2) = 0 /\ inner(k4) = k4 - k3
      /\ inner(price) >= 0
      /\ inner(price) <= k2 - k1 \/ inner(price) <= k4 - k3
  BY <1>1 DEF Positive
<1> HIDE DEF inner
<1>5. Gain(c, price) \in Int  BY <1>1, <1>2, <1>4
<1>6. CASE c.strategy = "LONG_VOL"
  <2>1. Gain(c, k2) <= Gain(c, price)  BY <1>1, <1>2, <1>4, <1>6
  <2> QED  BY <1>3, <1>5, <2>1 DEF k2
<1>7. CASE c.strategy # "LONG_VOL"
  <2>1. Gain(c, k1) <= Gain(c, price) \/ Gain(c, k4) <= Gain(c, price)
    BY <1>1, <1>2, <1>4, <1>7
  <2> QED  BY <1>3, <1>5, <2>1 DEF k1, k4
<1> QED  BY <1>6, <1>7

-----------------------------------------------------------------------------
(* The result of the whole structure.                                      *)

LEMMA TimesKeepsOrder ==
  ASSUME NEW a \in Int, NEW b \in Int, NEW n \in Nat, a <= b
  PROVE  a * n \in Int /\ b * n \in Int /\ a * n <= b * n
OBVIOUS

LEMMA PnlFollowsGain ==
  ASSUME NEW c, IsStructure(c), NEW p \in Nat, NEW q \in Nat, Gain(c, p) <= Gain(c, q)
  PROVE  /\ StructurePnl(c, p) \in Int /\ StructurePnl(c, q) \in Int
         /\ StructurePnl(c, p) <= StructurePnl(c, q)
<1> DEFINE one(price) == Gain(c, price) * Multiplier - c.costs
<1>1. Gain(c, p) \in Int /\ Gain(c, q) \in Int  BY WorstAtABreakpoint
<1>2. Multiplier \in Nat /\ c.costs \in Int /\ c.quantity \in Nat
  BY MultiplierAssumption DEF IsStructure
<1>3. one(p) \in Int /\ one(q) \in Int /\ one(p) <= one(q)
  <2>1. /\ Gain(c, p) * Multiplier \in Int /\ Gain(c, q) * Multiplier \in Int
        /\ Gain(c, p) * Multiplier <= Gain(c, q) * Multiplier
    BY <1>1, <1>2, TimesKeepsOrder
  <2> QED  BY <1>2, <2>1
<1>4. StructurePnl(c, p) = one(p) * c.quantity /\ StructurePnl(c, q) = one(q) * c.quantity
  BY DEF StructurePnl
<1> HIDE DEF one
<1> QED  BY <1>2, <1>3, <1>4, TimesKeepsOrder

\* S has a smallest element.
HasMin(S) == S \subseteq Int /\ \E x \in S : \A y \in S : x <= y

LEMMA MinOfMore ==
  ASSUME NEW S, HasMin(S), NEW v \in Int
  PROVE  HasMin(S \cup {v})
<1>1. PICK x \in S : \A y \in S : x <= y  BY DEF HasMin
<1>2. x \in Int /\ S \subseteq Int  BY DEF HasMin
<1>3. CASE x <= v  BY <1>1, <1>2, <1>3 DEF HasMin
<1>4. CASE v <= x
  <2>1. \A y \in S : v <= y  BY <1>1, <1>2, <1>4
  <2> QED  BY <1>2, <2>1 DEF HasMin
<1> QED  BY <1>2, <1>3, <1>4

LEMMA MinOf ==
  ASSUME NEW S, HasMin(S)
  PROVE  Min(S) \in S /\ \A y \in S : Min(S) <= y
BY DEF HasMin, Min

LEMMA BreakpointsHaveMin ==
  ASSUME NEW c, IsStructure(c)
  PROVE  /\ Breakpoints(c) \subseteq Nat
         /\ HasMin({StructurePnl(c, price) : price \in Breakpoints(c)})
<1> DEFINE k(i) == c.legs[i].strike
           f(price) == StructurePnl(c, price)
<1>1. /\ Strikes(c) = {k(1), k(2), k(3), k(4)} /\ Strikes(c) \subseteq Nat \ {0}
  BY FourStrikes
<1>2. Beyond(c) \in Nat  BY BeyondIsAPrice
<1>3. Breakpoints(c) = {0, Beyond(c), k(1), k(2), k(3), k(4)}  BY <1>1 DEF Breakpoints
<1>4. Breakpoints(c) \subseteq Nat  BY <1>1, <1>2, <1>3
<1>5. \A price \in Nat : f(price) \in Int
  <2> SUFFICES ASSUME NEW price \in Nat PROVE f(price) \in Int  OBVIOUS
  <2>1. Gain(c, price) <= Gain(c, price)  BY WorstAtABreakpoint
  <2> QED  BY <2>1, PnlFollowsGain
<1> HIDE DEF k, f
<1>6. /\ f(0) \in Int /\ f(Beyond(c)) \in Int /\ f(k(1)) \in Int /\ f(k(2)) \in Int
      /\ f(k(3)) \in Int /\ f(k(4)) \in Int
  BY <1>3, <1>4, <1>5
<1>7. HasMin({f(0)})  BY <1>6 DEF HasMin
<1>8. HasMin({f(0)} \cup {f(Beyond(c))})  BY <1>6, <1>7, MinOfMore
<1>9. HasMin({f(0)} \cup {f(Beyond(c))} \cup {f(k(1))})  BY <1>6, <1>8, MinOfMore
<1>10. HasMin({f(0)} \cup {f(Beyond(c))} \cup {f(k(1))} \cup {f(k(2))})  BY <1>6, <1>9, MinOfMore
<1>11. HasMin({f(0)} \cup {f(Beyond(c))} \cup {f(k(1))} \cup {f(k(2))} \cup {f(k(3))})
  BY <1>6, <1>10, MinOfMore
<1>12. HasMin({f(0)} \cup {f(Beyond(c))} \cup {f(k(1))} \cup {f(k(2))} \cup {f(k(3))} \cup {f(k(4))})
  BY <1>6, <1>11, MinOfMore
<1>13. {f(price) : price \in Breakpoints(c)} =
         {f(0)} \cup {f(Beyond(c))} \cup {f(k(1))} \cup {f(k(2))} \cup {f(k(3))} \cup {f(k(4))}
  BY <1>3
<1>14. HasMin({f(price) : price \in Breakpoints(c)})  BY <1>12, <1>13
<1> QED  BY <1>4, <1>14 DEF f

\* exact_max_loss is exact for every covered condor, whatever its strikes, limit, costs
\* and quantity: at no price does the structure lose more, and at some price it loses as
\* much, unless it cannot lose at all.
THEOREM LossIsExact ==
  ASSUME NEW c, IsStructure(c)
  PROVE  /\ \A price \in Nat : StructurePnl(c, price) >= -ExactMaxLoss(c)
         /\ ExactMaxLoss(c) # 0 =>
              \E price \in Nat : StructurePnl(c, price) = -ExactMaxLoss(c)
<1> DEFINE values == {StructurePnl(c, price) : price \in Breakpoints(c)}
           worst  == Min(values)
<1>1. Breakpoints(c) \subseteq Nat /\ HasMin(values)  BY BreakpointsHaveMin
<1>2. worst \in values /\ worst \in Int /\ \A v \in values : worst <= v
  BY <1>1, MinOf DEF HasMin
<1>3. ExactMaxLoss(c) = (IF -worst > 0 THEN -worst ELSE 0)  BY DEF ExactMaxLoss, Positive
<1>4. ASSUME NEW price \in Nat
      PROVE  StructurePnl(c, price) \in Int /\ worst <= StructurePnl(c, price)
  <2>1. PICK i \in Legs : Gain(c, c.legs[i].strike) <= Gain(c, price)  BY WorstAtABreakpoint
  <2>2. c.legs[i].strike \in Nat /\ c.legs[i].strike \in Breakpoints(c)
    BY DEF IsStructure, Breakpoints, Strikes
  <2>3. /\ StructurePnl(c, c.legs[i].strike) \in Int /\ StructurePnl(c, price) \in Int
        /\ StructurePnl(c, c.legs[i].strike) <= StructurePnl(c, price)
    BY <2>1, <2>2, PnlFollowsGain
  <2>4. StructurePnl(c, c.legs[i].strike) \in values  BY <2>2
  <2> HIDE DEF worst, values
  <2> QED  BY <1>2, <2>3, <2>4
<1>5. PICK price \in Nat : StructurePnl(c, price) = worst  BY <1>1, <1>2
<1> HIDE DEF worst, values
<1> QED  BY <1>2, <1>3, <1>4, <1>5
=============================================================================
