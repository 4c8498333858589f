------------------------------- MODULE Payoff -------------------------------
(***************************************************************************)
(* domain/payoff.py: what a four-leg structure is worth at expiry, and the *)
(* worst it can lose.  A structure is a record with the strategy, the four *)
(* legs in the order of their strikes, the quantity, the limit paid per    *)
(* share (negative: received), and the costs of one lot.                   *)
(***************************************************************************)
EXTENDS Integers, Sequences, FiniteSetsExt

CONSTANT Multiplier    \* CONTRACT_MULTIPLIER, in units of money per unit of price

ASSUME MultiplierAssumption == Multiplier \in Nat \ {0}

Strategies == {"LONG_VOL", "SHORT_VOL"}
Legs == 1..4

\* The rights and sides of a covered condor, outer put to outer call.
Rights == <<"P", "P", "C", "C">>
Sides(strategy) ==
  IF strategy = "LONG_VOL" THEN <<"SELL", "BUY", "BUY", "SELL">>
  ELSE <<"BUY", "SELL", "SELL", "BUY">>

\* CandidateStructure.validate_structure.
CoveredCondor(c) ==
  /\ \A i \in Legs : c.legs[i].right = Rights[i] /\ c.legs[i].side = Sides(c.strategy)[i]
  /\ \A i \in 1..3 : c.legs[i].strike < c.legs[i + 1].strike

Positive(n) == IF n > 0 THEN n ELSE 0

LegPayoff(leg, price) ==
  LET intrinsic == Positive(IF leg.right = "C" THEN price - leg.strike ELSE leg.strike - price)
  IN  IF leg.side = "BUY" THEN intrinsic ELSE -intrinsic

\* The value of one lot at expiry less what it was opened for.
Gain(c, price) ==
  LegPayoff(c.legs[1], price) + LegPayoff(c.legs[2], price)
    + LegPayoff(c.legs[3], price) + LegPayoff(c.legs[4], price) - c.limit

StructurePnl(c, price) == (Gain(c, price) * Multiplier - c.costs) * c.quantity

Strikes(c) == {c.legs[i].strike : i \in Legs}

\* A price past all strikes.
Beyond(c) ==
  LET width == Max(Strikes(c)) - Min(Strikes(c))
  IN  Max(Strikes(c)) + (IF width > 1 THEN width ELSE 1)

Breakpoints(c) == {0, Beyond(c)} \cup Strikes(c)

\* Mutant: the loss of one lot.
ExactMaxLossPerLot(c) ==
  Positive(-Min({StructurePnl([c EXCEPT !.quantity = 1], price) : price \in Breakpoints(c)}))

ExactMaxLoss(c) == Positive(-Min({StructurePnl(c, price) : price \in Breakpoints(c)}))
=============================================================================
