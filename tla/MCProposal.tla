----------------------------- MODULE MCProposal -----------------------------
EXTENDS Proposal

Contract(strike, right) == [strike |-> strike, right |-> right, expiry |-> 1]

\* Prices in dimes, money in half dimes: two puts and two calls a dollar apart, a
\* third put below them, and a call of the next expiry.
OtherExpiry == [strike |-> 40, right |-> "C", expiry |-> 2]
MCContracts ==
  {Contract(5, "P"), Contract(10, "P"), Contract(20, "P"),
   Contract(30, "C"), Contract(40, "C"), OtherExpiry}

Quote(bid, ask) == [bid |-> bid, ask |-> ask, usable |-> TRUE]
StaleQuote == [bid |-> 2, ask |-> 4, usable |-> FALSE]

Chain(lowPut, outerPut, innerPut, innerCall, outerCall) ==
  [k \in MCContracts |->
     CASE k = Contract(5, "P") -> lowPut
       [] k = Contract(10, "P") -> outerPut
       [] k = Contract(20, "P") -> innerPut
       [] k = Contract(30, "C") -> innerCall
       [] k = Contract(40, "C") -> outerCall
       [] OTHER -> Quote(1, 3)]

MCChains ==
  {Chain(lowPut, outerPut, innerPut, innerCall, outerCall) :
     lowPut \in {NoQuote, Quote(0, 2)},
     outerPut \in {Quote(2, 4), Quote(4, 6), StaleQuote},
     innerPut \in {Quote(2, 4), Quote(6, 8)},
     innerCall \in {NoQuote, Quote(1, 3), Quote(6, 8)},
     outerCall \in {Quote(1, 3), Quote(3, 3), Quote(2, 8)}}

MCPrices == {0, 15, 25, 45}

Weights(a, b, c, d) ==
  [price \in MCPrices |-> CASE price = 0 -> a [] price = 15 -> b [] price = 25 -> c
                            [] price = 45 -> d]

\* A calm and a wild forecast, each with the variants of its scenarios.
MCForecasts ==
  {{Weights(0, 0, 8, 0), Weights(0, 2, 6, 0)},
   {Weights(3, 0, 2, 3), Weights(4, 0, 0, 4), Weights(2, 1, 2, 3)}}

Calm == [equity |-> 100, pnl |-> 0, drawdown |-> 0, busy |-> FALSE, entries |-> 0,
         traded |-> FALSE, ready |-> TRUE, early |-> FALSE, stale |-> FALSE,
         attempt |-> FALSE]

MCContexts ==
  {Calm, [Calm EXCEPT !.pnl = -1000], [Calm EXCEPT !.equity = 99, !.drawdown = 1],
   [Calm EXCEPT !.busy = TRUE], [Calm EXCEPT !.entries = 1]}
=============================================================================
