------------------------ MODULE EntryExecution_proofs ------------------------
(***************************************************************************)
(* What EntryExecution keeps, for any number of processes, certificates,   *)
(* orders and structures.  Five theorems, each with its own argument:      *)
(*                                                                         *)
(*   ClosedChain       the orders of a certificate form one chain of which *)
(*                     only the last can work (OneHead), so one order that *)
(*                     was read as ended, however long ago, tells that the *)
(*                     whole chain is dead, lost replacements included     *)
(*   EntryTypeCorrect  an order that can work has something left           *)
(*   NeverFilledTwice  the chain has filled what its head has filled and   *)
(*                     is not for any more (Balanced)                      *)
(*   ManagedIsWhole    a case manages a position because an order was read *)
(*                     as FILLED, and FILLED it stays (Trusted)            *)
(*   LiveStructure     a certificate with orders is polled, managed or     *)
(*                     halted, and the first two keep an entry out (Lone)  *)
(***************************************************************************)
EXTENDS EntryExecution, FiniteFacts_proofs

Ended == {"FILLED", "CANCELED", "REJECTED"}

\* The executions that have not submitted yet.
Unsubmitted == {"preflight", "orders", "policy", "claim", "submit"}

Row == [cert : Certs \cup {NoCert}, status : OrderStates \cup {"NONE"},
        qty : Int, filled : Int, replaces : OrderIds \cup {NoOrder}]

OrderShape == order \in [OrderIds -> Row]

IntentRow == [state : IntentStates, ids : SUBSET OrderIds,
              token : Processes \cup {NoProcess}, leased : BOOLEAN]

LocalShape ==
  /\ pc \in [Processes -> PcStates]
  /\ cert \in [Processes -> Certs \cup {NoCert}]
  /\ ids \in [Processes -> SUBSET OrderIds]
  /\ obs \in [Processes -> [OrderIds -> [status : OrderStates \cup {"NONE", "UNKNOWN"},
                                         filled : Int]]]
  /\ out \in [Processes -> EntryOutcomes \cup {"NONE"}]

Shape ==
  /\ OrderShape
  /\ intent \in [Certs -> IntentRow]
  /\ LocalShape
  /\ executes \in [Certs -> Nat]

\* Two orders of one certificate: the first is done for, or hands over to the
\* second, or was filled before it could.
Precedes(a, b) ==
  \/ order[a].status = "REPLACED"
  \/ order[a].status = "PENDING_REPLACE" /\ order[b].status = "PENDING_NEW"
     /\ order[b].replaces = a
  \/ order[a].status = "FILLED" /\ order[b].status = "REJECTED"

OneHead ==
  \A a, b \in OrderIds :
    a # b /\ order[a].cert = order[b].cert /\ order[a].cert \in Certs
      => Precedes(a, b) \/ Precedes(b, a)

UnusedOrders == \A o \in OrderIds : order[o].status = "NONE" <=> order[o].cert = NoCert

HandOver ==
  \A o \in OrderIds : order[o].status = "PENDING_NEW" =>
    /\ order[o].replaces \in OrderIds
    /\ order[order[o].replaces].status = "PENDING_REPLACE"
    /\ order[order[o].replaces].cert = order[o].cert

Orders == UnusedOrders /\ HandOver /\ OneHead

NoOrders(c) == \A o \in OrderIds : order[o].cert # c
Over(c) == ~ NoOrders(c) /\ \A o \in OrderIds : order[o].cert = c => ~ Working(o)

\* A process: one execution per certificate, no order before it has submitted;
\* it follows orders of its certificate, and what it read of an order that had
\* ended still stands.
Own(p) ==
  /\ pc[p] # "idle" => cert[p] \in Certs
  /\ pc[p] \in Unsubmitted =>
       /\ executes[cert[p]] # 0
       /\ NoOrders(cert[p])
       /\ pc[p] # "submit" => intent[cert[p]].state = "NONE"
  /\ pc[p] \notin {"idle", "checked"} => \A o \in ids[p] : order[o].cert = cert[p]
  /\ pc[p] = "persist" => ids[p] # {}
  /\ \A o \in OrderIds : obs[p][o].status \in Ended => order[o].status = obs[p][o].status

Alone ==
  \A p, q \in Processes :
    pc[p] \in Unsubmitted /\ pc[q] \in Unsubmitted /\ cert[p] = cert[q] => p = q

\* The intent of a certificate.
Intended(c) ==
  /\ executes[c] = 0 => NoOrders(c) /\ intent[c].state = "NONE"
  /\ \A o \in intent[c].ids : order[o].cert = c
  /\ intent[c].state \in ClosedIntents => Over(c)

\* A refusal before the claim: nothing is there to close.
Untouched(c) ==
  /\ intent[c].state = "NONE"
  /\ executes[c] # 0
  /\ NoOrders(c)
  /\ \A p \in Processes : cert[p] = c => pc[p] \notin Unsubmitted

Closes(p) == pc[p] = "record" /\ out[p] \in ClosedIntents => Over(cert[p]) \/ Untouched(cert[p])

IInv ==
  /\ Shape
  /\ Orders
  /\ \A p \in Processes : Own(p) /\ Closes(p)
  /\ Alone
  /\ \A c \in Certs : Intended(c)

-----------------------------------------------------------------------------
\* What a step does to the orders.

Placed(p, o) ==
  /\ pc[p] = "submit" /\ pc'[p] # "submit"
  /\ order[o].status = "NONE"
  /\ BrokerAccepts(cert[p])
  /\ order' = [order EXCEPT ![o] = NewOrder(cert[p], Qty, "NEW", NoOrder)]

AskedCancel(o) ==
  /\ order[o].status \in {"NEW", "PARTIALLY_FILLED"}
  /\ order' = [order EXCEPT ![o].status = "PENDING_CANCEL"]

Moves ==
  \/ order' = order
  \/ \E p \in Processes, o \in OrderIds : Placed(p, o)
  \/ \E p \in Processes, old, new \in OrderIds : pc[p] = "replace" /\ Replaced(old, new)
  \/ \E o \in OrderIds :
       AskedCancel(o) \/ Fill(o) \/ TakeOver(o) \/ CancelDone(o)
  \/ \E o \in OrderIds, status \in {"CANCELED", "REJECTED"} : Die(o, status)

LEMMA StepMoves ==
  ASSUME Shape, NEW p \in Processes, Step(p)
  PROVE  Moves
<1> USE DEF broker
<1>1. CASE \E o \in OrderIds : Submit(p, o) \/ SubmitAnswerLost(p, o)
  BY <1>1
     DEF Submit, SubmitAnswerLost, Placed, Moves, Goto, FinishBlind, Shape, LocalShape
<1>2. CASE \E old, new \in OrderIds : Replace(p, old, new) \/ ReplaceAnswerLost(p, old, new)
  BY <1>2 DEF Replace, ReplaceAnswerLost, Moves
<1>3. CASE \E o \in OrderIds : Observe(p, o) \/ Cancel(p, o)
  BY <1>3 DEF Observe, Cancel, AskedCancel, Moves
<1>4. CASE CheckPositions(p) \/ PreflightPositions(p) \/ PreflightOrders(p) \/ Allow(p)
  BY <1>4 DEF CheckPositions, PreflightPositions, PreflightOrders, Allow, Moves
<1>5. CASE \E outcome \in {"REJECTED", "RECONCILE_REQUIRED"} : Refuse(p, outcome)
  BY <1>5 DEF Refuse, Moves
<1>6. CASE Claim(p) \/ ClaimLost(p) \/ SubmitRefused(p) \/ Persist(p) \/ FindClientOrder(p)
  BY <1>6 DEF Claim, ClaimLost, SubmitRefused, Persist, FindClientOrder, Moves
<1>7. CASE ObserveFails(p) \/ Conclude(p) \/ DecideReplace(p) \/ DecideCancel(p)
  BY <1>7 DEF ObserveFails, Conclude, DecideReplace, DecideCancel, Moves
<1>8. CASE ReplaceRefused(p) \/ CancelsSent(p) \/ Record(p) \/ NotRecorded(p)
  BY <1>8 DEF ReplaceRefused, CancelsSent, Record, NotRecorded, Moves
<1>9. QED
  BY <1>1, <1>2, <1>3, <1>4, <1>5, <1>6, <1>7, <1>8 DEF Step

LEMMA NextMoves ==
  ASSUME Shape, Next
  PROVE  Moves
<1> USE DEF broker
<1>1. ASSUME NEW p \in Processes, NEW c \in Certs, CheckOrders(p, c) \/ Poll(p, c)
      PROVE  Moves
  BY <1>1 DEF CheckOrders, Poll, Moves
<1>2. ASSUME NEW p \in Processes, Crash(p)
      PROVE  Moves
  BY <1>2 DEF Crash, Moves
<1>3. ASSUME NEW c \in Certs, DeadlinePasses(c) \/ LeaseExpires(c)
      PROVE  Moves
  BY <1>3 DEF DeadlinePasses, LeaseExpires, Moves
<1>4. ASSUME Broker
      PROVE  Moves
  BY <1>4 DEF Broker, Moves
<1>5. QED
  BY <1>1, <1>2, <1>3, <1>4, StepMoves DEF Next

\* What no move of an order undoes, and where new orders come from.
Stable ==
  \A o \in OrderIds :
    /\ order[o].status # "NONE" => order'[o].cert = order[o].cert
    /\ order[o].status \in Ended \cup {"REPLACED"} => order'[o].status = order[o].status
    /\ order[o].status = "NONE" /\ order'[o].cert # NoCert =>
         \/ \E p \in Processes :
              pc[p] = "submit" /\ pc'[p] # "submit" /\ order'[o].cert = cert[p]
         \/ \E old \in OrderIds : order[old].cert = order'[o].cert /\ Working(old)

\* An order is only placed for a certificate that has none.
OnlyOnce ==
  \A p \in Processes, o \in OrderIds :
    Placed(p, o) => cert[p] \in Certs /\ NoOrders(cert[p])

LEMMA OwnPlacesOnce ==
  ASSUME \A p \in Processes : Own(p)
  PROVE  OnlyOnce
BY DEF OnlyOnce, Placed, Own, Unsubmitted

LEMMA MovesKeepOrders ==
  ASSUME Shape, Orders, OnlyOnce, Moves
  PROVE  OrderShape' /\ Orders' /\ Stable
<1> USE NoneAssumption, ConstantsAssumption
<1> USE DEF OrderShape
<1>0. OrderShape
  BY DEF Shape
<1>1. CASE order' = order
  BY <1>0, <1>1 DEF Orders, UnusedOrders, HandOver, OneHead, Precedes, Stable,
           OrderStates, TerminalStates, WorkingStates, PendingRequests, Ended, Working
<1>2. ASSUME NEW p \in Processes, NEW o \in OrderIds, Placed(p, o)
      PROVE  OrderShape' /\ Orders' /\ Stable
  <2>1. cert[p] \in Certs /\ \A a \in OrderIds : order[a].cert # cert[p]
    BY <1>2 DEF OnlyOnce, NoOrders
  <2>2. /\ order'[o] = NewOrder(cert[p], Qty, "NEW", NoOrder)
        /\ \A a \in OrderIds \ {o} : order'[a] = order[a]
    BY <1>0, <1>2 DEF Placed
  <2>3. OrderShape'
    BY <1>0, <1>2, <2>1 DEF Placed, NewOrder, Row, OrderStates, WorkingStates
  <2>4. QED
    BY <1>0, <1>2, <2>1, <2>2, <2>3
       DEF Placed, NewOrder, Row, Orders, UnusedOrders, HandOver, OneHead, Precedes, Stable,
           OrderStates, TerminalStates, WorkingStates, PendingRequests, Ended, Working
<1>3. ASSUME NEW old \in OrderIds, NEW new \in OrderIds, Replaced(old, new)
      PROVE  OrderShape' /\ Orders' /\ Stable
  <2>1. /\ order'[new] = NewOrder(order[old].cert, Qty, "PENDING_NEW", old)
        /\ order'[old] = [order[old] EXCEPT !.status = "PENDING_REPLACE"]
        /\ \A a \in OrderIds \ {old, new} : order'[a] = order[a]
        /\ old # new
    BY <1>0, <1>3 DEF Replaced
  <2>2. OrderShape'
    BY <1>0, <1>3 DEF Replaced, NewOrder, Row, OrderStates, WorkingStates, PendingRequests
  <2>3. \A a \in OrderIds : a # old /\ order[a].cert = order[old].cert /\ order[a].cert \in Certs
          => order[a].status = "REPLACED"
    BY <1>0, <1>3 DEF Replaced, Row, Orders, OneHead, Precedes
  <2>4. /\ \A a \in OrderIds \ {new} : /\ order'[a].cert = order[a].cert
                                        /\ order'[a].replaces = order[a].replaces
        /\ \A a \in OrderIds \ {old, new} : order'[a].status = order[a].status
        /\ order'[old].status = "PENDING_REPLACE"
        /\ order'[new].cert = order[old].cert
        /\ order'[new].status = "PENDING_NEW"
        /\ order'[new].replaces = old
        /\ order[old].status \in {"NEW", "PARTIALLY_FILLED"}
        /\ order[new].status = "NONE"
    BY <1>0, <1>3, <2>1 DEF Replaced, NewOrder, Row
  <2>5. UnusedOrders'
    BY <1>0, <2>2, <2>3, <2>4
       DEF Row, Orders, UnusedOrders,
           OrderStates, TerminalStates, WorkingStates, PendingRequests, Ended, Working
  <2>6. HandOver'
    BY <1>0, <2>2, <2>3, <2>4
       DEF Row, Orders, UnusedOrders, HandOver,
           OrderStates, TerminalStates, WorkingStates, PendingRequests, Ended, Working
  <2>7. OneHead'
    BY <1>0, <2>2, <2>3, <2>4
       DEF Row, Orders, UnusedOrders, HandOver, OneHead, Precedes,
           OrderStates, TerminalStates, WorkingStates, PendingRequests, Ended, Working
  <2>8. Stable
    BY <1>0, <2>2, <2>3, <2>4
       DEF Row, Orders, UnusedOrders, Stable,
           OrderStates, TerminalStates, WorkingStates, PendingRequests, Ended, Working
  <2>9. QED
    BY <2>2, <2>5, <2>6, <2>7, <2>8 DEF Orders
<1>4. ASSUME NEW o \in OrderIds,
             AskedCancel(o) \/ CancelDone(o) \/ \E s \in {"CANCELED", "REJECTED"} : Die(o, s)
      PROVE  OrderShape' /\ Orders' /\ Stable
  <2>1. PICK s \in {"PENDING_CANCEL", "CANCELED", "REJECTED"} :
          order' = [order EXCEPT ![o].status = s]
    BY <1>4 DEF AskedCancel, CancelDone, Die
  <2>2. order[o].status \in {"NEW", "PARTIALLY_FILLED", "PENDING_CANCEL"}
    BY <1>4 DEF AskedCancel, CancelDone, Die
  <2>3. /\ order'[o] = [order[o] EXCEPT !.status = s]
        /\ \A a \in OrderIds \ {o} : order'[a] = order[a]
    BY <1>0, <2>1 DEF Row
  <2>4. OrderShape'
    BY <1>0, <2>1
       DEF Row, OrderStates, TerminalStates, WorkingStates, PendingRequests
  <2>5. QED
    BY <1>0, <2>2, <2>3, <2>4 DEF Row, Orders, UnusedOrders, HandOver, OneHead, Precedes, Stable,
           OrderStates, TerminalStates, WorkingStates, PendingRequests, Ended, Working
<1>5. ASSUME NEW o \in OrderIds, Fill(o)
      PROVE  OrderShape' /\ Orders' /\ Stable
  <2> DEFINE last == order[o].filled + 1 = order[o].qty
             status == IF last THEN "FILLED"
                       ELSE IF order[o].status = "NEW" THEN "PARTIALLY_FILLED"
                       ELSE order[o].status
             overtaken(a) == last /\ order[a].replaces = o /\ order[a].status = "PENDING_NEW"
  <2>1. order[o].status \in WorkingStates \ {"PENDING_NEW"}
    BY <1>5 DEF Fill, Working
  <2>2. order'[o] = [order[o] EXCEPT !.filled = order[o].filled + 1, !.status = status]
    BY <1>5 DEF Fill
  <2>3. \A a \in OrderIds \ {o} :
          order'[a] = IF overtaken(a) THEN [order[a] EXCEPT !.status = "REJECTED"]
                      ELSE order[a]
    BY <1>5 DEF Fill
  <2>4. status \in OrderStates /\ order[o].filled + 1 \in Int
    BY <1>0, <2>1
       DEF Row, OrderStates, TerminalStates, WorkingStates, PendingRequests
  <2>5. /\ order'[o] \in Row /\ order'[o].status = status
        /\ order'[o].cert = order[o].cert /\ order'[o].replaces = order[o].replaces
    <3> HIDE DEF status
    <3>1. order[o] \in Row
      BY <1>0
    <3>2. QED
      BY <2>2, <2>4, <3>1 DEF Row
  <2>6. ASSUME NEW a \in OrderIds \ {o}
        PROVE  /\ order'[a] \in Row
               /\ order'[a].status = IF overtaken(a) THEN "REJECTED" ELSE order[a].status
               /\ order'[a].cert = order[a].cert /\ order'[a].replaces = order[a].replaces
    <3> HIDE DEF overtaken
    <3>1. "REJECTED" \in OrderStates /\ order[a] \in Row
      BY <1>0 DEF OrderStates, TerminalStates
    <3>2. CASE overtaken(a)
      BY <2>3, <3>1, <3>2 DEF Row
    <3>3. CASE ~ overtaken(a)
      BY <1>0, <2>3, <3>3
    <3>4. QED
      BY <3>2, <3>3
  <2>7. OrderShape'
    <3>1. order' = [a \in OrderIds |-> order'[a]]
      BY <1>5 DEF Fill
    <3>2. QED
      BY <2>5, <2>6, <3>1
  <2>8. /\ order'[o].status = status
        /\ \A a \in OrderIds :
             order'[a].cert = order[a].cert /\ order'[a].replaces = order[a].replaces
        /\ \A a \in OrderIds \ {o} :
             order'[a].status = IF overtaken(a) THEN "REJECTED" ELSE order[a].status
    BY <2>5, <2>6
  <2>9. CASE last
    <3>1. UnusedOrders'
      BY <1>0, <2>1, <2>7, <2>8, <2>9
         DEF Row, Orders, UnusedOrders,
             OrderStates, TerminalStates, WorkingStates, PendingRequests, Ended, Working
    <3>2. HandOver'
      BY <1>0, <2>1, <2>7, <2>8, <2>9
         DEF Row, Orders, UnusedOrders, HandOver, OneHead, Precedes,
             OrderStates, TerminalStates, WorkingStates, PendingRequests, Ended, Working
    <3>3. OneHead'
      BY <1>0, <2>1, <2>7, <2>8, <2>9
         DEF Row, Orders, UnusedOrders, HandOver, OneHead, Precedes,
             OrderStates, TerminalStates, WorkingStates, PendingRequests, Ended, Working
    <3>4. Stable
      BY <1>0, <2>1, <2>7, <2>8, <2>9
         DEF Row, Orders, UnusedOrders, HandOver, Stable,
             OrderStates, TerminalStates, WorkingStates, PendingRequests, Ended, Working
    <3>5. QED
      BY <2>7, <3>1, <3>2, <3>3, <3>4 DEF Orders
  <2>10. CASE ~ last
    <3>1. UnusedOrders'
      BY <1>0, <2>1, <2>7, <2>8, <2>10
         DEF Row, Orders, UnusedOrders,
             OrderStates, TerminalStates, WorkingStates, PendingRequests, Ended, Working
    <3>2. HandOver'
      BY <1>0, <2>1, <2>7, <2>8, <2>10
         DEF Row, Orders, UnusedOrders, HandOver, OneHead, Precedes,
             OrderStates, TerminalStates, WorkingStates, PendingRequests, Ended, Working
    <3>3. OneHead'
      BY <1>0, <2>1, <2>7, <2>8, <2>10
         DEF Row, Orders, UnusedOrders, HandOver, OneHead, Precedes,
             OrderStates, TerminalStates, WorkingStates, PendingRequests, Ended, Working
    <3>4. Stable
      BY <1>0, <2>1, <2>7, <2>8, <2>10
         DEF Row, Orders, UnusedOrders, HandOver, Stable,
             OrderStates, TerminalStates, WorkingStates, PendingRequests, Ended, Working
    <3>5. QED
      BY <2>7, <3>1, <3>2, <3>3, <3>4 DEF Orders
  <2>11. QED
    BY <2>9, <2>10
<1>6. ASSUME NEW o \in OrderIds, TakeOver(o)
      PROVE  OrderShape' /\ Orders' /\ Stable
  <2> DEFINE old == order[o].replaces
             left == order[old].qty - order[old].filled
  <2>1. /\ old \in OrderIds /\ old # o
        /\ order[o].status = "PENDING_NEW"
        /\ order[old].status = "PENDING_REPLACE"
        /\ order[old].cert = order[o].cert
    BY <1>0, <1>6 DEF TakeOver, Orders, HandOver
  <2>2. left \in Int
    BY <1>0, <2>1 DEF Row
  <2>3. order' = [order EXCEPT ![old].status = "REPLACED",
                               ![o] = [@ EXCEPT !.status = "NEW", !.qty = left]]
    BY <1>6 DEF TakeOver
  <2> HIDE DEF old, left
  <2>4. /\ order'[old] = [order[old] EXCEPT !.status = "REPLACED"]
        /\ order'[o] = [order[o] EXCEPT !.status = "NEW", !.qty = left]
        /\ \A a \in OrderIds \ {o, old} : order'[a] = order[a]
    BY <1>0, <2>1, <2>3
  <2>5. /\ order'[old] \in Row /\ order'[old].status = "REPLACED"
        /\ order'[old].cert = order[old].cert /\ order'[old].replaces = order[old].replaces
    <3>1. "REPLACED" \in OrderStates /\ order[old] \in Row
      BY <1>0, <2>1 DEF OrderStates, TerminalStates
    <3>2. QED
      BY <2>4, <3>1 DEF Row
  <2>6. /\ order'[o] \in Row /\ order'[o].status = "NEW"
        /\ order'[o].cert = order[o].cert /\ order'[o].replaces = order[o].replaces
    <3>1. "NEW" \in OrderStates /\ order[o] \in Row
      BY <1>0 DEF OrderStates, WorkingStates
    <3>2. QED
      BY <2>2, <2>4, <3>1 DEF Row
  <2>7. OrderShape'
    <3>1. order' = [a \in OrderIds |-> order'[a]]
      BY <1>0, <2>3
    <3>2. QED
      BY <1>0, <2>4, <2>5, <2>6, <3>1
  <2>8. /\ order'[old].status = "REPLACED" /\ order'[o].status = "NEW"
        /\ \A a \in OrderIds :
             order'[a].cert = order[a].cert /\ order'[a].replaces = order[a].replaces
        /\ \A a \in OrderIds \ {o, old} : order'[a].status = order[a].status
    BY <2>1, <2>4, <2>5, <2>6
  <2>9. order[o].replaces = old
    BY DEF old
  <2>10. QED
    <3>1. UnusedOrders'
      BY <1>0, <2>1, <2>7, <2>8, <2>9
         DEF Row, Orders, UnusedOrders,
             OrderStates, TerminalStates, WorkingStates, PendingRequests, Ended, Working
    <3>2. HandOver'
      BY <1>0, <2>1, <2>7, <2>8, <2>9
         DEF Row, Orders, UnusedOrders, HandOver, OneHead, Precedes,
             OrderStates, TerminalStates, WorkingStates, PendingRequests, Ended, Working
    <3>3. OneHead'
      BY <1>0, <2>1, <2>7, <2>8, <2>9
         DEF Row, Orders, UnusedOrders, HandOver, OneHead, Precedes,
             OrderStates, TerminalStates, WorkingStates, PendingRequests, Ended, Working
    <3>4. Stable
      BY <1>0, <2>1, <2>7, <2>8, <2>9
         DEF Row, Orders, UnusedOrders, HandOver, Stable,
             OrderStates, TerminalStates, WorkingStates, PendingRequests, Ended, Working
    <3>5. QED
      BY <2>7, <3>1, <3>2, <3>3, <3>4 DEF Orders
<1>7. QED
  BY <1>1, <1>2, <1>3, <1>4, <1>5, <1>6 DEF Moves

\* New orders only come from a process that submits, or from an order that works.
LEMMA CertificatesKept ==
  ASSUME Shape, Orders, \A p \in Processes : Own(p), OrderShape', Stable, NEW c \in Certs
  PROVE  /\ Over(c) => Over(c)'
         /\ NoOrders(c) => \/ NoOrders(c)'
                           \/ \E p \in Processes :
                                pc[p] = "submit" /\ pc'[p] # "submit" /\ cert[p] = c
         /\ \A o \in OrderIds : order[o].cert = c => order'[o].cert = c
<1> USE NoneAssumption
<1>1. \A o \in OrderIds : order[o].cert = c => order'[o].cert = c
  BY DEF Stable, Orders, UnusedOrders
<1>2. ASSUME Over(c)
      PROVE  Over(c)'
  <2>0. \A p \in Processes : ~ (pc[p] = "submit" /\ cert[p] = c)
    BY <1>2 DEF Own, Unsubmitted, Over
  <2>1. ~ NoOrders(c)'
    BY <1>1, <1>2 DEF Over, NoOrders
  <2>2. ASSUME NEW o \in OrderIds, order'[o].cert = c
        PROVE  ~ Working(o)'
    <3>1. order[o].status # "NONE"
      BY <1>2, <2>0, <2>2 DEF Stable, Over, OrderShape
    <3>2. order[o].cert = c
      BY <2>2, <3>1 DEF Stable
    <3>3. order[o].status \in Ended \cup {"REPLACED"}
      BY <1>2, <3>1, <3>2
         DEF Over, Working, Shape, OrderShape, Row, OrderStates, TerminalStates, Ended
    <3>4. order'[o].status = order[o].status
      BY <3>3 DEF Stable
    <3>5. QED
      BY <3>3, <3>4 DEF Working, WorkingStates, PendingRequests, Ended
  <2>3. QED
    BY <2>1, <2>2 DEF Over
<1>3. ASSUME NoOrders(c),
             \A p \in Processes : ~ (pc[p] = "submit" /\ pc'[p] # "submit" /\ cert[p] = c)
      PROVE  NoOrders(c)'
  BY <1>3 DEF NoOrders, Stable, Orders, UnusedOrders
<1>4. QED
  BY <1>1, <1>2, <1>3

\* An order that ended ends its chain.
LEMMA EndOfChain ==
  ASSUME Shape, Orders, NEW c \in Certs, NEW o \in OrderIds,
         order[o].cert = c, order[o].status \in Ended
  PROVE  Over(c)
<1>1. ASSUME NEW a \in OrderIds, order[a].cert = c
      PROVE  ~ Working(a)
  <2>1. a = o \/ Precedes(a, o) \/ Precedes(o, a)
    BY <1>1 DEF Orders, OneHead
  <2>2. QED
    BY <2>1 DEF Precedes, Working, WorkingStates, PendingRequests, Ended
<1>2. QED
  BY <1>1 DEF Over, NoOrders

\* The outcomes that close an intent are decided by an order that ended.
LEMMA ConclusionEnds ==
  ASSUME NEW ph, NEW rows, NEW read, Conclusion(ph, rows, read) \in ClosedIntents
  PROVE  \E o \in rows : read[o].status \in Ended
<1>1. Decision(rows, read) \in ClosedIntents
  BY DEF Conclusion, ClosedIntents
<1>2. FilledRows(rows, read) # {} \/ RejectedRows(rows, read) # {}
        \/ CanceledRows(rows, read) # {}
  BY <1>1 DEF Decision, ClosedIntents
<1>3. QED
  BY <1>2 DEF FilledRows, RejectedRows, CanceledRows, OfStatus, Ended

-----------------------------------------------------------------------------
\* What a step does to the process that takes it.

Others(p) ==
  \A q \in Processes \ {p} :
    /\ pc'[q] = pc[q] /\ cert'[q] = cert[q] /\ ids'[q] = ids[q]
    /\ obs'[q] = obs[q] /\ out'[q] = out[q]

Unread(p) == \A o \in OrderIds : obs'[p][o].status = "NONE"

LEMMA LocalEndTick ==
  ASSUME LocalShape, NEW p \in Processes, EndTick(p)
  PROVE  LocalShape' /\ Others(p) /\ pc'[p] = "idle" /\ Unread(p)
BY DEF LocalShape, EndTick, Goto, Others, Unread, Nothing, PcStates

LEMMA LocalBlind ==
  ASSUME LocalShape, NEW p \in Processes, NEW outcome \in EntryOutcomes,
         FinishBlind(p, outcome)
  PROVE  /\ LocalShape' /\ Others(p) /\ pc'[p] = "record" /\ out'[p] = outcome
         /\ cert'[p] = cert[p] /\ ids'[p] = ids[p] /\ Unread(p)
BY DEF LocalShape, FinishBlind, Goto, Others, Unread, Nothing, PcStates

LEMMA LocalObserve ==
  ASSUME LocalShape, NEW p \in Processes, NEW ph, NEW orders \in SUBSET OrderIds,
         BeginObserve(p, ph, orders)
  PROVE  /\ LocalShape' /\ Others(p) /\ pc'[p] = "observe"
         /\ cert'[p] = cert[p] /\ ids'[p] = orders /\ Unread(p)
BY DEF LocalShape, BeginObserve, Goto, Others, Unread, Nothing, PcStates

LEMMA LocalGoto ==
  ASSUME LocalShape, NEW p \in Processes, NEW l \in PcStates, Goto(p, l),
         UNCHANGED <<cert, ids, obs, out>>
  PROVE  /\ LocalShape' /\ Others(p) /\ pc'[p] = l
         /\ cert'[p] = cert[p] /\ ids'[p] = ids[p] /\ obs'[p] = obs[p]
BY DEF LocalShape, Goto, Others

-----------------------------------------------------------------------------
\* The discipline every step keeps, and that keeps the invariant.

Same(q) ==
  /\ pc'[q] = pc[q] /\ cert'[q] = cert[q] /\ ids'[q] = ids[q]
  /\ obs'[q] = obs[q] /\ out'[q] = out[q]

\* The process that takes the step.
ActsBy(p) ==
  /\ Others(p)
  /\ pc'[p] # "idle" => cert'[p] \in Certs
  /\ pc'[p] \in Unsubmitted =>
       /\ \/ pc[p] \in Unsubmitted /\ cert'[p] = cert[p]
          \/ executes[cert'[p]] = 0 /\ executes'[cert'[p]] # 0
       /\ pc'[p] # "submit" => intent' = intent /\ pc[p] # "submit"
       /\ pc[p] # "submit"
  /\ pc'[p] \notin {"idle", "checked"} => \A o \in ids'[p] : order'[o].cert = cert'[p]
  /\ pc'[p] = "persist" => ids'[p] # {}
  /\ \A o \in OrderIds : obs'[p][o].status \in Ended =>
       \/ obs'[p][o].status = obs[p][o].status
       \/ order' = order /\ obs'[p][o].status = order[o].status
  /\ pc'[p] = "record" /\ out'[p] \in ClosedIntents =>
       /\ cert'[p] = cert[p] /\ cert[p] \in Certs
       /\ UNCHANGED <<order, intent, executes>>
       /\ \/ pc[p] \in Unsubmitted \ {"submit"}
          \/ \E o \in OrderIds : obs[p][o].status \in Ended /\ order[o].cert = cert[p]

\* The intent of a certificate: who may claim it, close it and give it orders.
Intends(c) ==
  /\ executes'[c] = 0 => executes[c] = 0
  /\ intent[c].state = "NONE" /\ intent'[c].state # "NONE" =>
       \E p \in Processes : ActsBy(p) /\ cert[p] = c /\ pc[p] \in {"claim", "persist"}
  /\ intent'[c].state \in ClosedIntents =>
       \/ intent[c].state \in ClosedIntents
       \/ /\ intent[c].state # "NONE"
          /\ \E p \in Processes : cert[p] = c /\ pc[p] = "record" /\ out[p] \in ClosedIntents
  /\ \A o \in intent'[c].ids :
       \/ o \in intent[c].ids
       \/ \E p \in Processes : cert[p] = c /\ pc[p] \notin {"idle", "checked"} /\ o \in ids[p]

Discipline ==
  /\ \A q \in Processes : Same(q) \/ ActsBy(q)
  /\ \A c \in Certs : Intends(c)

LEMMA DisciplineKeepsInvariant ==
  ASSUME IInv, Shape', Orders', Stable, Discipline
  PROVE  IInv'
<1>1. /\ Shape /\ Orders /\ Alone
      /\ \A p \in Processes : Own(p) /\ Closes(p)
      /\ \A c \in Certs : Intended(c)
  BY DEF IInv
<1>2. \A c \in Certs :
        /\ Over(c) => Over(c)'
        /\ NoOrders(c) => \/ NoOrders(c)'
                          \/ \E p \in Processes :
                               pc[p] = "submit" /\ pc'[p] # "submit" /\ cert[p] = c
        /\ \A o \in OrderIds : order[o].cert = c => order'[o].cert = c
  BY <1>1, CertificatesKept DEF Shape
<1>3. \A c \in Certs, p \in Processes : pc[p] \in Unsubmitted /\ cert[p] = c => executes[c] # 0
  BY <1>1 DEF Own
<1>4. \A p \in Processes : pc[p] = "submit" => pc[p] \in Unsubmitted
  BY DEF Unsubmitted
\* A certificate without orders gets none from a process that has yet to submit.
<1>5. ASSUME NEW q \in Processes, pc[q] \in Unsubmitted, pc[q] = "submit" => pc'[q] = "submit",
             NEW c \in Certs, cert[q] = c
      PROVE  NoOrders(c)'
  <2>1. NoOrders(c)
    BY <1>1, <1>5 DEF Own
  <2>2. ~ \E p \in Processes : pc[p] = "submit" /\ pc'[p] # "submit" /\ cert[p] = c
    BY <1>1, <1>4, <1>5 DEF Alone
  <2>3. QED
    BY <1>2, <2>1, <2>2
<1>6. ASSUME NEW c \in Certs, executes[c] = 0
      PROVE  NoOrders(c)' /\ intent[c].state = "NONE"
  BY <1>1, <1>2, <1>3, <1>4, <1>6 DEF Intended
\* An intent nobody made is claimed only by the process about to claim it.
<1>7. ASSUME NEW c \in Certs, NoOrders(c), intent[c].state = "NONE",
             \A p \in Processes : ActsBy(p) => ~ (cert[p] = c /\ pc[p] = "claim")
      PROVE  intent'[c].state = "NONE"
  <2>1. ASSUME NEW p \in Processes, cert[p] = c, pc[p] = "persist"
        PROVE  FALSE
    <3>1. ids[p] # {} /\ \A o \in ids[p] : order[o].cert = c
      BY <1>1, <2>1 DEF Own
    <3>2. ids[p] \subseteq OrderIds
      BY <1>1 DEF Shape, LocalShape
    <3>3. QED
      BY <1>7, <3>1, <3>2 DEF NoOrders
  <2>2. QED
    BY <1>7, <2>1 DEF Discipline, Intends
<1>8. ASSUME NEW p \in Processes, NEW q \in Processes,
             pc'[p] \in Unsubmitted, pc'[q] \in Unsubmitted, cert'[p] = cert'[q]
      PROVE  p = q
  <2>1. SUFFICES ASSUME p # q
                 PROVE  FALSE
    OBVIOUS
  <2>2. ASSUME NEW a \in Processes, NEW b \in Processes, a # b,
               pc'[a] \in Unsubmitted, pc'[b] \in Unsubmitted, cert'[a] = cert'[b],
               ActsBy(a)
        PROVE  FALSE
    <3>1. pc[b] \in Unsubmitted /\ cert[b] = cert'[a]
      BY <2>2 DEF ActsBy, Others
    <3>2. executes[cert[b]] # 0
      BY <1>1, <3>1 DEF Own
    <3>3. pc[a] \in Unsubmitted /\ cert[a] = cert[b]
      BY <2>2, <3>1, <3>2 DEF ActsBy
    <3>4. QED
      BY <1>1, <2>2, <3>1, <3>3 DEF Alone
  <2>3. CASE Same(p) /\ Same(q)
    BY <1>1, <1>8, <2>1, <2>3 DEF Alone, Same
  <2>4. QED
    BY <1>8, <2>1, <2>2, <2>3 DEF Discipline
<1>9. ASSUME NEW c \in Certs
      PROVE  Intended(c)'
  <2>1. Intends(c)
    BY DEF Discipline
  <2>2. ASSUME executes'[c] = 0
        PROVE  NoOrders(c)' /\ intent'[c].state = "NONE"
    <3>1. executes[c] = 0
      BY <2>1, <2>2 DEF Intends
    <3>2. \A p \in Processes : ~ (cert[p] = c /\ pc[p] = "claim")
      BY <1>3, <3>1 DEF Unsubmitted
    <3>3. NoOrders(c)
      BY <1>1, <3>1 DEF Intended
    <3>4. QED
      BY <1>6, <1>7, <3>1, <3>2, <3>3
  <2>3. ASSUME NEW o \in intent'[c].ids
        PROVE  order'[o].cert = c
    <3>1. order[o].cert = c
      BY <1>1, <2>1, <2>3 DEF Intends, Intended, Own
    <3>2. o \in OrderIds
      BY <2>3 DEF Shape, IntentRow
    <3>3. QED
      BY <1>2, <3>1, <3>2
  <2>4. ASSUME intent'[c].state \in ClosedIntents
        PROVE  Over(c)'
    <3>1. CASE intent[c].state \in ClosedIntents
      BY <1>1, <1>2, <3>1 DEF Intended
    <3>2. CASE intent[c].state \notin ClosedIntents
      <4>1. PICK p \in Processes :
              cert[p] = c /\ pc[p] = "record" /\ out[p] \in ClosedIntents
        BY <2>1, <2>4, <3>2 DEF Intends
      <4>2. intent[c].state # "NONE"
        BY <2>1, <2>4, <3>2 DEF Intends
      <4>3. Over(c)
        BY <1>1, <4>1, <4>2 DEF Closes, Untouched
      <4>4. QED
        BY <1>2, <4>3
    <3>3. QED
      BY <3>1, <3>2
  <2>5. QED
    BY <2>2, <2>3, <2>4 DEF Intended
<1>10. ASSUME NEW q \in Processes
       PROVE  Own(q)'
  <2>1. ASSUME pc'[q] # "idle"
        PROVE  cert'[q] \in Certs
    BY <1>1, <2>1 DEF Own, Discipline, Same, ActsBy
  <2>2. ASSUME pc'[q] \in Unsubmitted, NEW c \in Certs, c = cert'[q]
        PROVE  /\ executes'[c] # 0 /\ NoOrders(c)'
               /\ pc'[q] # "submit" => intent'[c].state = "NONE"
    <3>1. CASE Same(q)
      <4>1. pc[q] \in Unsubmitted /\ cert[q] = c /\ pc'[q] = pc[q]
        BY <2>2, <3>1 DEF Same
      <4>2. executes[c] # 0 /\ NoOrders(c) /\ pc[q] # "submit" => intent[c].state = "NONE"
        BY <1>1, <4>1 DEF Own
      <4>3. executes'[c] # 0
        BY <4>1, <1>3 DEF Discipline, Intends
      <4>4. NoOrders(c)'
        BY <1>5, <4>1
      <4>5. ASSUME pc[q] # "submit"
            PROVE  intent'[c].state = "NONE"
        <5>1. intent[c].state = "NONE" /\ NoOrders(c)
          BY <1>1, <4>1, <4>5 DEF Own
        <5>2. ASSUME NEW p \in Processes, ActsBy(p), cert[p] = c, pc[p] = "claim"
              PROVE  intent'[c].state = "NONE"
          <6>1. p = q
            BY <1>1, <4>1, <5>2 DEF Alone, Unsubmitted
          <6>2. intent' = intent
            BY <4>1, <5>2, <6>1 DEF ActsBy, Unsubmitted
          <6>3. QED
            BY <5>1, <6>2
        <5>3. QED
          BY <1>7, <5>1, <5>2
      <4>6. QED
        BY <4>1, <4>3, <4>4, <4>5
    <3>2. CASE ActsBy(q) /\ pc[q] \in Unsubmitted /\ cert'[q] = cert[q]
      <4>1. pc[q] # "submit" /\ cert[q] = c
        BY <2>2, <3>2 DEF ActsBy
      <4>2. executes'[c] # 0
        BY <3>2, <4>1, <1>3 DEF Discipline, Intends
      <4>3. NoOrders(c)'
        BY <1>5, <3>2, <4>1
      <4>4. pc'[q] # "submit" => intent'[c].state = "NONE"
        BY <1>1, <2>2, <3>2, <4>1 DEF ActsBy, Own
      <4>5. QED
        BY <4>2, <4>3, <4>4
    <3>3. CASE ActsBy(q) /\ executes[c] = 0 /\ executes'[c] # 0
      BY <1>6, <2>2, <3>3 DEF ActsBy
    <3>4. QED
      BY <2>2, <3>1, <3>2, <3>3 DEF Discipline, ActsBy
  <2>3. ASSUME pc'[q] \notin {"idle", "checked"}, NEW o \in ids'[q]
        PROVE  order'[o].cert = cert'[q]
    <3>1. CASE Same(q)
      <4>1. order[o].cert = cert[q] /\ cert[q] \in Certs /\ cert'[q] = cert[q]
        BY <1>1, <2>3, <3>1 DEF Same, Own
      <4>2. o \in OrderIds
        BY <2>3 DEF Shape, LocalShape
      <4>3. QED
        BY <1>2, <4>1, <4>2
    <3>2. CASE ActsBy(q)
      BY <2>3, <3>2 DEF ActsBy
    <3>3. QED
      BY <3>1, <3>2 DEF Discipline
  <2>4. pc'[q] = "persist" => ids'[q] # {}
    BY <1>1 DEF Own, Discipline, Same, ActsBy
  <2>5. ASSUME NEW o \in OrderIds, obs'[q][o].status \in Ended
        PROVE  order'[o].status = obs'[q][o].status
    BY <1>1, <2>5 DEF Own, Discipline, Same, ActsBy, Stable
  <2>6. QED
    BY <2>1, <2>2, <2>3, <2>4, <2>5 DEF Own, Unsubmitted
<1>11. ASSUME NEW q \in Processes
       PROVE  Closes(q)'
  <2>1. SUFFICES ASSUME pc'[q] = "record", out'[q] \in ClosedIntents,
                        NEW c \in Certs, c = cert'[q]
                 PROVE  Over(c)' \/ Untouched(c)'
    BY <1>10 DEF Closes, Own
  <2>2. CASE Same(q)
    <3>1. Over(c) \/ Untouched(c)
      BY <1>1, <2>1, <2>2 DEF Same, Closes
    <3>2. CASE Untouched(c)
      <4>1. intent'[c].state = "NONE"
        BY <1>7, <3>2 DEF Untouched, Unsubmitted
      <4>2. executes'[c] # 0
        BY <3>2 DEF Untouched, Discipline, Intends
      <4>3. NoOrders(c)'
        BY <1>2, <1>4, <3>2 DEF Untouched
      <4>4. \A p \in Processes : cert'[p] = c => pc'[p] \notin Unsubmitted
        BY <3>2 DEF Untouched, Discipline, Same, ActsBy
      <4>5. QED
        BY <4>1, <4>2, <4>3, <4>4 DEF Untouched
    <3>3. QED
      BY <1>2, <3>1, <3>2
  <2>3. CASE ActsBy(q)
    <3>1. /\ cert[q] = c
          /\ UNCHANGED <<order, intent, executes>>
      BY <2>1, <2>3 DEF ActsBy
    <3>2. CASE pc[q] \in Unsubmitted \ {"submit"}
      <4>1. executes[c] # 0 /\ NoOrders(c) /\ intent[c].state = "NONE"
        BY <1>1, <3>1, <3>2 DEF Own
      <4>2. \A p \in Processes : cert'[p] = c => pc'[p] \notin Unsubmitted
        BY <1>1, <2>1, <2>3, <3>1, <3>2 DEF Alone, ActsBy, Others, Unsubmitted
      <4>3. QED
        BY <3>1, <4>1, <4>2 DEF Untouched, NoOrders
    <3>3. CASE \E o \in OrderIds : obs[q][o].status \in Ended /\ order[o].cert = c
      <4>1. PICK o \in OrderIds : order[o].status \in Ended /\ order[o].cert = c
        BY <1>1, <3>3 DEF Own
      <4>2. QED
        BY <1>1, <1>2, <4>1, EndOfChain
    <3>4. QED
      BY <2>1, <2>3, <3>1, <3>2, <3>3 DEF ActsBy
  <2>4. QED
    BY <2>2, <2>3 DEF Discipline
<1>12. QED
  BY <1>8, <1>9, <1>10, <1>11 DEF IInv, Alone

-----------------------------------------------------------------------------
\* Every step keeps the discipline.

\* A step of p that leaves the intents alone.
LEMMA QuietIntents ==
  ASSUME intent' = intent, executes' = executes
  PROVE  \A c \in Certs : Intends(c)
BY DEF Intends

LEMMA ActorDiscipline ==
  ASSUME NEW p \in Processes, ActsBy(p), \A c \in Certs : Intends(c)
  PROVE  Discipline
BY DEF Discipline, ActsBy, Others, Same

\* A tick that ends, a blind record and a new observation obey.
LEMMA EndTickActs ==
  ASSUME LocalShape, NEW p \in Processes, EndTick(p)
  PROVE  ActsBy(p) /\ LocalShape'
<1>1. LocalShape' /\ Others(p) /\ pc'[p] = "idle" /\ Unread(p)
  BY LocalEndTick
<1>2. QED
  BY <1>1 DEF ActsBy, Unread, Ended, Unsubmitted

LEMMA BlindActs ==
  ASSUME LocalShape, NEW p \in Processes, Own(p), pc[p] \notin {"idle", "checked"},
         \A o \in OrderIds : order[o].cert = cert[p] => order'[o].cert = cert[p],
         NEW outcome \in EntryOutcomes \ ClosedIntents, FinishBlind(p, outcome)
  PROVE  ActsBy(p) /\ LocalShape'
<1>1. /\ LocalShape' /\ Others(p) /\ pc'[p] = "record" /\ out'[p] = outcome
      /\ cert'[p] = cert[p] /\ ids'[p] = ids[p] /\ Unread(p)
  BY LocalBlind
<1>2. cert[p] \in Certs /\ \A o \in ids[p] : o \in OrderIds /\ order[o].cert = cert[p]
  BY DEF Own, LocalShape
<1>3. QED
  BY <1>1, <1>2 DEF ActsBy, Unread, Ended, Unsubmitted

LEMMA ObserveActs ==
  ASSUME LocalShape, NEW p \in Processes, Own(p), pc[p] \notin {"idle", "checked"},
         NEW orders \in SUBSET OrderIds, \A o \in orders : order'[o].cert = cert[p],
         NEW ph, BeginObserve(p, ph, orders)
  PROVE  ActsBy(p) /\ LocalShape'
<1>1. /\ LocalShape' /\ Others(p) /\ pc'[p] = "observe"
      /\ cert'[p] = cert[p] /\ ids'[p] = orders /\ Unread(p)
  BY LocalObserve
<1>2. cert[p] \in Certs
  BY DEF Own
<1>3. QED
  BY <1>1, <1>2 DEF ActsBy, Unread, Ended, Unsubmitted

\* So does one that goes on with what it has.
LEMMA GotoActs ==
  ASSUME LocalShape, NEW p \in Processes, Own(p), pc[p] \notin {"idle", "checked"},
         \A o \in OrderIds : order[o].cert = cert[p] => order'[o].cert = cert[p],
         NEW l \in PcStates \ {"persist", "record"}, Goto(p, l),
         UNCHANGED <<cert, ids, obs, out>>,
         l \in Unsubmitted =>
           pc[p] \in Unsubmitted \ {"submit"} /\ (l # "submit" => intent' = intent)
  PROVE  ActsBy(p) /\ LocalShape'
<1>1. /\ LocalShape' /\ Others(p) /\ pc'[p] = l
      /\ cert'[p] = cert[p] /\ ids'[p] = ids[p] /\ obs'[p] = obs[p]
  BY LocalGoto
<1>2. cert[p] \in Certs /\ \A o \in ids[p] : o \in OrderIds /\ order[o].cert = cert[p]
  BY DEF Own, LocalShape
<1>3. QED
  BY <1>1, <1>2 DEF ActsBy, Unsubmitted

-----------------------------------------------------------------------------
\* The acting process keeps the discipline, and every variable its shape.

Kept == \A c \in Certs, o \in OrderIds : order[o].cert = c => order'[o].cert = c

Obeys(p) ==
  /\ LocalShape' /\ ActsBy(p)
  /\ intent' \in [Certs -> IntentRow] /\ executes' \in [Certs -> Nat]
  /\ \A c \in Certs : Intends(c)

\* A step that writes no intent.
LEMMA QuietObeys ==
  ASSUME IInv, NEW p \in Processes, LocalShape', ActsBy(p), UNCHANGED <<intent, executes>>
  PROVE  Obeys(p)
<1>1. \A c \in Certs : Intends(c)
  BY QuietIntents
<1>2. QED
  BY <1>1 DEF Obeys, IInv, Shape

LEMMA EndTickObeys ==
  ASSUME IInv, NEW p \in Processes, EndTick(p), UNCHANGED <<intent, executes>>
  PROVE  Obeys(p)
<1>1. ActsBy(p) /\ LocalShape'
  BY EndTickActs DEF IInv, Shape
<1>2. QED
  BY <1>1, QuietObeys

LEMMA BlindObeys ==
  ASSUME IInv, Kept, NEW p \in Processes, pc[p] \notin {"idle", "checked"},
         FinishBlind(p, "RECONCILE_REQUIRED"), UNCHANGED <<intent, executes>>
  PROVE  Obeys(p)
<1>1. /\ LocalShape /\ Own(p) /\ cert[p] \in Certs
      /\ "RECONCILE_REQUIRED" \in EntryOutcomes \ ClosedIntents
  BY DEF IInv, Shape, Own, EntryOutcomes, ClosedIntents
<1>2. \A o \in OrderIds : order[o].cert = cert[p] => order'[o].cert = cert[p]
  BY <1>1 DEF Kept
<1>3. ActsBy(p) /\ LocalShape'
  BY <1>1, <1>2, BlindActs
<1>4. QED
  BY <1>3, QuietObeys

LEMMA ObserveObeys ==
  ASSUME IInv, NEW p \in Processes, pc[p] \notin {"idle", "checked"},
         NEW orders \in SUBSET OrderIds, \A o \in orders : order'[o].cert = cert[p],
         NEW ph, BeginObserve(p, ph, orders), UNCHANGED <<intent, executes>>
  PROVE  Obeys(p)
<1>1. LocalShape /\ Own(p)
  BY DEF IInv, Shape
<1>2. ActsBy(p) /\ LocalShape'
  BY <1>1, ObserveActs
<1>3. QED
  BY <1>2, QuietObeys

LEMMA GotoObeys ==
  ASSUME IInv, Kept, NEW p \in Processes, pc[p] \notin {"idle", "checked"},
         NEW l \in PcStates \ {"persist", "record"}, Goto(p, l),
         l \in Unsubmitted => pc[p] \in Unsubmitted \ {"submit"},
         UNCHANGED <<cert, ids, obs, out, intent, executes>>
  PROVE  Obeys(p)
<1>1. LocalShape /\ Own(p) /\ cert[p] \in Certs
  BY DEF IInv, Shape, Own
<1>2. \A o \in OrderIds : order[o].cert = cert[p] => order'[o].cert = cert[p]
  BY <1>1 DEF Kept
<1>3. ActsBy(p) /\ LocalShape'
  BY <1>1, <1>2, GotoActs
<1>4. QED
  BY <1>3, QuietObeys

LEMMA PreflightObeys ==
  ASSUME IInv, Kept, NEW p \in Processes,
         \/ PreflightPositions(p) \/ PreflightOrders(p) \/ Allow(p)
         \/ \E outcome \in {"REJECTED", "RECONCILE_REQUIRED"} : Refuse(p, outcome)
  PROVE  Obeys(p)
<1>1. LocalShape /\ Own(p)
  BY DEF IInv, Shape
<1>2. pc[p] \in Unsubmitted \ {"submit"} /\ pc[p] \notin {"idle", "checked"}
  BY DEF PreflightPositions, PreflightOrders, Allow, Refuse, Unsubmitted
<1>3. UNCHANGED <<order, intent, executes>>
  BY DEF PreflightPositions, PreflightOrders, Allow, Refuse, broker, ledger, counters
<1>4. ASSUME NEW l \in {"orders", "policy", "claim"}, Goto(p, l),
             UNCHANGED <<cert, ids, obs, out>>
      PROVE  Obeys(p)
  <2>1. l \in PcStates \ {"persist", "record"}
    BY DEF PcStates
  <2>2. QED
    BY <1>2, <1>3, <1>4, <2>1, GotoObeys
<1>5. ASSUME FinishBlind(p, "REJECTED")
      PROVE  Obeys(p)
  <2>1. "REJECTED" \in EntryOutcomes
    BY DEF EntryOutcomes
  <2>2. /\ LocalShape' /\ Others(p) /\ pc'[p] = "record" /\ out'[p] = "REJECTED"
        /\ cert'[p] = cert[p] /\ ids'[p] = ids[p] /\ Unread(p)
    BY <1>1, <1>5, <2>1, LocalBlind
  <2>3. cert[p] \in Certs /\ \A o \in ids[p] : order'[o].cert = cert[p]
    BY <1>1, <1>2, <1>3 DEF Own
  <2>4. ActsBy(p)
    BY <1>2, <1>3, <2>2, <2>3 DEF ActsBy, Unread, Ended, Unsubmitted
  <2>5. QED
    BY <1>3, <2>2, <2>4, QuietObeys
<1>6. CASE PreflightPositions(p) \/ PreflightOrders(p) \/ Allow(p)
  BY <1>2, <1>3, <1>4, <1>6, BlindObeys DEF PreflightPositions, PreflightOrders, Allow
<1>7. CASE \E outcome \in {"REJECTED", "RECONCILE_REQUIRED"} : Refuse(p, outcome)
  BY <1>2, <1>3, <1>5, <1>7, BlindObeys DEF Refuse
<1>8. QED
  BY <1>6, <1>7

\* The execution of a certificate begins: for the first and only time.
LEMMA CheckPositionsObeys ==
  ASSUME IInv, Kept, MaxExecutes \in {0, 1}, NEW p \in Processes, CheckPositions(p)
  PROVE  Obeys(p)
<1>1. LocalShape /\ Own(p) /\ executes \in [Certs -> Nat] /\ pc[p] = "checked"
  BY DEF IInv, Shape, CheckPositions
<1>2. cert[p] \in Certs /\ UNCHANGED <<order, intent>>
  BY <1>1 DEF Own, CheckPositions, broker, ledger
<1>3. CASE EndTick(p) /\ UNCHANGED executes
  BY <1>2, <1>3, EndTickObeys
<1>4. CASE /\ Goto(p, "preflight")
           /\ ids' = [ids EXCEPT ![p] = {}]
           /\ executes[cert[p]] < MaxExecutes
           /\ executes' = [executes EXCEPT ![cert[p]] = @ + 1]
           /\ UNCHANGED <<cert, phase, obs, todo, late, out>>
  <2>1. executes[cert[p]] = 0 /\ executes'[cert[p]] = 1
    BY <1>1, <1>2, <1>4
  <2>2. \A c \in Certs \ {cert[p]} : executes'[c] = executes[c]
    BY <1>1, <1>4
  <2>3. executes' \in [Certs -> Nat]
    BY <1>1, <1>2, <1>4
  <2>4. LocalShape' /\ Others(p)
    BY <1>1, <1>4 DEF LocalShape, Goto, Others, PcStates
  <2>5. /\ pc'[p] = "preflight" /\ ids'[p] = {}
        /\ cert'[p] = cert[p] /\ obs'[p] = obs[p] /\ out'[p] = out[p]
    BY <1>1, <1>4 DEF LocalShape, Goto
  <2>6. ActsBy(p)
    BY <1>1, <1>2, <2>1, <2>4, <2>5 DEF ActsBy, Unsubmitted
  <2>7. \A c \in Certs : Intends(c)
    BY <1>2, <2>1, <2>2 DEF Intends
  <2>8. QED
    BY <1>2, <2>3, <2>4, <2>6, <2>7 DEF Obeys, IInv, Shape
<1>5. QED
  BY <1>3, <1>4 DEF CheckPositions

LEMMA ClaimObeys ==
  ASSUME IInv, Kept, NEW p \in Processes, Claim(p)
  PROVE  Obeys(p)
<1>1. /\ LocalShape /\ Own(p) /\ pc[p] = "claim" /\ cert[p] \in Certs
      /\ intent \in [Certs -> IntentRow]
  BY DEF IInv, Shape, Own, Claim
<1>2. UNCHANGED <<order, executes>>
  BY DEF Claim, broker, counters
<1>3. /\ intent' \in [Certs -> IntentRow]
      /\ \A c \in Certs \ {cert[p]} : intent'[c] = intent[c]
      /\ intent'[cert[p]].ids = intent[cert[p]].ids
      /\ intent'[cert[p]].state = IF intent[cert[p]].state = "NONE" THEN "INTENT"
                                  ELSE intent[cert[p]].state
  <2> DEFINE c == cert[p]
             st == IF intent[c].state = "NONE" THEN "INTENT" ELSE intent[c].state
  <2>1. intent' = [intent EXCEPT ![c].state = st, ![c].token = p, ![c].leased = TRUE]
    BY DEF Claim
  <2>2. c \in Certs /\ st \in IntentStates /\ intent[c] \in IntentRow
    BY <1>1 DEF IntentRow, IntentStates
  <2> HIDE DEF c, st
  <2>3. /\ intent'[c] = [intent[c] EXCEPT !.state = st, !.token = p, !.leased = TRUE]
        /\ \A d \in Certs \ {c} : intent'[d] = intent[d]
        /\ intent' = [d \in Certs |-> intent'[d]]
    BY <1>1, <2>1, <2>2
  <2>4. intent'[c] \in IntentRow /\ intent'[c].ids = intent[c].ids /\ intent'[c].state = st
    BY <2>2, <2>3 DEF IntentRow
  <2>5. intent' \in [Certs -> IntentRow]
    BY <1>1, <2>3, <2>4
  <2>6. QED
    BY <2>3, <2>4, <2>5 DEF c, st
<1>4. ActsBy(p) /\ LocalShape'
  <2>1. CASE Goto(p, "submit") /\ UNCHANGED <<cert, ids, obs, out>>
    <3>1. "submit" \in PcStates \ {"persist", "record"}
          /\ "claim" \in Unsubmitted \ {"submit"} /\ "claim" \notin {"idle", "checked"}
      BY DEF PcStates, Unsubmitted
    <3>2. QED
      BY <1>1, <1>2, <2>1, <3>1, GotoActs
  <2>2. CASE BeginObserve(p, "adopted", intent[cert[p]].ids)
    <3>1. /\ intent[cert[p]].ids \in SUBSET OrderIds
          /\ \A o \in intent[cert[p]].ids : order'[o].cert = cert[p]
      BY <1>1, <1>2 DEF IInv, Intended, IntentRow
    <3>2. QED
      BY <1>1, <2>2, <3>1, ObserveActs
  <2>3. QED
    BY <2>1, <2>2 DEF Claim
<1>5. \A c \in Certs : Intends(c)
  BY <1>1, <1>2, <1>3, <1>4 DEF Intends, ClosedIntents
<1>6. QED
  BY <1>2, <1>3, <1>4, <1>5 DEF Obeys, IInv, Shape

LEMMA ClaimLostObeys ==
  ASSUME IInv, NEW p \in Processes, ClaimLost(p)
  PROVE  Obeys(p)
<1>1. /\ LocalShape /\ Own(p) /\ pc[p] = "claim" /\ cert[p] \in Certs
      /\ intent \in [Certs -> IntentRow]
  BY DEF IInv, Shape, Own, ClaimLost
<1>2. UNCHANGED <<order, intent, executes>>
  BY DEF ClaimLost, broker, ledger, counters
<1>3. /\ intent[cert[p]].ids \in SUBSET OrderIds
      /\ \A o \in intent[cert[p]].ids : order'[o].cert = cert[p]
  BY <1>1, <1>2 DEF IInv, Intended, IntentRow
<1>4. LocalShape' /\ Others(p)
  BY <1>1, <1>3 DEF ClaimLost, LocalShape, Goto, Others, PcStates, EntryOutcomes
<1>5. /\ pc'[p] = "record" /\ out'[p] = "RECONCILE_REQUIRED"
      /\ ids'[p] = intent[cert[p]].ids /\ cert'[p] = cert[p] /\ obs'[p] = obs[p]
  BY <1>1 DEF ClaimLost, LocalShape, Goto
<1>6. ActsBy(p)
  BY <1>1, <1>3, <1>4, <1>5 DEF ActsBy, Unsubmitted, ClosedIntents
<1>7. QED
  BY <1>2, <1>4, <1>6, QuietObeys

LEMMA SubmitObeys ==
  ASSUME IInv, Kept, NEW p \in Processes,
         \/ \E o \in OrderIds : Submit(p, o) \/ SubmitAnswerLost(p, o)
         \/ SubmitRefused(p)
  PROVE  Obeys(p)
<1>1. /\ LocalShape /\ Own(p) /\ pc[p] = "submit" /\ cert[p] \in Certs
      /\ OrderShape
  BY DEF IInv, Shape, Own, Submit, SubmitAnswerLost, SubmitRefused
<1>2. UNCHANGED <<intent, executes>>
  BY DEF Submit, SubmitAnswerLost, SubmitRefused, ledger, counters
<1>3. CASE \E o \in OrderIds : Submit(p, o)
  <2>1. PICK o \in OrderIds : Submit(p, o)
    BY <1>3
  <2>2. order'[o].cert = cert[p]
    BY <1>1, <2>1 DEF Submit, OrderShape, NewOrder
  <2>3. LocalShape' /\ Others(p)
    BY <1>1, <2>1 DEF Submit, LocalShape, Goto, Others, PcStates
  <2>4. /\ pc'[p] = "persist" /\ ids'[p] = {o}
        /\ cert'[p] = cert[p] /\ obs'[p] = obs[p] /\ out'[p] = out[p]
    BY <1>1, <2>1 DEF Submit, LocalShape, Goto
  <2>5. ActsBy(p)
    BY <1>1, <2>2, <2>3, <2>4 DEF ActsBy, Unsubmitted
  <2>6. QED
    BY <1>2, <2>3, <2>5, QuietObeys
<1>4. CASE SubmitRefused(p) \/ \E o \in OrderIds : SubmitAnswerLost(p, o)
  BY <1>1, <1>2, <1>4, BlindObeys DEF SubmitRefused, SubmitAnswerLost
<1>5. QED
  BY <1>3, <1>4

LEMMA PersistObeys ==
  ASSUME IInv, Kept, NEW p \in Processes, Persist(p)
  PROVE  Obeys(p)
<1>1. /\ LocalShape /\ Own(p) /\ pc[p] = "persist" /\ cert[p] \in Certs
      /\ intent \in [Certs -> IntentRow] /\ ids[p] \in SUBSET OrderIds
  BY DEF IInv, Shape, Own, Persist, LocalShape
<1>2. UNCHANGED <<order, executes>>
  BY DEF Persist, broker, counters
<1>3. CASE FinishBlind(p, "RECONCILE_REQUIRED") /\ UNCHANGED intent
  BY <1>1, <1>2, <1>3, BlindObeys
<1>4. CASE /\ intent' = [intent EXCEPT ![cert[p]].state = "SUBMITTED",
                                       ![cert[p]].ids = ids[p], ![cert[p]].leased = FALSE]
           /\ BeginObserve(p, "submitted", ids[p])
  <2>1. intent' = [intent EXCEPT ![cert[p]] = [intent[cert[p]] EXCEPT
                     !.state = "SUBMITTED", !.ids = ids[p], !.leased = FALSE]]
    BY <1>1, <1>4
  <2>2. /\ intent[cert[p]] \in IntentRow /\ "SUBMITTED" \in IntentStates
    BY <1>1 DEF IntentStates
  <2>3. /\ intent'[cert[p]] \in IntentRow
        /\ intent'[cert[p]].ids = ids[p] /\ intent'[cert[p]].state = "SUBMITTED"
        /\ \A c \in Certs \ {cert[p]} : intent'[c] = intent[c]
    BY <1>1, <2>1, <2>2 DEF IntentRow
  <2>4. intent' \in [Certs -> IntentRow]
    BY <1>1, <2>1, <2>3
  <2>5. ActsBy(p) /\ LocalShape'
    BY <1>1, <1>2, <1>4, ObserveActs DEF Own
  <2>6. \A c \in Certs : Intends(c)
    BY <1>1, <1>2, <2>3, <2>5 DEF Intends, ClosedIntents
  <2>7. QED
    BY <1>2, <2>4, <2>5, <2>6 DEF Obeys, IInv, Shape
<1>5. QED
  BY <1>3, <1>4 DEF Persist

LEMMA ObservingObeys ==
  ASSUME IInv, Kept, NEW p \in Processes,
         \/ FindClientOrder(p) \/ ObserveFails(p) \/ DecideReplace(p) \/ DecideCancel(p)
         \/ ReplaceRefused(p) \/ CancelsSent(p)
         \/ \E o \in OrderIds : Cancel(p, o)
         \/ \E old, new \in OrderIds : Replace(p, old, new) \/ ReplaceAnswerLost(p, old, new)
  PROVE  Obeys(p)
<1>1. LocalShape /\ Own(p) /\ OrderShape /\ ids[p] \in SUBSET OrderIds
  BY DEF IInv, Shape, LocalShape
<1>2. pc[p] \in {"find", "observe", "replace", "cancel"}
  BY DEF FindClientOrder, ObserveFails, DecideReplace, DecideCancel, Observed,
         ReplaceRefused, CancelsSent, Cancel, Replace, ReplaceAnswerLost
<1>3. UNCHANGED <<intent, executes>>
  BY DEF FindClientOrder, ObserveFails, DecideReplace, DecideCancel,
         ReplaceRefused, CancelsSent, Cancel, Replace, ReplaceAnswerLost, ledger, counters
<1>4. cert[p] \in Certs /\ \A o \in ids[p] : order[o].cert = cert[p] /\ order'[o].cert = cert[p]
  BY <1>1, <1>2 DEF Own, Kept
<1>5. ASSUME NEW ph, BeginObserve(p, ph, ids[p])
      PROVE  Obeys(p)
  BY <1>1, <1>2, <1>3, <1>4, <1>5, ObserveObeys
<1>6. CASE FindClientOrder(p)
  <2> DEFINE mine == {o \in OrderIds : order[o].cert = cert[p] /\ order[o].replaces = NoOrder}
  <2>1. mine \in SUBSET OrderIds /\ \A o \in mine : order'[o].cert = cert[p]
    BY <1>4 DEF Kept
  <2>2. CASE BeginObserve(p, "polled", mine)
    <3> HIDE DEF mine
    <3>1. QED
      BY <1>2, <1>3, <2>1, <2>2, ObserveObeys
  <2>3. CASE FinishBlind(p, "RECONCILE_REQUIRED")
    BY <1>2, <1>3, <2>3, BlindObeys
  <2>4. QED
    BY <1>6, <2>2, <2>3 DEF FindClientOrder
<1>7. CASE ObserveFails(p)
  BY <1>2, <1>3, <1>7, BlindObeys DEF ObserveFails
<1>8. ASSUME NEW l \in {"replace", "cancel"}, Goto(p, l), UNCHANGED <<cert, ids, obs, out>>
      PROVE  Obeys(p)
  <2>1. l \in PcStates \ {"persist", "record"} /\ l \notin Unsubmitted
    BY DEF PcStates, Unsubmitted
  <2>2. QED
    BY <1>2, <1>3, <1>8, <2>1, GotoObeys
<1>9. CASE DecideReplace(p) \/ DecideCancel(p)
  BY <1>8, <1>9 DEF DecideReplace, DecideCancel
<1>10. CASE ReplaceRefused(p) \/ CancelsSent(p)
  BY <1>5, <1>10 DEF ReplaceRefused, CancelsSent
<1>11. CASE \E o \in OrderIds : Cancel(p, o)
  <2>1. UNCHANGED <<pc, cert, ids, obs, out>> /\ pc[p] = "cancel"
    BY <1>11 DEF Cancel
  <2>2. Goto(p, "cancel")
    BY <1>1, <2>1 DEF Goto, LocalShape
  <2>3. QED
    BY <1>8, <2>1, <2>2
<1>12. ASSUME NEW old \in OrderIds, NEW new \in OrderIds, Replace(p, old, new)
       PROVE  Obeys(p)
  <2>1. order[old].cert = cert[p] /\ order'[new].cert = order[old].cert
    BY <1>1, <1>4, <1>12 DEF Replace, Replaced, OrderShape, NewOrder
  <2>2. /\ ids[p] \cup {new} \in SUBSET OrderIds
        /\ \A o \in ids[p] \cup {new} : order'[o].cert = cert[p]
    BY <1>1, <1>4, <2>1
  <2>3. BeginObserve(p, "replaced", ids[p] \cup {new})
    BY <1>12 DEF Replace
  <2>4. QED
    BY <1>2, <1>3, <2>2, <2>3, ObserveObeys
<1>13. CASE \E old, new \in OrderIds : ReplaceAnswerLost(p, old, new)
  BY <1>5, <1>13 DEF ReplaceAnswerLost
<1>14. QED
  BY <1>6, <1>7, <1>9, <1>10, <1>11, <1>12, <1>13

LEMMA ObserveOneObeys ==
  ASSUME IInv, NEW p \in Processes, NEW o \in OrderIds, Observe(p, o)
  PROVE  Obeys(p)
<1>1. /\ LocalShape /\ Own(p) /\ OrderShape /\ pc[p] = "observe" /\ cert[p] \in Certs
  BY DEF IInv, Shape, Own, Observe
<1>2. UNCHANGED <<order, intent, executes, pc, cert, ids, out>>
  BY DEF Observe, broker, ledger, counters
<1>3. order[o].status \in OrderStates \cup {"NONE"} /\ order[o].filled \in Int
  BY <1>1 DEF OrderShape, Row
<1>4. obs' = [obs EXCEPT ![p] = [obs[p] EXCEPT
                ![o] = [status |-> order[o].status, filled |-> order[o].filled]]]
  BY <1>1 DEF Observe, LocalShape
<1>5. LocalShape'
  BY <1>1, <1>2, <1>3, <1>4 DEF LocalShape
<1>6. Others(p)
  BY <1>1, <1>2, <1>4 DEF Others, LocalShape
<1>7. \A a \in OrderIds : \/ obs'[p][a] = obs[p][a]
                          \/ obs'[p][a].status = order[a].status
  BY <1>1, <1>4 DEF LocalShape
<1>8. ActsBy(p)
  BY <1>1, <1>2, <1>6, <1>7 DEF ActsBy, Own, Unsubmitted
<1>9. QED
  BY <1>2, <1>5, <1>8, QuietObeys

LEMMA ConclusionIsOutcome ==
  ASSUME NEW ph, NEW rows, NEW read
  PROVE  Conclusion(ph, rows, read) \in EntryOutcomes
<1>1. Decision(rows, read) \in EntryOutcomes \cup {"NONE"}
  BY DEF Decision, EntryOutcomes
<1>2. QED
  BY <1>1 DEF Conclusion, EntryOutcomes

LEMMA ConcludeObeys ==
  ASSUME IInv, NEW p \in Processes, Conclude(p)
  PROVE  Obeys(p)
<1> DEFINE outcome == Conclusion(phase[p], ids[p], obs[p])
<1>1. /\ LocalShape /\ Own(p) /\ pc[p] = "observe" /\ cert[p] \in Certs
      /\ ids[p] \in SUBSET OrderIds
  BY DEF IInv, Shape, LocalShape, Own, Conclude, Observed
<1>2. UNCHANGED <<order, intent, executes, cert, ids, obs>>
  BY DEF Conclude, broker, ledger, counters
<1>3. Goto(p, "record") /\ out' = [out EXCEPT ![p] = outcome]
  BY DEF Conclude
<1>4. outcome \in EntryOutcomes
  BY ConclusionIsOutcome
<1>5. outcome \in ClosedIntents =>
        \E o \in OrderIds : obs[p][o].status \in Ended /\ order[o].cert = cert[p]
  BY <1>1, ConclusionEnds DEF Own
<1> HIDE DEF outcome
<1>6. LocalShape' /\ Others(p) /\ pc'[p] = "record" /\ out'[p] = outcome
  BY <1>1, <1>2, <1>3, <1>4 DEF LocalShape, Goto, Others, PcStates
<1>7. ActsBy(p)
  BY <1>1, <1>2, <1>5, <1>6 DEF ActsBy, Own, Unsubmitted
<1>8. QED
  BY <1>2, <1>6, <1>7, QuietObeys

LEMMA RecordObeys ==
  ASSUME IInv, NEW p \in Processes, Record(p)
  PROVE  Obeys(p)
<1> DEFINE i == intent[cert[p]]
           st == IF out[p] \in ClosedIntents THEN out[p] ELSE "SUBMITTED"
           orders == IF ids[p] = {} THEN i.ids ELSE ids[p]
           changed == [i EXCEPT !.state = st, !.ids = orders, !.leased = FALSE]
<1>1. /\ LocalShape /\ Own(p) /\ pc[p] = "record" /\ cert[p] \in Certs
      /\ intent \in [Certs -> IntentRow] /\ i \in IntentRow /\ ids[p] \in SUBSET OrderIds
  BY DEF IInv, Shape, LocalShape, Own, Record
<1>2. UNCHANGED <<order, executes>> /\ EndTick(p)
  BY DEF Record, broker, counters
<1>3. intent' = [intent EXCEPT ![cert[p]] = IF i.state = "NONE" THEN i ELSE changed]
  BY <1>1 DEF Record, RecordedIntent
<1>4. /\ st \in IntentStates /\ st # "NONE" /\ orders \in SUBSET OrderIds
      /\ st \in ClosedIntents => out[p] \in ClosedIntents
      /\ \A o \in orders : o \in i.ids \/ o \in ids[p]
  BY <1>1 DEF IntentStates, ClosedIntents, IntentRow
<1>5. \A c \in Certs \ {cert[p]} : intent'[c] = intent[c]
  BY <1>1, <1>3
<1>6. ASSUME i.state # "NONE"
      PROVE  /\ intent'[cert[p]] \in IntentRow
             /\ intent'[cert[p]].state = st /\ intent'[cert[p]].ids = orders
  <2>1. intent'[cert[p]] = changed
    BY <1>1, <1>3, <1>6
  <2> HIDE DEF st, orders
  <2>2. QED
    BY <1>1, <1>4, <2>1 DEF IntentRow
<1>7. ASSUME i.state = "NONE"
      PROVE  intent'[cert[p]] = i
  BY <1>1, <1>3, <1>7
<1>8. intent' = [c \in Certs |-> intent'[c]]
  BY <1>1, <1>3
<1>9. intent' \in [Certs -> IntentRow]
  BY <1>1, <1>5, <1>6, <1>7, <1>8
<1>10. ActsBy(p) /\ LocalShape'
  BY <1>1, <1>2, EndTickActs
<1> HIDE DEF st, orders, changed
<1>11. \A c \in Certs : Intends(c)
  <2>1. ASSUME NEW c \in Certs, c # cert[p]
        PROVE  Intends(c)
    BY <1>2, <1>5, <2>1 DEF Intends
  <2>2. CASE i.state = "NONE"
    <3>1. Intends(cert[p])
      BY <1>2, <1>7, <2>2 DEF Intends
    <3>2. QED
      BY <2>1, <3>1
  <2>3. CASE i.state # "NONE"
    <3>1. Intends(cert[p])
      BY <1>1, <1>2, <1>4, <1>6, <2>3 DEF Intends
    <3>2. QED
      BY <2>1, <3>1
  <2>4. QED
    BY <2>2, <2>3
<1>12. QED
  BY <1>2, <1>9, <1>10, <1>11 DEF Obeys, IInv, Shape

LEMMA BeginTickObeys ==
  ASSUME IInv, NEW p \in Processes, NEW c \in Certs, CheckOrders(p, c) \/ Poll(p, c)
  PROVE  Obeys(p)
<1>1. /\ LocalShape /\ OrderShape /\ Own(p) /\ UnusedOrders /\ Intended(c)
      /\ intent[c] \in IntentRow
  BY DEF IInv, Shape, Orders
<1>2. UNCHANGED <<order, intent, executes>> /\ UNCHANGED <<obs, out>>
  BY DEF CheckOrders, Poll, broker, ledger, counters
<1>3. CASE CheckOrders(p, c)
  <2>1. OpenOrders \in SUBSET OrderIds
    BY DEF OpenOrders
  <2>2. LocalShape' /\ Others(p) /\ pc'[p] = "checked" /\ cert'[p] = c
    BY <1>1, <1>2, <1>3, <2>1 DEF CheckOrders, LocalShape, Goto, Others, PcStates
  <2>3. ActsBy(p)
    BY <1>1, <1>2, <2>2 DEF ActsBy, Unsubmitted
  <2>4. QED
    BY <1>2, <2>2, <2>3, QuietObeys
<1>4. CASE Poll(p, c)
  <2>1. ChainIds(c) \in SUBSET OrderIds /\ \A o \in ChainIds(c) : order[o].cert = c
    BY <1>1 DEF ChainIds, IntentRow, Intended
  <2>2. /\ LocalShape' /\ Others(p) /\ cert'[p] = c /\ ids'[p] = ChainIds(c)
        /\ pc'[p] \in {"find", "observe"}
    <3>1. PICK l \in {"find", "observe"} : Goto(p, l)
      BY <1>4 DEF Poll
    <3>2. ids' = [ids EXCEPT ![p] = ChainIds(c)] /\ cert' = [cert EXCEPT ![p] = c]
      BY <1>4 DEF Poll
    <3>3. QED
      BY <1>1, <1>2, <2>1, <3>1, <3>2 DEF LocalShape, Goto, Others, PcStates
  <2>3. ActsBy(p)
    BY <1>1, <1>2, <2>1, <2>2 DEF ActsBy, Unsubmitted
  <2>4. QED
    BY <1>2, <2>2, <2>3, QuietObeys
<1>5. QED
  BY <1>3, <1>4

LEMMA CrashObeys ==
  ASSUME IInv, NEW p \in Processes, Crash(p)
  PROVE  Obeys(p)
<1>1. LocalShape /\ intent \in [Certs -> IntentRow]
  BY DEF IInv, Shape
<1>2. UNCHANGED <<order, executes>> /\ EndTick(p)
  BY DEF Crash, broker
<1>3. ASSUME NEW c \in Certs
      PROVE  /\ intent'[c] \in IntentRow
             /\ intent'[c].state = intent[c].state /\ intent'[c].ids = intent[c].ids
  <2>1. intent[c] \in IntentRow
    BY <1>1
  <2>2. intent'[c] = intent[c] \/ intent'[c] = [intent[c] EXCEPT !.token = NoProcess]
    BY DEF Crash
  <2>3. QED
    BY <2>1, <2>2 DEF IntentRow
<1>4. intent' \in [Certs -> IntentRow]
  <2>1. intent' = [c \in Certs |-> intent'[c]]
    BY DEF Crash
  <2>2. QED
    BY <1>3, <2>1
<1>5. ActsBy(p) /\ LocalShape'
  BY <1>1, <1>2, EndTickActs
<1>6. \A c \in Certs : Intends(c)
  BY <1>2, <1>3 DEF Intends
<1>7. QED
  BY <1>2, <1>4, <1>5, <1>6 DEF Obeys, IInv, Shape

LEMMA StepObeys ==
  ASSUME IInv, Kept, MaxExecutes \in {0, 1}, NEW p \in Processes, Step(p)
  PROVE  Obeys(p)
<1>1. CASE NotRecorded(p)
  <2>1. EndTick(p) /\ UNCHANGED <<intent, executes>>
    BY <1>1 DEF NotRecorded, ledger, counters
  <2>2. QED
    BY <2>1, EndTickObeys
<1>2. CASE CheckPositions(p)
  BY <1>2, CheckPositionsObeys
<1>3. CASE \/ PreflightPositions(p) \/ PreflightOrders(p) \/ Allow(p)
           \/ \E outcome \in {"REJECTED", "RECONCILE_REQUIRED"} : Refuse(p, outcome)
  BY <1>3, PreflightObeys
<1>4. CASE Claim(p) \/ ClaimLost(p)
  BY <1>4, ClaimObeys, ClaimLostObeys
<1>5. CASE SubmitRefused(p) \/ \E o \in OrderIds : Submit(p, o) \/ SubmitAnswerLost(p, o)
  BY <1>5, SubmitObeys
<1>6. CASE Persist(p)
  BY <1>6, PersistObeys
<1>7. CASE \/ FindClientOrder(p) \/ ObserveFails(p) \/ DecideReplace(p) \/ DecideCancel(p)
           \/ ReplaceRefused(p) \/ CancelsSent(p)
           \/ \E o \in OrderIds : Cancel(p, o)
           \/ \E old, new \in OrderIds : Replace(p, old, new) \/ ReplaceAnswerLost(p, old, new)
  BY <1>7, ObservingObeys
<1>8. CASE \E o \in OrderIds : Observe(p, o)
  BY <1>8, ObserveOneObeys
<1>9. CASE Conclude(p)
  BY <1>9, ConcludeObeys
<1>10. CASE Record(p)
  BY <1>10, RecordObeys
<1>11. QED
  BY <1>1, <1>2, <1>3, <1>4, <1>5, <1>6, <1>7, <1>8, <1>9, <1>10 DEF Step

\* A step of the broker or of the clock, and no step at all.
Idle ==
  /\ \A q \in Processes : Same(q)
  /\ intent' \in [Certs -> IntentRow] /\ executes' = executes
  /\ \A c \in Certs : intent'[c].state = intent[c].state /\ intent'[c].ids = intent[c].ids

LEMMA IdleSteps ==
  ASSUME IInv, Broker \/ (\E c \in Certs : DeadlinePasses(c) \/ LeaseExpires(c))
               \/ UNCHANGED vars
  PROVE  Idle /\ LocalShape'
<1>1. LocalShape /\ intent \in [Certs -> IntentRow]
  BY DEF IInv, Shape
<1>2. UNCHANGED <<pc, cert, ids, obs, out, executes>>
  BY DEF Broker, Fill, TakeOver, CancelDone, Die, DeadlinePasses, LeaseExpires,
         locals, counters, vars
<1>3. LocalShape' /\ \A q \in Processes : Same(q)
  BY <1>1, <1>2 DEF LocalShape, Same
<1>4. CASE UNCHANGED intent
  BY <1>1, <1>2, <1>3, <1>4 DEF Idle
<1>5. ASSUME NEW c \in Certs, LeaseExpires(c)
      PROVE  Idle
  <2>1. /\ intent'[c] = [intent[c] EXCEPT !.leased = FALSE]
        /\ \A d \in Certs \ {c} : intent'[d] = intent[d]
        /\ intent' = [d \in Certs |-> intent'[d]]
    BY <1>1, <1>5 DEF LeaseExpires
  <2>2. /\ intent'[c] \in IntentRow
        /\ intent'[c].state = intent[c].state /\ intent'[c].ids = intent[c].ids
    BY <1>1, <2>1 DEF IntentRow
  <2>3. intent' \in [Certs -> IntentRow]
    BY <1>1, <2>1, <2>2
  <2>4. QED
    BY <1>2, <1>3, <2>1, <2>2, <2>3 DEF Idle
<1>6. QED
  BY <1>3, <1>4, <1>5
     DEF Broker, Fill, TakeOver, CancelDone, Die, DeadlinePasses, vars, ledger

LEMMA IdleIsDisciplined ==
  ASSUME Idle
  PROVE  Discipline
BY DEF Idle, Discipline, Intends

LEMMA InitInvariant ==
  ASSUME Init
  PROVE  IInv
<1> USE NoneAssumption
<1>1. Shape
  BY DEF Init, Shape, OrderShape, Row, LocalShape, IntentRow, IntentStates, PcStates,
         Nothing
<1>2. Orders
  BY DEF Init, Orders, UnusedOrders, HandOver, OneHead
<1>3. \A p \in Processes : Own(p) /\ Closes(p)
  BY DEF Init, Own, Closes, Unsubmitted, Nothing, Ended
<1>4. Alone
  BY DEF Init, Alone, Unsubmitted
<1>5. \A c \in Certs : Intended(c)
  BY DEF Init, Intended, NoOrders, ClosedIntents
<1>6. QED
  BY <1>1, <1>2, <1>3, <1>4, <1>5 DEF IInv

LEMMA StepKeepsInvariant ==
  ASSUME MaxExecutes \in {0, 1}, IInv, [Next]_vars
  PROVE  IInv'
<1>1. Shape /\ Orders /\ \A p \in Processes : Own(p)
  BY DEF IInv
<1>2. Moves
  <2>1. CASE Next
    BY <1>1, <2>1, NextMoves
  <2>2. CASE UNCHANGED vars
    BY <2>2 DEF vars, broker, Moves
  <2>3. QED
    BY <2>1, <2>2
<1>3. OrderShape' /\ Orders' /\ Stable
  BY <1>1, <1>2, OwnPlacesOnce, MovesKeepOrders
<1>4. Kept
  BY <1>1, <1>3, CertificatesKept DEF Kept
<1>5. ASSUME NEW p \in Processes, Obeys(p)
      PROVE  IInv'
  <2>1. Discipline
    BY <1>5, ActorDiscipline DEF Obeys
  <2>2. Shape'
    BY <1>3, <1>5 DEF Obeys, Shape
  <2>3. QED
    BY <1>3, <2>1, <2>2, DisciplineKeepsInvariant
<1>6. ASSUME Idle, LocalShape'
      PROVE  IInv'
  <2>1. Discipline
    BY <1>6, IdleIsDisciplined
  <2>2. Shape'
    BY <1>1, <1>3, <1>6 DEF Idle, Shape
  <2>3. QED
    BY <1>3, <2>1, <2>2, DisciplineKeepsInvariant
<1>7. CASE \/ Broker \/ UNCHANGED vars
           \/ \E c \in Certs : DeadlinePasses(c) \/ LeaseExpires(c)
  BY <1>6, <1>7, IdleSteps
<1>8. ASSUME NEW p \in Processes,
             \/ \E c \in Certs : CheckOrders(p, c) \/ Poll(p, c)
             \/ Step(p) \/ Crash(p)
      PROVE  IInv'
  <2>1. Obeys(p)
    BY <1>4, <1>8, BeginTickObeys, StepObeys, CrashObeys
  <2>2. QED
    BY <1>5, <2>1
<1>9. QED
  BY <1>7, <1>8 DEF Next

-----------------------------------------------------------------------------
\* An entry intent that record_execution or a poll closed as FILLED, CANCELED or
\* REJECTED leaves no order of its certificate working: for every number of
\* processes, certificates and orders, whatever is lost, fails or crashes, when
\* no certificate is executed twice (OneAttempt of DecisionWindows_proofs).
THEOREM ClosedChain ==
  ASSUME MaxExecutes \in {0, 1}
  PROVE  Spec => []ClosedMeansDead
<1>1. Init => IInv
  BY InitInvariant
<1>2. IInv /\ [Next]_vars => IInv'
  BY StepKeepsInvariant
<1>3. IInv => ClosedMeansDead
  BY DEF IInv, Intended, Over, ClosedMeansDead, OrdersOf
<1>4. QED
  BY <1>1, <1>2, <1>3, PTL DEF Spec
-----------------------------------------------------------------------------
(* Type correctness.  The broker never fills more than an order is for, so *)
(* what a replacement takes over is a quantity: an order that can still    *)
(* work has something left, and has at most one replacement on its way.    *)

OrderRow ==
  [cert : Certs \cup {NoCert}, status : OrderStates \cup {"NONE"},
   qty : 0..Qty, filled : 0..Qty, replaces : OrderIds \cup {NoOrder}]

SomethingLeft ==
  \A o \in OrderIds :
    /\ Working(o) => order[o].filled < order[o].qty
    /\ order[o].status = "PENDING_NEW" => order[o].filled = 0

SoleHeir ==
  \A a, b \in OrderIds :
    /\ order[a].status = "PENDING_NEW" /\ order[b].status = "PENDING_NEW"
    /\ order[a].replaces = order[b].replaces
    => a = b

BrokerTypes == order \in [OrderIds -> OrderRow] /\ SomethingLeft /\ HandOver /\ SoleHeir

LedgerTypes ==
  /\ caseState \in [Certs -> CaseStates]
  /\ intent \in [Certs -> IntentRow]
  /\ seen \in [OrderIds -> Reading]
  /\ deadline \in [Certs -> {"unset", "running", "passed"}]
  /\ executes \in [Certs -> 0..MaxExecutes]
  /\ crashes \in 0..MaxCrashes

TickTypes ==
  /\ pc \in [Processes -> PcStates]
  /\ cert \in [Processes -> Certs \cup {NoCert}]
  /\ phase \in [Processes -> Phases]
  /\ ids \in [Processes -> SUBSET OrderIds]
  /\ obs \in [Processes -> [OrderIds -> Reading]]
  /\ todo \in [Processes -> SUBSET OrderIds]
  /\ late \in [Processes -> BOOLEAN]
  /\ out \in [Processes -> EntryOutcomes \cup {"NONE"}]
  /\ \A p \in Processes : pc[p] # "idle" => cert[p] \in Certs

TypeInv == BrokerTypes /\ LedgerTypes /\ TickTypes

LEMMA MovesKeepBrokerTypes ==
  ASSUME BrokerTypes, TickTypes, Moves
  PROVE  BrokerTypes'
<1> USE NoneAssumption, ConstantsAssumption
<1> USE DEF WorkingStates, PendingRequests, OrderStates, TerminalStates
<1>0. order \in [OrderIds -> OrderRow] /\ SomethingLeft /\ HandOver /\ SoleHeir
  BY DEF BrokerTypes
<1>h. HandOver /\ SoleHeir
  BY DEF BrokerTypes
<1>s. SomethingLeft
  BY DEF BrokerTypes
<1>1. CASE order' = order
  BY <1>0, <1>1 DEF BrokerTypes, SomethingLeft, HandOver, SoleHeir, Working
<1>2. ASSUME NEW p \in Processes, NEW o \in OrderIds, Placed(p, o)
      PROVE  BrokerTypes'
  <2>1. cert[p] \in Certs
    BY <1>2 DEF Placed, TickTypes
  <2>2. /\ order' \in [OrderIds -> OrderRow]
        /\ order'[o] = NewOrder(cert[p], Qty, "NEW", NoOrder)
        /\ \A a \in OrderIds \ {o} : order'[a] = order[a]
        /\ order[o].status = "NONE"
    BY <1>0, <1>2, <2>1 DEF Placed, NewOrder, OrderRow
  <2>3. SomethingLeft' /\ SoleHeir'
    BY <1>0, <2>2 DEF SomethingLeft, SoleHeir, Working, NewOrder
  <2>4. HandOver'
    BY <1>0, <2>2 DEF HandOver, NewOrder
  <2> QED  BY <2>2, <2>3, <2>4 DEF BrokerTypes
<1>3. ASSUME NEW old \in OrderIds, NEW new \in OrderIds, Replaced(old, new)
      PROVE  BrokerTypes'
  <2>1. /\ order' \in [OrderIds -> OrderRow]
        /\ order'[new] = NewOrder(order[old].cert, Qty, "PENDING_NEW", old)
        /\ order'[old] = [order[old] EXCEPT !.status = "PENDING_REPLACE"]
        /\ \A a \in OrderIds \ {old, new} : order'[a] = order[a]
        /\ old # new
        /\ order[old].status \in {"NEW", "PARTIALLY_FILLED"} /\ order[new].status = "NONE"
    BY <1>0, <1>3 DEF Replaced, NewOrder, OrderRow
  <2>2. /\ order'[old].status = "PENDING_REPLACE" /\ order'[old].cert = order[old].cert
        /\ order'[old].filled = order[old].filled /\ order'[old].qty = order[old].qty
        /\ order'[new].status = "PENDING_NEW" /\ order'[new].cert = order[old].cert
        /\ order'[new].filled = 0 /\ order'[new].qty = Qty /\ order'[new].replaces = old
        /\ order'[old].replaces = order[old].replaces
        /\ order[old].status \in {"NEW", "PARTIALLY_FILLED"} /\ order[new].status = "NONE"
        /\ old # new
    BY <1>0, <2>1 DEF OrderRow, NewOrder
  <2>r. \A a \in OrderIds \ {old, new} :
          /\ order'[a].status = order[a].status /\ order'[a].cert = order[a].cert
          /\ order'[a].replaces = order[a].replaces
          /\ order'[a].filled = order[a].filled /\ order'[a].qty = order[a].qty
    BY <2>1
  <2>3. SomethingLeft'
    <3> SUFFICES ASSUME NEW a \in OrderIds
                 PROVE  /\ order'[a].status \in WorkingStates => order'[a].filled < order'[a].qty
                        /\ order'[a].status = "PENDING_NEW" => order'[a].filled = 0
      BY DEF SomethingLeft, Working
    <3>1. CASE a = old
      BY <1>s, <2>2, <3>1 DEF SomethingLeft, Working
    <3>2. CASE a = new
      BY <2>2, <3>2
    <3>3. CASE a \notin {old, new}
      BY <1>s, <2>r, <3>3 DEF SomethingLeft, Working
    <3> QED  BY <3>1, <3>2, <3>3
  <2>4. HandOver'
    BY <1>h, <2>2, <2>r DEF HandOver
  <2>5. SoleHeir'
    BY <1>h, <2>2, <2>r DEF HandOver, SoleHeir
  <2> QED  BY <2>1, <2>3, <2>4, <2>5 DEF BrokerTypes
<1>4. ASSUME NEW o \in OrderIds,
             AskedCancel(o) \/ CancelDone(o) \/ \E s \in {"CANCELED", "REJECTED"} : Die(o, s)
      PROVE  BrokerTypes'
  <2>1. PICK s \in {"PENDING_CANCEL", "CANCELED", "REJECTED"} :
          order' = [order EXCEPT ![o].status = s]
    BY <1>4 DEF AskedCancel, CancelDone, Die
  <2>2. order[o].status \in {"NEW", "PARTIALLY_FILLED", "PENDING_CANCEL"}
    BY <1>4 DEF AskedCancel, CancelDone, Die
  <2>3. /\ order' \in [OrderIds -> OrderRow]
        /\ order'[o].status = s /\ order'[o].filled = order[o].filled
        /\ order'[o].qty = order[o].qty
        /\ order'[o].cert = order[o].cert /\ order'[o].replaces = order[o].replaces
        /\ \A a \in OrderIds \ {o} : order'[a] = order[a]
    BY <1>0, <2>1 DEF OrderRow
  <2>4. SomethingLeft'
    BY <1>0, <2>2, <2>3 DEF SomethingLeft, Working
  <2>5. HandOver' /\ SoleHeir'
    BY <1>0, <2>2, <2>3 DEF HandOver, SoleHeir
  <2> QED  BY <2>3, <2>4, <2>5 DEF BrokerTypes
<1>5. ASSUME NEW o \in OrderIds, Fill(o)
      PROVE  BrokerTypes'
  <2> DEFINE last == order[o].filled + 1 = order[o].qty
             next(q) == IF q = o
                        THEN [order[q] EXCEPT
                                !.filled = @ + 1,
                                !.status = IF last THEN "FILLED"
                                           ELSE IF @ = "NEW" THEN "PARTIALLY_FILLED" ELSE @]
                        ELSE IF last /\ order[q].replaces = o
                                /\ order[q].status = "PENDING_NEW"
                        THEN [order[q] EXCEPT !.status = "REJECTED"]
                        ELSE order[q]
  <2>1. /\ order' = [q \in OrderIds |-> next(q)]
        /\ Working(o) /\ order[o].status # "PENDING_NEW" /\ order[o].filled < order[o].qty
    BY <1>5 DEF Fill
  <2>2. \A q \in OrderIds : next(q) \in OrderRow
    <3> SUFFICES ASSUME NEW q \in OrderIds PROVE next(q) \in OrderRow
      OBVIOUS
    <3>1. order[q] \in OrderRow /\ order[o] \in OrderRow /\ order[o].filled + 1 \in 0..Qty
      <4>1. order[q] \in OrderRow /\ order[o] \in OrderRow
        BY <1>0
      <4>2. order[o].filled \in 0..Qty /\ order[o].qty \in 0..Qty
        BY <4>1 DEF OrderRow
      <4>3. order[o].filled < order[o].qty
        BY <2>1
      <4>4. order[o].filled + 1 \in 0..Qty
        BY ONLY <4>2, <4>3, Qty \in Nat
      <4> QED  BY <4>1, <4>4
    <3>2. CASE q = o
      <4> DEFINE s == IF last THEN "FILLED"
                      ELSE IF order[o].status = "NEW" THEN "PARTIALLY_FILLED"
                      ELSE order[o].status
      <4>1. s \in OrderStates
        BY <2>1, <3>1 DEF OrderRow, Working
      <4>2. next(q) = [order[o] EXCEPT !.filled = order[o].filled + 1, !.status = s]
        BY <3>2
      <4> HIDE DEF s, next
      <4> QED  BY <3>1, <4>1, <4>2 DEF OrderRow
    <3>3. CASE q # o
      BY <3>1, <3>3 DEF OrderRow
    <3> QED  BY <3>2, <3>3
  <2>3. /\ order' \in [OrderIds -> OrderRow]
        /\ \A q \in OrderIds : order'[q] = next(q)
    BY <2>1, <2>2
  <2>4. /\ order'[o].filled = order[o].filled + 1 /\ order'[o].qty = order[o].qty
        /\ order'[o].cert = order[o].cert /\ order'[o].replaces = order[o].replaces
        /\ last => order'[o].status = "FILLED"
        /\ ~ last => order'[o].status = IF order[o].status = "NEW" THEN "PARTIALLY_FILLED"
                                        ELSE order[o].status
    BY <1>0, <2>3 DEF OrderRow
  <2>5. \A q \in OrderIds \ {o} :
          /\ order'[q].filled = order[q].filled /\ order'[q].qty = order[q].qty
          /\ order'[q].cert = order[q].cert /\ order'[q].replaces = order[q].replaces
          /\ order'[q].status = IF /\ last /\ order[q].replaces = o
                                   /\ order[q].status = "PENDING_NEW"
                                THEN "REJECTED" ELSE order[q].status
    <3> SUFFICES ASSUME NEW q \in OrderIds \ {o}
                 PROVE  /\ next(q).filled = order[q].filled /\ next(q).qty = order[q].qty
                        /\ next(q).cert = order[q].cert /\ next(q).replaces = order[q].replaces
                        /\ next(q).status = IF /\ last /\ order[q].replaces = o
                                               /\ order[q].status = "PENDING_NEW"
                                            THEN "REJECTED" ELSE order[q].status
      BY <2>3
    <3>1. order[q] \in OrderRow
      BY <1>0
    <3>2. CASE last /\ order[q].replaces = o /\ order[q].status = "PENDING_NEW"
      <4>1. next(q) = [order[q] EXCEPT !.status = "REJECTED"]
        BY <3>2
      <4> HIDE DEF next
      <4> QED  BY <3>1, <3>2, <4>1 DEF OrderRow
    <3>3. CASE ~ (last /\ order[q].replaces = o /\ order[q].status = "PENDING_NEW")
      <4>1. next(q) = order[q]
        BY <3>3
      <4> HIDE DEF next
      <4> QED  BY <3>3, <4>1
    <3> QED  BY <3>2, <3>3
  <2> HIDE DEF next
  <2>6. SomethingLeft'
    <3> SUFFICES ASSUME NEW q \in OrderIds
                 PROVE  /\ order'[q].status \in WorkingStates => order'[q].filled < order'[q].qty
                        /\ order'[q].status = "PENDING_NEW" => order'[q].filled = 0
      BY DEF SomethingLeft, Working
    <3>1. CASE q = o
      <4>1. order[o].filled \in Nat /\ order[o].qty \in Nat
        BY <1>0 DEF OrderRow
      <4> QED  BY <2>1, <2>4, <3>1, <4>1
    <3>2. CASE q # o
      BY <1>s, <2>5, <3>2 DEF SomethingLeft, Working
    <3> QED  BY <3>1, <3>2
  <2>7. HandOver'
    <3> SUFFICES ASSUME NEW q \in OrderIds, order'[q].status = "PENDING_NEW"
                 PROVE  /\ order'[q].replaces \in OrderIds
                        /\ order'[order'[q].replaces].status = "PENDING_REPLACE"
                        /\ order'[order'[q].replaces].cert = order'[q].cert
      BY DEF HandOver
    <3>1. q # o
      BY <2>1, <2>4 DEF Working
    <3>2. /\ order[q].status = "PENDING_NEW" /\ ~ (last /\ order[q].replaces = o)
          /\ order'[q].replaces = order[q].replaces /\ order'[q].cert = order[q].cert
      BY <2>5, <3>1
    <3>3. PICK r \in OrderIds : /\ r = order[q].replaces
                                /\ order[r].status = "PENDING_REPLACE"
                                /\ order[r].cert = order[q].cert
      BY <1>h, <3>2 DEF HandOver
    <3>4. order'[r].status = "PENDING_REPLACE" /\ order'[r].cert = order[r].cert
      BY <2>4, <2>5, <3>2, <3>3
    <3> QED  BY <3>2, <3>3, <3>4
  <2>8. SoleHeir'
    BY <1>h, <2>1, <2>4, <2>5 DEF SoleHeir
  <2> QED  BY <2>3, <2>6, <2>7, <2>8 DEF BrokerTypes
<1>6. ASSUME NEW new \in OrderIds, TakeOver(new)
      PROVE  BrokerTypes'
  <2>1. PICK old \in OrderIds :
          /\ old = order[new].replaces /\ old # new
          /\ order[new].status = "PENDING_NEW" /\ order[old].status = "PENDING_REPLACE"
    BY <1>0, <1>6 DEF TakeOver, HandOver
  <2> DEFINE left == order[old].qty - order[old].filled
  <2>2. order' = [order EXCEPT ![old].status = "REPLACED",
                               ![new] = [@ EXCEPT !.status = "NEW", !.qty = left]]
    BY <1>6, <2>1 DEF TakeOver
  <2>3. left \in 1..Qty
    <3>1. order[old].filled \in 0..Qty /\ order[old].qty \in 0..Qty
          /\ order[old].filled < order[old].qty
      BY <1>0, <2>1 DEF OrderRow, SomethingLeft, Working
    <3> QED  BY <3>1
  <2> HIDE DEF left
  <2>4. /\ order' \in [OrderIds -> OrderRow]
        /\ order'[old] = [order[old] EXCEPT !.status = "REPLACED"]
        /\ order'[new] = [order[new] EXCEPT !.status = "NEW", !.qty = left]
        /\ \A a \in OrderIds \ {old, new} : order'[a] = order[a]
    <3>1. left \in 0..Qty
      BY <2>3
    <3>2. /\ [order[new] EXCEPT !.status = "NEW", !.qty = left] \in OrderRow
          /\ [order[old] EXCEPT !.status = "REPLACED"] \in OrderRow
      BY <1>0, <3>1 DEF OrderRow
    <3> QED  BY <1>0, <2>1, <2>2, <3>2
  <2>5. /\ order'[old].status = "REPLACED" /\ order'[old].cert = order[old].cert
        /\ order'[new].status = "NEW" /\ order'[new].qty = left
        /\ order'[new].filled = 0 /\ order'[new].cert = order[new].cert
        /\ order'[new].replaces = order[new].replaces
        /\ order'[old].replaces = order[old].replaces
    BY <1>0, <1>s, <2>1, <2>4 DEF OrderRow, SomethingLeft
  <2>r. \A a \in OrderIds \ {old, new} :
          /\ order'[a].status = order[a].status /\ order'[a].cert = order[a].cert
          /\ order'[a].replaces = order[a].replaces
          /\ order'[a].filled = order[a].filled /\ order'[a].qty = order[a].qty
    BY <2>4
  <2>6. SomethingLeft'
    <3> SUFFICES ASSUME NEW a \in OrderIds
                 PROVE  /\ order'[a].status \in WorkingStates => order'[a].filled < order'[a].qty
                        /\ order'[a].status = "PENDING_NEW" => order'[a].filled = 0
      BY DEF SomethingLeft, Working
    <3>1. CASE a = old
      BY <2>5, <3>1
    <3>2. CASE a = new
      BY <2>3, <2>5, <3>2
    <3>3. CASE a \notin {old, new}
      BY <1>s, <2>r, <3>3 DEF SomethingLeft, Working
    <3> QED  BY <3>1, <3>2, <3>3
  <2>7. HandOver' /\ SoleHeir'
    BY <1>h, <2>1, <2>5, <2>r DEF HandOver, SoleHeir
  <2> QED  BY <2>4, <2>6, <2>7 DEF BrokerTypes
<1> QED  BY <1>1, <1>2, <1>3, <1>4, <1>5, <1>6 DEF Moves
\* The steps inside a tick: what they write to the ledger and to the process.
LEMMA EndTickTypes ==
  ASSUME TickTypes, NEW p \in Processes, EndTick(p)
  PROVE  TickTypes'
BY DEF TickTypes, EndTick, Goto, PcStates, Phases, Reading, Nothing

LEMMA BlindTypes ==
  ASSUME TickTypes, NEW p \in Processes, pc[p] # "idle",
         NEW outcome \in EntryOutcomes, FinishBlind(p, outcome)
  PROVE  TickTypes'
BY DEF TickTypes, FinishBlind, Goto, PcStates, Reading, Nothing

LEMMA ObserveTypes ==
  ASSUME TickTypes, NEW p \in Processes, pc[p] # "idle",
         NEW ph \in Phases, NEW orders \in SUBSET OrderIds, BeginObserve(p, ph, orders)
  PROVE  TickTypes'
BY DEF TickTypes, BeginObserve, Goto, PcStates, Reading, Nothing

LEMMA GotoTypes ==
  ASSUME TickTypes, NEW p \in Processes, pc[p] # "idle", NEW l \in PcStates, Goto(p, l),
         UNCHANGED <<cert, phase, ids, obs, todo, late, out>>
  PROVE  TickTypes'
BY DEF TickTypes, Goto

LEMMA SameLedgerTypes ==
  ASSUME LedgerTypes, UNCHANGED <<ledger, deadline, counters>>
  PROVE  LedgerTypes'
BY DEF LedgerTypes, ledger, counters

LEMMA EntryStates ==
  ASSUME NEW state \in CaseStates, NEW outcome
  PROVE  AfterEvents(state, EntryEvents(state, outcome)) \in CaseStates
<1>1. \A x : Last(<<x>>) = x
  BY DEF Last
<1>2. \A x, y : Last(<<x, y>>) = y
  BY DEF Last
<1>3. CASE outcome \in {"SUBMITTED", "REPLACED"}
  BY <1>1, <1>3 DEF AfterEvents, EntryEvents, CaseStates
<1>4. CASE outcome = "FILLED"
  BY <1>1, <1>2, <1>4 DEF AfterEvents, EntryEvents, CaseStates
<1>5. CASE outcome \notin {"SUBMITTED", "REPLACED", "FILLED"}
  BY <1>1, <1>5 DEF AfterEvents, EntryEvents, CaseStates
<1> QED  BY <1>3, <1>4, <1>5

\* Before the claim.
LEMMA PreflightTypes ==
  ASSUME TypeInv, NEW p \in Processes,
         \/ CheckPositions(p) \/ PreflightPositions(p) \/ PreflightOrders(p)
         \/ \E outcome \in {"REJECTED", "RECONCILE_REQUIRED"} : Refuse(p, outcome)
         \/ Allow(p)
  PROVE  LedgerTypes' /\ TickTypes'
<1>0. LedgerTypes /\ TickTypes
  BY DEF TypeInv
<1>1. {"REJECTED", "RECONCILE_REQUIRED"} \subseteq EntryOutcomes
  BY DEF EntryOutcomes
<1>2. {"orders", "policy", "claim", "preflight"} \subseteq PcStates
  BY DEF PcStates
<1>3. CASE CheckPositions(p)
  <2>1. LedgerTypes'
    <3>1. executes' \in [Certs -> 0..MaxExecutes]
      <4>1. CASE UNCHANGED executes
        BY <1>0, <4>1 DEF LedgerTypes
      <4>2. CASE /\ executes[cert[p]] < MaxExecutes
                 /\ executes' = [executes EXCEPT ![cert[p]] = @ + 1]
        <5>1. cert[p] \in Certs
          BY <1>0, <1>3 DEF TickTypes, CheckPositions
        <5>2. executes[cert[p]] + 1 \in 0..MaxExecutes
          BY <1>0, <4>2, <5>1, ConstantsAssumption DEF LedgerTypes
        <5> QED  BY <1>0, <4>2, <5>2 DEF LedgerTypes
      <4> QED  BY <1>3, <4>1, <4>2 DEF CheckPositions
    <3> QED  BY <1>0, <1>3, <3>1 DEF LedgerTypes, CheckPositions, ledger
  <2>2. TickTypes'
    <3>1. CASE EndTick(p)
      BY <1>0, <3>1, EndTickTypes
    <3>2. CASE /\ Goto(p, "preflight") /\ ids' = [ids EXCEPT ![p] = {}]
               /\ UNCHANGED <<cert, phase, obs, todo, late, out>>
      BY <1>0, <1>3, <3>2 DEF TickTypes, CheckPositions, Goto, PcStates
    <3> QED  BY <1>3, <3>1, <3>2 DEF CheckPositions
  <2> QED  BY <2>1, <2>2
<1>4. CASE PreflightPositions(p) \/ PreflightOrders(p) \/ Allow(p)
           \/ \E outcome \in {"REJECTED", "RECONCILE_REQUIRED"} : Refuse(p, outcome)
  <2>1. pc[p] # "idle" /\ UNCHANGED <<ledger, deadline, counters>>
    BY <1>4 DEF PreflightPositions, PreflightOrders, Allow, Refuse
  <2>2. LedgerTypes'
    BY <1>0, <2>1, SameLedgerTypes
  <2>3. \/ \E outcome \in {"REJECTED", "RECONCILE_REQUIRED"} : FinishBlind(p, outcome)
        \/ /\ \E l \in {"orders", "policy", "claim"} : Goto(p, l)
           /\ UNCHANGED <<cert, phase, ids, obs, todo, late, out>>
    BY <1>4 DEF PreflightPositions, PreflightOrders, Allow, Refuse
  <2> QED  BY <1>0, <1>1, <1>2, <2>1, <2>2, <2>3, BlindTypes, GotoTypes
<1> QED  BY <1>3, <1>4

\* Claim, submit, persist.
LEMMA SubmissionTypes ==
  ASSUME TypeInv, NEW p \in Processes,
         \/ Claim(p) \/ ClaimLost(p) \/ SubmitRefused(p) \/ Persist(p)
         \/ \E o \in OrderIds : Submit(p, o) \/ SubmitAnswerLost(p, o)
  PROVE  LedgerTypes' /\ TickTypes'
<1>0. LedgerTypes /\ TickTypes
  BY DEF TypeInv
<1>1. "RECONCILE_REQUIRED" \in EntryOutcomes /\ {"adopted", "submitted"} \subseteq Phases
      /\ {"submit", "persist", "record"} \subseteq PcStates
  BY DEF EntryOutcomes, Phases, PcStates
<1>2. pc[p] # "idle" /\ cert[p] \in Certs
  BY <1>0 DEF TickTypes, Claim, ClaimLost, SubmitRefused, Persist, Submit, SubmitAnswerLost
<1> DEFINE c == cert[p]
           i == intent[c]
<1>3. i \in IntentRow /\ i.ids \in SUBSET OrderIds /\ ids[p] \in SUBSET OrderIds
  BY <1>0, <1>2 DEF LedgerTypes, TickTypes, IntentRow
<1>4. CASE Claim(p)
  <2>1. intent' = [intent EXCEPT ![c] = [i EXCEPT !.state = IF @ = "NONE" THEN "INTENT" ELSE @,
                                                 !.token = p, !.leased = TRUE]]
    BY <1>4 DEF Claim
  <2>2. intent' \in [Certs -> IntentRow]
    BY <1>0, <1>3, <2>1 DEF LedgerTypes, IntentRow, IntentStates
  <2>3. deadline' \in [Certs -> {"unset", "running", "passed"}]
    BY <1>0, <1>4 DEF LedgerTypes, Claim
  <2>4. LedgerTypes'
    BY <1>0, <1>4, <2>2, <2>3 DEF LedgerTypes, Claim, counters
  <2>5. TickTypes'
    BY <1>0, <1>1, <1>2, <1>3, <1>4, GotoTypes, ObserveTypes DEF Claim
  <2> QED  BY <2>4, <2>5
<1>5. CASE ClaimLost(p)
  <2>1. LedgerTypes'
    BY <1>0, <1>5, SameLedgerTypes DEF ClaimLost
  <2>2. TickTypes'
    BY <1>0, <1>1, <1>2, <1>3, <1>5 DEF TickTypes, ClaimLost, Goto
  <2> QED  BY <2>1, <2>2
<1>6. CASE SubmitRefused(p) \/ \E o \in OrderIds : SubmitAnswerLost(p, o)
  BY <1>0, <1>1, <1>2, <1>6, SameLedgerTypes, BlindTypes DEF SubmitRefused, SubmitAnswerLost
<1>7. ASSUME NEW o \in OrderIds, Submit(p, o)
      PROVE  LedgerTypes' /\ TickTypes'
  <2>1. LedgerTypes'
    BY <1>0, <1>7, SameLedgerTypes DEF Submit
  <2>2. TickTypes'
    BY <1>0, <1>1, <1>2, <1>7 DEF TickTypes, Submit, Goto
  <2> QED  BY <2>1, <2>2
<1>8. CASE Persist(p)
  <2>1. CASE UNCHANGED intent /\ FinishBlind(p, "RECONCILE_REQUIRED")
    BY <1>0, <1>1, <1>2, <1>8, <2>1, BlindTypes DEF LedgerTypes, Persist, counters
  <2>2. CASE i.token = p
    <3>1. intent' = [intent EXCEPT ![c] = [i EXCEPT !.state = "SUBMITTED", !.ids = ids[p],
                                                   !.leased = FALSE]]
      BY <1>8, <2>2 DEF Persist
    <3>2. intent' \in [Certs -> IntentRow]
      BY <1>0, <1>3, <3>1 DEF LedgerTypes, IntentRow, IntentStates
    <3>3. LedgerTypes'
      BY <1>0, <1>8, <3>2 DEF LedgerTypes, Persist, counters
    <3>4. TickTypes'
      BY <1>0, <1>1, <1>2, <1>3, <1>8, <2>2, ObserveTypes DEF Persist
    <3> QED  BY <3>3, <3>4
  <2> QED  BY <1>8, <2>1, <2>2 DEF Persist
<1> QED  BY <1>4, <1>5, <1>6, <1>7, <1>8
\* Observing and deciding.
LEMMA ObservingTypes ==
  ASSUME TypeInv, NEW p \in Processes,
         \/ FindClientOrder(p) \/ ObserveFails(p) \/ DecideReplace(p) \/ DecideCancel(p)
         \/ Conclude(p) \/ \E o \in OrderIds : Observe(p, o)
  PROVE  LedgerTypes' /\ TickTypes'
<1>0. LedgerTypes /\ TickTypes /\ order \in [OrderIds -> OrderRow]
  BY DEF TypeInv, BrokerTypes
<1>1. "RECONCILE_REQUIRED" \in EntryOutcomes /\ "polled" \in Phases
      /\ {"replace", "cancel", "record"} \subseteq PcStates
  BY DEF EntryOutcomes, Phases, PcStates
<1>2. pc[p] # "idle" /\ UNCHANGED <<ledger, deadline, counters>>
  BY DEF FindClientOrder, ObserveFails, DecideReplace, DecideCancel, Conclude, Observe,
         Observed
<1>3. LedgerTypes'
  BY <1>0, <1>2, SameLedgerTypes
<1>4. CASE FindClientOrder(p)
  BY <1>0, <1>1, <1>2, <1>3, <1>4, ObserveTypes, BlindTypes DEF FindClientOrder
<1>5. CASE ObserveFails(p)
  BY <1>0, <1>1, <1>2, <1>3, <1>5, BlindTypes DEF ObserveFails
<1>6. CASE DecideReplace(p)
  BY <1>0, <1>1, <1>2, <1>3, <1>6, GotoTypes DEF DecideReplace
<1>7. CASE DecideCancel(p)
  <2>1. WorkingRows(ids[p], obs[p]) \in SUBSET OrderIds
    BY <1>0 DEF TickTypes, WorkingRows, OfStatus
  <2> QED  BY <1>0, <1>1, <1>2, <1>3, <1>7, <2>1 DEF TickTypes, DecideCancel, Goto
<1>8. CASE Conclude(p)
  <2>1. Conclusion(phase[p], ids[p], obs[p]) \in EntryOutcomes
    BY ConclusionIsOutcome
  <2> QED  BY <1>0, <1>1, <1>2, <1>3, <1>8, <2>1 DEF TickTypes, Conclude, Goto
<1>9. ASSUME NEW o \in OrderIds, Observe(p, o)
      PROVE  TickTypes'
  <2> DEFINE reading == [status |-> order[o].status, filled |-> order[o].filled]
  <2>1. reading \in Reading
    BY <1>0 DEF OrderRow, Reading
  <2>2. obs' = [obs EXCEPT ![p] = [obs[p] EXCEPT ![o] = reading]]
    BY <1>9 DEF Observe
  <2> HIDE DEF reading
  <2>3. obs' \in [Processes -> [OrderIds -> Reading]]
    BY <1>0, <2>1, <2>2 DEF TickTypes
  <2> QED  BY <1>0, <1>9, <2>3 DEF TickTypes, Observe
<1> QED  BY <1>3, <1>4, <1>5, <1>6, <1>7, <1>8, <1>9

\* Replace and cancel.
LEMMA MutationTypes ==
  ASSUME TypeInv, NEW p \in Processes,
         \/ ReplaceRefused(p) \/ CancelsSent(p) \/ \E o \in OrderIds : Cancel(p, o)
         \/ \E old, new \in OrderIds : Replace(p, old, new) \/ ReplaceAnswerLost(p, old, new)
  PROVE  LedgerTypes' /\ TickTypes'
<1>0. LedgerTypes /\ TickTypes
  BY DEF TypeInv
<1>1. {"replaced", "raced", "canceled"} \subseteq Phases
  BY DEF Phases
<1>2. pc[p] # "idle" /\ UNCHANGED <<ledger, deadline, counters>>
  BY DEF ReplaceRefused, CancelsSent, Cancel, Replace, ReplaceAnswerLost
<1>3. LedgerTypes'
  BY <1>0, <1>2, SameLedgerTypes
<1>4. CASE \E o \in OrderIds : Cancel(p, o)
  BY <1>0, <1>3, <1>4 DEF TickTypes, Cancel
<1>5. CASE \/ ReplaceRefused(p) \/ CancelsSent(p)
           \/ \E old, new \in OrderIds : Replace(p, old, new) \/ ReplaceAnswerLost(p, old, new)
  <2>1. ids[p] \in SUBSET OrderIds
    BY <1>0 DEF TickTypes
  <2>2. \E ph \in {"replaced", "raced", "canceled"}, orders \in SUBSET OrderIds :
          BeginObserve(p, ph, orders)
    BY <1>5, <2>1 DEF ReplaceRefused, CancelsSent, Replace, ReplaceAnswerLost
  <2> QED  BY <1>0, <1>1, <1>2, <1>3, <2>2, ObserveTypes
<1> QED  BY <1>4, <1>5

\* Recording.
LEMMA RecordingTypes ==
  ASSUME TypeInv, NEW p \in Processes, Record(p) \/ NotRecorded(p)
  PROVE  LedgerTypes' /\ TickTypes'
<1>0. LedgerTypes /\ TickTypes
  BY DEF TypeInv
<1>1. EndTick(p)
  BY DEF Record, NotRecorded
<1>2. TickTypes'
  BY <1>0, <1>1, EndTickTypes
<1>3. CASE NotRecorded(p)
  BY <1>0, <1>2, <1>3, SameLedgerTypes DEF NotRecorded
<1>4. CASE Record(p)
  <2> DEFINE c == cert[p]
             i == intent[c]
  <2>1. c \in Certs /\ i \in IntentRow /\ ids[p] \in SUBSET OrderIds
    BY <1>0, <1>4 DEF TickTypes, LedgerTypes, Record
  <2>2. RecordedIntent(i, out[p], ids[p]) \in IntentRow
    BY <2>1 DEF RecordedIntent, IntentRow, IntentStates, ClosedIntents
  <2>3. intent' \in [Certs -> IntentRow]
    BY <1>0, <1>4, <2>2 DEF Record, LedgerTypes
  <2>4. caseState' \in [Certs -> CaseStates]
    <3>1. AfterEvents(caseState[c], EntryEvents(caseState[c], out[p])) \in CaseStates
      BY <1>0, <2>1, EntryStates DEF LedgerTypes
    <3> QED  BY <1>0, <1>4, <3>1 DEF Record, LedgerTypes
  <2>5. NewEvents(p) \in [OrderIds -> Reading]
    BY <1>0 DEF LedgerTypes, TickTypes, NewEvents, Unknown, Reading
  <2>6. LedgerTypes'
    BY <1>0, <1>4, <2>3, <2>4, <2>5 DEF Record, LedgerTypes, counters
  <2> QED  BY <1>2, <2>6
<1> QED  BY <1>3, <1>4

\* The ticks begin, and end in a crash.
LEMMA TickEndsTypes ==
  ASSUME TypeInv, NEW p \in Processes,
         Crash(p) \/ \E c \in Certs : CheckOrders(p, c) \/ Poll(p, c)
  PROVE  LedgerTypes' /\ TickTypes'
<1>0. LedgerTypes /\ TickTypes
  BY DEF TypeInv
<1>1. ASSUME NEW c \in Certs, CheckOrders(p, c)
      PROVE  LedgerTypes' /\ TickTypes'
  <2>1. LedgerTypes'
    BY <1>0, <1>1, SameLedgerTypes DEF CheckOrders
  <2>2. TickTypes'
    BY <1>0, <1>1 DEF TickTypes, CheckOrders, Goto, OpenOrders, PcStates
  <2> QED  BY <2>1, <2>2
<1>2. ASSUME NEW c \in Certs, Poll(p, c)
      PROVE  LedgerTypes' /\ TickTypes'
  <2>1. LedgerTypes'
    BY <1>0, <1>2, SameLedgerTypes DEF Poll
  <2>2. ChainIds(c) \in SUBSET OrderIds
    BY <1>0 DEF LedgerTypes, IntentRow, ChainIds
  <2>3. TickTypes'
    BY <1>0, <1>2, <2>2 DEF TickTypes, Poll, Goto, PcStates, Phases
  <2> QED  BY <2>1, <2>3
<1>3. CASE Crash(p)
  <2>1. TickTypes'
    BY <1>0, <1>3, EndTickTypes DEF Crash
  <2>2. intent' \in [Certs -> IntentRow]
    <3> DEFINE next(c) == IF intent[c].token = p THEN [intent[c] EXCEPT !.token = NoProcess]
                          ELSE intent[c]
    <3>1. \A c \in Certs : next(c) \in IntentRow
      BY <1>0 DEF LedgerTypes, IntentRow
    <3>2. intent' = [c \in Certs |-> next(c)]
      BY <1>3 DEF Crash
    <3> HIDE DEF next
    <3> QED  BY <3>1, <3>2
  <2>3. crashes' \in 0..MaxCrashes
    BY <1>0, <1>3, ConstantsAssumption DEF LedgerTypes, Crash
  <2>4. LedgerTypes'
    BY <1>0, <1>3, <2>2, <2>3 DEF LedgerTypes, Crash
  <2> QED  BY <2>1, <2>4
<1> QED  BY <1>1, <1>2, <1>3

\* The broker and the clock touch no process.
LEMMA OutsideTypes ==
  ASSUME TypeInv, Broker \/ (\E c \in Certs : DeadlinePasses(c) \/ LeaseExpires(c))
                  \/ UNCHANGED vars
  PROVE  LedgerTypes' /\ TickTypes'
<1>0. LedgerTypes /\ TickTypes
  BY DEF TypeInv
<1>1. UNCHANGED locals
  BY DEF Broker, Fill, TakeOver, CancelDone, Die, DeadlinePasses, LeaseExpires, vars
<1>2. TickTypes'
  BY <1>0, <1>1 DEF TickTypes, locals
<1>3. CASE Broker \/ UNCHANGED vars
  BY <1>0, <1>2, <1>3, SameLedgerTypes DEF Broker, Fill, TakeOver, CancelDone, Die, vars
<1>4. ASSUME NEW c \in Certs, DeadlinePasses(c)
      PROVE  LedgerTypes'
  BY <1>0, <1>4 DEF LedgerTypes, DeadlinePasses, ledger, counters
<1>5. ASSUME NEW c \in Certs, LeaseExpires(c)
      PROVE  LedgerTypes'
  <2>1. intent' = [intent EXCEPT ![c] = [intent[c] EXCEPT !.leased = FALSE]]
    BY <1>5 DEF LeaseExpires
  <2>2. intent' \in [Certs -> IntentRow]
    BY <1>0, <2>1 DEF LedgerTypes, IntentRow
  <2> QED  BY <1>0, <1>5, <2>2 DEF LedgerTypes, LeaseExpires, counters
<1> QED  BY <1>2, <1>3, <1>4, <1>5

LEMMA TypesGiveShape ==
  ASSUME TypeInv
  PROVE  Shape
<1>1. OrderShape
  BY DEF TypeInv, BrokerTypes, OrderRow, OrderShape, Row
<1>2. LocalShape
  BY DEF TypeInv, TickTypes, LocalShape, Reading
<1>3. intent \in [Certs -> IntentRow] /\ executes \in [Certs -> Nat]
  BY DEF TypeInv, LedgerTypes
<1> QED  BY <1>1, <1>2, <1>3 DEF Shape

LEMMA StepTypes ==
  ASSUME TypeInv, [Next]_vars
  PROVE  TypeInv'
<1>1. Moves
  <2>1. CASE UNCHANGED vars
    BY <2>1 DEF vars, broker, Moves
  <2>2. CASE Next
    BY <2>2, NextMoves, TypesGiveShape
  <2> QED  BY <2>1, <2>2
<1>2. BrokerTypes'
  BY <1>1, MovesKeepBrokerTypes DEF TypeInv
<1>3. ASSUME NEW p \in Processes, Step(p)
      PROVE  LedgerTypes' /\ TickTypes'
  BY <1>3, PreflightTypes, SubmissionTypes, ObservingTypes, MutationTypes, RecordingTypes
     DEF Step
<1>4. LedgerTypes' /\ TickTypes'
  BY <1>3, TickEndsTypes, OutsideTypes DEF Next
<1> QED  BY <1>2, <1>4 DEF TypeInv

LEMMA InitTypes ==
  ASSUME Init
  PROVE  TypeInv
<1> USE NoneAssumption, ConstantsAssumption
<1>1. BrokerTypes
  BY DEF Init, BrokerTypes, OrderRow, SomethingLeft, HandOver, SoleHeir, Working,
         WorkingStates, PendingRequests, OrderStates
<1>2. LedgerTypes
  BY DEF Init, LedgerTypes, IntentRow, IntentStates, Reading, Nothing, CaseStates
<1>3. TickTypes
  BY DEF Init, TickTypes, PcStates, Phases, Reading, Nothing
<1> QED  BY <1>1, <1>2, <1>3 DEF TypeInv

\* The shape of every reachable state, whatever the constants: no order fills more
\* than it is for, and what a replacement takes over is a positive quantity although
\* the order it replaces may fill until then.
THEOREM EntryTypeCorrect == Spec => []TypeOK
<1>1. Init => TypeInv
  BY InitTypes
<1>2. TypeInv /\ [Next]_vars => TypeInv'
  BY StepTypes
<1>3. TypeInv => TypeOK
  BY DEF TypeInv, BrokerTypes, LedgerTypes, TickTypes, TypeOK, OrderRow, IntentRow
<1> QED  BY <1>1, <1>2, <1>3, PTL DEF Spec
-----------------------------------------------------------------------------
(* How much a certificate has filled.  The order at the head of its chain  *)
(* is for what the orders before it left over, so the chain as a whole     *)
(* fills what the head has filled and what it is not for any more.         *)

\* The same sum for any state of the orders, as FiniteFacts_proofs knows it.
Fills(ord) == [o \in OrderIds |-> ord[o].filled]
Mine(ord, c) == {o \in OrderIds : ord[o].cert = c}
Total(ord, c) == SumOver(Fills(ord), Mine(ord, c))

LEMMA FilledIsTotal ==
  ASSUME NEW ord, NEW c, IsFiniteSet(Mine(ord, c))
  PROVE  MapThenSumSet(LAMBDA o : ord[o].filled, Mine(ord, c)) = Total(ord, c)
<1> DEFINE S == Mine(ord, c)
           f == Fills(ord)
           body(g, s) == IF s = {} THEN 0 ELSE ord[Pick(s)].filled + g[s \ {Pick(s)}]
           g1 == CHOOSE g : g = [s \in SUBSET S |-> body(g, s)]
<1>1. MapThenSumSet(LAMBDA o : ord[o].filled, S) = g1[S]
  BY DEF MapThenSumSet, MapThenFoldSet, Pick
<1>2. PICK g2 : Tally(g2, f, S) /\ SumOver(f, S) = g2[S]
  BY SumHasTally
<1>3. ASSUME NEW g
      PROVE  Tally(g, f, S) <=> g = [s \in SUBSET S |-> body(g, s)]
  <2> DEFINE other(s) == IF s = {} THEN 0 ELSE f[Pick(s)] + g[s \ {Pick(s)}]
  <2>1. ASSUME NEW s \in SUBSET S
        PROVE  body(g, s) = other(s)
    <3>1. CASE s = {}
      BY <3>1
    <3>2. CASE s # {}
      <4>1. Pick(s) \in OrderIds
        BY <3>2, PickIsIn DEF Mine
      <4> QED  BY <3>2, <4>1 DEF Fills
    <3> QED  BY <3>1, <3>2
  <2> HIDE DEF body, other
  <2>2. [s \in SUBSET S |-> body(g, s)] = [s \in SUBSET S |-> other(s)]
    BY <2>1
  <2> QED  BY <2>2 DEF Tally, other
<1>4. Tally(g1, f, S)
  <2>1. \E g : g = [s \in SUBSET S |-> body(g, s)]
    BY <1>2, <1>3
  <2>2. g1 = [s \in SUBSET S |-> body(g1, s)]
    BY <2>1
  <2> HIDE DEF g1, body
  <2> QED  BY <1>3, <2>2
<1> HIDE DEF g1, f, S
<1>5. SameOn(f, f, S)
  BY DEF SameOn
<1>6. At(g1, S) = At(g2, S)
  <2>1. IsFiniteSet(S)
    BY DEF S
  <2> QED  BY <1>2, <1>4, <1>5, <2>1, TalliesAgreeAt
<1> QED  BY <1>1, <1>2, <1>6 DEF At, Total, S, f

\* The orders of the certificate and what they have filled stay.
LEMMA TotalStays ==
  ASSUME NEW ord, NEW nxt, NEW c, IsFiniteSet(Mine(ord, c)), Mine(nxt, c) = Mine(ord, c),
         \A o \in Mine(ord, c) : nxt[o].filled = ord[o].filled
  PROVE  Total(nxt, c) = Total(ord, c)
<1>1. \A o \in Mine(ord, c) : Fills(nxt)[o] = Fills(ord)[o]
  BY DEF Fills, Mine
<1> QED  BY <1>1, SumsAgree DEF Total

\* One structure of one order fills.
LEMMA TotalOfOneMore ==
  ASSUME NEW ord, NEW nxt, NEW c, IsFiniteSet(Mine(ord, c)), Mine(nxt, c) = Mine(ord, c),
         NEW e \in Mine(ord, c), \A o \in Mine(ord, c) : ord[o].filled \in Nat,
         nxt[e].filled = ord[e].filled + 1,
         \A o \in Mine(ord, c) \ {e} : nxt[o].filled = ord[o].filled
  PROVE  Total(nxt, c) = Total(ord, c) + 1
<1> DEFINE S == Mine(ord, c)
           f == Fills(ord)
           h == Fills(nxt)
<1>1. \A o \in S : f[o] = ord[o].filled /\ h[o] = nxt[o].filled
  BY DEF Fills, Mine
<1>2. \A o \in S : f[o] \in Int
  BY <1>1
<1>3. h[e] = f[e] + 1 /\ h[e] \in Int /\ f[e] \in Int
  BY <1>1, <1>2
<1>4. \A o \in S \ {e} : h[o] = f[o]
  BY <1>1
<1> HIDE DEF f, h
<1>5. SumOver(h, S) = SumOver(f, S) - f[e] + h[e] /\ SumOver(f, S) \in Int
  BY <1>2, <1>3, <1>4, SumChangesAt, SumIsInt
<1> QED  BY <1>3, <1>5 DEF Total, f, h

\* A new order, which has filled nothing.
Joins(e, ord, nxt, c) ==
  /\ e \notin Mine(ord, c) /\ Mine(nxt, c) = Mine(ord, c) \cup {e} /\ nxt[e].filled = 0
  /\ \A o \in Mine(ord, c) : ord[o].filled \in Nat /\ nxt[o].filled = ord[o].filled

LEMMA TotalOfNewOrder ==
  ASSUME NEW ord, NEW nxt, NEW c, IsFiniteSet(Mine(ord, c)), NEW e, Joins(e, ord, nxt, c)
  PROVE  /\ IsFiniteSet(Mine(nxt, c))
         /\ Total(nxt, c) = Total(ord, c)
<1> USE DEF Joins
<1> DEFINE S == Mine(ord, c)
           f == Fills(ord)
           h == Fills(nxt)
<1>1. \A o \in S : f[o] = ord[o].filled /\ h[o] = nxt[o].filled
  BY DEF Fills, Mine
<1>2. h[e] = 0
  <2>1. e \in Mine(nxt, c)
    OBVIOUS
  <2> QED  BY <2>1 DEF Fills, Mine
<1>3. \A o \in S \cup {e} : h[o] \in Int
  BY <1>1, <1>2
<1>4. \A o \in S : h[o] = f[o]
  BY <1>1
<1>5. IsFiniteSet(S \cup {e})
  BY FS_AddElement
<1>6. SumOver(f, S) \in Int
  <2>1. \A o \in S : f[o] \in Int
    BY <1>1
  <2> HIDE DEF f
  <2> QED  BY <2>1, SumIsInt
<1> HIDE DEF f, h
<1>7. SumOver(h, S \cup {e}) = h[e] + SumOver(h, S)
  BY <1>3, SumAdds
<1>8. SumOver(h, S) = SumOver(f, S)
  BY <1>4, SumsAgree
<1> QED  BY <1>2, <1>5, <1>6, <1>7, <1>8 DEF Total, f, h

\* An order that holds its place at the head of the chain.
Heads == {"NEW", "PARTIALLY_FILLED", "PENDING_REPLACE", "PENDING_CANCEL", "FILLED"}

Balanced(ord, c) ==
  /\ IsFiniteSet(Mine(ord, c))
  /\ Total(ord, c) <= Qty
  /\ \A o \in Mine(ord, c) : ord[o].status \in Heads =>
       Total(ord, c) = Qty - ord[o].qty + ord[o].filled

FilledIsAll == \A o \in OrderIds : order[o].status = "FILLED" => order[o].filled = order[o].qty

Balance == FilledIsAll /\ \A c \in Certs : Balanced(order, c)
\* Orders that stay the certificate's, fill nothing and enter no head.
LEMMA QuietBalance ==
  ASSUME NEW ord, NEW nxt, NEW c, Balanced(ord, c), Mine(nxt, c) = Mine(ord, c),
         \A o \in Mine(ord, c) :
           /\ nxt[o].filled = ord[o].filled
           /\ nxt[o].status \in Heads => ord[o].status \in Heads /\ nxt[o].qty = ord[o].qty
  PROVE  Balanced(nxt, c)
<1>1. Total(nxt, c) = Total(ord, c)
  BY TotalStays DEF Balanced
<1> QED  BY <1>1 DEF Balanced

LEMMA MovesKeepBalance ==
  ASSUME TypeInv, Orders, OnlyOnce, Moves, Balance
  PROVE  Balance'
<1> USE NoneAssumption, ConstantsAssumption
<1>0. /\ order \in [OrderIds -> OrderRow] /\ SomethingLeft /\ FilledIsAll
      /\ \A c \in Certs : Balanced(order, c)
  BY DEF TypeInv, BrokerTypes, Balance
<1>t. \A o \in OrderIds :
        /\ order[o].filled \in Nat /\ order[o].qty \in Nat
        /\ order[o].filled <= Qty /\ order[o].qty <= Qty
  BY <1>0 DEF OrderRow
<1>1. CASE order' = order
  BY <1>0, <1>1 DEF Balance, FilledIsAll
<1>2. ASSUME NEW p \in Processes, NEW o \in OrderIds, Placed(p, o)
      PROVE  Balance'
  <2>1. cert[p] \in Certs /\ Mine(order, cert[p]) = {} /\ order[o].cert = NoCert
    BY <1>2 DEF OnlyOnce, NoOrders, Mine, Placed, Orders, UnusedOrders
  <2>2. /\ order'[o].cert = cert[p] /\ order'[o].status = "NEW" /\ order'[o].qty = Qty
        /\ order'[o].filled = 0
        /\ \A a \in OrderIds \ {o} : order'[a] = order[a]
    BY <1>0, <1>2 DEF Placed, NewOrder, OrderRow
  <2>3. FilledIsAll'
    BY <1>0, <2>2 DEF FilledIsAll
  <2>4. ASSUME NEW c \in Certs, c # cert[p]
        PROVE  Balanced(order', c)
    <3>1. Mine(order', c) = Mine(order, c) /\ o \notin Mine(order, c)
      BY <2>1, <2>2, <2>4 DEF Mine
    <3>2. \A a \in Mine(order, c) : order'[a] = order[a]
      BY <2>2, <3>1 DEF Mine
    <3> QED  BY <1>0, <3>1, <3>2, QuietBalance
  <2>5. Balanced(order', cert[p])
    <3> DEFINE c == cert[p]
    <3>1. Mine(order', c) = {o} /\ Mine(order', c) = Mine(order, c) \cup {o}
      BY <2>1, <2>2 DEF Mine
    <3>2. IsFiniteSet(Mine(order, c)) /\ o \notin Mine(order, c)
      BY <2>1, FS_EmptySet
    <3>3. Total(order, c) = 0
      BY <2>1, SumOfNone DEF Total
    <3>4. \A a \in Mine(order, c) :
            order[a].filled \in Nat /\ order'[a].filled = order[a].filled
      BY <2>1
    <3>5. Joins(o, order, order', c)
      BY <2>2, <3>1, <3>2, <3>4 DEF Joins
    <3> HIDE DEF c
    <3>6. IsFiniteSet(Mine(order', c)) /\ Total(order', c) = 0
      BY <3>2, <3>3, <3>5, TotalOfNewOrder
    <3> QED  BY <2>2, <3>1, <3>6 DEF Balanced, c
  <2> QED  BY <2>3, <2>4, <2>5 DEF Balance
<1>3. ASSUME NEW old \in OrderIds, NEW new \in OrderIds, Replaced(old, new)
      PROVE  Balance'
  <2>1. /\ order'[new].cert = order[old].cert /\ order'[new].status = "PENDING_NEW"
        /\ order'[new].filled = 0
        /\ order'[old].status = "PENDING_REPLACE" /\ order'[old].filled = order[old].filled
        /\ order'[old].qty = order[old].qty /\ order'[old].cert = order[old].cert
        /\ \A a \in OrderIds \ {old, new} : order'[a] = order[a]
        /\ order[old].status \in {"NEW", "PARTIALLY_FILLED"} /\ order[new].status = "NONE"
        /\ old # new
    BY <1>0, <1>3 DEF Replaced, NewOrder, OrderRow
  <2>2. order[new].cert = NoCert
    BY <2>1 DEF Orders, UnusedOrders
  <2>3. FilledIsAll'
    BY <1>0, <2>1 DEF FilledIsAll
  <2>4. ASSUME NEW c \in Certs
        PROVE  Balanced(order', c)
    <3>1. new \notin Mine(order, c)
      BY <2>2 DEF Mine
    <3>2. \A a \in Mine(order, c) :
            /\ order'[a].filled = order[a].filled
            /\ order'[a].status \in Heads => order[a].status \in Heads
                                             /\ order'[a].qty = order[a].qty
      BY <2>1, <3>1 DEF Mine, Heads
    <3>3. CASE order[old].cert # c
      <4>1. Mine(order', c) = Mine(order, c)
        BY <2>1, <2>2, <3>3 DEF Mine
      <4> QED  BY <1>0, <3>2, <4>1, QuietBalance
    <3>4. CASE order[old].cert = c
      <4>1. Mine(order', c) = Mine(order, c) \cup {new}
        BY <2>1, <2>2, <3>4 DEF Mine
      <4>2. \A a \in Mine(order, c) :
              order[a].filled \in Nat /\ order'[a].filled = order[a].filled
        BY <1>t, <3>2 DEF Mine
      <4>3. IsFiniteSet(Mine(order, c))
        BY <1>0 DEF Balanced
      <4>4. IsFiniteSet(Mine(order', c)) /\ Total(order', c) = Total(order, c)
        <5>1. Joins(new, order, order', c)
          BY <2>1, <3>1, <4>1, <4>2 DEF Joins
        <5> QED  BY <4>3, <5>1, TotalOfNewOrder
      <4>5. ASSUME NEW a \in Mine(order', c), order'[a].status \in Heads
            PROVE  Total(order', c) = Qty - order'[a].qty + order'[a].filled
        <5>1. a # new
          BY <2>1, <4>5 DEF Heads
        <5>2. a \in Mine(order, c)
          BY <4>1, <5>1
        <5> QED  BY <1>0, <3>2, <4>4, <4>5, <5>2 DEF Balanced
      <4>6. Total(order', c) <= Qty
        BY <1>0, <4>4 DEF Balanced
      <4> QED  BY <4>4, <4>5, <4>6 DEF Balanced
    <3> QED  BY <3>3, <3>4
  <2> QED  BY <2>3, <2>4 DEF Balance
<1>4. ASSUME NEW o \in OrderIds,
             AskedCancel(o) \/ CancelDone(o) \/ \E s \in {"CANCELED", "REJECTED"} : Die(o, s)
      PROVE  Balance'
  <2>1. PICK s \in {"PENDING_CANCEL", "CANCELED", "REJECTED"} :
          order' = [order EXCEPT ![o].status = s]
    BY <1>4 DEF AskedCancel, CancelDone, Die
  <2>2. order[o].status \in {"NEW", "PARTIALLY_FILLED", "PENDING_CANCEL"}
    BY <1>4 DEF AskedCancel, CancelDone, Die
  <2>3. /\ order'[o].status = s /\ order'[o].filled = order[o].filled
        /\ order'[o].qty = order[o].qty /\ order'[o].cert = order[o].cert
        /\ \A a \in OrderIds \ {o} : order'[a] = order[a]
    BY <1>0, <2>1 DEF OrderRow
  <2>4. FilledIsAll'
    BY <1>0, <2>3 DEF FilledIsAll
  <2>5. ASSUME NEW c \in Certs
        PROVE  Balanced(order', c)
    <3>1. Mine(order', c) = Mine(order, c)
      BY <2>3 DEF Mine
    <3>2. \A a \in Mine(order, c) :
            /\ order'[a].filled = order[a].filled
            /\ order'[a].status \in Heads => order[a].status \in Heads
                                             /\ order'[a].qty = order[a].qty
      BY <2>2, <2>3 DEF Mine, Heads
    <3> QED  BY <1>0, <3>1, <3>2, QuietBalance
  <2> QED  BY <2>4, <2>5 DEF Balance
<1>6. ASSUME NEW new \in OrderIds, TakeOver(new)
      PROVE  Balance'
  <2>1. PICK old \in OrderIds :
          /\ old = order[new].replaces /\ old # new /\ order[old].cert = order[new].cert
          /\ order[new].status = "PENDING_NEW" /\ order[old].status = "PENDING_REPLACE"
    BY <1>6 DEF TakeOver, Orders, HandOver
  <2> DEFINE left == order[old].qty - order[old].filled
  <2>2. order' = [order EXCEPT ![old].status = "REPLACED",
                               ![new] = [@ EXCEPT !.status = "NEW", !.qty = left]]
    BY <1>6, <2>1 DEF TakeOver
  <2>3. order[new].filled = 0
    BY <1>0, <2>1 DEF SomethingLeft
  <2> HIDE DEF left
  <2>4. /\ order'[old].status = "REPLACED" /\ order'[old].cert = order[old].cert
        /\ order'[old].filled = order[old].filled
        /\ order'[new].status = "NEW" /\ order'[new].qty = left
        /\ order'[new].filled = 0 /\ order'[new].cert = order[new].cert
        /\ \A a \in OrderIds \ {old, new} : order'[a] = order[a]
    BY <1>0, <2>1, <2>2, <2>3 DEF OrderRow
  <2>5. FilledIsAll'
    BY <1>0, <2>4 DEF FilledIsAll
  <2>6. ASSUME NEW c \in Certs
        PROVE  Balanced(order', c)
    <3>1. Mine(order', c) = Mine(order, c)
      BY <2>4 DEF Mine
    <3>2. \A a \in Mine(order, c) : order'[a].filled = order[a].filled
      BY <2>3, <2>4 DEF Mine
    <3>3. IsFiniteSet(Mine(order, c))
      BY <1>0 DEF Balanced
    <3>4. Total(order', c) = Total(order, c)
      BY <3>1, <3>2, <3>3, TotalStays
    <3>5. ASSUME NEW a \in Mine(order, c), order'[a].status \in Heads
          PROVE  Total(order, c) = Qty - order'[a].qty + order'[a].filled
      <4>1. CASE a = new
        <5>1. old \in Mine(order, c)
          BY <2>1, <3>5, <4>1 DEF Mine
        <5>2. Total(order, c) = Qty - order[old].qty + order[old].filled
          BY <1>0, <2>1, <5>1 DEF Balanced, Heads
        <5> QED  BY <1>t, <2>1, <2>4, <4>1, <5>2 DEF left
      <4>2. CASE a = old
        BY <2>4, <3>5, <4>2 DEF Heads
      <4>3. CASE a \notin {old, new}
        <5>1. order'[a] = order[a]
          BY <2>4, <3>5, <4>3 DEF Mine
        <5> QED  BY <1>0, <3>5, <5>1 DEF Balanced
      <4> QED  BY <4>1, <4>2, <4>3
    <3> QED  BY <1>0, <3>1, <3>3, <3>4, <3>5 DEF Balanced
  <2> QED  BY <2>5, <2>6 DEF Balance
<1>5. ASSUME NEW o \in OrderIds, Fill(o)
      PROVE  Balance'
  <2> DEFINE last == order[o].filled + 1 = order[o].qty
  <2>1. /\ order[o].status \in {"NEW", "PARTIALLY_FILLED", "PENDING_REPLACE", "PENDING_CANCEL"}
        /\ order[o].filled < order[o].qty
    BY <1>5 DEF Fill, Working, WorkingStates, PendingRequests
  <2>2. /\ order'[o].filled = order[o].filled + 1 /\ order'[o].qty = order[o].qty
        /\ order'[o].cert = order[o].cert
        /\ last \/ order'[o].status # "FILLED"
    BY <1>0, <1>5, <2>1 DEF Fill, OrderRow
  <2>3. \A q \in OrderIds \ {o} :
          /\ order'[q].filled = order[q].filled /\ order'[q].qty = order[q].qty
          /\ order'[q].cert = order[q].cert
          /\ order'[q].status \in {order[q].status, "REJECTED"}
    BY <1>0, <1>5 DEF Fill, OrderRow
  <2>4. FilledIsAll'
    BY <1>0, <2>2, <2>3 DEF FilledIsAll
  <2>5. ASSUME NEW c \in Certs
        PROVE  Balanced(order', c)
    <3>1. Mine(order', c) = Mine(order, c) /\ IsFiniteSet(Mine(order, c))
      BY <1>0, <2>2, <2>3 DEF Mine, Balanced
    <3>2. CASE o \notin Mine(order, c)
      <4>1. \A a \in Mine(order, c) :
              /\ order'[a].filled = order[a].filled
              /\ order'[a].status \in Heads => order[a].status \in Heads
                                               /\ order'[a].qty = order[a].qty
        BY <2>3, <3>2 DEF Mine, Heads
      <4> QED  BY <1>0, <3>1, <4>1, QuietBalance
    <3>3. CASE o \in Mine(order, c)
      <4>1. Total(order, c) = Qty - order[o].qty + order[o].filled
        BY <1>0, <2>1, <3>3 DEF Balanced, Heads
      <4>2. \A a \in Mine(order, c) : order[a].filled \in Nat
        BY <1>t DEF Mine
      <4>3. \A a \in Mine(order, c) \ {o} : order'[a].filled = order[a].filled
        BY <2>3 DEF Mine
      <4>4. Total(order', c) = Total(order, c) + 1
        BY <2>2, <3>1, <3>3, <4>2, <4>3, TotalOfOneMore
      <4>5. ASSUME NEW a \in Mine(order, c), a # o
            PROVE  order'[a].status \notin Heads
        <5>1. a \in OrderIds /\ order[a].cert = order[o].cert /\ order[a].cert \in Certs
          BY <3>3, <4>5 DEF Mine
        <5>2. Precedes(a, o) \/ Precedes(o, a)
          BY <4>5, <5>1 DEF Orders, OneHead
        <5>3. order[a].status \in {"REPLACED", "PENDING_NEW"}
          BY <2>1, <5>2 DEF Precedes
        <5> QED  BY <2>3, <4>5, <5>1, <5>3 DEF Heads
      <4>6. Total(order', c) = Qty - order'[o].qty + order'[o].filled
            /\ Total(order', c) <= Qty
        BY <1>t, <2>1, <2>2, <4>1, <4>4
      <4> QED  BY <3>1, <4>5, <4>6 DEF Balanced
    <3> QED  BY <3>2, <3>3
  <2> QED  BY <2>4, <2>5 DEF Balance
<1> QED  BY <1>1, <1>2, <1>3, <1>4, <1>5, <1>6 DEF Moves

LEMMA InitBalance ==
  ASSUME Init
  PROVE  Balance
<1> USE NoneAssumption, ConstantsAssumption
<1>1. \A o \in OrderIds : order[o].status = "NONE" /\ order[o].cert = NoCert
  BY DEF Init
<1>2. FilledIsAll
  BY <1>1 DEF FilledIsAll
<1>3. ASSUME NEW c \in Certs
      PROVE  Balanced(order, c)
  <2>1. Mine(order, c) = {}
    BY <1>1 DEF Mine
  <2>2. IsFiniteSet(Mine(order, c)) /\ Total(order, c) = 0
    BY <2>1, FS_EmptySet, SumOfNone DEF Total
  <2> QED  BY <2>1, <2>2 DEF Balanced
<1> QED  BY <1>2, <1>3 DEF Balance

\* The chain of a certificate starts with an order of its client order id: who
\* refuses to see that id twice refuses a second chain.
Rooted == \A o \in OrderIds : order[o].cert \in Certs => ClientIdSeen(order[o].cert)

LEMMA MovesKeepRooted ==
  ASSUME TypeInv, Orders, Moves, Rooted
  PROVE  Rooted'
<1> USE NoneAssumption
<1>0. order \in [OrderIds -> OrderRow]
  BY DEF TypeInv, BrokerTypes
<1>1. CASE order' = order
  BY <1>1 DEF Rooted, ClientIdSeen
<1>2. CASE \E o \in OrderIds, p \in Processes : Placed(p, o)
  <2>1. PICK o \in OrderIds, p \in Processes : Placed(p, o)
    BY <1>2
  <2>2. /\ order'[o].cert = cert[p] /\ order'[o].replaces = NoOrder
        /\ order[o].cert = NoCert
        /\ \A a \in OrderIds \ {o} : order'[a] = order[a]
    BY <1>0, <2>1 DEF Placed, NewOrder, OrderRow, Orders, UnusedOrders
  <2> QED  BY <2>2 DEF Rooted, ClientIdSeen
<1>3. CASE \E old, new \in OrderIds : Replaced(old, new)
  <2>1. PICK old \in OrderIds, new \in OrderIds : Replaced(old, new)
    BY <1>3
  <2>2. /\ order'[new].cert = order[old].cert /\ order[new].cert = NoCert
        /\ order'[old].cert = order[old].cert /\ order'[old].replaces = order[old].replaces
        /\ \A a \in OrderIds \ {old, new} : order'[a] = order[a]
    BY <1>0, <2>1 DEF Replaced, NewOrder, OrderRow, Orders, UnusedOrders
  <2>3. ASSUME NEW a \in OrderIds, order[a].cert \in Certs
        PROVE  order'[a].cert = order[a].cert /\ order'[a].replaces = order[a].replaces
    BY <2>2, <2>3
  <2>4. ASSUME NEW c \in Certs, ClientIdSeen(c)
        PROVE  ClientIdSeen(c)'
    BY <2>3, <2>4 DEF ClientIdSeen
  <2> QED  BY <2>2, <2>3, <2>4 DEF Rooted
<1>4. ASSUME \A a \in OrderIds :
               order'[a].cert = order[a].cert /\ order'[a].replaces = order[a].replaces
      PROVE  Rooted'
  BY <1>4 DEF Rooted, ClientIdSeen
<1>5. CASE \E o \in OrderIds : AskedCancel(o) \/ Fill(o) \/ CancelDone(o)
  <2>1. PICK o \in OrderIds : AskedCancel(o) \/ Fill(o) \/ CancelDone(o)
    BY <1>5
  <2>2. CASE AskedCancel(o) \/ CancelDone(o)
    BY <1>0, <1>4, <2>2 DEF AskedCancel, CancelDone, OrderRow
  <2>3. CASE Fill(o)
    BY <1>0, <1>4, <2>3 DEF Fill, OrderRow
  <2> QED  BY <2>1, <2>2, <2>3
<1>6. CASE \E o \in OrderIds : TakeOver(o)
  <2>1. PICK new \in OrderIds : TakeOver(new)
    BY <1>6
  <2>2. order[new].replaces \in OrderIds
    BY <2>1 DEF TakeOver, Orders, HandOver
  <2> QED  BY <1>0, <1>4, <2>1, <2>2 DEF TakeOver, OrderRow
<1>7. CASE \E o \in OrderIds, status \in {"CANCELED", "REJECTED"} : Die(o, status)
  BY <1>0, <1>4, <1>7 DEF Die, OrderRow
<1> QED  BY <1>1, <1>2, <1>3, <1>5, <1>6, <1>7 DEF Moves

\* What is true of the orders as long as no certificate gets a second chain: by the
\* broker's refusal, or because it is executed once.
Chains == TypeInv /\ Orders /\ Balance /\ Rooted
Single == Chains /\ (UniqueClientIds \/ IInv)

LEMMA SinglePlacesOnce ==
  ASSUME Single
  PROVE  OnlyOnce
<1>1. CASE IInv
  BY <1>1, OwnPlacesOnce DEF IInv
<1>2. CASE UniqueClientIds
  <2> SUFFICES ASSUME NEW p \in Processes, NEW o \in OrderIds, Placed(p, o)
               PROVE  cert[p] \in Certs /\ NoOrders(cert[p])
    BY DEF OnlyOnce
  <2>1. cert[p] \in Certs
    BY DEF Placed, Single, Chains, TypeInv, TickTypes
  <2>2. ~ ClientIdSeen(cert[p])
    BY <1>2 DEF Placed, BrokerAccepts
  <2> QED  BY <2>1, <2>2 DEF Single, Chains, Rooted, NoOrders
<1> QED  BY <1>1, <1>2 DEF Single

LEMMA InitSingle ==
  ASSUME Init
  PROVE  Single
<1>1. TypeInv /\ Balance /\ IInv
  BY InitTypes, InitBalance, InitInvariant
<1>2. Orders
  BY <1>1 DEF IInv
<1>3. Rooted
  BY NoneAssumption DEF Init, Rooted
<1> QED  BY <1>1, <1>2, <1>3 DEF Single, Chains

LEMMA StepMovesOrders ==
  ASSUME Single, [Next]_vars
  PROVE  Moves /\ OnlyOnce /\ Orders' /\ Stable
<1>1. TypeInv /\ Shape /\ Orders
  BY TypesGiveShape DEF Single, Chains
<1>2. Moves
  BY <1>1, NextMoves DEF vars, broker, Moves
<1> QED  BY <1>1, <1>2, SinglePlacesOnce, MovesKeepOrders

LEMMA StepKeepsSingle ==
  ASSUME UniqueClientIds \/ MaxExecutes \in {0, 1}, Single, [Next]_vars
  PROVE  Single'
<1>1. TypeInv /\ Orders /\ Balance /\ Rooted
  BY DEF Single, Chains
<1>2. Moves /\ OnlyOnce /\ Orders'
  BY StepMovesOrders
<1>3. TypeInv' /\ Balance' /\ Rooted'
  BY <1>1, <1>2, StepTypes, MovesKeepBalance, MovesKeepRooted
<1>4. UniqueClientIds \/ IInv'
  BY StepKeepsInvariant DEF Single
<1> QED  BY <1>2, <1>3, <1>4 DEF Single, Chains

LEMMA SingleFills ==
  ASSUME Single, NEW c \in Certs
  PROVE  FilledOf(c) = Total(order, c)
<1>1. OrdersOf(c) = Mine(order, c) /\ IsFiniteSet(Mine(order, c))
  BY DEF OrdersOf, Mine, Single, Chains, Balance, Balanced
<1> QED  BY <1>1, FilledIsTotal DEF FilledOf

\* No certificate is filled for more than its quantity, however many processes
\* execute it, whatever answers are lost and whatever replacements nobody heard of:
\* the broker refuses a client order id it has seen, or the certificate is executed
\* once (OneAttempt of DecisionWindows_proofs).  The fills may come in any order,
\* before and after an order was replaced or asked to cancel.
THEOREM NeverFilledTwice ==
  ASSUME UniqueClientIds \/ MaxExecutes \in {0, 1}
  PROVE  Spec => []NoDoubleEntry
<1>1. Init => Single
  BY InitSingle
<1>2. Single /\ [Next]_vars => Single'
  BY StepKeepsSingle
<1>3. Single => NoDoubleEntry
  <2> SUFFICES ASSUME Single, NEW c \in Certs
               PROVE  FilledOf(c) <= Qty
    BY DEF NoDoubleEntry
  <2>1. FilledOf(c) = Total(order, c)
    BY SingleFills
  <2> QED  BY <2>1 DEF Single, Chains, Balance, Balanced
<1> QED  BY <1>1, <1>2, <1>3, PTL DEF Spec

-----------------------------------------------------------------------------
(* The position a case manages.  A case moves to MANAGING for an order that *)
(* was read as FILLED, which it stays; so its chain has filled all of it.   *)

HasFilled(c) == \E o \in OrderIds : order[o].cert = c /\ order[o].status = "FILLED"

\* What a process follows is its certificate's, and what it read as FILLED is.
Trusts(p) ==
  /\ pc[p] \notin {"idle", "checked"} => \A o \in ids[p] : order[o].cert = cert[p]
  /\ \A o \in OrderIds : obs[p][o].status = "FILLED" => order[o].status = "FILLED"
  /\ pc[p] = "record" /\ out[p] = "FILLED" => HasFilled(cert[p])

IntentIsOwn(c) == \A o \in intent[c].ids : order[o].cert = c

Managed(c) == caseState[c] = "MANAGING" => HasFilled(c)

Trusted == (\A p \in Processes : Trusts(p)) /\ \A c \in Certs : IntentIsOwn(c) /\ Managed(c)

\* What no step takes away from a certificate.
Lasts ==
  /\ Kept
  /\ \A o \in OrderIds : order[o].status = "FILLED" => order'[o].status = "FILLED"

LEMMA StableLasts ==
  ASSUME Orders, Stable
  PROVE  Lasts
<1> USE NoneAssumption
<1>1. Kept
  BY DEF Kept, Stable, Orders, UnusedOrders
<1> QED  BY <1>1 DEF Lasts, Stable, Ended

LEMMA HasFilledLasts ==
  ASSUME Lasts, NEW c \in Certs, HasFilled(c)
  PROVE  HasFilled(c)'
BY DEF HasFilled, Lasts, Kept

\* A process that the step leaves alone.
LEMMA OthersTrust ==
  ASSUME Shape, TickTypes, Lasts, Trusted, NEW q \in Processes, Same(q)
  PROVE  Trusts(q)'
<1>1. /\ Trusts(q) /\ ids[q] \subseteq OrderIds
      /\ pc[q] # "idle" => cert[q] \in Certs
  BY DEF Trusted, TickTypes
<1>2. pc'[q] \notin {"idle", "checked"} => \A o \in ids'[q] : order'[o].cert = cert'[q]
  BY <1>1 DEF Trusts, Same, Lasts, Kept
<1>3. \A o \in OrderIds : obs'[q][o].status = "FILLED" => order'[o].status = "FILLED"
  BY <1>1 DEF Trusts, Same, Lasts
<1>4. ASSUME pc'[q] = "record", out'[q] = "FILLED"
      PROVE  HasFilled(cert[q])'
  <2>1. HasFilled(cert[q]) /\ cert[q] \in Certs /\ cert'[q] = cert[q]
    BY <1>1, <1>4 DEF Trusts, Same
  <2> QED  BY <2>1 DEF HasFilled, Lasts, Kept
<1> QED  BY <1>2, <1>3, <1>4 DEF Trusts

LEMMA ConclusionFilled ==
  ASSUME NEW ph, NEW rows, NEW read, Conclusion(ph, rows, read) = "FILLED"
  PROVE  \E o \in rows : read[o].status = "FILLED"
<1>1. Decision(rows, read) = "FILLED"
  BY DEF Conclusion
<1>2. FilledRows(rows, read) # {}
  BY <1>1 DEF Decision
<1> QED  BY <1>2 DEF FilledRows, OfStatus

\* The ways in which most steps leave the process that takes them.
Turns(p) ==
  \/ EndTick(p)
  \/ /\ pc[p] \notin {"idle", "checked"}
     /\ \/ \E outcome \in EntryOutcomes \ {"FILLED"} : FinishBlind(p, outcome)
        \/ \E ph \in Phases, orders \in SUBSET OrderIds :
             BeginObserve(p, ph, orders) /\ \A o \in orders : order'[o].cert = cert[p]
        \/ \E l \in PcStates \ {"record"} :
             Goto(p, l) /\ UNCHANGED <<cert, ids, obs, out>>

LEMMA TurnsTrust ==
  ASSUME Shape, TickTypes, Lasts, Trusted, NEW p \in Processes, Turns(p)
  PROVE  Others(p) /\ Trusts(p)'
<1>1. /\ LocalShape /\ Trusts(p) /\ ids[p] \subseteq OrderIds
      /\ pc[p] # "idle" => cert[p] \in Certs
  BY DEF Shape, Trusted, TickTypes
<1>2. CASE EndTick(p)
  BY <1>1, <1>2, LocalEndTick DEF Unread, Trusts
<1>3. CASE /\ pc[p] \notin {"idle", "checked"}
           /\ \E outcome \in EntryOutcomes \ {"FILLED"} : FinishBlind(p, outcome)
  <2>1. PICK outcome \in EntryOutcomes \ {"FILLED"} : FinishBlind(p, outcome)
    BY <1>3
  <2>2. /\ Others(p) /\ out'[p] = outcome /\ cert'[p] = cert[p] /\ ids'[p] = ids[p]
        /\ Unread(p)
    BY <1>1, <2>1, LocalBlind
  <2>3. \A o \in ids[p] : order'[o].cert = cert[p]
    BY <1>1, <1>3 DEF Trusts, Lasts, Kept
  <2> QED  BY <2>1, <2>2, <2>3 DEF Trusts, Unread
<1>4. CASE \E ph \in Phases, orders \in SUBSET OrderIds :
             BeginObserve(p, ph, orders) /\ \A o \in orders : order'[o].cert = cert[p]
  <2>1. PICK ph \in Phases, orders \in SUBSET OrderIds :
          BeginObserve(p, ph, orders) /\ \A o \in orders : order'[o].cert = cert[p]
    BY <1>4
  <2>2. Others(p) /\ pc'[p] = "observe" /\ cert'[p] = cert[p] /\ ids'[p] = orders /\ Unread(p)
    BY <1>1, <2>1, LocalObserve
  <2> QED  BY <2>1, <2>2 DEF Trusts, Unread
<1>5. CASE /\ pc[p] \notin {"idle", "checked"}
           /\ \E l \in PcStates \ {"record"} : Goto(p, l) /\ UNCHANGED <<cert, ids, obs, out>>
  <2>1. PICK l \in PcStates \ {"record"} : Goto(p, l) /\ UNCHANGED <<cert, ids, obs, out>>
    BY <1>5
  <2>2. Others(p) /\ pc'[p] = l /\ cert'[p] = cert[p] /\ ids'[p] = ids[p] /\ obs'[p] = obs[p]
    BY <1>1, <2>1, LocalGoto
  <2>3. \A o \in ids[p] : order'[o].cert = cert[p]
    BY <1>1, <1>5 DEF Trusts, Lasts, Kept
  <2> QED  BY <1>1, <2>1, <2>2, <2>3 DEF Trusts, Lasts
<1> QED  BY <1>2, <1>3, <1>4, <1>5 DEF Turns

LEMMA TrustLasts ==
  ASSUME Shape, TickTypes, Lasts, Trusted, NEW p \in Processes, Others(p), Trusts(p)'
  PROVE  \A q \in Processes : Trusts(q)'
<1>1. ASSUME NEW q \in Processes, q # p
      PROVE  Trusts(q)'
  <2>1. Same(q)
    BY <1>1 DEF Others, Same
  <2> QED  BY <2>1, OthersTrust
<1> QED  BY <1>1

\* Steps that write neither intents nor cases.
LEMMA LedgerTrusts ==
  ASSUME Shape, Lasts, Trusted, UNCHANGED caseState,
         \A c \in Certs : intent'[c].ids = intent[c].ids
  PROVE  \A c \in Certs : IntentIsOwn(c)' /\ Managed(c)'
<1>1. \A c \in Certs : intent[c].ids \subseteq OrderIds
  BY DEF Shape, IntentRow
<1>2. \A c \in Certs : IntentIsOwn(c)'
  BY <1>1 DEF Trusted, IntentIsOwn, Lasts, Kept
<1>3. ASSUME NEW c \in Certs
      PROVE  Managed(c)'
  BY HasFilledLasts DEF Trusted, Managed
<1> QED  BY <1>2, <1>3

LEMMA QuietTurns ==
  ASSUME Shape, TickTypes, Lasts, Trusted, NEW p \in Processes, Turns(p), UNCHANGED ledger
  PROVE  Trusted'
BY TurnsTrust, TrustLasts, LedgerTrusts DEF ledger, Trusted
\* The preflight, and the ends of a tick that write nothing.
LEMMA PreflightTrusts ==
  ASSUME Shape, TickTypes, Lasts, Trusted, NEW p \in Processes,
         \/ PreflightPositions(p) \/ PreflightOrders(p) \/ Allow(p) \/ NotRecorded(p)
         \/ \E outcome \in {"REJECTED", "RECONCILE_REQUIRED"} : Refuse(p, outcome)
         \/ SubmitRefused(p) \/ ObserveFails(p) \/ DecideReplace(p) \/ DecideCancel(p)
         \/ CheckPositions(p)
  PROVE  Trusted'
<1>1. {"REJECTED", "RECONCILE_REQUIRED"} \subseteq EntryOutcomes \ {"FILLED"}
  BY DEF EntryOutcomes
<1>2. {"orders", "policy", "claim", "replace", "cancel"} \subseteq PcStates \ {"record"}
  BY DEF PcStates
<1>3. UNCHANGED ledger
  BY DEF PreflightPositions, PreflightOrders, Allow, NotRecorded, Refuse, SubmitRefused,
         ObserveFails, DecideReplace, DecideCancel, CheckPositions
<1>4. CASE CheckPositions(p) /\ ~ EndTick(p)
  <2>1. /\ Goto(p, "preflight") /\ ids' = [ids EXCEPT ![p] = {}]
        /\ UNCHANGED <<cert, phase, obs, todo, late, out>>
    BY <1>4 DEF CheckPositions
  <2>2. LocalShape /\ Trusts(p)
    BY DEF Shape, Trusted
  <2>3. /\ Others(p) /\ pc'[p] = "preflight" /\ ids'[p] = {} /\ obs'[p] = obs[p]
    BY <2>1, <2>2 DEF LocalShape, Goto, Others
  <2>4. Trusts(p)'
    BY <2>2, <2>3 DEF Trusts, Lasts
  <2> QED  BY <1>3, <2>3, <2>4, TrustLasts, LedgerTrusts DEF ledger, Trusted
<1>5. CASE EndTick(p)
  BY <1>3, <1>5, QuietTurns DEF Turns
<1>6. CASE /\ ~ CheckPositions(p) /\ ~ EndTick(p)
  <2>1. pc[p] \notin {"idle", "checked"}
    BY <1>6 DEF PreflightPositions, PreflightOrders, Allow, NotRecorded, Refuse,
                SubmitRefused, ObserveFails, DecideReplace, DecideCancel, Observed
  <2>2. \/ \E outcome \in {"REJECTED", "RECONCILE_REQUIRED"} : FinishBlind(p, outcome)
        \/ \E l \in {"orders", "policy", "claim", "replace", "cancel"} :
             Goto(p, l) /\ UNCHANGED <<cert, ids, obs, out>>
    BY <1>6 DEF PreflightPositions, PreflightOrders, Allow, NotRecorded, Refuse,
                SubmitRefused, ObserveFails, DecideReplace, DecideCancel
  <2>3. Turns(p)
    BY <1>1, <1>2, <2>1, <2>2 DEF Turns
  <2> QED  BY <1>3, <2>3, QuietTurns
<1> QED  BY <1>4, <1>5, <1>6

\* The claim adopts the orders of the intent, the loser of a claim names them.
LEMMA ClaimTrusts ==
  ASSUME Shape, TickTypes, Lasts, Trusted, NEW p \in Processes, Claim(p) \/ ClaimLost(p)
  PROVE  Trusted'
<1>1. /\ LocalShape /\ Trusts(p) /\ cert[p] \in Certs /\ pc[p] = "claim"
      /\ intent \in [Certs -> IntentRow] /\ intent[cert[p]].ids \subseteq OrderIds
      /\ IntentIsOwn(cert[p])
  BY DEF Shape, Trusted, TickTypes, Claim, ClaimLost, IntentRow
<1>2. \A o \in intent[cert[p]].ids : order'[o].cert = cert[p]
  BY <1>1 DEF IntentIsOwn, Lasts, Kept
<1>3. CASE Claim(p)
  <2>1. Turns(p)
    <3>1. "adopted" \in Phases /\ "submit" \in PcStates \ {"record"}
      BY DEF Phases, PcStates
    <3> QED  BY <1>1, <1>2, <1>3, <3>1 DEF Turns, Claim
  <2>2. UNCHANGED caseState /\ \A c \in Certs : intent'[c].ids = intent[c].ids
    BY <1>1, <1>3 DEF Claim, IntentRow
  <2> QED  BY <2>1, <2>2, TurnsTrust, TrustLasts, LedgerTrusts DEF Trusted
<1>4. CASE ClaimLost(p)
  <2>1. /\ Others(p) /\ pc'[p] = "record" /\ cert'[p] = cert[p] /\ obs'[p] = obs[p]
        /\ ids'[p] = intent[cert[p]].ids /\ out'[p] = "RECONCILE_REQUIRED"
    BY <1>1, <1>4 DEF ClaimLost, LocalShape, Goto, Others
  <2>2. Trusts(p)'
    BY <1>1, <1>2, <2>1 DEF Trusts, Lasts
  <2>3. UNCHANGED ledger
    BY <1>4 DEF ClaimLost
  <2> QED  BY <2>1, <2>2, <2>3, TrustLasts, LedgerTrusts DEF ledger, Trusted
<1> QED  BY <1>3, <1>4

LEMMA SubmissionTrusts ==
  ASSUME Shape, TickTypes, Lasts, Trusted, NEW p \in Processes,
         Persist(p) \/ \E o \in OrderIds : Submit(p, o) \/ SubmitAnswerLost(p, o)
  PROVE  Trusted'
<1>1. /\ LocalShape /\ Trusts(p) /\ cert[p] \in Certs /\ pc[p] \in {"submit", "persist"}
      /\ intent \in [Certs -> IntentRow] /\ ids[p] \in SUBSET OrderIds
      /\ order \in [OrderIds -> Row]
  BY DEF Shape, Trusted, TickTypes, Submit, SubmitAnswerLost, Persist, OrderShape
<1>2. "RECONCILE_REQUIRED" \in EntryOutcomes \ {"FILLED"} /\ "submitted" \in Phases
  BY DEF EntryOutcomes, Phases
<1>3. CASE Persist(p)
  <2>1. \A o \in ids[p] : order'[o].cert = cert[p]
    BY <1>1 DEF Trusts, Lasts, Kept
  <2>2. Turns(p)
    BY <1>1, <1>2, <1>3, <2>1 DEF Turns, Persist
  <2>3. /\ UNCHANGED caseState
        /\ \A c \in Certs : intent'[c].ids \in {intent[c].ids, IF c = cert[p] THEN ids[p]
                                                             ELSE intent[c].ids}
    BY <1>1, <1>3 DEF Persist, IntentRow
  <2>4. \A c \in Certs : intent[c].ids \subseteq OrderIds
    BY <1>1 DEF IntentRow
  <2>5. \A c \in Certs : IntentIsOwn(c)'
    BY <2>1, <2>3, <2>4 DEF Trusted, IntentIsOwn, Lasts, Kept
  <2>6. \A c \in Certs : Managed(c)'
    BY <2>3, HasFilledLasts DEF Trusted, Managed
  <2> QED  BY <2>2, <2>5, <2>6, TurnsTrust, TrustLasts DEF Trusted
<1>4. ASSUME NEW o \in OrderIds, Submit(p, o)
      PROVE  Trusted'
  <2>1. order'[o].cert = cert[p]
    BY <1>1, <1>4 DEF Submit, NewOrder
  <2>2. /\ Others(p) /\ pc'[p] = "persist" /\ cert'[p] = cert[p] /\ obs'[p] = obs[p]
        /\ ids'[p] = {o}
    BY <1>1, <1>4 DEF Submit, LocalShape, Goto, Others
  <2>3. Trusts(p)'
    BY <1>1, <2>1, <2>2 DEF Trusts, Lasts
  <2>4. UNCHANGED ledger
    BY <1>4 DEF Submit
  <2> QED  BY <2>2, <2>3, <2>4, TrustLasts, LedgerTrusts DEF ledger, Trusted
<1>5. ASSUME NEW o \in OrderIds, SubmitAnswerLost(p, o)
      PROVE  Trusted'
  <2>1. Turns(p) /\ UNCHANGED ledger
    BY <1>1, <1>2, <1>5 DEF Turns, SubmitAnswerLost
  <2> QED  BY <2>1, QuietTurns
<1> QED  BY <1>3, <1>4, <1>5
\* Polling and observing: the ids of a chain are the certificate's, and so is what
\* carries its client order id or replaces one of its orders.
LEMMA PollTrusts ==
  ASSUME Shape, TickTypes, Lasts, Trusted, NEW p \in Processes, NEW c \in Certs,
         CheckOrders(p, c) \/ Poll(p, c)
  PROVE  Trusted'
<1>1. /\ LocalShape /\ Trusts(p) /\ intent[c].ids \subseteq OrderIds /\ IntentIsOwn(c)
  BY DEF Shape, Trusted, IntentRow
<1>2. UNCHANGED ledger /\ UNCHANGED order
  BY DEF CheckOrders, Poll, broker
<1>3. \A o \in ChainIds(c) : order[o].cert = c
  BY <1>1 DEF ChainIds, IntentIsOwn
<1>4. /\ Others(p) /\ cert'[p] = c /\ obs'[p] = obs[p]
      /\ \/ pc'[p] = "checked"
         \/ pc'[p] \in {"find", "observe"} /\ ids'[p] = ChainIds(c)
  BY <1>1 DEF CheckOrders, Poll, LocalShape, Goto, Others
<1>5. Trusts(p)'
  <2>1. pc'[p] \notin {"idle", "checked"} => \A o \in ids'[p] : order'[o].cert = cert'[p]
    BY <1>2, <1>3, <1>4
  <2> QED  BY <1>1, <1>4, <2>1 DEF Trusts, Lasts
<1> QED  BY <1>2, <1>4, <1>5, TrustLasts, LedgerTrusts DEF ledger, Trusted

LEMMA ObservationTrusts ==
  ASSUME Shape, TickTypes, Lasts, Trusted, NEW p \in Processes,
         \/ FindClientOrder(p) \/ Conclude(p)
         \/ \E o \in OrderIds : Observe(p, o) \/ Cancel(p, o)
  PROVE  Trusted'
<1>1. /\ LocalShape /\ Trusts(p) /\ ids[p] \in SUBSET OrderIds
      /\ pc[p] # "idle" => cert[p] \in Certs
  BY DEF Shape, Trusted, TickTypes
<1>2. UNCHANGED ledger
  BY DEF FindClientOrder, Conclude, Observe, Cancel
<1>3. CASE FindClientOrder(p)
  <2> DEFINE mine == {o \in OrderIds : order[o].cert = cert[p] /\ order[o].replaces = NoOrder}
  <2>1. "RECONCILE_REQUIRED" \in EntryOutcomes \ {"FILLED"} /\ "polled" \in Phases
    BY DEF EntryOutcomes, Phases
  <2>2. UNCHANGED order /\ pc[p] = "find"
    BY <1>3 DEF FindClientOrder, broker
  <2>3. mine \in SUBSET OrderIds /\ \A o \in mine : order'[o].cert = cert[p]
    BY <2>2
  <2>4. BeginObserve(p, "polled", mine) \/ FinishBlind(p, "RECONCILE_REQUIRED")
    BY <1>3 DEF FindClientOrder
  <2> HIDE DEF mine
  <2>5. Turns(p)
    BY <2>1, <2>2, <2>3, <2>4 DEF Turns
  <2> QED  BY <1>2, <2>5, QuietTurns
<1>4. ASSUME NEW o \in OrderIds, Observe(p, o)
      PROVE  Trusted'
  <2>1. /\ Others(p) /\ pc'[p] = "observe" /\ pc[p] = "observe" /\ cert'[p] = cert[p]
        /\ ids'[p] = ids[p] /\ obs'[p][o].status = order[o].status
        /\ \A a \in OrderIds \ {o} : obs'[p][a] = obs[p][a]
        /\ UNCHANGED order
    BY <1>1, <1>4 DEF Observe, LocalShape, Others, broker
  <2>2. Trusts(p)'
    BY <1>1, <2>1 DEF Trusts
  <2> QED  BY <1>2, <2>1, <2>2, TrustLasts, LedgerTrusts DEF ledger, Trusted
<1>5. ASSUME NEW o \in OrderIds, Cancel(p, o)
      PROVE  Trusted'
  <2>1. Others(p) /\ Same(p)
    BY <1>5 DEF Cancel, Others, Same
  <2> QED  BY <1>2, <2>1, OthersTrust, TrustLasts, LedgerTrusts DEF ledger, Trusted
<1>6. CASE Conclude(p)
  <2> DEFINE outcome == Conclusion(phase[p], ids[p], obs[p])
  <2>1. /\ UNCHANGED <<order, cert, ids, obs>> /\ Goto(p, "record") /\ pc[p] = "observe"
        /\ out' = [out EXCEPT ![p] = outcome]
    BY <1>6 DEF Conclude, broker, Observed
  <2>2. outcome = "FILLED" => \E o \in ids[p] : obs[p][o].status = "FILLED"
    BY ConclusionFilled
  <2> HIDE DEF outcome
  <2>3. /\ Others(p) /\ cert'[p] = cert[p] /\ ids'[p] = ids[p] /\ obs'[p] = obs[p]
        /\ out'[p] = outcome /\ pc'[p] = "record"
    BY <1>1, <2>1 DEF LocalShape, Goto, Others
  <2>4. outcome = "FILLED" => HasFilled(cert[p])
    BY <1>1, <2>1, <2>2 DEF Trusts, HasFilled
  <2>5. Trusts(p)'
    BY <1>1, <2>1, <2>3, <2>4 DEF Trusts, HasFilled
  <2> QED  BY <1>2, <2>3, <2>5, TrustLasts, LedgerTrusts DEF ledger, Trusted
<1> QED  BY <1>3, <1>4, <1>5, <1>6

LEMMA ReplaceTrusts ==
  ASSUME Shape, TickTypes, Lasts, Trusted, NEW p \in Processes,
         \/ ReplaceRefused(p) \/ CancelsSent(p)
         \/ \E old, new \in OrderIds : Replace(p, old, new) \/ ReplaceAnswerLost(p, old, new)
  PROVE  Trusted'
<1>1. /\ LocalShape /\ Trusts(p) /\ ids[p] \in SUBSET OrderIds
      /\ order \in [OrderIds -> Row] /\ cert[p] \in Certs
      /\ pc[p] \in {"replace", "cancel"} /\ UNCHANGED ledger
  BY DEF Shape, Trusted, TickTypes, ReplaceRefused, CancelsSent, Replace, ReplaceAnswerLost,
         OrderShape
<1>2. \A o \in ids[p] : order'[o].cert = cert[p]
  BY <1>1 DEF Trusts, Lasts, Kept
<1>3. {"replaced", "raced", "canceled"} \subseteq Phases
  BY DEF Phases
<1>4. CASE \/ ReplaceRefused(p) \/ CancelsSent(p)
           \/ \E old, new \in OrderIds : ReplaceAnswerLost(p, old, new)
  <2>1. BeginObserve(p, "raced", ids[p]) \/ BeginObserve(p, "canceled", ids[p])
    BY <1>4 DEF ReplaceRefused, CancelsSent, ReplaceAnswerLost
  <2>2. Turns(p)
    BY <1>1, <1>2, <1>3, <2>1 DEF Turns
  <2> QED  BY <1>1, <2>2, QuietTurns
<1>5. ASSUME NEW old \in OrderIds, NEW new \in OrderIds, Replace(p, old, new)
      PROVE  Trusted'
  <2>1. order'[new].cert = order[old].cert /\ order[old].cert = cert[p]
    BY <1>1, <1>5 DEF Replace, Replaced, NewOrder, Trusts
  <2>2. \A o \in ids[p] \cup {new} : order'[o].cert = cert[p]
    BY <1>2, <2>1
  <2>3. BeginObserve(p, "replaced", ids[p] \cup {new})
    BY <1>5 DEF Replace
  <2>4. Turns(p)
    BY <1>1, <1>3, <2>2, <2>3 DEF Turns
  <2> QED  BY <1>1, <2>4, QuietTurns
<1> QED  BY <1>4, <1>5

LEMMA EventsManage ==
  ASSUME NEW state \in CaseStates, NEW outcome,
         AfterEvents(state, EntryEvents(state, outcome)) = "MANAGING"
  PROVE  state = "MANAGING" \/ outcome = "FILLED"
<1>1. \A x : Last(<<x>>) = x
  BY DEF Last
<1>2. CASE outcome \in {"SUBMITTED", "REPLACED"}
  BY <1>1, <1>2 DEF AfterEvents, EntryEvents, CaseStates
<1>3. CASE outcome \notin {"SUBMITTED", "REPLACED", "FILLED"}
  BY <1>1, <1>3 DEF AfterEvents, EntryEvents, CaseStates
<1> QED  BY <1>2, <1>3

LEMMA RecordTrusts ==
  ASSUME Shape, TickTypes, LedgerTypes, Lasts, Trusted, NEW p \in Processes, Record(p)
  PROVE  Trusted'
<1> DEFINE c == cert[p]
<1>1. /\ Trusts(p) /\ c \in Certs /\ pc[p] = "record" /\ ids[p] \in SUBSET OrderIds
      /\ intent \in [Certs -> IntentRow] /\ caseState \in [Certs -> CaseStates]
      /\ intent[c] \in IntentRow
  BY DEF Shape, Trusted, TickTypes, LedgerTypes, Record
<1>2. Turns(p)
  BY DEF Record, Turns
<1>3. \A o \in ids[p] : order'[o].cert = c
  BY <1>1 DEF Trusts, Lasts, Kept
<1>4. RecordedIntent(intent[c], out[p], ids[p]).ids \in {intent[c].ids, ids[p]}
  BY <1>1 DEF RecordedIntent, IntentRow
<1>5. /\ intent'[c].ids \in {intent[c].ids, ids[p]}
      /\ \A d \in Certs \ {c} : intent'[d] = intent[d]
  BY <1>1, <1>4 DEF Record
<1>6. \A d \in Certs : intent[d].ids \subseteq OrderIds
  BY <1>1 DEF IntentRow
<1>7. \A d \in Certs : IntentIsOwn(d)'
  BY <1>1, <1>3, <1>5, <1>6 DEF Trusted, IntentIsOwn, Lasts, Kept
<1>8. /\ caseState'[c] = AfterEvents(caseState[c], EntryEvents(caseState[c], out[p]))
      /\ \A d \in Certs \ {c} : caseState'[d] = caseState[d]
  BY <1>1 DEF Record
<1>9. ASSUME NEW d \in Certs
      PROVE  Managed(d)'
  <2>1. CASE d # c
    BY <1>8, <2>1, HasFilledLasts DEF Trusted, Managed
  <2>2. CASE d = c
    <3>1. caseState'[c] = "MANAGING" => caseState[c] = "MANAGING" \/ out[p] = "FILLED"
      BY <1>1, <1>8, EventsManage
    <3>2. caseState'[c] = "MANAGING" => HasFilled(c)
      BY <1>1, <3>1 DEF Trusted, Managed, Trusts
    <3> HIDE DEF c
    <3> QED  BY <1>1, <2>2, <3>2, HasFilledLasts DEF Managed
  <2> QED  BY <2>1, <2>2
<1> QED  BY <1>2, <1>7, <1>9, TurnsTrust, TrustLasts DEF Trusted

LEMMA OutsideTrusts ==
  ASSUME TypeInv, Shape, Lasts, Trusted,
         \/ Broker \/ UNCHANGED vars
         \/ \E c \in Certs : DeadlinePasses(c) \/ LeaseExpires(c)
         \/ \E p \in Processes : Crash(p)
  PROVE  Trusted'
<1>1. TickTypes /\ intent \in [Certs -> IntentRow]
  BY DEF TypeInv, Shape
<1>2. UNCHANGED caseState /\ \A c \in Certs : intent'[c].ids = intent[c].ids
  <2>1. CASE Broker \/ UNCHANGED vars \/ \E c \in Certs : DeadlinePasses(c)
    BY <2>1 DEF Broker, Fill, TakeOver, CancelDone, Die, DeadlinePasses, vars, ledger
  <2>2. CASE \E c \in Certs : LeaseExpires(c)
    BY <1>1, <2>2 DEF LeaseExpires, IntentRow
  <2>3. CASE \E p \in Processes : Crash(p)
    BY <1>1, <2>3 DEF Crash, IntentRow
  <2> QED  BY <2>1, <2>2, <2>3
<1>3. \A q \in Processes : Trusts(q)'
  <2>1. ASSUME NEW p \in Processes, Crash(p)
        PROVE  \A q \in Processes : Trusts(q)'
    <3>1. Turns(p)
      BY <2>1 DEF Crash, Turns
    <3> QED  BY <1>1, <3>1, TurnsTrust, TrustLasts
  <2>2. CASE ~ \E p \in Processes : Crash(p)
    <3>1. UNCHANGED locals
      BY <2>2 DEF Broker, Fill, TakeOver, CancelDone, Die, DeadlinePasses, LeaseExpires, vars
    <3>2. \A q \in Processes : Same(q)
      BY <3>1 DEF locals, Same
    <3> QED  BY <1>1, <3>2, OthersTrust
  <2> QED  BY <2>1, <2>2
<1> QED  BY <1>2, <1>3, LedgerTrusts DEF Trusted

LEMMA StepKeepsTrust ==
  ASSUME Single, Trusted, [Next]_vars
  PROVE  Trusted'
<1>1. TypeInv /\ Shape /\ TickTypes /\ LedgerTypes /\ Orders
  BY TypesGiveShape DEF Single, Chains, TypeInv
<1>2. Lasts
  BY <1>1, StepMovesOrders, StableLasts
<1>3. ASSUME NEW p \in Processes, Step(p)
      PROVE  Trusted'
  BY <1>1, <1>2, <1>3, PreflightTrusts, ClaimTrusts, SubmissionTrusts, ObservationTrusts,
     ReplaceTrusts, RecordTrusts DEF Step
<1> QED  BY <1>1, <1>2, <1>3, PollTrusts, OutsideTrusts DEF Next

LEMMA InitTrusted ==
  ASSUME Init
  PROVE  Trusted
BY DEF Init, Trusted, Trusts, IntentIsOwn, Managed, Nothing

\* A managed case holds a position, so the preflight cannot miss it.
LEMMA ManagedIsHeld ==
  ASSUME Single, Trusted, NEW c \in Certs, caseState[c] = "MANAGING"
  PROVE  FilledOf(c) = Qty /\ Held # {}
<1>1. PICK o \in OrderIds : order[o].cert = c /\ order[o].status = "FILLED"
  BY DEF Trusted, Managed, HasFilled
<1>2. order[o].filled = order[o].qty /\ order[o].qty \in 0..Qty
  BY <1>1 DEF Single, Chains, Balance, FilledIsAll, TypeInv, BrokerTypes, OrderRow
<1>3. Total(order, c) = Qty - order[o].qty + order[o].filled
  BY <1>1 DEF Single, Chains, Balance, Balanced, Mine, Heads
<1>4. FilledOf(c) = Total(order, c)
  BY SingleFills
<1>5. Total(order, c) = Qty
  BY <1>2, <1>3, ConstantsAssumption
<1>6. ASSUME Held = {}
      PROVE  FALSE
  <2>1. /\ IsFiniteSet(Mine(order, c))
        /\ order \in [OrderIds -> OrderRow]
    BY DEF Single, Chains, Balance, Balanced, TypeInv, BrokerTypes
  <2>2. \A a \in Mine(order, c) : Fills(order)[a] = 0
    BY <1>6, <2>1, ConstantsAssumption DEF Held, Mine, Fills, OrderRow
  <2>3. Total(order, c) = 0
    BY <2>1, <2>2, SumOfZeros DEF Total
  <2> QED  BY <1>5, <2>3, ConstantsAssumption
<1> QED  BY <1>4, <1>5, <1>6

\* A case that manages a position holds all the structures of its certificate, no
\* fewer and no more: the order it was recorded for has filled what the orders
\* before it in the chain had left over.
THEOREM ManagedIsWhole ==
  ASSUME UniqueClientIds \/ MaxExecutes \in {0, 1}
  PROVE  Spec => []ManagedPositionIsWhole
<1>1. Init => Single /\ Trusted
  BY InitSingle, InitTrusted
<1>2. Single /\ Trusted /\ [Next]_vars => (Single /\ Trusted)'
  BY StepKeepsSingle, StepKeepsTrust
<1>3. Single /\ Trusted => ManagedPositionIsWhole
  <2> SUFFICES ASSUME Single, Trusted, NEW c \in Certs, caseState[c] = "MANAGING"
               PROVE  FilledOf(c) = Qty
    BY DEF ManagedPositionIsWhole
  <2> QED  BY ManagedIsHeld
<1> QED  BY <1>1, <1>2, <1>3, PTL DEF Spec

-----------------------------------------------------------------------------
(* One live structure.  A certificate with orders has an intent.  While the *)
(* intent is open and its case is neither managed nor halted, the chain is  *)
(* polled and the tick gets to no execution; once managed, it holds a       *)
(* position that the preflight sees.  Only a halted case is overlooked.     *)

Off(c) == NoOrders(c) \/ caseState[c] = "HALTED"

Settled(c) ==
  /\ caseState[c] \in {"CERTIFIED", "SUBMITTED", "MANAGING", "HALTED"}
  /\ intent[c].state = "NONE" => NoOrders(c)
  /\ intent[c].state \in ClosedIntents => caseState[c] \in {"MANAGING", "HALTED"}

\* What a tick has made sure of, of the certificates that are not its own.
Clears(p) ==
  /\ pc[p] \in {"checked", "preflight"} =>
       \A d \in Certs \ {cert[p]} : Off(d) \/ caseState[d] = "MANAGING"
  /\ pc[p] \in {"orders", "policy", "claim", "submit"} =>
       \A d \in Certs \ {cert[p]} : Off(d)
  /\ pc[p] = "submit" => intent[cert[p]].state # "NONE"

LiveOne == \A c, d \in Certs : Off(c) \/ Off(d) \/ c = d

Lone ==
  /\ \A c \in Certs : Settled(c)
  /\ \A p \in Processes : Clears(p)
  /\ LiveOne

\* A certificate gets its first order from a submission of its own.
LEMMA FirstOrder ==
  ASSUME Single, [Next]_vars, NEW c \in Certs, NoOrders(c), ~ NoOrders(c)'
  PROVE  \E p \in Processes : pc[p] = "submit" /\ pc'[p] # "submit" /\ cert[p] = c
<1> USE NoneAssumption
<1>1. Orders /\ Stable
  BY StepMovesOrders DEF Single, Chains
<1>2. PICK o \in OrderIds : order'[o].cert = c
  BY DEF NoOrders
<1>3. order[o].status = "NONE"
  BY <1>1, <1>2 DEF Stable, NoOrders
<1>4. ~ \E old \in OrderIds : order[old].cert = c
  BY DEF NoOrders
<1> QED  BY <1>1, <1>2, <1>3, <1>4 DEF Stable

\* How the rows of the ledger change, other than by a record.
Written ==
  /\ UNCHANGED caseState
  /\ \A c \in Certs :
       \/ intent'[c].state = intent[c].state
       \/ intent'[c].state \in {"INTENT", "SUBMITTED"}

LEMMA StepWrites ==
  ASSUME TypeInv, [Next]_vars, ~ \E p \in Processes : Record(p)
  PROVE  Written
<1>1. intent \in [Certs -> IntentRow]
  BY DEF TypeInv, LedgerTypes
<1>2. CASE UNCHANGED ledger
  BY <1>2 DEF ledger, Written
<1>3. ASSUME NEW p \in Processes, Claim(p)
      PROVE  Written
  <2>1. UNCHANGED caseState
    BY <1>3 DEF Claim
  <2>2. \A c \in Certs : \/ intent'[c].state = intent[c].state
                         \/ intent'[c].state = "INTENT"
    BY <1>1, <1>3 DEF Claim, IntentRow
  <2> QED  BY <2>1, <2>2 DEF Written
<1>4. ASSUME NEW p \in Processes, Persist(p)
      PROVE  Written
  <2>1. UNCHANGED caseState
    BY <1>4 DEF Persist
  <2>2. \A c \in Certs : \/ intent'[c].state = intent[c].state
                         \/ intent'[c].state = "SUBMITTED"
    BY <1>1, <1>4 DEF Persist, IntentRow
  <2> QED  BY <2>1, <2>2 DEF Written
<1>5. ASSUME NEW p \in Processes, Crash(p)
      PROVE  Written
  BY <1>1, <1>5 DEF Crash, Written, IntentRow
<1>6. ASSUME NEW c \in Certs, LeaseExpires(c)
      PROVE  Written
  BY <1>1, <1>6 DEF LeaseExpires, Written, IntentRow
<1>7. ASSUME NEW p \in Processes, Step(p), ~ Claim(p), ~ Persist(p), ~ Record(p)
      PROVE  UNCHANGED ledger
  BY <1>7
     DEF Step, CheckPositions, PreflightPositions, PreflightOrders, Refuse, Allow, ClaimLost,
         Submit, SubmitAnswerLost, SubmitRefused, FindClientOrder, Observe, Cancel, ObserveFails,
         Conclude, DecideReplace, DecideCancel, Replace, ReplaceAnswerLost, ReplaceRefused,
         CancelsSent, NotRecorded
<1>8. ASSUME \/ \E p \in Processes, c \in Certs : CheckOrders(p, c) \/ Poll(p, c)
             \/ Broker \/ UNCHANGED vars \/ \E c \in Certs : DeadlinePasses(c)
      PROVE  UNCHANGED ledger
  BY <1>8 DEF CheckOrders, Poll, Broker, Fill, TakeOver, CancelDone, Die, DeadlinePasses, vars
<1> QED  BY <1>2, <1>3, <1>4, <1>5, <1>6, <1>7, <1>8 DEF Next

\* The cases and intents stay settled.
LEMMA EntryEnds ==
  ASSUME NEW state \in {"CERTIFIED", "SUBMITTED", "MANAGING", "HALTED"}, NEW outcome
  PROVE  LET next == AfterEvents(state, EntryEvents(state, outcome))
         IN  /\ next \in {"CERTIFIED", "SUBMITTED", "MANAGING", "HALTED"}
             /\ outcome \in ClosedIntents => next \in {"MANAGING", "HALTED"}
             /\ state = "MANAGING" => next \in {"MANAGING", "HALTED"}
             /\ state = "HALTED" => next = "HALTED"
<1>1. \A x : Last(<<x>>) = x
  BY DEF Last
<1>2. \A x, y : Last(<<x, y>>) = y
  BY DEF Last
<1>3. CASE outcome \in {"SUBMITTED", "REPLACED"}
  BY <1>1, <1>3 DEF AfterEvents, EntryEvents, ClosedIntents
<1>4. CASE outcome = "FILLED"
  BY <1>1, <1>2, <1>4 DEF AfterEvents, EntryEvents
<1>5. CASE outcome \notin {"SUBMITTED", "REPLACED", "FILLED"}
  BY <1>1, <1>5 DEF AfterEvents, EntryEvents, Haltable, CaseStates
<1> QED  BY <1>3, <1>4, <1>5

LEMMA SettledStays ==
  ASSUME Single, Lone, [Next]_vars, NEW c \in Certs
  PROVE  Settled(c)' /\ (caseState[c] = "HALTED" => caseState'[c] = "HALTED")
<1>0. /\ TypeInv /\ intent \in [Certs -> IntentRow] /\ caseState \in [Certs -> CaseStates]
      /\ Settled(c)
  BY DEF Single, Chains, TypeInv, LedgerTypes, Lone
<1>1. intent[c].state = "NONE" => NoOrders(c)'
  <2>1. SUFFICES ASSUME intent[c].state = "NONE", ~ NoOrders(c)'
                 PROVE  FALSE
    OBVIOUS
  <2>2. PICK p \in Processes : pc[p] = "submit" /\ cert[p] = c
    BY <1>0, <2>1, FirstOrder DEF Settled
  <2> QED  BY <2>1, <2>2 DEF Lone, Clears
<1>2. ASSUME NEW p \in Processes, Record(p)
      PROVE  Settled(c)' /\ (caseState[c] = "HALTED" => caseState'[c] = "HALTED")
  <2>1. CASE c # cert[p]
    <3>1. intent'[c] = intent[c] /\ caseState'[c] = caseState[c]
      BY <1>0, <1>2, <2>1 DEF Record
    <3> QED  BY <1>0, <1>1, <3>1 DEF Settled
  <2>2. CASE c = cert[p]
    <3>1. /\ intent'[c] = RecordedIntent(intent[c], out[p], ids[p])
          /\ caseState'[c] = AfterEvents(caseState[c], EntryEvents(caseState[c], out[p]))
      BY <1>0, <1>2, <2>2 DEF Record
    <3>2. /\ intent'[c].state = "NONE" => intent[c].state = "NONE"
          /\ intent'[c].state \in ClosedIntents => out[p] \in ClosedIntents
      BY <1>0, <3>1 DEF RecordedIntent, IntentRow, ClosedIntents
    <3> QED  BY <1>0, <1>1, <3>1, <3>2, EntryEnds DEF Settled
  <2> QED  BY <2>1, <2>2
<1>3. CASE ~ \E p \in Processes : Record(p)
  <2>1. Written
    BY <1>0, <1>3, StepWrites
  <2> QED  BY <1>0, <1>1, <2>1 DEF Written, Settled, ClosedIntents
<1> QED  BY <1>2, <1>3

\* No step brings a certificate back.
LEMMA OffStays ==
  ASSUME Single, Lone, [Next]_vars, NEW c \in Certs, Off(c),
         ~ \E p \in Processes : pc[p] = "submit" /\ cert[p] = c
  PROVE  Off(c)'
BY SettledStays, FirstOrder DEF Off

LEMMA LiveOneStays ==
  ASSUME Single, Lone, [Next]_vars, \A p, q \in Processes : p = q
  PROVE  LiveOne'
<1>1. SUFFICES ASSUME NEW c \in Certs, NEW d \in Certs, c # d, ~ Off(c)', ~ Off(d)'
               PROVE  FALSE
  BY DEF LiveOne
<1>2. ASSUME NEW e \in Certs, Off(e), ~ Off(e)'
      PROVE  \E p \in Processes : /\ cert[p] = e
                                  /\ \A a \in Certs \ {e} : Off(a)
  BY <1>2, OffStays DEF Lone, Clears
<1>3. Off(c) \/ Off(d)
  BY <1>1 DEF Lone, LiveOne
<1> QED  BY <1>1, <1>2, <1>3

\* The ways into the steps of an execution.
Climbs(p) ==
  \/ pc'[p] = pc[p] /\ cert'[p] = cert[p]
  \/ pc'[p] \notin {"checked", "preflight", "orders", "policy", "claim", "submit"}
  \/ \E c \in Certs : CheckOrders(p, c) /\ pc'[p] = "checked" /\ cert'[p] = c
  \/ /\ cert'[p] = cert[p]
     /\ \/ pc[p] = "checked" /\ pc'[p] = "preflight"
        \/ pc[p] = "preflight" /\ pc'[p] = "orders" /\ Held = {}
        \/ pc[p] = "orders" /\ pc'[p] = "policy"
        \/ pc[p] = "policy" /\ pc'[p] = "claim"
        \/ pc[p] = "claim" /\ pc'[p] = "submit" /\ intent'[cert[p]].state # "NONE"

LEMMA StepClimbs ==
  ASSUME TypeInv, [Next]_vars, \A p, q \in Processes : p = q, NEW p \in Processes
  PROVE  Climbs(p)
<1>0. TickTypes /\ LocalShape /\ intent \in [Certs -> IntentRow]
  BY TypesGiveShape DEF TypeInv, LedgerTypes, Shape
<1>1. CASE UNCHANGED <<pc, cert>>
  BY <1>1 DEF Climbs
<1>2. CASE EndTick(p)
  BY <1>0, <1>2, LocalEndTick DEF Climbs
<1>3. ASSUME NEW outcome, FinishBlind(p, outcome)
      PROVE  Climbs(p)
  BY <1>0, <1>3 DEF FinishBlind, Goto, LocalShape, Climbs
<1>4. ASSUME NEW ph, NEW orders, BeginObserve(p, ph, orders)
      PROVE  Climbs(p)
  BY <1>0, <1>4 DEF BeginObserve, Goto, LocalShape, Climbs
<1>5. ASSUME NEW c \in Certs, CheckOrders(p, c) \/ Poll(p, c)
      PROVE  Climbs(p)
  BY <1>0, <1>5 DEF CheckOrders, Poll, Goto, LocalShape, Climbs
<1>6. CASE CheckPositions(p) \/ PreflightPositions(p) \/ PreflightOrders(p) \/ Allow(p)
  BY <1>0, <1>2, <1>3, <1>6
     DEF CheckPositions, PreflightPositions, PreflightOrders, Allow, Goto, LocalShape, Climbs
<1>7. CASE Claim(p)
  <2>1. CASE intent[cert[p]].ids = {}
    <3>1. /\ pc[p] = "claim" /\ pc'[p] = "submit" /\ cert'[p] = cert[p] /\ cert[p] \in Certs
      BY <1>0, <1>7, <2>1 DEF Claim, Goto, LocalShape, TickTypes
    <3>2. intent'[cert[p]].state # "NONE"
      BY <1>0, <1>7, <3>1 DEF Claim, IntentRow
    <3> QED  BY <3>1, <3>2 DEF Climbs
  <2>2. CASE intent[cert[p]].ids # {}
    BY <1>4, <1>7, <2>2 DEF Claim
  <2> QED  BY <2>1, <2>2
<1>8. CASE \/ ClaimLost(p) \/ Conclude(p) \/ DecideReplace(p) \/ DecideCancel(p)
           \/ \E o \in OrderIds : Submit(p, o)
  BY <1>0, <1>8 DEF ClaimLost, Conclude, DecideReplace, DecideCancel, Submit, Goto, LocalShape,
                    Climbs
<1>9. ASSUME NEW o \in OrderIds, Observe(p, o) \/ Cancel(p, o)
      PROVE  Climbs(p)
  BY <1>1, <1>9 DEF Observe, Cancel
<1>10. CASE \/ SubmitRefused(p) \/ ObserveFails(p) \/ FindClientOrder(p) \/ Persist(p)
            \/ \E outcome \in {"REJECTED", "RECONCILE_REQUIRED"} : Refuse(p, outcome)
            \/ \E o \in OrderIds : SubmitAnswerLost(p, o)
  BY <1>3, <1>4, <1>10 DEF SubmitRefused, ObserveFails, FindClientOrder, Persist, Refuse,
                           SubmitAnswerLost
<1>11. CASE \/ ReplaceRefused(p) \/ CancelsSent(p)
            \/ \E old, new \in OrderIds : Replace(p, old, new) \/ ReplaceAnswerLost(p, old, new)
  BY <1>4, <1>11 DEF ReplaceRefused, CancelsSent, Replace, ReplaceAnswerLost
<1>12. CASE Record(p) \/ NotRecorded(p) \/ Crash(p)
  BY <1>2, <1>12 DEF Record, NotRecorded, Crash
<1>13. CASE \/ Broker \/ UNCHANGED vars
            \/ \E c \in Certs : DeadlinePasses(c) \/ LeaseExpires(c)
  BY <1>1, <1>13 DEF Broker, Fill, TakeOver, CancelDone, Die, DeadlinePasses, LeaseExpires, vars,
                     locals
<1>14. CASE Step(p)
  BY <1>6, <1>7, <1>8, <1>9, <1>10, <1>11, <1>12, <1>14 DEF Step
<1>15. ASSUME NEW q \in Processes
       PROVE  q = p
  OBVIOUS
<1> QED  BY <1>5, <1>12, <1>13, <1>14, <1>15 DEF Next

\* What a window that opens knows of the other certificates.
LEMMA WindowShut ==
  ASSUME Lone, NEW p \in Processes, NEW c \in Certs, CheckOrders(p, c),
         NEW d \in Certs \ {c}
  PROVE  Off(d) \/ caseState[d] = "MANAGING"
<1>1. Settled(d) /\ ~ ActiveChain(d)
  BY DEF Lone, CheckOrders
<1> QED  BY <1>1 DEF Settled, ActiveChain, Off

LEMMA ClearsStays ==
  ASSUME Single, Trusted, Lone, [Next]_vars, \A p, q \in Processes : p = q,
         NEW p \in Processes
  PROVE  Clears(p)'
<1>0. TypeInv /\ Climbs(p) /\ Clears(p) /\ cert[p] \in Certs \cup {NoCert}
  BY StepClimbs DEF Single, Chains, Lone, TypeInv, TickTypes
<1>1. ASSUME NEW d \in Certs, Off(d), pc[p] = "submit" => cert[p] # d
      PROVE  Off(d)'
  BY <1>1, OffStays
<1>2. CASE \E q \in Processes : Record(q)
  <2>1. Record(p)
    BY <1>2
  <2>2. pc'[p] = "idle"
    BY <1>0, <2>1 DEF Record, EndTick, Goto, TypeInv, TickTypes
  <2> QED  BY <2>2 DEF Clears
<1>3. CASE ~ \E q \in Processes : Record(q)
  <2>1. Written
    BY <1>0, <1>3, StepWrites
  <2>2. CASE pc'[p] = pc[p] /\ cert'[p] = cert[p]
    <3>1. pc[p] # "idle" => cert[p] \in Certs
      BY <1>0 DEF TypeInv, TickTypes
    <3> QED  BY <1>0, <1>1, <2>1, <2>2, <3>1 DEF Clears, Written
  <2>3. CASE pc'[p] \notin {"checked", "preflight", "orders", "policy", "claim", "submit"}
    BY <2>3 DEF Clears
  <2>4. CASE \E c \in Certs : CheckOrders(p, c) /\ pc'[p] = "checked" /\ cert'[p] = c
    <3>1. PICK c \in Certs : CheckOrders(p, c) /\ pc'[p] = "checked" /\ cert'[p] = c
      BY <2>4
    <3>2. pc[p] = "idle"
      BY <3>1 DEF CheckOrders
    <3>3. ASSUME NEW d \in Certs \ {c}
          PROVE  Off(d)' \/ caseState'[d] = "MANAGING"
      BY <1>1, <2>1, <3>1, <3>2, WindowShut DEF Written
    <3> QED  BY <3>1, <3>3 DEF Clears
  <2>5. CASE /\ cert'[p] = cert[p] /\ pc[p] = "checked" /\ pc'[p] = "preflight"
    BY <1>0, <1>1, <2>1, <2>5 DEF Clears, Written
  <2>6. CASE cert'[p] = cert[p] /\ pc[p] = "preflight" /\ pc'[p] = "orders" /\ Held = {}
    BY <1>0, <1>1, <2>6, ManagedIsHeld DEF Clears
  <2>7. CASE /\ cert'[p] = cert[p]
             /\ \/ pc[p] = "orders" /\ pc'[p] = "policy"
                \/ pc[p] = "policy" /\ pc'[p] = "claim"
                \/ pc[p] = "claim" /\ pc'[p] = "submit" /\ intent'[cert[p]].state # "NONE"
    BY <1>0, <1>1, <2>7 DEF Clears
  <2> QED  BY <1>0, <2>2, <2>3, <2>4, <2>5, <2>6, <2>7 DEF Climbs
<1> QED  BY <1>2, <1>3

LEMMA StepKeepsLone ==
  ASSUME Single, Trusted, Lone, [Next]_vars, \A p, q \in Processes : p = q
  PROVE  Lone'
BY SettledStays, ClearsStays, LiveOneStays DEF Lone

LEMMA InitLone ==
  ASSUME Init
  PROVE  Lone
<1>1. \A c \in Certs : NoOrders(c)
  BY NoneAssumption DEF Init, NoOrders
<1> QED  BY <1>1 DEF Init, Lone, Settled, Clears, LiveOne, Off, ClosedIntents

LEMMA ExposedHasOrders ==
  ASSUME Single, NEW c \in Certs, Exposed(c)
  PROVE  ~ NoOrders(c)
<1>1. SUFFICES ASSUME NoOrders(c)
               PROVE  FALSE
  OBVIOUS
<1>2. OrdersOf(c) = {} /\ Mine(order, c) = {}
  BY <1>1 DEF NoOrders, OrdersOf, Mine
<1>3. FilledOf(c) = 0
  BY <1>2, SingleFills, SumOfNone DEF Total
<1> QED  BY <1>2, <1>3 DEF Exposed

\* Of the cases that are not halted at most one has positions or working orders, for
\* one process, whatever fails, is lost, is replaced or dies on the way: before a
\* second entry every other chain was ended by a record, and the record of a fill
\* leaves a position that the preflight reads.
THEOREM LiveStructure ==
  ASSUME \A p, q \in Processes : p = q, UniqueClientIds \/ MaxExecutes \in {0, 1}
  PROVE  Spec => []OneLiveStructure
<1>1. Init => Single /\ Trusted /\ Lone
  BY InitSingle, InitTrusted, InitLone
<1>2. Single /\ Trusted /\ Lone /\ [Next]_vars => (Single /\ Trusted /\ Lone)'
  BY StepKeepsSingle, StepKeepsTrust, StepKeepsLone
<1>3. Single /\ Lone => OneLiveStructure
  BY ExposedHasOrders DEF Lone, LiveOne, Off, OneLiveStructure
<1> QED  BY <1>1, <1>2, <1>3, PTL DEF Spec
=============================================================================
