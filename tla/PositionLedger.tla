--------------------------- MODULE PositionLedger ---------------------------
(***************************************************************************)
(* What the orders and positions tables promise, whatever becomes of the   *)
(* answers, the polls and the process: a ledger of orders, to which shares *)
(* are posted together with the holding of their lot, never beyond what    *)
(* was ordered, and in which an order that is over stays over.             *)
(***************************************************************************)
EXTENDS Integers

CONSTANTS Orders, Lots, MaxQty

VARIABLES order,  \* its entry of each order
          hold    \* the shares of each lot

ledger == <<order, hold>>

Entries == [st : {"none", "open", "filled", "shut"}, lot : Lots, side : {"BUY", "SELL"},
            qty : 0 .. MaxQty, filled : 0 .. MaxQty]

Init ==
  /\ order \in [Orders -> Entries]
  /\ \A o \in Orders : order[o].st = "none" /\ order[o].filled = 0
  /\ hold = [l \in Lots |-> 0]

\* A new order, of terms it keeps.
Place(o) ==
  /\ order[o].st = "none"
  /\ \E l \in Lots, s \in {"BUY", "SELL"}, q \in 1 .. MaxQty :
       order' = [order EXCEPT ![o] = [st |-> "open", lot |-> l, side |-> s, qty |-> q, filled |-> 0]]
  /\ UNCHANGED hold

\* An order keeps its terms, and changes in state and shares only.
Becomes(o, s, f) == [st |-> s, lot |-> order[o].lot, side |-> order[o].side,
                     qty |-> order[o].qty, filled |-> f]

\* n more shares of an order: its entry and the holding of its lot change as one, one
\* that is shut stays shut, and a sale takes no more than is held.
Reached(o, f) == IF order[o].st = "shut" THEN "shut"
                 ELSE IF f = order[o].qty THEN "filled" ELSE "open"
Moved(o, n) == LET h == hold[order[o].lot]
               IN IF order[o].side = "BUY" THEN h + n ELSE IF h > n THEN h - n ELSE 0

Post(o, n) ==
  LET f == order[o].filled + n
  IN /\ order[o].st \in {"open", "shut"} /\ f <= order[o].qty
     /\ order' = [order EXCEPT ![o] = Becomes(o, Reached(o, f), f)]
     /\ hold' = [hold EXCEPT ![order[o].lot] = Moved(o, n)]

\* Open orders are cancelled, or expire, together.
Shut(S) ==
  /\ \A o \in S : order[o].st = "open"
  /\ order' = [o \in Orders |-> IF o \in S THEN Becomes(o, "shut", order[o].filled)
                                ELSE order[o]]
  /\ UNCHANGED hold

Next ==
  /\ order' # order
  /\ \/ \E o \in Orders : Place(o)
     \/ \E o \in Orders : \E n \in 1 .. MaxQty : Post(o, n)
     \/ \E S \in SUBSET Orders : Shut(S)

Spec == Init /\ [][Next]_ledger
=============================================================================
