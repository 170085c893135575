------------------------------ MODULE Exchange ------------------------------
(***************************************************************************)
(* What an order book of internal/engine promises to those who place       *)
(* orders, without price levels, loops or events.  An order has an owner,  *)
(* a side, a limit and a quantity that is left; it can rest.  One order at *)
(* a time, the taker, trades with those that rest.                         *)
(*                                                                         *)
(* A trade takes the same quantity from both, never more than either has   *)
(* left, at a price within both limits.  Nothing else changes an order, and *)
(* a match makes only used up orders and those of the taker's owner leave. *)
(* Orderbook implements this.                                              *)
(***************************************************************************)
EXTENDS Integers

CONSTANTS IDs, Users, Prices, Quantities

VARIABLES
  open,     \* open[o]: the order of each ID that the exchange knows
  resting,  \* the orders that rest
  taker,    \* the order that is being matched, or NoTaker
  trade     \* the last trade

vars == <<open, resting, taker, trade>>

Sides == {"buy", "sell"}
NoTaker == 0
NoTrade == [Maker |-> 0, Taker |-> 0, Price |-> 0, Quantity |-> 0]
Orders == [user : Users, side : Sides, limit : Prices, left : Quantities]

Init ==
  /\ open = [o \in {} |-> 0]
  /\ resting = {}
  /\ taker = NoTaker
  /\ trade = NoTrade

\* A new order is matched, or it rests at once, or it is turned away.
Place(o, order) ==
  /\ taker = NoTaker
  /\ o \notin DOMAIN open
  /\ open' = [k \in DOMAIN open \cup {o} |-> IF k = o THEN order ELSE open[k]]
  /\ \/ taker' = o /\ UNCHANGED resting
     \/ taker' = NoTaker /\ resting' \in {resting, resting \cup {o}}
  /\ UNCHANGED trade

\* The buyer pays the price, and the seller takes it.
Agreed(m, price) ==
  LET buyer == IF open[taker].side = "buy" THEN taker ELSE m
      seller == IF open[taker].side = "buy" THEN m ELSE taker
  IN  /\ open[buyer].side = "buy" /\ open[seller].side = "sell"
      /\ open[seller].limit <= price /\ price <= open[buyer].limit

\* The taker trades with m.
Trade(m, price, quantity) ==
  /\ taker # NoTaker /\ m # taker
  /\ m \in resting
  /\ Agreed(m, price)
  /\ quantity > 0 /\ quantity <= open[m].left /\ quantity <= open[taker].left
  /\ open' = [open EXCEPT ![m].left = @ - quantity, ![taker].left = @ - quantity]
  /\ resting' \subseteq resting
  /\ \A o \in resting \ resting' : open'[o].left = 0 \/ open[o].user = open[taker].user
  /\ taker' = taker \/ (taker' = NoTaker /\ open'[taker].left = 0)
  /\ trade' = [Maker |-> m, Taker |-> taker, Price |-> price, Quantity |-> quantity]

\* The match is over; what is left of the taker may rest.
Finish ==
  /\ taker # NoTaker
  /\ taker' = NoTaker
  /\ \/ UNCHANGED resting
     \/ open[taker].left > 0 /\ resting' = resting \cup {taker}
  /\ UNCHANGED <<open, trade>>

\* An order is taken back, when nothing is being matched.
Withdraw(o) ==
  /\ taker = NoTaker
  /\ resting' = resting \ {o}
  /\ UNCHANGED <<open, taker, trade>>

\* Orders that do not rest are forgotten.
Forget ==
  /\ taker = NoTaker
  /\ open' = [o \in resting |-> open[o]]
  /\ trade' = NoTrade
  /\ UNCHANGED <<resting, taker>>

Next == \/ \E o \in IDs, order \in Orders : Place(o, order)
        \/ \E m \in resting, price \in Prices :
             \E quantity \in 1 .. open[m].left : Trade(m, price, quantity)
        \/ Finish
        \/ \E o \in resting : Withdraw(o)
        \/ Forget

Spec == Init /\ [][Next]_vars
=============================================================================
