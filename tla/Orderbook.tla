------------------------------ MODULE Orderbook ------------------------------
(***************************************************************************)
(* One order book of the matching engine: internal/engine/orderbook.go,    *)
(* side.go, price_level.go and order.go.                                   *)
(*                                                                         *)
(* Every public operation takes the book's mutex for its whole duration.   *)
(* MatchLimit and MatchMarket are loops that publish events and change     *)
(* orders while they run, so they are modelled one iteration per step: `pc`*)
(* says which loop holds the mutex, and no operation starts until the book *)
(* is idle again.                                                          *)
(*                                                                         *)
(* Decimals are naturals: shopspring/decimal adds, subtracts and compares  *)
(* exactly.  The uuid of an order is a number above those of the orders    *)
(* still on the book, so a smaller number is an older order.  Orders that  *)
(* have left the book are forgotten when the operation unlocks it.         *)
(***************************************************************************)
EXTENDS Integers, Sequences, FiniteSets

CONSTANTS
  Users,       \* the UserIDs that place orders
  Prices,      \* prices in ticks
  Quantities,  \* quantities an order can be placed with
  MaxOrders,   \* bound: the largest number an order can get
  MaxSeeded,   \* bound: the largest number a seeded order can get
  MaxLost      \* bound: orders with a lost event before no more publish fails,
               \* for order events and for trade events

ASSUME UsersAssumption == Users # {}
ASSUME PricesAssumption == Prices \subseteq Nat /\ Prices # {}
ASSUME QuantitiesAssumption == Quantities \subseteq Nat \ {0}
ASSUME BoundsAssumption == {MaxOrders, MaxSeeded, MaxLost} \subseteq Nat

VARIABLES
  orders,    \* the Order of each order ID the book holds or has just held
  book,      \* book[side][price]: the Orders slice of that PriceLevel
  pc,        \* who holds ob.mu: nobody ("idle"), a loop ("limit", "market"),
             \* or an operation about to return ("return")
  incoming,  \* the order being matched while pc # "idle"
  level,     \* the price level the loop is on
  todo,      \* "limit": what is left of the slice that `range` is walking
  idx,       \* "market": the index into the level's Orders
  pending,   \* "market": restingOrderEvents, published when the loop ends
  tape,      \* "market": tradeEvents, published after them
  trade,     \* the last fill
  told,      \* told[o]: the last order event published for order o
  traded,    \* traded[o]: quantity in the trade events published for order o
  lost,      \* orders with an order event that a failed publish dropped
  missed,    \* orders with a trade event that a failed publish dropped
  err        \* what the last operation returned

vars == <<orders, book, pc, incoming, level, todo, idx, pending, tape, trade, told,
          traded, lost, missed, err>>

------------------------------------------------------------------------------
(* Orders and price levels.                                                *)

Sides == {"buy", "sell"}
Types == {"limit", "market"}
Statuses == {"open", "partial"}
IDs == 1 .. MaxOrders
OrderIDs == DOMAIN orders

Opposite(side) == IF side = "buy" THEN "sell" ELSE "buy"

\* NewOrder: nothing is filled yet.
NewOrder(user, type, side, price, quantity) ==
  [UserID |-> user, Type |-> type, Side |-> side, Price |-> price,
   Quantity |-> quantity, Filled |-> 0, Status |-> "open"]

Remaining(o) == orders[o].Quantity - orders[o].Filled

\* The b-tree's order: asks ascend, bids descend.
Less(side, p, q) == IF side = "sell" THEN p < q ELSE p > q

\* Mutant of IsBest: any level will do.
IsAnyLevel(side, p) == book[side][p] # <<>>

\* BestPriceLevel: the first level of the tree.  A level with no orders is
\* not in the tree.
IsBest(side, p) ==
  /\ book[side][p] # <<>>
  /\ \A q \in Prices : book[side][q] # <<>> => q = p \/ Less(side, p, q)

NoLevels(side) == \A p \in Prices : book[side][p] = <<>>

\* Mutant of Add: the new order jumps the queue.
AddAtFront(side, price, o) ==
  [book EXCEPT ![side][price] = <<o>> \o @]

\* Add appends to the level at the order's price, behind the older orders.
Add(side, price, o) ==
  [book EXCEPT ![side][price] = Append(@, o)]

\* Mutant of PopFront: drops the last order of the level.
PopBack(side) ==
  [book EXCEPT ![side] =
     [p \in Prices |-> IF IsBest(side, p) THEN SubSeq(@[p], 1, Len(@[p]) - 1)
                                          ELSE @[p]]]

\* PopFront drops the first order of the first level of the side.
PopFront(side) ==
  [book EXCEPT ![side] =
     [p \in Prices |-> IF IsBest(side, p) THEN Tail(@[p]) ELSE @[p]]]

DropAt(s, i) == SubSeq(s, 1, i - 1) \o SubSeq(s, i + 1, Len(s))

\* RemoveFilledOrderInPriceLevel: cut one index out of a level's slice.
RemoveAt(side, price, i) ==
  [book EXCEPT ![side][price] = DropAt(@, i)]

OnBook(o) == \E s \in Sides, p \in Prices : \E i \in DOMAIN book[s][p] :
               book[s][p][i] = o

\* Mutant of Reaches: the buy branch copied to the sell side.
ReachesAsBuy(side, p, price) == p <= price

\* Does the incoming order's price reach a level of the other side?
Reaches(side, p, price) == IF side = "buy" THEN p <= price ELSE p >= price

------------------------------------------------------------------------------
(* Fills and events.                                                       *)

NoLevel == -1
NoOrders == [o \in {} |-> 0]
NoTrade == [Maker |-> 0, Taker |-> 0, Price |-> 0, Quantity |-> 0]

Event(status, filled) == [status |-> status, filled |-> filled]

\* Mutant of FillQty: what the taker still wants, without the Min.
FillQtyOfTaker(m) == Remaining(incoming)

\* fillQty: the smaller of what the two orders still have.
FillQty(m) ==
  IF Remaining(m) <= Remaining(incoming) THEN Remaining(m)
                                         ELSE Remaining(incoming)

\* Mutant of AfterFill: subtracts, as UpdateOrderFilled does to RemainingQty.
AfterFillSubtracts(o, q) == [orders[o] EXCEPT !.Filled = @ - q]

\* An order after a fill of q.  Only the partial branch calls ChangeStatusTo:
\* a filled order keeps the Status it had.
AfterFill(o, q) ==
  [orders[o] EXCEPT !.Filled = @ + q,
                    !.Status = IF q >= Remaining(o) THEN @ ELSE "partial"]

\* The order event of a fill: ChangeStatusEvent, then UpdateOrderFilled(q).
FillEvent(o, q) ==
  Event(IF q >= Remaining(o) THEN "filled" ELSE "partial", orders[o].Filled + q)

\* Both orders of a fill change.
Fill(m, q, price) ==
  /\ orders' = [orders EXCEPT ![m] = AfterFill(m, q),
                              ![incoming] = AfterFill(incoming, q)]
  /\ trade' = [Maker |-> m, Taker |-> incoming, Price |-> price, Quantity |-> q]

\* A trade event of quantity q names both orders.
TradeEvent(m, q) == [traded EXCEPT ![m] = @ + q, ![incoming] = @ + q]

\* PublishTradeStatusEvent: a failure is only logged.
PublishTrade(m, q) ==
  \/ /\ traded' = TradeEvent(m, q)
     /\ UNCHANGED missed
  \/ /\ Cardinality(missed) < MaxLost
     /\ missed' = missed \cup {m, incoming}
     /\ UNCHANGED traded

\* A trade of the batch: its maker and quantity, and what the taker has traded
\* in the batch up to it.
OnTape(m, q) ==
  [maker |-> m, quantity |-> q,
   total |-> q + (IF tape = <<>> THEN 0 ELSE tape[Len(tape)].total)]

\* What the first k trades of the batch say was traded of order o.
TradedOf(o, k) ==
  IF o = incoming THEN IF k = 0 THEN 0 ELSE tape[k].total
  ELSE IF \E i \in 1 .. k : tape[i].maker = o
       THEN tape[CHOOSE i \in 1 .. k : tape[i].maker = o].quantity
       ELSE 0

\* Mutant of PublishTradeBatch: the last trade of the batch is left out.
PublishTradeBatchShort ==
  /\ traded' = [o \in OrderIDs |->
                  traded[o] + TradedOf(o, IF tape = <<>> THEN 0 ELSE Len(tape) - 1)]
  /\ UNCHANGED missed

\* PublishTradeStatusEventBatch: the trades go out in turn, up to the first
\* failure, which is only logged.
PublishTradeBatch ==
  \E k \in 0 .. Len(tape) :
    /\ k < Len(tape) => Cardinality(missed) < MaxLost
    /\ traded' = [o \in OrderIDs |-> traded[o] + TradedOf(o, k)]
    /\ missed' = missed \cup {tape[i].maker : i \in k + 1 .. Len(tape)}
                        \cup {o \in {incoming} : k < Len(tape)}

\* PublishOrderEventBatch: the events go out in turn, up to the first failure,
\* which the callers only log.  evs is a sequence of <<order, event>>.
Publish(evs) ==
  \E k \in 0 .. Len(evs) :
    /\ k < Len(evs) => Cardinality(lost) < MaxLost
    /\ told' = [o \in OrderIDs |->
                  IF \E i \in 1 .. k : evs[i][1] = o
                  THEN LET i == CHOOSE i \in 1 .. k : evs[i][1] = o IN evs[i][2]
                  ELSE told[o]]
    /\ lost' = lost \cup {evs[i][1] : i \in k + 1 .. Len(evs)}

\* The operation is over and answers e.
Return(e) ==
  /\ pc' = "return"
  /\ incoming' = 0 /\ level' = NoLevel /\ todo' = <<>>
  /\ idx' = 1 /\ pending' = <<>> /\ tape' = <<>>
  /\ err' = e

------------------------------------------------------------------------------
Init ==
  /\ orders = NoOrders
  /\ book = [s \in Sides |-> [p \in Prices |-> <<>>]]
  /\ pc = "idle"
  /\ incoming = 0 /\ level = NoLevel /\ todo = <<>> /\ idx = 1
  /\ pending = <<>> /\ tape = <<>>
  /\ trade = NoTrade
  /\ told = NoOrders /\ traded = NoOrders /\ lost = {} /\ missed = {}
  /\ err = "nil"

\* The next ID above those on the book.
IsNewID(o) == /\ \A k \in OrderIDs : k < o
              /\ o = 1 \/ o - 1 \in OrderIDs

\* Order o locks the idle book.  `ev` is the last event published for it when
\* the first step of its operation is over.
Arrive(o, order, ev) ==
  /\ pc = "idle"
  /\ IsNewID(o)
  /\ orders' = [k \in OrderIDs \cup {o} |-> IF k = o THEN order ELSE orders[k]]
  /\ told' = [k \in OrderIDs \cup {o} |-> IF k = o THEN ev ELSE told[k]]
  /\ traded' = [k \in OrderIDs \cup {o} |-> IF k = o THEN 0 ELSE traded[k]]
  /\ UNCHANGED <<trade, missed>>

\* The deferred ob.mu.Unlock(): the caller gets its answer, and an order that
\* is not on the book is nowhere in the engine any more.
Unlock ==
  LET kept == {o \in OrderIDs : OnBook(o)}
  IN  /\ pc = "return"
      /\ pc' = "idle"
      /\ orders' = [o \in kept |-> orders[o]]
      /\ told' = [o \in kept |-> told[o]]
      /\ traded' = [o \in kept |-> traded[o]]
      /\ lost' = lost \cap kept
      /\ missed' = missed \cap kept
      /\ trade' = NoTrade
      /\ err' = "nil"
      /\ UNCHANGED <<book, incoming, level, todo, idx, pending, tape>>

Unpublished == Event("open", 0)

\* Side.Add called on its own, as a seeded or restored book is filled.
Seed(o, order) ==
  /\ o <= MaxSeeded
  /\ Arrive(o, order, Unpublished)
  /\ book' = Add(order.Side, order.Price, o)
  /\ Return("nil")
  /\ UNCHANGED lost

------------------------------------------------------------------------------
(* MatchLimit.                                                             *)

\* The other side has no level: the order is dropped, whatever its price.
EmptyBook(o, order) ==
  /\ Arrive(o, order, Unpublished)
  /\ NoLevels(Opposite(order.Side))
  /\ Return("ErrOrderbookEmpty")
  /\ UNCHANGED <<book, lost>>

\* The best level is out of reach.  A sell publishes ORDER_CANCELED; a buy
\* returns without an event.  Neither rests.
LimitNoMatch(o, order) ==
  /\ \E p \in Prices : /\ IsBest(Opposite(order.Side), p)
                       /\ ~Reaches(order.Side, p, order.Price)
  /\ \/ /\ order.Side = "buy"
        /\ Arrive(o, order, Unpublished)
        /\ UNCHANGED lost
     \/ /\ order.Side = "sell"
        /\ Arrive(o, order, Event("cancelled", 0))
        /\ UNCHANGED lost
     \/ /\ order.Side = "sell"
        /\ Cardinality(lost) < MaxLost
        /\ Arrive(o, order, Unpublished)
        /\ lost' = lost \cup {o}
  /\ Return("nil")
  /\ UNCHANGED book

\* The best level is in reach: `range` starts over its slice as it is now.
LimitBegin(o, order) ==
  /\ Arrive(o, order, Unpublished)
  /\ \E p \in Prices :
       /\ IsBest(Opposite(order.Side), p)
       /\ Reaches(order.Side, p, order.Price)
       /\ level' = p
       /\ todo' = book[Opposite(order.Side)][p]
  /\ pc' = "limit"
  /\ incoming' = o
  /\ UNCHANGED <<book, idx, pending, tape, lost, err>>

Taker == orders[incoming]

\* Mutant of LimitSkips: without the check of the user.
LimitSkipsEmpty(m) == FillQty(m) = 0

\* The loop passes over the taker's own orders and over orders with nothing
\* left to fill.
LimitSkips(m) == orders[m].UserID = Taker.UserID \/ FillQty(m) = 0

LimitSkip ==
  /\ pc = "limit"
  /\ todo # <<>>
  /\ LimitSkips(Head(todo))
  /\ todo' = Tail(todo)
  /\ UNCHANGED <<orders, book, pc, incoming, level, idx, pending, tape, trade, told,
                 traded, lost, missed, err>>

\* One fill at the taker's price.  A filled resting order is taken off with
\* PopFront, which removes whatever order is first in the level.
LimitFill ==
  /\ pc = "limit"
  /\ todo # <<>>
  /\ LET m == Head(todo)
         q == FillQty(m)
     IN  /\ ~LimitSkips(m)
         /\ Fill(m, q, Taker.Price)
         /\ book' = IF q >= Remaining(m) THEN PopFront(Opposite(Taker.Side))
                                         ELSE book
         /\ Publish(<< <<m, FillEvent(m, q)>>, <<incoming, FillEvent(incoming, q)>> >>)
         /\ IF q >= Remaining(m) \/ q >= Remaining(incoming)
            THEN PublishTrade(m, q) ELSE UNCHANGED <<traded, missed>>
         /\ IF q >= Remaining(incoming)
            THEN Return("nil")
            ELSE /\ todo' = Tail(todo)
                 /\ UNCHANGED <<pc, incoming, level, idx, pending, tape, err>>

\* The level is used up.  A taker that was filled in part rests at its price;
\* one that met nobody is dropped.
LimitRest ==
  /\ pc = "limit"
  /\ todo = <<>>
  /\ book' = IF Taker.Status = "partial"
             THEN Add(Taker.Side, Taker.Price, incoming) ELSE book
  /\ Return("nil")
  /\ UNCHANGED <<orders, trade, told, traded, lost, missed>>

------------------------------------------------------------------------------
(* MatchMarket.                                                            *)

\* Ascend starts at the first level of the other side.
MarketBegin(o, order) ==
  /\ Arrive(o, order, Unpublished)
  /\ \E p \in Prices : IsBest(Opposite(order.Side), p) /\ level' = p
  /\ pc' = "market"
  /\ incoming' = o
  /\ UNCHANGED <<book, todo, idx, pending, tape, lost, err>>

\* The level's slice, and the order the index points at.
Queue == book[Opposite(Taker.Side)][level]
Resting == Queue[idx]

MarketVisits ==
  /\ pc = "market"
  /\ Remaining(incoming) > 0
  /\ level # NoLevel
  /\ Reaches(Taker.Side, level, Taker.Price)

\* A buy compares order IDs, a sell compares users.
SelfTrade(m) ==
  IF Taker.Side = "buy" THEN m = incoming ELSE orders[m].UserID = Taker.UserID

\* `return true` in the middle of a level gives up the rest of that level: on
\* a self trade, and on the buy side also at an order with nothing left.
LeavesLevel ==
  idx <= Len(Queue) =>
    SelfTrade(Resting) \/ (Taker.Side = "buy" /\ FillQty(Resting) = 0)

\* Ascend goes on to the next level that has orders, if there is one.
MarketNextLevel ==
  LET side == Opposite(Taker.Side)
      rest == {p \in Prices : book[side][p] # <<>> /\ Less(side, level, p)}
  IN  /\ MarketVisits
      /\ LeavesLevel
      /\ \/ rest = {} /\ level' = NoLevel
         \/ \E p \in rest : /\ \A q \in rest : q = p \/ Less(side, p, q)
                            /\ level' = p
      /\ idx' = 1
      /\ UNCHANGED <<orders, book, pc, incoming, todo, pending, tape, trade, told,
                     traded, lost, missed, err>>

\* Mutant of MarketSkip: without idx++.
MarketSkipStays == MarketVisits /\ ~LeavesLevel /\ FillQty(Resting) = 0 /\ UNCHANGED vars

\* The sell side steps over an order with nothing left.
MarketSkip ==
  /\ MarketVisits
  /\ ~LeavesLevel
  /\ FillQty(Resting) = 0
  /\ idx' = idx + 1
  /\ UNCHANGED <<orders, book, pc, incoming, level, todo, pending, tape, trade, told,
                 traded, lost, missed, err>>

\* One fill at the resting order's price; its events wait for the batches.
MarketFill ==
  /\ MarketVisits
  /\ ~LeavesLevel
  /\ LET m == Resting
         q == FillQty(m)
     IN  /\ q > 0
         /\ Fill(m, q, orders[m].Price)
         /\ IF q >= Remaining(m)
            THEN /\ book' = RemoveAt(Opposite(Taker.Side), level, idx)
                 /\ UNCHANGED idx
            ELSE /\ idx' = idx + 1
                 /\ UNCHANGED book
         /\ pending' = Append(pending, <<m, FillEvent(m, q)>>)
         /\ tape' = Append(tape, OnTape(m, q))
  /\ UNCHANGED <<pc, incoming, level, todo, told, traded, lost, missed, err>>

\* The loop is over: the taker is filled, the next level is out of reach
\* (the rest is cancelled), or no level is left.  The batches go out, unless
\* nothing happened at all.
MarketEnd ==
  /\ pc = "market"
  /\ ~MarketVisits
  /\ LET status == CASE Remaining(incoming) = 0 -> "filled"
                     [] Remaining(incoming) > 0 /\ level # NoLevel -> "cancelled"
                     [] OTHER -> "partial"
     IN  IF status = "partial" /\ pending = <<>>
         THEN UNCHANGED <<told, lost, traded, missed>>
         ELSE /\ Publish(Append(pending, <<incoming, Event(status, Taker.Filled)>>))
              /\ PublishTradeBatch
  /\ Return("nil")
  /\ UNCHANGED <<orders, book, trade>>

------------------------------------------------------------------------------
(* Cancel.                                                                 *)

\* RemoveOrderByOrderID never assigns true to its result.
Removed(side, o, price) == FALSE

\* The order is looked up at the level of the given side and price only.
Cancel(o, side, price) ==
  /\ pc = "idle"
  /\ \/ \E i \in DOMAIN book[side][price] :
          book[side][price][i] = o /\ book' = RemoveAt(side, price, i)
     \/ /\ \A i \in DOMAIN book[side][price] : book[side][price][i] # o
        /\ UNCHANGED book
  /\ Return(IF Removed(side, o, price) THEN "nil" ELSE "ErrOrderNotFoundInOrderbook")
  /\ UNCHANGED <<orders, trade, told, traded, lost, missed>>

------------------------------------------------------------------------------
MatchLimit(o, order) ==
  EmptyBook(o, order) \/ LimitNoMatch(o, order) \/ LimitBegin(o, order)

MatchMarket(o, order) == EmptyBook(o, order) \/ MarketBegin(o, order)

LimitStep == LimitSkip \/ LimitFill \/ LimitRest
MarketStep == MarketNextLevel \/ MarketSkip \/ MarketFill \/ MarketEnd

Next ==
  \/ \E o \in IDs, u \in Users, s \in Sides, p \in Prices, q \in Quantities :
       \/ Seed(o, NewOrder(u, "limit", s, p, q))
       \/ MatchLimit(o, NewOrder(u, "limit", s, p, q))
       \/ MatchMarket(o, NewOrder(u, "market", s, p, q))
  \/ \E o \in 1 .. MaxOrders, s \in Sides, p \in Prices : Cancel(o, s, p)
  \/ LimitStep
  \/ MarketStep
  \/ Unlock

\* The worker goroutine that holds the mutex keeps running its loop.
Spec == Init /\ [][Next]_vars /\ WF_vars(LimitStep \/ MarketStep \/ Unlock)

------------------------------------------------------------------------------
(* What the book promises.                                                 *)

OrderRecords ==
  [UserID : Users, Type : Types, Side : Sides, Price : Prices,
   Quantity : Quantities, Filled : Nat, Status : Statuses]
Events == [status : {"open", "partial", "filled", "cancelled"}, filled : Nat]
Trades == [maker : IDs, quantity : Nat, total : Nat]

\* Type invariant: the shape of the book, of the order records and of the
\* loop that is running.
TypeOK ==
  /\ OrderIDs \subseteq IDs
  /\ orders \in [OrderIDs -> OrderRecords]
  /\ book \in [Sides -> [Prices -> Seq(IDs)]]
  /\ pc \in {"idle", "limit", "market", "return"}
  /\ incoming \in 0 .. MaxOrders
  /\ level \in Prices \cup {NoLevel}
  /\ todo \in Seq(IDs)
  /\ idx \in Nat \ {0}
  /\ pending \in Seq(IDs \X Events)
  /\ tape \in Seq(Trades)
  /\ trade \in [Maker : 0 .. MaxOrders, Taker : 0 .. MaxOrders, Price : Nat,
                Quantity : Nat]
  /\ told \in [OrderIDs -> Events]
  /\ traded \in [OrderIDs -> Nat]
  /\ lost \subseteq IDs /\ missed \subseteq IDs
  /\ err \in {"nil", "ErrOrderbookEmpty", "ErrOrderNotFoundInOrderbook"}

\* No sequence of matches fills an order beyond its Quantity (order.go: the
\* quantity is immutable, Remaining is never negative).
NeverOverfilled == \A o \in OrderIDs : orders[o].Filled <= orders[o].Quantity

\* Whatever mix of Add, PopFront, index removal and Cancel a level has been
\* through, it holds limit orders of its own side and price, each once, the
\* oldest first.
LevelsAreQueues ==
  \A s \in Sides, p \in Prices : \A i \in DOMAIN book[s][p] :
    /\ book[s][p][i] \in OrderIDs
    /\ orders[book[s][p][i]].Type = "limit"
    /\ orders[book[s][p][i]].Side = s
    /\ orders[book[s][p][i]].Price = p
    /\ \A j \in DOMAIN book[s][p] : i < j => book[s][p][i] < book[s][p][j]

\* Nobody trades beyond the price they asked for: a trade joins a buy and a
\* sell order, at a price between the seller's and the buyer's, for some
\* quantity.
TradesWithinLimits ==
  trade # NoTrade =>
    LET maker == orders[trade.Maker]
        taker == orders[trade.Taker]
        buyer == IF taker.Side = "buy" THEN taker ELSE maker
        seller == IF taker.Side = "buy" THEN maker ELSE taker
    IN  /\ maker.Side = Opposite(taker.Side)
        /\ seller.Price <= trade.Price /\ trade.Price <= buyer.Price
        /\ trade.Quantity > 0

\* MatchLimit on both sides and MatchMarket for sells skip the taker's own
\* orders: no such fill joins two orders of one user.
SelfTradeSkipped ==
  /\ trade # NoTrade
  /\ orders[trade.Taker].Type = "limit" \/ orders[trade.Taker].Side = "sell"
  => orders[trade.Maker].UserID # orders[trade.Taker].UserID

\* When no publish has failed for an order, the last order event about it
\* carries the order's Filled and says "filled" exactly when nothing remains,
\* and its trade events add up to what was filled.  A failed publish leaves
\* readers behind, never ahead: also when a batch breaks off half way.
EventsTellTheBook ==
  pc = "return" =>
    \A o \in OrderIDs :
      /\ traded[o] <= orders[o].Filled
      /\ o \notin missed => traded[o] = orders[o].Filled
      /\ told[o].filled <= orders[o].Filled
      /\ o \notin lost => /\ told[o].filled = orders[o].Filled
                         /\ told[o].status = "filled" <=> Remaining(o) = 0

Matching == pc \in {"limit", "market"}

Ahead(o, m) ==
  /\ orders[o].Side = orders[m].Side
  /\ \/ Less(orders[m].Side, orders[o].Price, orders[m].Price)
     \/ orders[o].Price = orders[m].Price /\ o < m

Stuck(o, t) ==
  \E z \in OrderIDs :
    /\ OnBook(z) /\ z < o
    /\ orders[z].Side = orders[o].Side /\ orders[z].Price = orders[o].Price
    /\ Remaining(z) = 0 \/ orders[z].UserID = orders[t].UserID

\* Who is passed over, and when: a fill passes over a live order of somebody
\* else that is ahead of the maker only when a market order has given up that
\* order's whole level, at an older order that is the taker's own or has nothing
\* left.  A limit order passes over nobody, and within a level nobody does.
FillsInTurn ==
  [][trade' # trade /\ trade' # NoTrade =>
       \A o \in OrderIDs :
         /\ OnBook(o) /\ Ahead(o, trade'.Maker) /\ Remaining(o) > 0
         /\ orders[o].UserID # orders[trade'.Taker].UserID
         => /\ orders[trade'.Taker].Type = "market"
            /\ orders[o].Price # orders[trade'.Maker].Price
            /\ Stuck(o, trade'.Taker)]_vars

\* A match takes an order with something left off the book only if it belongs
\* to the taker: PopFront never hits a third party's live order.
OthersKeepTheirPlace ==
  [][Matching =>
       \A o \in OrderIDs :
         OnBook(o) /\ ~OnBook(o)' =>
           \/ orders'[o].Filled = orders[o].Quantity
           \/ orders[o].UserID = Taker.UserID]_vars

\* What the exchange sees of the book: each order with what it has left, and
\* the orders that are on some level.
Offers ==
  [o \in OrderIDs |-> [user |-> orders[o].UserID, side |-> orders[o].Side,
                       limit |-> orders[o].Price, left |-> Remaining(o)]]
Booked == {o \in OrderIDs : OnBook(o)}

Market == INSTANCE Exchange WITH open <- Offers, resting <- Booked, taker <- incoming

\* The book is an exchange: see Exchange.  Every trade takes the same quantity
\* off two orders that agree on its price, one of them on the book, none gives
\* more than it has left, and a match takes only used up orders and the taker's
\* own off the book: although fills, index removals, PopFront and the events
\* are interleaved over levels that change under the loops.
ImplementsExchange == Market!Spec

\* Every match ends: neither loop revisits an order or a level for ever while
\* it holds the mutex.
MatchEnds == pc # "idle" ~> pc = "idle"

------------------------------------------------------------------------------
(* What the documentation says, and the book does not do.                  *)

\* README: "Matching follows price-time priority": no fill passes over a live
\* order of somebody else that is ahead of the maker.  A market order does: it
\* gives up a level at its own order, or a buy at one with nothing left, and
\* goes on to worse prices past the live orders behind it.
PriceTimePriority ==
  [][trade' # trade /\ trade' # NoTrade =>
       \A o \in OrderIDs :
         OnBook(o) /\ Ahead(o, trade'.Maker) /\ Remaining(o) > 0
         => orders[o].UserID = orders[trade'.Taker].UserID]_vars
==============================================================================
