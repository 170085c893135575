---------------------------- MODULE MatchingProofs ----------------------------
(***************************************************************************)
(* What the matching loops tell and whom they serve first: the events      *)
(* agree with the book (EventsTellTheBook), who can be passed over         *)
(* (FillsInTurn), and nobody else's live order is taken off the book       *)
(* (OthersKeepTheirPlace).  From these, the book implements Exchange; and  *)
(* every step of a match brings its end nearer.  All of it for every value *)
(* of the constants.                                                       *)
(***************************************************************************)
EXTENDS OrderbookProofs, FiniteSetTheorems

\* A reader who has lost nothing about an order knows how much of it is filled.
Known(o) ==
  o \notin lost => /\ told[o].filled = orders[o].Filled
                   /\ told[o].status = "filled" <=> Remaining(o) = 0

InBatch(o) == \E i \in DOMAIN pending : pending[i][1] = o

\* restingOrderEvents while MatchMarket runs: one event for each order filled so
\* far, as that order is now; only the fill that ends the match leaves the
\* order on the book.
BatchSound ==
  /\ \A i \in DOMAIN pending :
       /\ pending[i][1] \in OrderIDs
       /\ pending[i][1] # incoming
       /\ pending[i][2].filled = orders[pending[i][1]].Filled
       /\ pending[i][2].status = "filled" <=> Remaining(pending[i][1]) = 0
       /\ Remaining(incoming) > 0 => ~OnBook(pending[i][1])
  /\ \A i, j \in DOMAIN pending : pending[i][1] = pending[j][1] => i = j
  /\ told[incoming] = Unpublished
  /\ pending = <<>> => orders[incoming].Filled = 0

\* The order events published and held back tell what the loops have filled.
EventsSound ==
  /\ \A o \in OrderIDs : told[o].filled <= orders[o].Filled
  /\ lost \subseteq OrderIDs
  /\ \A o \in OrderIDs : ~(pc = "market" /\ (o = incoming \/ InBatch(o))) => Known(o)
  /\ pc = "market" => BatchSound
  /\ pc # "market" => pending = <<>> /\ idx = 1

\* Nothing is left to fill, or the taker may not trade with itself.
Dead(z) == Remaining(z) = 0 \/ orders[z].UserID = Taker.UserID

OtherSide == Opposite(Taker.Side)

\* MatchLimit works on the best level, with something left to fill: what it has
\* still to visit is there, in order, and the rest of the level is dead.
LimitFront ==
  /\ Remaining(incoming) > 0
  /\ \A i \in DOMAIN todo : \E j \in DOMAIN Queue : Queue[j] = todo[i]
  /\ \A i, j \in DOMAIN todo : i < j => todo[i] < todo[j]
  /\ \A j \in DOMAIN Queue : Dead(Queue[j]) \/ \E i \in DOMAIN todo : todo[i] = Queue[j]
  /\ \A p \in Prices : book[OtherSide][p] # <<>> => p = level \/ Less(OtherSide, level, p)

Passed(p) == level = NoLevel \/ Less(OtherSide, p, level)

\* In a level MatchMarket has passed, a live order stands behind a dead one; on
\* the level it is on, the orders before the index are dead.
MarketFront ==
  /\ \A p \in Prices : Passed(p) =>
       \A i \in DOMAIN book[OtherSide][p] :
         \E j \in DOMAIN book[OtherSide][p] : j <= i /\ Dead(book[OtherSide][p][j])
  /\ level # NoLevel /\ Remaining(incoming) > 0 =>
       \A i \in DOMAIN Queue : i < idx => Dead(Queue[i])

\* Where the loops are on the other side of the book.
FrontSound ==
  /\ pc = "limit" => LimitFront
  /\ pc = "market" => MarketFront

------------------------------------------------------------------------------
(* Publishing.                                                             *)

\* Filled and Quantity are naturals, so what remains is one too.
LEMMA Amounts ==
  ASSUME Inv, NEW o \in OrderIDs
  PROVE  /\ orders[o].Filled \in Nat /\ orders[o].Quantity \in Nat
         /\ orders[o].Filled <= orders[o].Quantity /\ Remaining(o) \in Nat
         /\ told[o].filled \in Nat /\ traded[o] \in Nat
         /\ orders[o].Price \in Prices /\ orders[o].Price \in Nat /\ orders[o].Side \in Sides
<1>1. /\ orders[o].Filled \in Nat /\ orders[o].Quantity \in Nat
      /\ orders[o].Filled <= orders[o].Quantity
      /\ orders[o].Price \in Prices /\ orders[o].Price \in Nat /\ orders[o].Side \in Sides
  BY QuantitiesAssumption, PricesAssumption DEF Inv, TypeOK, OrderRecords, NeverOverfilled
<1>2. told[o].filled \in Nat /\ traded[o] \in Nat
  BY DEF Inv, TypeOK, Events
<1> QED
  BY <1>1, <1>2 DEF Remaining

\* What a batch with one event per order tells: an order that is in it is told
\* of, or the event is lost; an order that is not in it stays as it was told.
LEMMA PublishTells ==
  ASSUME Inv, NEW evs \in Seq(IDs \X Events), Publish(evs),
         \A i, j \in DOMAIN evs : evs[i][1] = evs[j][1] => i = j,
         NEW o \in OrderIDs
  PROVE  /\ lost \subseteq lost'
         /\ (\A i \in DOMAIN evs : evs[i][1] # o) => told'[o] = told[o]
         /\ \A i \in DOMAIN evs : evs[i][1] = o =>
              told'[o] = evs[i][2] \/ (told'[o] = told[o] /\ o \in lost')
<1>1. PICK k \in 0 .. Len(evs) :
        /\ told' = [x \in OrderIDs |->
                      IF \E i \in 1 .. k : evs[i][1] = x
                      THEN LET i == CHOOSE i \in 1 .. k : evs[i][1] = x IN evs[i][2]
                      ELSE told[x]]
        /\ lost' = lost \cup {evs[i][1] : i \in k + 1 .. Len(evs)}
  BY DEF Publish
<1>2. Len(evs) \in Nat /\ DOMAIN evs = 1 .. Len(evs)
  OBVIOUS
<1>3. ASSUME \A i \in DOMAIN evs : evs[i][1] # o
      PROVE  told'[o] = told[o]
  <2>1. ~ \E i \in 1 .. k : evs[i][1] = o
    BY <1>2, <1>3
  <2> QED
    BY <2>1, <1>1
<1>4. ASSUME NEW i \in DOMAIN evs, evs[i][1] = o
      PROVE  told'[o] = evs[i][2] \/ (told'[o] = told[o] /\ o \in lost')
  <2>1. CASE i \in 1 .. k
    <3> DEFINE c == CHOOSE j \in 1 .. k : evs[j][1] = o
    <3>1. c \in 1 .. k /\ evs[c][1] = o
      BY <2>1, <1>4, Zenon
    <3>2. told'[o] = evs[c][2]
      BY <2>1, <1>1, <1>4, Zenon
    <3> HIDE DEF c
    <3>3. c \in DOMAIN evs
      BY <3>1, <1>2
    <3>4. c = i
      BY <3>1, <3>3, <1>4
    <3> QED
      BY <3>2, <3>4
  <2>2. CASE i \notin 1 .. k
    <3>1. i \in k + 1 .. Len(evs) /\ \A j \in 1 .. k : j # i /\ j \in DOMAIN evs
      BY <2>2, <1>2
    <3>2. ~ \E j \in 1 .. k : evs[j][1] = o
      BY <3>1, <1>4
    <3>3. told'[o] = told[o]
      BY <3>2, <1>1
    <3>4. o \in lost'
      BY <3>1, <1>1, <1>4
    <3> QED
      BY <3>3, <3>4
  <2> QED
    BY <2>1, <2>2
<1> QED
  BY <1>1, <1>3, <1>4

\* What a fill does to the quantities.
LEMMA FillAmounts ==
  ASSUME Inv, incoming \in OrderIDs, NEW m \in OrderIDs, m # incoming,
         NEW q \in Nat, NEW price, Fill(m, q, price)
  PROVE  /\ OrderIDs' = OrderIDs
         /\ \A o \in OrderIDs :
              /\ orders'[o].Quantity = orders[o].Quantity
              /\ orders'[o].UserID = orders[o].UserID
              /\ orders'[o].Side = orders[o].Side
              /\ orders'[o].Price = orders[o].Price
              /\ orders'[o].Filled = orders[o].Filled + (IF o \in {m, incoming} THEN q ELSE 0)
              /\ Remaining(o)' = Remaining(o) - (IF o \in {m, incoming} THEN q ELSE 0)
<1>1. orders' = [orders EXCEPT ![m] = AfterFill(m, q), ![incoming] = AfterFill(incoming, q)]
  BY DEF Fill
<1>2. orders \in [OrderIDs -> OrderRecords] /\ OrderIDs = DOMAIN orders
  BY DEF Inv, TypeOK, OrderIDs
<1>3. OrderIDs' = OrderIDs
  BY <1>1, <1>2 DEF OrderIDs
<1>4. ASSUME NEW o \in OrderIDs
      PROVE  /\ orders'[o].Quantity = orders[o].Quantity
             /\ orders'[o].UserID = orders[o].UserID
             /\ orders'[o].Side = orders[o].Side
             /\ orders'[o].Price = orders[o].Price
             /\ orders'[o].Filled = orders[o].Filled + (IF o \in {m, incoming} THEN q ELSE 0)
  <2>1. orders[o] \in OrderRecords /\ orders[o].Filled \in Nat
    BY Amounts, <1>2
  <2>2. CASE o \in {m, incoming}
    <3>1. orders'[o] = AfterFill(o, q)
      BY <2>2, <1>1, <1>2
    <3> QED
      BY <3>1, <2>1, <2>2 DEF AfterFill, OrderRecords
  <2>3. CASE o \notin {m, incoming}
    <3>1. orders'[o] = orders[o]
      BY <2>3, <1>1, <1>2
    <3> QED
      BY <3>1, <2>1, <2>3
  <2> QED
    BY <2>2, <2>3
<1>5. ASSUME NEW o \in OrderIDs
      PROVE  Remaining(o)' = Remaining(o) - (IF o \in {m, incoming} THEN q ELSE 0)
  <2>1. orders[o].Filled \in Nat /\ orders[o].Quantity \in Nat
    BY Amounts
  <2> QED
    BY <2>1, <1>4 DEF Remaining
<1> QED
  BY <1>3, <1>4, <1>5

\* A trade event adds its quantity to both orders.
LEMMA TradeEventSums ==
  ASSUME Inv, incoming \in OrderIDs, NEW m \in OrderIDs, m # incoming, NEW q \in Nat,
         NEW o \in OrderIDs
  PROVE  TradeEvent(m, q)[o] = traded[o] + (IF o \in {m, incoming} THEN q ELSE 0)
<1>1. traded \in [OrderIDs -> Nat]
  BY DEF Inv, TypeOK
<1>2. traded[o] \in Nat
  BY <1>1
<1> QED
  BY <1>1, <1>2 DEF TradeEvent

------------------------------------------------------------------------------
(* Taking an order off the book.                                           *)

\* r is the queue s without the order x.
Cuts(r, s, x) ==
  \A o : (\E j \in DOMAIN r : r[j] = o) <=> (o # x /\ \E j \in DOMAIN s : s[j] = o)

\* Both ways of cutting an order out of a strictly increasing slice.
LEMMA QueueCut ==
  ASSUME NEW s \in Seq(IDs), \A i, j \in DOMAIN s : i < j => s[i] < s[j],
         NEW c \in DOMAIN s
  PROVE  Cuts(DropAt(s, c), s, s[c]) /\ Cuts(Tail(s), s, s[1])
<1>1. Len(s) \in Nat /\ DOMAIN s = 1 .. Len(s) /\ c \in 1 .. Len(s) /\ s # <<>>
  OBVIOUS
<1>2. \A i, j \in DOMAIN s : i # j => s[i] # s[j]
  <2> TAKE i, j \in DOMAIN s
  <2>1. s[i] \in IDs /\ s[j] \in IDs
    OBVIOUS
  <2>2. i \in Nat /\ j \in Nat /\ s[i] \in Nat /\ s[j] \in Nat
    BY <2>1, <1>1, BoundsAssumption DEF IDs
  <2> QED
    BY <2>2
<1>3. ASSUME NEW d \in DOMAIN s, NEW r, DOMAIN r = 1 .. Len(s) - 1,
             \A i \in 1 .. Len(s) - 1 : r[i] = IF i < d THEN s[i] ELSE s[i + 1]
      PROVE  Cuts(r, s, s[d])
  <2>1. ASSUME NEW j \in DOMAIN r
        PROVE  r[j] # s[d] /\ \E i \in DOMAIN s : s[i] = r[j]
    <3>1. /\ j \in DOMAIN s /\ j + 1 \in DOMAIN s
          /\ j < d => j # d
          /\ ~(j < d) => j + 1 # d
      BY <1>1, <1>3
    <3> QED
      BY <3>1, <1>2, <1>3
  <2>2. ASSUME NEW i \in DOMAIN s, s[i] # s[d]
        PROVE  \E j \in DOMAIN r : r[j] = s[i]
    <3>1. i # d
      BY <2>2
    <3>2. CASE i < d
      <4>1. i \in DOMAIN r
        BY <3>2, <1>1, <1>3
      <4> QED
        BY <4>1, <3>2, <1>3
    <3>3. CASE i > d
      <4>1. i - 1 \in DOMAIN r /\ ~(i - 1 < d) /\ (i - 1) + 1 = i
        BY <3>3, <1>1, <1>3
      <4>2. r[i - 1] = s[i]
        BY <4>1, <1>3
      <4> QED
        BY <4>1, <4>2
    <3> QED
      BY <3>1, <3>2, <3>3, <1>1
  <2> QED
    BY <2>1, <2>2 DEF Cuts
<1>4. /\ DOMAIN DropAt(s, c) = 1 .. Len(s) - 1
      /\ \A i \in 1 .. Len(s) - 1 : DropAt(s, c)[i] = IF i < c THEN s[i] ELSE s[i + 1]
  <2>1. s \in Seq(IDs) /\ c \in 1 .. Len(s)
    BY <1>1
  <2>2. /\ DropAt(s, c) \in Seq(IDs) /\ Len(DropAt(s, c)) = Len(s) - 1
        /\ \A i \in 1 .. Len(s) - 1 : DropAt(s, c)[i] = IF i < c THEN s[i] ELSE s[i + 1]
    BY ONLY <2>1, DropAtElements
  <2> QED
    BY <2>2
<1>5. /\ DOMAIN Tail(s) = 1 .. Len(s) - 1 /\ 1 \in DOMAIN s
      /\ \A i \in 1 .. Len(s) - 1 : Tail(s)[i] = IF i < 1 THEN s[i] ELSE s[i + 1]
  BY <1>1
<1>6. Cuts(DropAt(s, c), s, s[c])
  BY <1>3, <1>4
<1>7. Cuts(Tail(s), s, s[1])
  BY <1>3, <1>5
<1> QED
  BY <1>6, <1>7

\* A level is a strictly increasing slice of known orders of its side and price.
LEMMA LevelQueue ==
  ASSUME Inv, NEW s \in Sides, NEW p \in Prices
  PROVE  /\ book[s][p] \in Seq(IDs)
         /\ \A i, j \in DOMAIN book[s][p] : i < j => book[s][p][i] < book[s][p][j]
         /\ \A i \in DOMAIN book[s][p] :
              /\ book[s][p][i] \in OrderIDs /\ OnBook(book[s][p][i])
              /\ orders[book[s][p][i]].Side = s /\ orders[book[s][p][i]].Price = p
BY DEF Inv, TypeOK, LevelsAreQueues, OnBook

\* The step takes the order x, and no other, off the level of side s and price p.
TakesOff(s, p, x) ==
  /\ Cuts(book'[s][p], book[s][p], x)
  /\ \A t \in Sides, r \in Prices : t # s \/ r # p => book'[t][r] = book[t][r]

\* Such a step takes x off the book, and no other order.
LEMMA OffBook ==
  ASSUME Inv, NEW s \in Sides, NEW p \in Prices, NEW i \in DOMAIN book[s][p],
         TakesOff(s, p, book[s][p][i])
  PROVE  \A o : OnBook(o)' <=> OnBook(o) /\ o # book[s][p][i]
<1> DEFINE x == book[s][p][i]
<1>1. orders[x].Side = s /\ orders[x].Price = p
  BY LevelQueue
<1>2. \A t \in Sides, r \in Prices : t # s \/ r # p =>
        \A j \in DOMAIN book[t][r] : book[t][r][j] # x
  BY <1>1, LevelQueue
<1> HIDE DEF x
<1>3. ASSUME NEW o, OnBook(o)'
      PROVE  OnBook(o) /\ o # x
  <2>1. PICK t \in Sides, r \in Prices : \E j \in DOMAIN book'[t][r] : book'[t][r][j] = o
    BY <1>3 DEF OnBook
  <2>2. CASE t = s /\ r = p
    BY <2>1, <2>2 DEF TakesOff, Cuts, OnBook, x
  <2>3. CASE t # s \/ r # p
    BY <2>1, <2>3, <1>2 DEF TakesOff, OnBook
  <2> QED
    BY <2>2, <2>3
<1>4. ASSUME NEW o, OnBook(o), o # x
      PROVE  OnBook(o)'
  <2>1. PICK t \in Sides, r \in Prices : \E j \in DOMAIN book[t][r] : book[t][r][j] = o
    BY <1>4 DEF OnBook
  <2>2. CASE t = s /\ r = p
    BY <2>1, <2>2, <1>4 DEF TakesOff, Cuts, OnBook, x
  <2>3. CASE t # s \/ r # p
    BY <2>1, <2>3 DEF TakesOff, OnBook
  <2> QED
    BY <2>2, <2>3
<1> QED
  BY <1>3, <1>4 DEF x

\* Cutting an index out takes off the order at that index.
LEMMA RemoveAtTakes ==
  ASSUME Inv, NEW s \in Sides, NEW p \in Prices, NEW i \in DOMAIN book[s][p],
         book' = RemoveAt(s, p, i)
  PROVE  TakesOff(s, p, book[s][p][i]) /\ book'[s][p] = DropAt(book[s][p], i)
<1>1. book \in [Sides -> [Prices -> Seq(IDs)]]
  BY DEF Inv, TypeOK
<1>2. Cuts(DropAt(book[s][p], i), book[s][p], book[s][p][i])
  BY LevelQueue, QueueCut
<1>3. /\ book'[s][p] = DropAt(book[s][p], i)
      /\ \A t \in Sides, r \in Prices : t # s \/ r # p => book'[t][r] = book[t][r]
  <2> DEFINE d == DropAt(book[s][p], i)
  <2>1. book' = [book EXCEPT ![s][p] = d]
    BY DEF RemoveAt
  <2> HIDE DEF d
  <2>2. /\ book'[s][p] = d
        /\ \A t \in Sides, r \in Prices : t # s \/ r # p => book'[t][r] = book[t][r]
    BY <2>1, <1>1
  <2> QED
    BY <2>2 DEF d
<1> QED
  BY <1>2, <1>3 DEF TakesOff

\* PopFront takes off the first order of the best level.
LEMMA PopFrontTakes ==
  ASSUME Inv, NEW s \in Sides, NEW p \in Prices, IsBest(s, p), book' = PopFront(s)
  PROVE  1 \in DOMAIN book[s][p] /\ TakesOff(s, p, book[s][p][1])
<1>1. 1 \in DOMAIN book[s][p]
  <2>1. book[s][p] \in Seq(IDs) /\ book[s][p] # <<>>
    BY LevelQueue DEF IsBest
  <2> QED
    BY <2>1
<1>2. Cuts(Tail(book[s][p]), book[s][p], book[s][p][1])
  BY <1>1, LevelQueue, QueueCut
<1>3. \A r \in Prices : IsBest(s, r) => r = p
  BY PricesAssumption DEF IsBest, Less
<1>4. book \in [Sides -> [Prices -> Seq(IDs)]]
  BY DEF Inv, TypeOK
<1>5. /\ \A t \in Sides : t # s => book'[t] = book[t]
      /\ book'[s] = [r \in Prices |-> IF IsBest(s, r) THEN Tail(book[s][r]) ELSE book[s][r]]
  BY <1>4 DEF PopFront
<1>6. book'[s][p] = Tail(book[s][p]) /\ \A r \in Prices : r # p => book'[s][r] = book[s][r]
  BY <1>3, <1>5
<1> QED
  BY <1>1, <1>2, <1>5, <1>6 DEF TakesOff

\* What MatchLimit's fill is about.
LEMMA LimitFillFacts ==
  ASSUME Inv, LimitFill, NEW m, m = Head(todo), NEW q, q = FillQty(m)
  PROVE  /\ pc = "limit" /\ todo # <<>> /\ m = todo[1] /\ 1 \in DOMAIN todo
         /\ incoming \in OrderIDs /\ m \in OrderIDs /\ m # incoming
         /\ level \in Prices /\ OtherSide \in Sides
         /\ q \in Nat \ {0} /\ q <= Remaining(m) /\ q <= Remaining(incoming)
         /\ q = Remaining(m) \/ q = Remaining(incoming)
         /\ orders[m].UserID # Taker.UserID
         /\ Fill(m, q, Taker.Price)
<1>1. pc = "limit" /\ todo # <<>> /\ Fill(m, q, Taker.Price) /\ ~LimitSkips(m)
  BY DEF LimitFill
<1>2. m = todo[1] /\ 1 \in DOMAIN todo
  BY <1>1 DEF Inv, TypeOK
<1>3. m \in OrderIDs /\ m # incoming /\ incoming \in OrderIDs /\ level \in Prices
  BY <1>1, <1>2 DEF Inv, TypeOK, LoopSound, Matching, IDs
<1>4. q \in Nat /\ q <= Remaining(m) /\ q <= Remaining(incoming)
  BY <1>3, FillQtyBounds
<1>5. (q = Remaining(m) \/ q = Remaining(incoming)) /\ OtherSide \in Sides
  BY DEF FillQty, OtherSide, Opposite, Sides
<1> QED
  BY <1>1, <1>2, <1>3, <1>4, <1>5 DEF LimitSkips

\* What MatchMarket's fill is about.
LEMMA MarketFillFacts ==
  ASSUME Inv, MarketFill, NEW m, m = Resting, NEW q, q = FillQty(m)
  PROVE  /\ pc = "market" /\ Remaining(incoming) > 0
         /\ incoming \in OrderIDs /\ m \in OrderIDs /\ m # incoming
         /\ level \in Prices /\ OtherSide \in Sides
         /\ idx \in DOMAIN book[OtherSide][level] /\ m = book[OtherSide][level][idx]
         /\ q \in Nat \ {0} /\ q <= Remaining(m) /\ q <= Remaining(incoming)
         /\ q = Remaining(m) \/ q = Remaining(incoming)
         /\ Fill(m, q, orders[m].Price)
         /\ q = Remaining(m) => book' = RemoveAt(OtherSide, level, idx) /\ idx' = idx
         /\ q # Remaining(m) => book' = book /\ idx' = idx + 1
<1>1. /\ pc = "market" /\ level # NoLevel /\ Remaining(incoming) > 0
      /\ idx <= Len(Queue) /\ q > 0
      /\ Fill(m, q, orders[m].Price)
      /\ IF q >= Remaining(m)
         THEN book' = RemoveAt(OtherSide, level, idx) /\ idx' = idx
         ELSE book' = book /\ idx' = idx + 1
  BY DEF MarketFill, MarketVisits, LeavesLevel, OtherSide
<1>2. /\ incoming \in OrderIDs /\ level \in Prices /\ OtherSide \in Sides
      /\ book[OtherSide][level] \in Seq(IDs)
  BY <1>1 DEF Inv, TypeOK, LoopSound, Matching, OtherSide, Opposite, Sides
<1>3. idx \in DOMAIN book[OtherSide][level] /\ m = book[OtherSide][level][idx]
  BY <1>1, <1>2 DEF Inv, TypeOK, Queue, Resting, OtherSide
<1>4. m \in OrderIDs /\ m # incoming
  BY <1>1, <1>2, <1>3 DEF Inv, TypeOK, IDs, LevelsAreQueues, LoopSound, Matching
<1>5. q \in Nat /\ q <= Remaining(m) /\ q <= Remaining(incoming) /\ Remaining(m) \in Nat
  BY <1>2, <1>4, FillQtyBounds, Amounts
<1>6. q = Remaining(m) \/ q = Remaining(incoming)
  BY DEF FillQty
<1>7. q >= Remaining(m) <=> q = Remaining(m)
  BY <1>5
<1> QED
  BY <1>1, <1>2, <1>3, <1>4, <1>5, <1>6, <1>7

------------------------------------------------------------------------------
(* The events.                                                             *)

\* An operation that is over, or MatchLimit between two fills, with the orders
\* and what was told of them as before.
LEMMA EventsKept ==
  ASSUME EventsSound, UNCHANGED <<orders, told, lost>>,
         pc # "market", pc' # "market", pending' = <<>>, idx' = 1
  PROVE  EventsSound'
BY DEF EventsSound, Known, Remaining, OrderIDs

\* An order that arrives is open, unfilled and untold.
LEMMA ArriveEvents ==
  ASSUME Inv, EventsSound, NEW o \in IDs, NEW u \in Users, NEW type \in Types,
         NEW side \in Sides, NEW price \in Prices, NEW quantity \in Quantities,
         NEW ev \in Events, ev.filled = 0, ev.status # "filled",
         Arrive(o, NewOrder(u, type, side, price, quantity), ev),
         lost \subseteq lost', lost' \subseteq lost \cup {o}
  PROVE  /\ OrderIDs' = OrderIDs \cup {o} /\ lost' \subseteq OrderIDs'
         /\ pc = "idle" /\ pending = <<>> /\ idx = 1
         /\ told'[o] = ev /\ orders'[o].Filled = 0
         /\ \A k \in OrderIDs' : told'[k].filled <= orders'[k].Filled /\ Known(k)'
<1> DEFINE order == NewOrder(u, type, side, price, quantity)
<1>1. /\ OrderIDs' = OrderIDs \cup {o} /\ orders'[o] = order /\ o \notin OrderIDs
      /\ pc = "idle"
  BY ArriveOrders
<1>2. /\ told'[o] = ev
      /\ \A k \in OrderIDs : orders'[k] = orders[k] /\ told'[k] = told[k]
  BY <1>1 DEF Arrive
<1>3. order.Filled = 0 /\ order.Quantity \in Nat \ {0} /\ order.Quantity = quantity
  BY QuantitiesAssumption DEF NewOrder
<1> HIDE DEF order
<1>4. Known(o)'
  <2>1. Remaining(o)' = quantity /\ quantity # 0 /\ orders'[o].Filled = 0
    BY <1>1, <1>3 DEF Remaining
  <2> QED
    BY <2>1, <1>2 DEF Known
<1>5. ASSUME NEW k \in OrderIDs
      PROVE  told'[k].filled <= orders'[k].Filled /\ Known(k)'
  <2>1. Known(k) /\ k # o
    BY <1>1 DEF EventsSound
  <2>2. Remaining(k)' = Remaining(k) /\ (k \in lost' <=> k \in lost)
    BY <2>1, <1>2 DEF Remaining
  <2> QED
    BY <2>1, <2>2, <1>2 DEF Known, EventsSound
<1>6. told'[o].filled <= orders'[o].Filled
  BY <1>1, <1>2, <1>3
<1> QED
  BY <1>1, <1>2, <1>3, <1>4, <1>5, <1>6 DEF EventsSound

\* Seed, and the matches that end before their loop begins.
LEMMA EventsArriveReturn ==
  ASSUME Inv, EventsSound, NEW o \in IDs, NEW u \in Users, NEW type \in Types,
         NEW side \in Sides, NEW price \in Prices, NEW quantity \in Quantities,
         \/ Seed(o, NewOrder(u, type, side, price, quantity))
         \/ EmptyBook(o, NewOrder(u, type, side, price, quantity))
         \/ LimitNoMatch(o, NewOrder(u, type, side, price, quantity))
  PROVE  EventsSound'
<1>1. /\ pc' = "return" /\ pending' = <<>> /\ idx' = 1
      /\ lost \subseteq lost' /\ lost' \subseteq lost \cup {o}
  BY DEF Seed, EmptyBook, LimitNoMatch, Return
<1>2. PICK ev \in Events : /\ ev.filled = 0 /\ ev.status # "filled"
                           /\ Arrive(o, NewOrder(u, type, side, price, quantity), ev)
  BY DEF Seed, EmptyBook, LimitNoMatch, Unpublished, Event, Events
<1> QED
  BY <1>1, <1>2, ArriveEvents DEF EventsSound

\* Either loop begins with nothing held back.
LEMMA EventsBegin ==
  ASSUME Inv, EventsSound, NEW o \in IDs, NEW u \in Users, NEW type \in Types,
         NEW side \in Sides, NEW price \in Prices, NEW quantity \in Quantities,
         \/ LimitBegin(o, NewOrder(u, type, side, price, quantity))
         \/ MarketBegin(o, NewOrder(u, type, side, price, quantity))
  PROVE  EventsSound'
<1>1. /\ pc' \in {"limit", "market"} /\ incoming' = o
      /\ pending' = pending /\ idx' = idx /\ lost' = lost
      /\ Arrive(o, NewOrder(u, type, side, price, quantity), Unpublished)
  BY DEF LimitBegin, MarketBegin
<1>2. Unpublished \in Events /\ Unpublished.filled = 0 /\ Unpublished.status # "filled"
  BY DEF Unpublished, Event, Events
<1>3. /\ lost' \subseteq OrderIDs' /\ pending = <<>> /\ idx = 1
      /\ told'[o] = Unpublished /\ orders'[o].Filled = 0
      /\ \A k \in OrderIDs' : told'[k].filled <= orders'[k].Filled /\ Known(k)'
  BY <1>1, <1>2, ArriveEvents
<1>4. BatchSound'
  BY <1>1, <1>3 DEF BatchSound
<1> QED
  BY <1>1, <1>3, <1>4 DEF EventsSound

\* MatchLimit publishes both events of a fill at once.
LEMMA EventsLimitFill ==
  ASSUME Inv, EventsSound, LimitFill
  PROVE  EventsSound'
<1> DEFINE m == Head(todo)
           q == FillQty(m)
           evs == << <<m, FillEvent(m, q)>>, <<incoming, FillEvent(incoming, q)>> >>
<1>1. /\ Publish(evs)
      /\ pc' \in {"limit", "return"}
      /\ \/ pending' = <<>> /\ idx' = 1
         \/ UNCHANGED <<idx, pending>>
  BY DEF LimitFill, Return
<1>2. /\ pc = "limit" /\ incoming \in OrderIDs /\ m \in OrderIDs /\ m # incoming
      /\ q \in Nat \ {0} /\ q <= Remaining(m) /\ q <= Remaining(incoming)
      /\ q = Remaining(m) \/ q = Remaining(incoming)
      /\ Fill(m, q, Taker.Price)
  BY LimitFillFacts
<1> HIDE DEF m, q
<1>3. /\ FillEvent(m, q) \in Events /\ FillEvent(incoming, q) \in Events
      /\ m \in IDs /\ incoming \in IDs
  BY <1>2, FillEventType DEF Inv, TypeOK
<1>4. /\ evs \in Seq(IDs \X Events) /\ Len(evs) = 2 /\ DOMAIN evs = 1 .. 2
      /\ evs[1] = <<m, FillEvent(m, q)>> /\ evs[2] = <<incoming, FillEvent(incoming, q)>>
  BY <1>3
<1>5. \A i, j \in DOMAIN evs : evs[i][1] = evs[j][1] => i = j
  BY <1>2, <1>4
<1> HIDE DEF evs
<1>6. /\ OrderIDs' = OrderIDs
      /\ \A o \in OrderIDs :
           /\ orders'[o].Filled = orders[o].Filled + (IF o \in {m, incoming} THEN q ELSE 0)
           /\ Remaining(o)' = Remaining(o) - (IF o \in {m, incoming} THEN q ELSE 0)
  BY <1>2, FillAmounts
<1>8. ASSUME NEW o \in OrderIDs
      PROVE  told'[o].filled <= orders'[o].Filled /\ Known(o)'
  <2>1. /\ lost \subseteq lost'
        /\ (\A i \in DOMAIN evs : evs[i][1] # o) => told'[o] = told[o]
        /\ \A i \in DOMAIN evs : evs[i][1] = o =>
             told'[o] = evs[i][2] \/ (told'[o] = told[o] /\ o \in lost')
    BY <1>1, <1>4, <1>5, PublishTells
  <2>2. /\ orders[o].Filled \in Nat /\ Remaining(o) \in Nat /\ told[o].filled \in Nat
        /\ told[o].filled <= orders[o].Filled
        /\ Known(o)
    BY <1>2, Amounts DEF EventsSound
  <2>4. CASE o \in {m, incoming}
    <3>1. \/ told'[o] = FillEvent(o, q)
          \/ told'[o] = told[o] /\ o \in lost'
      BY <2>1, <2>4, <1>4
    <3>2. /\ FillEvent(o, q).filled = orders'[o].Filled
          /\ FillEvent(o, q).status = "filled" <=> Remaining(o)' = 0
      BY <2>2, <2>4, <1>2, <1>6 DEF FillEvent, Event
    <3>3. told[o].filled <= orders'[o].Filled /\ orders'[o].Filled <= orders'[o].Filled
      BY <2>2, <2>4, <1>2, <1>6
    <3>4. told'[o].filled <= orders'[o].Filled /\ Known(o)'
      BY <3>1, <3>2, <3>3 DEF Known
    <3> QED
      BY <3>4
  <2>5. CASE o \notin {m, incoming}
    <3>1. /\ told'[o] = told[o] /\ orders'[o].Filled = orders[o].Filled
          /\ Remaining(o)' = Remaining(o)
      BY <2>1, <2>2, <2>5, <1>4, <1>6
    <3> QED
      BY <3>1, <2>1, <2>2 DEF Known
  <2> QED
    BY <2>4, <2>5
<1>9. lost' \subseteq OrderIDs'
  <2>1. PICK k \in 0 .. Len(evs) : lost' = lost \cup {evs[i][1] : i \in k + 1 .. Len(evs)}
    BY <1>1 DEF Publish
  <2>2. \A i \in k + 1 .. Len(evs) : evs[i][1] \in {m, incoming}
    BY <1>4
  <2>3. lost' \subseteq lost \cup {m, incoming}
    BY <2>1, <2>2
  <2> QED
    BY <2>3, <1>2, <1>6 DEF EventsSound
<1>10. pending' = <<>> /\ idx' = 1 /\ pc' # "market"
  BY <1>1, <1>2 DEF EventsSound
<1> QED
  BY <1>6, <1>8, <1>9, <1>10 DEF EventsSound

\* MatchMarket's moves fill nothing.
LEMMA EventsMarketMoves ==
  ASSUME EventsSound, MarketNextLevel \/ MarketSkip
  PROVE  EventsSound'
<1>1. UNCHANGED <<orders, book, pc, incoming, pending, told, lost>> /\ pc = "market"
  BY DEF MarketNextLevel, MarketSkip, MarketVisits
<1> QED
  BY <1>1 DEF EventsSound, BatchSound, InBatch, Known, Remaining, OnBook, OrderIDs

\* MatchMarket holds back the event of the order it fills, which it had not
\* filled before.
LEMMA EventsMarketFill ==
  ASSUME Inv, EventsSound, MarketFill
  PROVE  EventsSound'
<1>a. PICK m : m = Resting
  OBVIOUS
<1>b. PICK q : q = FillQty(m)
  OBVIOUS
<1>c. PICK ev : ev = FillEvent(m, q)
  OBVIOUS
<1>1. /\ pending' = Append(pending, <<m, ev>>)
      /\ UNCHANGED <<pc, incoming, told, lost>>
  BY <1>a, <1>b, <1>c DEF MarketFill
<1>2. /\ pc = "market" /\ Remaining(incoming) > 0
      /\ incoming \in OrderIDs /\ m \in OrderIDs /\ m # incoming
      /\ level \in Prices /\ OtherSide \in Sides
      /\ idx \in DOMAIN book[OtherSide][level] /\ m = book[OtherSide][level][idx]
      /\ q \in Nat \ {0} /\ q <= Remaining(m) /\ q <= Remaining(incoming)
      /\ q = Remaining(m) \/ q = Remaining(incoming)
      /\ Fill(m, q, orders[m].Price)
      /\ q = Remaining(m) => book' = RemoveAt(OtherSide, level, idx)
      /\ q # Remaining(m) => book' = book
  BY <1>a, <1>b, MarketFillFacts
<1>3. /\ OrderIDs' = OrderIDs
      /\ \A o \in OrderIDs :
           /\ orders'[o].Filled = orders[o].Filled + (IF o \in {m, incoming} THEN q ELSE 0)
           /\ Remaining(o)' = Remaining(o) - (IF o \in {m, incoming} THEN q ELSE 0)
  BY <1>2, FillAmounts
<1>4. /\ \A o : OnBook(o)' => OnBook(o)
      /\ q = Remaining(m) => ~OnBook(m)'
      /\ OnBook(m)
  <2>1. CASE q = Remaining(m)
    <3>1. \A o : OnBook(o)' <=> OnBook(o) /\ o # m
      BY <2>1, <1>2, RemoveAtTakes, OffBook
    <3> QED
      BY <3>1, <1>2, LevelQueue
  <2>2. CASE q # Remaining(m)
    BY <2>2, <1>2, LevelQueue DEF OnBook
  <2> QED
    BY <2>1, <2>2
<1>5. BatchSound
  BY <1>2 DEF EventsSound
<1>6. \A i \in DOMAIN pending : pending[i][1] # m
  BY <1>2, <1>4, <1>5 DEF BatchSound
<1>7. /\ orders[m].Filled \in Nat /\ Remaining(m) \in Nat /\ Remaining(incoming) \in Nat
      /\ ev \in Events /\ m \in IDs
  BY <1>2, <1>c, Amounts, FillEventType DEF Inv, TypeOK
<1>8. /\ ev.filled = orders'[m].Filled
      /\ ev.status = "filled" <=> Remaining(m)' = 0
      /\ Remaining(incoming)' > 0 => q = Remaining(m)
  <2>1. /\ orders'[m].Filled = orders[m].Filled + q /\ Remaining(m)' = Remaining(m) - q
        /\ Remaining(incoming)' = Remaining(incoming) - q
    BY <1>1, <1>2, <1>3
  <2>2. ev.filled = orders[m].Filled + q /\ (ev.status = "filled" <=> q >= Remaining(m))
    BY <1>c DEF FillEvent, Event
  <2>3. q \in Nat /\ q <= Remaining(m) /\ (q = Remaining(m) \/ q = Remaining(incoming))
    BY <1>2
  <2> QED
    BY <2>1, <2>2, <2>3, <1>7
<1>9. /\ pending' # <<>> /\ DOMAIN pending \subseteq DOMAIN pending'
      /\ \A i \in DOMAIN pending : pending'[i] = pending[i]
      /\ \A i \in DOMAIN pending' : i \in DOMAIN pending \/ pending'[i] = <<m, ev>>
      /\ \A i, j \in DOMAIN pending' : i \notin DOMAIN pending /\ j \notin DOMAIN pending => i = j
      /\ \E i \in DOMAIN pending' : pending'[i] = <<m, ev>>
  <2>1. pending \in Seq(IDs \X Events) /\ <<m, ev>> \in IDs \X Events
    BY <1>7 DEF Inv, TypeOK
  <2>2. /\ Len(pending) \in Nat /\ DOMAIN pending = 1 .. Len(pending)
        /\ pending' \in Seq(IDs \X Events) /\ DOMAIN pending' = 1 .. Len(pending) + 1
        /\ \A i \in 1 .. Len(pending) : pending'[i] = pending[i]
        /\ pending'[Len(pending) + 1] = <<m, ev>>
    BY <2>1, <1>1
  <2>3. \A i \in 1 .. Len(pending) + 1 : i \in 1 .. Len(pending) \/ i = Len(pending) + 1
    BY <2>2
  <2>4. Len(pending) + 1 \in DOMAIN pending' /\ pending' # <<>>
        /\ DOMAIN pending \subseteq DOMAIN pending'
    BY <2>2
  <2> QED
    BY <2>2, <2>3, <2>4
<1>10. ASSUME NEW o \in OrderIDs
       PROVE  told'[o].filled <= orders'[o].Filled
  <2>1. /\ orders[o].Filled \in Nat /\ told[o].filled \in Nat
        /\ told[o].filled <= orders[o].Filled
    BY Amounts DEF EventsSound
  <2> QED
    BY <2>1, <1>1, <1>2, <1>3
<1>11. ASSUME NEW o \in OrderIDs, o # incoming, ~InBatch(o)'
       PROVE  Known(o)'
  <2>1. o # m /\ ~InBatch(o)
    BY <1>9, <1>11 DEF InBatch
  <2>2. Known(o) /\ Remaining(o) \in Nat /\ orders[o].Filled \in Nat
    BY <2>1, <1>11, Amounts DEF EventsSound
  <2>3. Remaining(o)' = Remaining(o) /\ orders'[o].Filled = orders[o].Filled
    BY <2>1, <2>2, <1>3, <1>11
  <2> QED
    BY <2>2, <2>3, <1>1 DEF Known
<1>12. BatchSound'
  <2>1. ASSUME NEW i \in DOMAIN pending', NEW o, o = pending'[i][1]
        PROVE  /\ o \in OrderIDs /\ o # incoming
               /\ pending'[i][2].filled = orders'[o].Filled
               /\ pending'[i][2].status = "filled" <=> Remaining(o)' = 0
               /\ Remaining(incoming)' > 0 => ~OnBook(o)'
    <3>1. CASE i \in DOMAIN pending
      <4>1. /\ pending'[i] = pending[i] /\ o \in OrderIDs /\ o # incoming /\ o # m
            /\ pending[i][2].filled = orders[o].Filled
            /\ pending[i][2].status = "filled" <=> Remaining(o) = 0
            /\ ~OnBook(o)
        BY <2>1, <3>1, <1>2, <1>5, <1>6, <1>9 DEF BatchSound
      <4>2. Remaining(o) \in Nat /\ orders[o].Filled \in Nat
        BY <4>1, Amounts
      <4>3. Remaining(o)' = Remaining(o) /\ orders'[o].Filled = orders[o].Filled
        BY <4>1, <4>2, <1>3
      <4> QED
        BY <4>1, <4>3, <1>4
    <3>2. CASE pending'[i] = <<m, ev>>
      <4>1. o = m /\ pending'[i][2] = ev
        BY <2>1, <3>2
      <4> QED
        BY <4>1, <1>2, <1>4, <1>8
    <3> QED
      BY <3>1, <3>2, <1>9
  <2>2. ASSUME NEW i \in DOMAIN pending', NEW j \in DOMAIN pending',
               pending'[i][1] = pending'[j][1]
        PROVE  i = j
    BY <2>2, <1>5, <1>6, <1>9 DEF BatchSound
  <2>3. told'[incoming] = Unpublished
    BY <1>1, <1>5 DEF BatchSound
  <2> QED
    BY <2>1, <2>2, <2>3, <1>1, <1>3, <1>9 DEF BatchSound, Remaining, OnBook
<1>13. lost' \subseteq OrderIDs'
  BY <1>1, <1>3 DEF EventsSound
<1> QED
  BY <1>1, <1>2, <1>3, <1>10, <1>11, <1>12, <1>13 DEF EventsSound

\* The batch goes out with the taker's own event, unless nothing happened.
LEMMA EventsMarketEnd ==
  ASSUME Inv, EventsSound, MarketEnd
  PROVE  EventsSound'
<1>1. /\ pc = "market" /\ UNCHANGED <<orders, book>>
      /\ pc' = "return" /\ pending' = <<>> /\ idx' = 1
  BY DEF MarketEnd, Return
<1>2. incoming \in OrderIDs /\ BatchSound
  BY <1>1 DEF Inv, LoopSound, Matching, EventsSound
<1>3. Remaining(incoming) \in Nat
  BY <1>2, Amounts
<1>4. \/ pending = <<>> /\ Remaining(incoming) > 0 /\ UNCHANGED <<told, lost>>
      \/ \E st \in {"filled", "cancelled", "partial"} :
           /\ st = "filled" <=> Remaining(incoming) = 0
           /\ Publish(Append(pending, <<incoming, Event(st, Taker.Filled)>>))
  BY <1>3 DEF MarketEnd
<1>5. \A o \in OrderIDs : /\ orders'[o].Filled = orders[o].Filled
                          /\ Remaining(o)' = Remaining(o)
  BY <1>1 DEF Remaining
<1>6. OrderIDs' = OrderIDs
  BY <1>1 DEF OrderIDs
<1>7. CASE pending = <<>> /\ Remaining(incoming) > 0 /\ UNCHANGED <<told, lost>>
  <2>1. Known(incoming)
    BY <1>2, <1>7 DEF BatchSound, Known, Unpublished, Event
  <2>2. \A o \in OrderIDs : Known(o)
    BY <2>1, <1>7 DEF EventsSound, InBatch
  <2>3. \A o \in OrderIDs : Known(o)'
    BY <2>2, <1>5, <1>7 DEF Known
  <2> QED
    BY <2>3, <1>1, <1>5, <1>6, <1>7 DEF EventsSound
<1>8. ASSUME NEW st \in {"filled", "cancelled", "partial"},
             st = "filled" <=> Remaining(incoming) = 0,
             Publish(Append(pending, <<incoming, Event(st, Taker.Filled)>>))
      PROVE  EventsSound'
  <2>1. PICK ev : ev = Event(st, Taker.Filled)
    OBVIOUS
  <2>2. PICK evs : evs = Append(pending, <<incoming, ev>>)
    OBVIOUS
  <2>3. /\ incoming \in IDs /\ ev \in Events /\ ev.filled = orders[incoming].Filled
        /\ ev.status = st /\ pending \in Seq(IDs \X Events)
    BY <2>1, <1>2 DEF Event, Events, Taker, Inv, TypeOK, OrderRecords
  <2>4. /\ evs \in Seq(IDs \X Events)
        /\ Len(evs) = Len(pending) + 1 /\ Len(pending) \in Nat
        /\ DOMAIN pending = 1 .. Len(pending) /\ DOMAIN evs = 1 .. Len(pending) + 1
        /\ \A i \in 1 .. Len(pending) : evs[i] = pending[i]
        /\ evs[Len(pending) + 1] = <<incoming, ev>>
    <3>1. <<incoming, ev>> \in IDs \X Events
      BY <2>3
    <3> QED
      BY <3>1, <2>2, <2>3
  <2>5. \A i \in DOMAIN evs : i \in DOMAIN pending \/ i = Len(pending) + 1
    BY <2>4
  <2>6. \A i, j \in DOMAIN evs : evs[i][1] = evs[j][1] => i = j
    BY <2>4, <2>5, <1>2 DEF BatchSound
  <2>7. Publish(evs)
    BY <1>8, <2>1, <2>2
  <2>8. ASSUME NEW o \in OrderIDs
        PROVE  told'[o].filled <= orders[o].Filled /\ Known(o)'
    <3>1. /\ lost \subseteq lost'
          /\ (\A i \in DOMAIN evs : evs[i][1] # o) => told'[o] = told[o]
          /\ \A i \in DOMAIN evs : evs[i][1] = o =>
               told'[o] = evs[i][2] \/ (told'[o] = told[o] /\ o \in lost')
      BY <2>4, <2>6, <2>7, PublishTells
    <3>2. told[o].filled <= orders[o].Filled /\ orders[o].Filled \in Nat
      BY Amounts DEF EventsSound
    <3>3. ASSUME NEW i \in DOMAIN evs, evs[i][1] = o
          PROVE  told'[o].filled <= orders[o].Filled /\ Known(o)'
      <4>1. /\ evs[i][2].filled = orders[o].Filled
            /\ evs[i][2].status = "filled" <=> Remaining(o) = 0
        <5>1. CASE i \in DOMAIN pending
          <6>1. evs[i] = pending[i]
            BY <5>1, <2>4
          <6> QED
            BY <6>1, <5>1, <3>3, <1>2 DEF BatchSound
        <5>2. CASE i = Len(pending) + 1
          <6>1. o = incoming /\ evs[i][2] = ev
            BY <5>2, <3>3, <2>4
          <6> QED
            BY <6>1, <2>3, <1>8
        <5> QED
          BY <5>1, <5>2, <2>5
      <4> QED
        BY <4>1, <3>1, <3>2, <3>3, <1>5 DEF Known
    <3>4. ASSUME \A i \in DOMAIN evs : evs[i][1] # o
          PROVE  told'[o].filled <= orders[o].Filled /\ Known(o)'
      <4>1. o # incoming /\ ~InBatch(o)
        <5>1. Len(pending) + 1 \in DOMAIN evs /\ DOMAIN pending \subseteq DOMAIN evs
          BY <2>4
        <5> QED
          BY <5>1, <3>4, <2>4 DEF InBatch
      <4>2. Known(o) /\ told'[o] = told[o]
        BY <4>1, <3>1, <3>4 DEF EventsSound
      <4> QED
        BY <4>2, <3>1, <3>2, <1>5 DEF Known
    <3> QED
      BY <3>3, <3>4
  <2>9. lost' \subseteq OrderIDs
    <3>1. PICK k \in 0 .. Len(evs) : lost' = lost \cup {evs[i][1] : i \in k + 1 .. Len(evs)}
      BY <2>7 DEF Publish
    <3>2. \A i \in DOMAIN evs : evs[i][1] \in OrderIDs
      BY <2>4, <2>5, <1>2 DEF BatchSound
    <3>3. \A i \in k + 1 .. Len(evs) : i \in DOMAIN evs
      BY <2>4
    <3> QED
      BY <3>1, <3>2, <3>3 DEF EventsSound
  <2> QED
    BY <2>8, <2>9, <1>1, <1>5, <1>6 DEF EventsSound
<1> QED
  BY <1>4, <1>7, <1>8

\* What is known of the orders that stay does not change when the book unlocks.
LEMMA EventsUnlock ==
  ASSUME Inv, EventsSound, Unlock
  PROVE  EventsSound'
<1> DEFINE kept == {o \in OrderIDs : OnBook(o)}
<1>1. /\ pc = "return" /\ pc' = "idle" /\ orders' = [o \in kept |-> orders[o]]
      /\ told' = [o \in kept |-> told[o]]
      /\ lost' = lost \cap kept /\ UNCHANGED <<idx, pending>>
  BY DEF Unlock
<1>2. kept \subseteq OrderIDs
  OBVIOUS
<1> HIDE DEF kept
<1>3. OrderIDs' = kept
  BY <1>1 DEF OrderIDs
<1>4. ASSUME NEW o \in kept
      PROVE  told'[o].filled <= orders'[o].Filled /\ Known(o)'
  <2>1. Known(o) /\ told[o].filled <= orders[o].Filled
    BY <1>1, <1>2 DEF EventsSound
  <2>2. /\ orders'[o] = orders[o] /\ told'[o] = told[o]
        /\ o \in lost' <=> o \in lost
    BY <1>1
  <2>3. Remaining(o)' = Remaining(o)
    BY <2>2 DEF Remaining
  <2> QED
    BY <2>1, <2>2, <2>3 DEF Known
<1> QED
  BY <1>1, <1>3, <1>4 DEF EventsSound

\* Every step keeps the events in agreement with the book.
LEMMA NextEvents ==
  ASSUME Inv, EventsSound, [Next]_vars
  PROVE  EventsSound'
<1>1. ASSUME NEW o \in IDs, NEW u \in Users, NEW s \in Sides, NEW p \in Prices,
             NEW q \in Quantities,
             \/ Seed(o, NewOrder(u, "limit", s, p, q))
             \/ MatchLimit(o, NewOrder(u, "limit", s, p, q))
             \/ MatchMarket(o, NewOrder(u, "market", s, p, q))
      PROVE  EventsSound'
  <2>1. "limit" \in Types /\ "market" \in Types
    BY DEF Types
  <2>2. \E type \in Types :
          \/ Seed(o, NewOrder(u, type, s, p, q))
          \/ EmptyBook(o, NewOrder(u, type, s, p, q))
          \/ LimitNoMatch(o, NewOrder(u, type, s, p, q))
          \/ LimitBegin(o, NewOrder(u, type, s, p, q))
          \/ MarketBegin(o, NewOrder(u, type, s, p, q))
    BY <1>1, <2>1 DEF MatchLimit, MatchMarket
  <2> QED
    BY <2>2, EventsArriveReturn, EventsBegin
<1>2. ASSUME NEW o \in 1 .. MaxOrders, NEW s \in Sides, NEW p \in Prices, Cancel(o, s, p)
      PROVE  EventsSound'
  BY <1>2, EventsKept DEF Cancel, Return
<1>3. CASE LimitStep
  <2>1. CASE LimitSkip
    <3>1. /\ pc = "limit" /\ UNCHANGED <<orders, told, lost, pc, pending, idx>>
      BY <2>1 DEF LimitSkip
    <3>2. pending' = <<>> /\ idx' = 1
      BY <3>1 DEF EventsSound
    <3> QED
      BY <3>1, <3>2, EventsKept
  <2>2. CASE LimitRest
    BY <2>2, EventsKept DEF LimitRest, Return
  <2> QED
    BY <2>1, <2>2, <1>3, EventsLimitFill DEF LimitStep
<1>4. CASE MarketStep
  BY <1>4, EventsMarketMoves, EventsMarketFill, EventsMarketEnd DEF MarketStep
<1>5. CASE Unlock
  BY <1>5, EventsUnlock
<1>6. CASE UNCHANGED vars
  BY <1>6 DEF vars, EventsSound, BatchSound, InBatch, Known, Remaining, OnBook, OrderIDs
<1> QED
  BY <1>1, <1>2, <1>3, <1>4, <1>5, <1>6 DEF Next

------------------------------------------------------------------------------
(* The trade events.                                                       *)

\* What the trade events say of an order is not ahead of the book, nor behind
\* it unless one of them was lost.
Settled(o) ==
  /\ traded[o] <= orders[o].Filled
  /\ o \notin missed => traded[o] = orders[o].Filled

\* tradeEvents while MatchMarket runs: one trade for each order event held back,
\* which with the trades published before makes up what that order has filled;
\* the running total of the last one is what the taker has filled.
TapeSound ==
  /\ Len(tape) = Len(pending)
  /\ \A i \in DOMAIN tape :
       /\ tape[i].maker = pending[i][1]
       /\ traded[tape[i].maker] + tape[i].quantity <= orders[tape[i].maker].Filled
       /\ tape[i].maker \notin missed =>
            traded[tape[i].maker] + tape[i].quantity = orders[tape[i].maker].Filled
       /\ tape[i].total <= orders[incoming].Filled
  /\ tape # <<>> => tape[Len(tape)].total = orders[incoming].Filled
  /\ traded[incoming] = 0

\* The trade events published and held back add up to what the loops have
\* filled.
TradesSound ==
  /\ missed \subseteq OrderIDs
  /\ \A o \in OrderIDs : ~(pc = "market" /\ (o = incoming \/ InBatch(o))) => Settled(o)
  /\ pc = "market" => TapeSound
  /\ pc # "market" => tape = <<>>

\* Outside MatchMarket, with the orders and what was traded of them as before.
LEMMA TradesKept ==
  ASSUME TradesSound, UNCHANGED <<orders, traded, missed>>,
         pc # "market", pc' # "market", tape' = <<>>
  PROVE  TradesSound'
BY DEF TradesSound, Settled, OrderIDs

\* An order that arrives has traded nothing.
LEMMA TradesArrive ==
  ASSUME Inv, TradesSound, EventsSound, NEW o \in IDs, NEW u \in Users, NEW type \in Types,
         NEW side \in Sides, NEW price \in Prices, NEW quantity \in Quantities,
         \/ Seed(o, NewOrder(u, type, side, price, quantity))
         \/ EmptyBook(o, NewOrder(u, type, side, price, quantity))
         \/ LimitNoMatch(o, NewOrder(u, type, side, price, quantity))
         \/ LimitBegin(o, NewOrder(u, type, side, price, quantity))
         \/ MarketBegin(o, NewOrder(u, type, side, price, quantity))
  PROVE  TradesSound'
<1> DEFINE order == NewOrder(u, type, side, price, quantity)
<1>1. /\ tape' = <<>> \/ tape' = tape
      /\ pc' = "market" => incoming' = o /\ pending' = pending
  BY DEF Seed, EmptyBook, LimitNoMatch, LimitBegin, MarketBegin, Return
<1>2. PICK ev \in Events : Arrive(o, order, ev)
  BY DEF Seed, EmptyBook, LimitNoMatch, LimitBegin, MarketBegin, Unpublished, Event, Events
<1>3. /\ OrderIDs' = OrderIDs \cup {o} /\ orders'[o] = order /\ o \notin OrderIDs
      /\ pc = "idle"
  BY <1>2, ArriveOrders
<1>4. /\ traded'[o] = 0 /\ missed' = missed
      /\ \A k \in OrderIDs : orders'[k] = orders[k] /\ traded'[k] = traded[k]
  BY <1>2, <1>3 DEF Arrive
<1>5. order.Filled = 0
  BY DEF NewOrder
<1> HIDE DEF order
<1>6. tape' = <<>> /\ pending = <<>>
  BY <1>1, <1>3 DEF TradesSound, EventsSound
<1>7. Settled(o)'
  BY <1>3, <1>4, <1>5 DEF Settled
<1>8. ASSUME NEW k \in OrderIDs
      PROVE  Settled(k)'
  BY <1>3, <1>4 DEF TradesSound, Settled
<1>9. pc' = "market" => TapeSound'
  BY <1>1, <1>4, <1>6 DEF TapeSound
<1> QED
  BY <1>3, <1>4, <1>6, <1>7, <1>8, <1>9 DEF TradesSound

\* MatchLimit publishes the trade of every fill: one of the two orders is filled.
LEMMA TradesLimitFill ==
  ASSUME Inv, TradesSound, LimitFill
  PROVE  TradesSound'
<1>a. PICK m : m = Head(todo)
  OBVIOUS
<1>b. PICK q : q = FillQty(m)
  OBVIOUS
<1>1. /\ pc = "limit" /\ incoming \in OrderIDs /\ m \in OrderIDs /\ m # incoming
      /\ q \in Nat /\ (q = Remaining(m) \/ q = Remaining(incoming))
      /\ Fill(m, q, Taker.Price)
  BY <1>a, <1>b, LimitFillFacts
<1>2. /\ IF q >= Remaining(m) \/ q >= Remaining(incoming)
         THEN PublishTrade(m, q) ELSE UNCHANGED <<traded, missed>>
      /\ pc' \in {"limit", "return"}
      /\ tape' = <<>> \/ tape' = tape
  BY <1>a, <1>b DEF LimitFill, Return
<1>3. PublishTrade(m, q)
  BY <1>1, <1>2
<1>4. /\ OrderIDs' = OrderIDs
      /\ \A o \in OrderIDs :
           orders'[o].Filled = orders[o].Filled + (IF o \in {m, incoming} THEN q ELSE 0)
  BY <1>1, FillAmounts
<1>5. ASSUME NEW o \in OrderIDs
      PROVE  Settled(o)'
  <2>1. Settled(o) /\ orders[o].Filled \in Nat /\ traded[o] \in Nat
    BY <1>1, Amounts DEF TradesSound
  <2>2. CASE traded' = TradeEvent(m, q) /\ missed' = missed
    <3>1. traded'[o] = traded[o] + (IF o \in {m, incoming} THEN q ELSE 0)
      BY <2>2, <1>1, TradeEventSums
    <3> QED
      BY <3>1, <2>1, <2>2, <1>1, <1>4 DEF Settled
  <2>3. CASE traded' = traded /\ missed' = missed \cup {m, incoming}
    BY <2>1, <2>3, <1>1, <1>4 DEF Settled
  <2> QED
    BY <2>2, <2>3, <1>3 DEF PublishTrade
<1>6. missed' \subseteq OrderIDs'
  BY <1>1, <1>3, <1>4 DEF PublishTrade, TradesSound
<1>7. tape' = <<>> /\ pc' # "market"
  BY <1>1, <1>2 DEF TradesSound
<1> QED
  BY <1>4, <1>5, <1>6, <1>7 DEF TradesSound

\* MatchMarket's moves trade nothing.
LEMMA TradesMarketMoves ==
  ASSUME TradesSound, MarketNextLevel \/ MarketSkip
  PROVE  TradesSound'
<1>1. UNCHANGED <<orders, pc, incoming, pending, tape, traded, missed>> /\ pc = "market"
  BY DEF MarketNextLevel, MarketSkip, MarketVisits
<1> QED
  BY <1>1 DEF TradesSound, TapeSound, InBatch, Settled, OrderIDs

\* MatchMarket holds back the trade of a fill, too.
LEMMA TradesMarketFill ==
  ASSUME Inv, EventsSound, TradesSound, MarketFill
  PROVE  TradesSound'
<1>a. PICK m : m = Resting
  OBVIOUS
<1>b. PICK q : q = FillQty(m)
  OBVIOUS
<1>c. PICK ev : ev = FillEvent(m, q)
  OBVIOUS
<1>d. PICK t : t = OnTape(m, q)
  OBVIOUS
<1>1. /\ pending' = Append(pending, <<m, ev>>) /\ tape' = Append(tape, t)
      /\ UNCHANGED <<pc, incoming, traded, missed>>
  BY <1>a, <1>b, <1>c, <1>d DEF MarketFill
<1>2. /\ pc = "market" /\ Remaining(incoming) > 0
      /\ incoming \in OrderIDs /\ m \in OrderIDs /\ m # incoming
      /\ level \in Prices /\ OtherSide \in Sides
      /\ idx \in DOMAIN book[OtherSide][level] /\ m = book[OtherSide][level][idx]
      /\ q \in Nat
      /\ Fill(m, q, orders[m].Price)
  BY <1>a, <1>b, MarketFillFacts
<1>3. /\ OrderIDs' = OrderIDs
      /\ \A o \in OrderIDs :
           orders'[o].Filled = orders[o].Filled + (IF o \in {m, incoming} THEN q ELSE 0)
  BY <1>2, FillAmounts
<1>4. TapeSound /\ BatchSound
  BY <1>2 DEF TradesSound, EventsSound
<1>5. \A i \in DOMAIN pending : pending[i][1] # m /\ pending[i][1] # incoming
                                /\ pending[i][1] \in OrderIDs
  BY <1>2, <1>4, LevelQueue DEF BatchSound
<1>6. Settled(m)
  BY <1>2, <1>5 DEF TradesSound, InBatch
<1>7. /\ tape \in Seq(Trades) /\ t \in Trades
      /\ pending \in Seq(IDs \X Events) /\ <<m, ev>> \in IDs \X Events
  BY <1>2, <1>c, <1>d, OnTapeType, FillEventType DEF Inv, TypeOK
<1>8. PICK n : n = Len(tape)
  OBVIOUS
<1>9. /\ n \in Nat /\ DOMAIN tape = 1 .. n /\ DOMAIN tape' = 1 .. n + 1 /\ Len(tape') = n + 1
      /\ tape' # <<>>
      /\ \A i \in 1 .. n : tape'[i] = tape[i]
      /\ tape'[n + 1] = t
  BY <1>1, <1>7, <1>8
<1>10. /\ DOMAIN pending = 1 .. n /\ DOMAIN pending' = 1 .. n + 1
       /\ \A i \in 1 .. n : pending'[i] = pending[i]
       /\ pending'[n + 1] = <<m, ev>>
  <2>1. Len(pending) = n
    BY <1>4, <1>8 DEF TapeSound
  <2> QED
    BY <2>1, <1>1, <1>7
<1>11. \A i \in 1 .. n + 1 : i \in 1 .. n \/ i = n + 1
  BY <1>9
<1>12. orders[incoming].Filled \in Nat /\ orders[m].Filled \in Nat /\ traded[m] \in Nat
  BY <1>2, Amounts
<1>13. t.maker = m /\ t.quantity = q /\ t.total = orders[incoming].Filled + q
  <2>1. CASE tape = <<>>
    <3>1. orders[incoming].Filled = 0
      BY <2>1, <1>4, <1>9, <1>10, <1>7 DEF BatchSound
    <3> QED
      BY <3>1, <2>1, <1>2, <1>d DEF OnTape
  <2>2. CASE tape # <<>>
    <3>1. t.total = q + tape[n].total
      BY <2>2, <1>d, <1>8 DEF OnTape
    <3>2. tape[n].total = orders[incoming].Filled
      BY <2>2, <1>4, <1>8 DEF TapeSound
    <3>3. t.maker = m /\ t.quantity = q
      BY <1>d DEF OnTape
    <3> QED
      BY <3>1, <3>2, <3>3, <1>2, <1>12
  <2> QED
    BY <2>1, <2>2
<1>14. TapeSound'
  <2>1. ASSUME NEW i \in 1 .. n + 1
        PROVE  /\ tape'[i].maker = pending'[i][1]
               /\ traded'[tape'[i].maker] + tape'[i].quantity <= orders'[tape'[i].maker].Filled
               /\ tape'[i].maker \notin missed' =>
                    traded'[tape'[i].maker] + tape'[i].quantity = orders'[tape'[i].maker].Filled
               /\ tape'[i].total <= orders'[incoming].Filled
    <3>1. CASE i \in 1 .. n
      <4>1. /\ tape'[i] = tape[i] /\ pending'[i] = pending[i]
            /\ tape[i].maker = pending[i][1] /\ tape[i].maker \in OrderIDs
            /\ tape[i].maker # m /\ tape[i].maker # incoming
        <5>1. tape'[i] = tape[i] /\ pending'[i] = pending[i]
          BY <3>1, <1>9, <1>10
        <5>2. tape[i].maker = pending[i][1]
          BY <3>1, <1>4, <1>9 DEF TapeSound
        <5>3. pending[i][1] # m /\ pending[i][1] # incoming /\ pending[i][1] \in OrderIDs
          BY <3>1, <1>5, <1>10
        <5> QED
          BY <5>1, <5>2, <5>3
      <4>2. PICK x : x = tape[i].maker
        OBVIOUS
      <4>3. orders'[x].Filled = orders[x].Filled /\ traded'[x] = traded[x]
        BY <4>1, <4>2, <1>1, <1>3, Amounts
      <4>4. /\ traded[x] + tape[i].quantity <= orders[x].Filled
            /\ x \notin missed => traded[x] + tape[i].quantity = orders[x].Filled
            /\ tape[i].total <= orders[incoming].Filled
        BY <4>2, <3>1, <1>4, <1>9 DEF TapeSound
      <4>5. tape[i].total <= orders'[incoming].Filled
        <5>1. tape[i] \in Trades
          BY <3>1, <1>7, <1>9
        <5>2. tape[i].total \in Nat
          BY <5>1 DEF Trades
        <5>3. orders'[incoming].Filled = orders[incoming].Filled + q
          BY <1>2, <1>3
        <5> QED
          BY <5>2, <5>3, <4>4, <1>2, <1>12
      <4> QED
        BY <4>1, <4>2, <4>3, <4>4, <4>5, <1>1
    <3>2. CASE i = n + 1
      <4>1. tape'[i] = t /\ pending'[i][1] = m
        BY <3>2, <1>9, <1>10
      <4>2. orders'[m].Filled = orders[m].Filled + q
            /\ orders'[incoming].Filled = orders[incoming].Filled + q
        BY <1>2, <1>3
      <4>3. /\ traded[m] + q <= orders[m].Filled + q
            /\ m \notin missed => traded[m] + q = orders[m].Filled + q
        BY <1>2, <1>6, <1>12 DEF Settled
      <4>4. orders[incoming].Filled + q <= orders[incoming].Filled + q
        BY <1>2, <1>12
      <4> QED
        BY <4>1, <4>2, <4>3, <4>4, <1>1, <1>13
    <3> QED
      BY <3>1, <3>2, <1>11
  <2>2. tape'[Len(tape')].total = orders'[incoming].Filled
    BY <1>2, <1>3, <1>9, <1>13
  <2>3. traded'[incoming'] = 0
    BY <1>1, <1>4 DEF TapeSound
  <2> QED
    BY <2>1, <2>2, <2>3, <1>1, <1>9, <1>10 DEF TapeSound
<1>15. ASSUME NEW o \in OrderIDs, o # incoming, ~InBatch(o)'
       PROVE  Settled(o)'
  <2>1. n + 1 \in 1 .. n + 1 /\ \A i \in 1 .. n : i \in 1 .. n + 1
    BY <1>9
  <2>2. o # m /\ ~InBatch(o)
    BY <2>1, <1>10, <1>15 DEF InBatch
  <2>3. Settled(o) /\ orders[o].Filled \in Nat
    BY <2>2, <1>2, <1>15, Amounts DEF TradesSound
  <2>4. orders'[o].Filled = orders[o].Filled
    BY <2>2, <2>3, <1>3, <1>15
  <2> QED
    BY <2>3, <2>4, <1>1 DEF Settled
<1> QED
  BY <1>1, <1>2, <1>3, <1>14, <1>15 DEF TradesSound

\* The batch of trades goes out, as far as it gets: what it does not tell is
\* missed.
LEMMA TradesMarketEnd ==
  ASSUME Inv, EventsSound, TradesSound, MarketEnd
  PROVE  TradesSound'
<1>1. /\ pc = "market" /\ UNCHANGED orders /\ pc' = "return" /\ tape' = <<>>
      /\ PublishTradeBatch \/ (pending = <<>> /\ UNCHANGED <<traded, missed>>)
  BY DEF MarketEnd, Return
<1>2. incoming \in OrderIDs /\ BatchSound /\ TapeSound /\ OrderIDs' = OrderIDs
  BY <1>1 DEF Inv, LoopSound, Matching, EventsSound, TradesSound, OrderIDs
<1>3. CASE pending = <<>> /\ UNCHANGED <<traded, missed>>
  <2>1. orders[incoming].Filled = 0 /\ traded[incoming] = 0
    BY <1>2, <1>3 DEF BatchSound, TapeSound
  <2>2. \A o \in OrderIDs : Settled(o)
    BY <2>1, <1>3 DEF TradesSound, InBatch, Settled
  <2> QED
    BY <2>2, <1>1, <1>2, <1>3 DEF TradesSound, Settled
<1>4. CASE PublishTradeBatch
  <2>1. PICK k \in 0 .. Len(tape) :
          /\ traded' = [o \in OrderIDs |-> traded[o] + TradedOf(o, k)]
          /\ missed' = missed \cup {tape[i].maker : i \in k + 1 .. Len(tape)}
                              \cup {o \in {incoming} : k < Len(tape)}
    BY <1>4 DEF PublishTradeBatch
  <2>2. PICK n : n = Len(tape)
    OBVIOUS
  <2>3. /\ n \in Nat /\ k \in Nat /\ k <= n /\ DOMAIN tape = 1 .. n /\ DOMAIN pending = 1 .. n
        /\ tape \in Seq(Trades) /\ (n > 0 => tape # <<>>) /\ (n = 0 => pending = <<>>)
    <3>1. tape \in Seq(Trades) /\ pending \in Seq(IDs \X Events)
      BY DEF Inv, TypeOK
    <3>2. Len(pending) = n
      BY <2>2, <1>2 DEF TapeSound
    <3>3. n \in Nat /\ DOMAIN tape = 1 .. n /\ (n > 0 => tape # <<>>)
      BY <3>1, <2>2
    <3>4. k \in Nat /\ k <= n
      BY <3>3, <2>2
    <3>5. DOMAIN pending = 1 .. n /\ (n = 0 => pending = <<>>)
      BY <3>1, <3>2
    <3> QED
      BY <3>1, <3>3, <3>4, <3>5
  <2>4. ASSUME NEW i \in 1 .. n
        PROVE  /\ tape[i].maker \in OrderIDs /\ tape[i].maker # incoming
               /\ tape[i].quantity \in Nat /\ tape[i].total \in Nat
               /\ \A j \in 1 .. n : tape[j].maker = tape[i].maker => j = i
    <3>1. tape[i] \in Trades
      BY <2>3
    <3>2. tape[i].maker = pending[i][1] /\ \A j \in 1 .. n : tape[j].maker = pending[j][1]
      BY <2>3, <1>2 DEF TapeSound
    <3>3. /\ pending[i][1] \in OrderIDs /\ pending[i][1] # incoming
          /\ \A j \in 1 .. n : pending[j][1] = pending[i][1] => j = i
      BY <2>3, <1>2 DEF BatchSound
    <3>4. tape[i].quantity \in Nat /\ tape[i].total \in Nat
      BY <3>1 DEF Trades
    <3> QED
      BY <3>2, <3>3, <3>4
  <2>5. ASSUME NEW x, x = incoming
        PROVE  Settled(x)'
    <3>1. traded'[x] = TradedOf(incoming, k)
      <4>1. TradedOf(incoming, k) \in Nat
        BY TradedOfType DEF Inv
      <4> QED
        BY <4>1, <2>1, <2>5, <1>2 DEF TapeSound
    <3>2. orders[incoming].Filled \in Nat
      BY <1>2, Amounts
    <3>3. CASE k < n
      <4>1. x \in missed'
        BY <3>3, <2>1, <2>2, <2>5
      <4>2. TradedOf(incoming, k) <= orders[incoming].Filled
        <5>1. CASE k = 0
          BY <5>1, <3>2 DEF TradedOf
        <5>2. CASE k # 0
          <6>1. k \in 1 .. n
            BY <5>2, <2>3
          <6> QED
            BY <6>1, <5>2, <2>3, <1>2 DEF TradedOf, TapeSound
        <5> QED
          BY <5>1, <5>2
      <4> QED
        BY <4>1, <4>2, <3>1, <2>5, <1>1 DEF Settled
    <3>4. CASE k = n
      <4>1. TradedOf(incoming, k) = orders[incoming].Filled
        <5>1. CASE n = 0
          BY <5>1, <3>4, <2>3, <1>2 DEF TradedOf, BatchSound
        <5>2. CASE n # 0
          <6>1. tape # <<>> /\ tape[n].total = orders[incoming].Filled
            BY <5>2, <2>2, <2>3, <1>2 DEF TapeSound
          <6> QED
            BY <6>1, <5>2, <3>4 DEF TradedOf
        <5> QED
          BY <5>1, <5>2
      <4> QED
        BY <4>1, <3>1, <3>2, <2>5, <1>1 DEF Settled
    <3> QED
      BY <3>3, <3>4, <2>3
  <2>6. ASSUME NEW o \in OrderIDs, o # incoming, ~InBatch(o)
        PROVE  Settled(o)'
    <3>1. \A i \in 1 .. n : tape[i].maker # o
      BY <2>3, <2>6, <1>2 DEF TapeSound, InBatch
    <3>2. \A i \in 1 .. k : i \in 1 .. n
      BY <2>3
    <3>3. TradedOf(o, k) = 0
      BY <3>1, <3>2, <2>6 DEF TradedOf
    <3>4. traded'[o] = traded[o] + 0 /\ traded[o] \in Nat
      BY <3>3, <2>1, Amounts
    <3>5. Settled(o) /\ missed \subseteq missed'
      BY <2>1, <2>6, <1>1 DEF TradesSound
    <3> QED
      BY <3>4, <3>5, <1>1 DEF Settled
  <2>7. ASSUME NEW i \in 1 .. n, NEW o, o = tape[i].maker
        PROVE  Settled(o)'
    <3>1. /\ o \in OrderIDs /\ o # incoming
          /\ \A j \in 1 .. n : tape[j].maker = o => j = i
          /\ tape[i].quantity \in Nat
      BY <2>4, <2>7
    <3>2. /\ traded[o] + tape[i].quantity <= orders[o].Filled
          /\ o \notin missed => traded[o] + tape[i].quantity = orders[o].Filled
      BY <2>3, <2>7, <1>2 DEF TapeSound
    <3>3. traded[o] \in Nat /\ orders[o].Filled \in Nat
      BY <3>1, Amounts
    <3>4. \A j \in 1 .. k : j \in 1 .. n
      BY <2>3
    <3>5. CASE i \in 1 .. k
      <4> DEFINE c == CHOOSE j \in 1 .. k : tape[j].maker = o
      <4>1. c \in 1 .. k /\ tape[c].maker = o
        BY <3>5, <2>7, Zenon
      <4>2. TradedOf(o, k) = tape[c].quantity
        BY <3>1, <3>5, <2>7, Zenon DEF TradedOf
      <4> HIDE DEF c
      <4>3. c = i
        BY <4>1, <3>1, <3>4
      <4>4. traded'[o] = traded[o] + tape[i].quantity
        BY <4>2, <4>3, <3>1, <2>1
      <4> QED
        BY <4>4, <3>2, <2>1, <1>1 DEF Settled
    <3>6. CASE i \notin 1 .. k
      <4>1. i \in k + 1 .. n
        BY <3>6, <2>3
      <4>2. o \in missed'
        BY <4>1, <2>1, <2>2, <2>7
      <4>3. ~ \E j \in 1 .. k : tape[j].maker = o
        BY <3>1, <3>4, <3>6
      <4>4. TradedOf(o, k) = 0
        BY <4>3, <3>1 DEF TradedOf
      <4>5. traded'[o] = traded[o] + 0
        BY <4>4, <3>1, <2>1
      <4>6. traded'[o] <= orders[o].Filled
        BY <4>5, <3>1, <3>2, <3>3
      <4> QED
        BY <4>2, <4>6, <1>1 DEF Settled
    <3> QED
      BY <3>5, <3>6
  <2>8. ASSUME NEW o \in OrderIDs
        PROVE  Settled(o)'
    <3>1. InBatch(o) => \E i \in 1 .. n : tape[i].maker = o
      BY <2>3, <1>2 DEF InBatch, TapeSound
    <3>2. CASE InBatch(o)
      <4>1. PICK i \in 1 .. n : tape[i].maker = o
        BY <3>1, <3>2
      <4> QED
        BY <4>1, <2>7
    <3> QED
      BY <3>2, <2>5, <2>6
  <2>9. missed' \subseteq OrderIDs
    <3>1. \A i \in k + 1 .. Len(tape) : i \in 1 .. n
      BY <2>2, <2>3
    <3> QED
      BY <3>1, <2>1, <2>4, <1>2 DEF TradesSound
  <2> QED
    BY <2>8, <2>9, <1>1, <1>2 DEF TradesSound
<1> QED
  BY <1>1, <1>3, <1>4

\* Nor do the sums of the orders that stay change when the book unlocks.
LEMMA TradesUnlock ==
  ASSUME TradesSound, Unlock
  PROVE  TradesSound'
<1> DEFINE kept == {o \in OrderIDs : OnBook(o)}
<1>1. /\ pc = "return" /\ pc' = "idle" /\ orders' = [o \in kept |-> orders[o]]
      /\ traded' = [o \in kept |-> traded[o]]
      /\ missed' = missed \cap kept /\ UNCHANGED tape
  BY DEF Unlock
<1>2. kept \subseteq OrderIDs
  OBVIOUS
<1> HIDE DEF kept
<1>3. OrderIDs' = kept
  BY <1>1 DEF OrderIDs
<1>4. \A o \in kept : Settled(o)'
  BY <1>1, <1>2 DEF TradesSound, Settled
<1> QED
  BY <1>1, <1>3, <1>4 DEF TradesSound

\* Every step keeps the trade events in agreement with the book.
LEMMA NextTrades ==
  ASSUME Inv, EventsSound, TradesSound, [Next]_vars
  PROVE  TradesSound'
<1>1. ASSUME NEW o \in IDs, NEW u \in Users, NEW s \in Sides, NEW p \in Prices,
             NEW q \in Quantities,
             \/ Seed(o, NewOrder(u, "limit", s, p, q))
             \/ MatchLimit(o, NewOrder(u, "limit", s, p, q))
             \/ MatchMarket(o, NewOrder(u, "market", s, p, q))
      PROVE  TradesSound'
  <2>1. "limit" \in Types /\ "market" \in Types
    BY DEF Types
  <2>2. \E type \in Types :
          \/ Seed(o, NewOrder(u, type, s, p, q))
          \/ EmptyBook(o, NewOrder(u, type, s, p, q))
          \/ LimitNoMatch(o, NewOrder(u, type, s, p, q))
          \/ LimitBegin(o, NewOrder(u, type, s, p, q))
          \/ MarketBegin(o, NewOrder(u, type, s, p, q))
    BY <1>1, <2>1 DEF MatchLimit, MatchMarket
  <2> QED
    BY <2>2, TradesArrive
<1>2. ASSUME NEW o \in 1 .. MaxOrders, NEW s \in Sides, NEW p \in Prices, Cancel(o, s, p)
      PROVE  TradesSound'
  BY <1>2, TradesKept DEF Cancel, Return
<1>3. CASE LimitStep
  <2>1. CASE LimitSkip
    <3>1. /\ pc = "limit" /\ UNCHANGED <<orders, traded, missed, pc, tape>>
      BY <2>1 DEF LimitSkip
    <3>2. tape' = <<>>
      BY <3>1 DEF TradesSound
    <3> QED
      BY <3>1, <3>2, TradesKept
  <2>2. CASE LimitRest
    BY <2>2, TradesKept DEF LimitRest, Return
  <2> QED
    BY <2>1, <2>2, <1>3, TradesLimitFill DEF LimitStep
<1>4. CASE MarketStep
  BY <1>4, TradesMarketMoves, TradesMarketFill, TradesMarketEnd DEF MarketStep
<1>5. CASE Unlock
  BY <1>5, TradesUnlock
<1>6. CASE UNCHANGED vars
  BY <1>6 DEF vars, TradesSound, TapeSound, InBatch, Settled, OrderIDs
<1> QED
  BY <1>1, <1>2, <1>3, <1>4, <1>5, <1>6 DEF Next

\* ChangeStatusEvent, UpdateOrderFilled and the trade events tell what the
\* matching loops did, however the publishes fail: in full for an order none of
\* whose events was dropped, and never ahead of the book.
THEOREM EventsCorrect == Spec => []EventsTellTheBook
<1>1. Init => EventsSound /\ TradesSound
  BY DEF Init, EventsSound, TradesSound, NoOrders, OrderIDs
<1>2. Inv /\ EventsSound /\ TradesSound /\ [Next]_vars => EventsSound' /\ TradesSound'
  BY NextEvents, NextTrades
<1>3. EventsSound /\ TradesSound => EventsTellTheBook
  BY DEF EventsSound, TradesSound, EventsTellTheBook, Known, Settled
<1> QED
  BY <1>1, <1>2, <1>3, Invariance, PTL DEF Spec

------------------------------------------------------------------------------
(* The loops' place on the other side of the book.                         *)

\* The limit loop starts with the whole of the best level before it.
LEMMA FrontLimitBegin ==
  ASSUME Inv, NEW o \in IDs, NEW u \in Users, NEW s \in Sides, NEW p \in Prices,
         NEW q \in Quantities, LimitBegin(o, NewOrder(u, "limit", s, p, q))
  PROVE  FrontSound'
<1> DEFINE order == NewOrder(u, "limit", s, p, q)
<1>1. /\ Arrive(o, order, Unpublished) /\ Unpublished \in Events /\ "limit" \in Types
      /\ pc' = "limit" /\ incoming' = o /\ book' = book
  BY DEF LimitBegin, Unpublished, Event, Events, Types
<1>2. order.Side = s /\ order.Quantity = q /\ order.Filled = 0 /\ q \in Nat \ {0}
  BY QuantitiesAssumption DEF NewOrder
<1>3. PICK l \in Prices : /\ IsBest(Opposite(s), l) /\ level' = l
                          /\ todo' = book[Opposite(s)][l]
  BY <1>2 DEF LimitBegin
<1>4. orders'[o] = order
  BY <1>1, ArriveOrders
<1> HIDE DEF order
<1>5. /\ OtherSide' = Opposite(s) /\ Queue' = todo' /\ Remaining(incoming)' > 0
      /\ Opposite(s) \in Sides
  BY <1>1, <1>2, <1>3, <1>4 DEF OtherSide, Queue, Taker, Remaining, Opposite, Sides
<1>6. \A i, j \in DOMAIN todo' : i < j => todo'[i] < todo'[j]
  BY <1>3, <1>5, LevelQueue
<1>7. \A r \in Prices : book'[Opposite(s)][r] # <<>> => r = l \/ Less(Opposite(s), l, r)
  BY <1>1, <1>3 DEF IsBest
<1>8. LimitFront'
  BY <1>3, <1>5, <1>6, <1>7 DEF LimitFront, Less
<1> QED
  BY <1>1, <1>8 DEF FrontSound

\* The market loop starts on the best level: there is none to have passed.
LEMMA FrontMarketBegin ==
  ASSUME Inv, EventsSound, NEW o \in IDs, NEW u \in Users, NEW s \in Sides,
         NEW p \in Prices, NEW q \in Quantities,
         MarketBegin(o, NewOrder(u, "market", s, p, q))
  PROVE  FrontSound'
<1> DEFINE order == NewOrder(u, "market", s, p, q)
<1>1. /\ Arrive(o, order, Unpublished) /\ Unpublished \in Events /\ "market" \in Types
      /\ pc' = "market" /\ incoming' = o /\ book' = book /\ idx' = idx /\ pc = "idle"
  BY DEF MarketBegin, Arrive, Unpublished, Event, Events, Types
<1>2. order.Side = s
  BY DEF NewOrder
<1>3. PICK l \in Prices : IsBest(Opposite(s), l) /\ level' = l
  BY <1>2 DEF MarketBegin
<1>4. orders'[o] = order
  BY <1>1, ArriveOrders
<1> HIDE DEF order
<1>5. OtherSide' = Opposite(s) /\ Opposite(s) \in Sides /\ idx' = 1
  BY <1>1, <1>2, <1>4 DEF OtherSide, Taker, Opposite, Sides, EventsSound
<1>6. ASSUME NEW r \in Prices, Passed(r)'
      PROVE  book'[OtherSide'][r] = <<>>
  <2>1. r \in Nat /\ l \in Nat /\ l # NoLevel
    BY PricesAssumption DEF NoLevel
  <2>2. Less(Opposite(s), r, l)
    BY <2>1, <1>3, <1>5, <1>6 DEF Passed, Less
  <2> QED
    BY <2>1, <2>2, <1>1, <1>3, <1>5 DEF IsBest, Less
<1>7. Queue' = book[Opposite(s)][l] /\ book[Opposite(s)][l] \in Seq(IDs)
  BY <1>1, <1>2, <1>3, <1>4, <1>5, LevelQueue DEF Queue, Taker
<1>8. \A i \in DOMAIN Queue' : ~(i < idx')
  BY <1>5, <1>7
<1>9. MarketFront'
  BY <1>6, <1>8 DEF MarketFront
<1> QED
  BY <1>1, <1>9 DEF FrontSound

\* An order MatchLimit skips is dead: the taker has something left.
LEMMA FrontLimitSkip ==
  ASSUME Inv, FrontSound, LimitSkip
  PROVE  FrontSound'
<1>1. /\ pc = "limit" /\ todo # <<>> /\ todo' = Tail(todo) /\ LimitSkips(Head(todo))
      /\ UNCHANGED <<orders, book, pc, incoming, level>>
  BY DEF LimitSkip
<1>2. LimitFront
  BY <1>1 DEF FrontSound
<1>3. /\ todo \in Seq(IDs) /\ Len(todo) \in Nat \ {0} /\ DOMAIN todo = 1 .. Len(todo)
      /\ Head(todo) = todo[1] /\ 1 \in DOMAIN todo
      /\ DOMAIN todo' = 1 .. Len(todo) - 1
      /\ \A i \in 1 .. Len(todo) - 1 : todo'[i] = todo[i + 1]
  BY <1>1 DEF Inv, TypeOK
<1>4. todo[1] \in OrderIDs /\ incoming \in OrderIDs
  BY <1>1, <1>3 DEF Inv, LoopSound, Matching
<1>5. Dead(todo[1])
  <2>1. Remaining(todo[1]) \in Nat /\ Remaining(incoming) \in Nat /\ Remaining(incoming) > 0
    BY <1>2, <1>4, Amounts DEF LimitFront
  <2> QED
    BY <2>1, <1>1, <1>3 DEF LimitSkips, FillQty, Dead
<1>6. /\ \A i \in DOMAIN todo' : i + 1 \in DOMAIN todo /\ todo'[i] = todo[i + 1]
      /\ \A i \in DOMAIN todo : i = 1 \/ (i - 1 \in DOMAIN todo' /\ todo'[i - 1] = todo[i])
      /\ \A i, j \in DOMAIN todo' : i < j => i + 1 < j + 1
  BY <1>3
<1>7. /\ Queue' = Queue /\ OtherSide' = OtherSide /\ Remaining(incoming)' = Remaining(incoming)
      /\ \A z : Dead(z)' <=> Dead(z)
  BY <1>1 DEF Queue, OtherSide, Taker, Dead, Remaining
<1>8. \A i \in DOMAIN todo' : \E j \in DOMAIN Queue : Queue[j] = todo'[i]
  BY <1>2, <1>6 DEF LimitFront
<1>9. \A i, j \in DOMAIN todo' : i < j => todo'[i] < todo'[j]
  BY <1>2, <1>6 DEF LimitFront
<1>10. \A j \in DOMAIN Queue : Dead(Queue[j]) \/ \E i \in DOMAIN todo' : todo'[i] = Queue[j]
  BY <1>2, <1>5, <1>6 DEF LimitFront
<1>11. \A j \in DOMAIN Queue' : Dead(Queue[j])' \/ \E i \in DOMAIN todo' : todo'[i] = Queue'[j]
  BY <1>7, <1>10 DEF Dead, Remaining, Taker
<1>12. \A p \in Prices : book'[OtherSide'][p] # <<>> => p = level' \/ Less(OtherSide', level', p)
  BY <1>1, <1>2, <1>7 DEF LimitFront
<1>13. LimitFront'
  BY <1>2, <1>7, <1>8, <1>9, <1>11, <1>12 DEF LimitFront, Less
<1> QED
  BY <1>1, <1>13 DEF FrontSound

\* A fill brings no order back to life.
LEMMA DeadStays ==
  ASSUME Inv, incoming \in OrderIDs, incoming' = incoming, NEW m \in OrderIDs, m # incoming,
         NEW q \in Nat \ {0}, q <= Remaining(m), q <= Remaining(incoming),
         NEW price, Fill(m, q, price), NEW z \in OrderIDs, Dead(z)
  PROVE  Dead(z)'
<1>1. /\ orders'[z].UserID = orders[z].UserID
      /\ orders'[incoming].UserID = orders[incoming].UserID
      /\ Remaining(z)' = Remaining(z) - (IF z \in {m, incoming} THEN q ELSE 0)
  BY FillAmounts
<1>2. Remaining(z) \in Nat
  BY Amounts
<1>3. Remaining(z) = 0 => z \notin {m, incoming}
  BY <1>2
<1> QED
  BY <1>1, <1>2, <1>3 DEF Dead, Taker

\* PopFront, when MatchLimit calls it, takes off the order just filled or a dead
\* one, and none of those it has still to visit.
LEMMA PopFrontOrder ==
  ASSUME Inv, FrontSound, LimitFill
  PROVE  /\ IsBest(OtherSide, level) /\ 1 \in DOMAIN Queue
         /\ Queue[1] = todo[1] \/ Dead(Queue[1])
         /\ \A i \in DOMAIN todo : i # 1 => todo[i] # Queue[1]
<1>1. /\ pc = "limit" /\ 1 \in DOMAIN todo /\ level \in Prices /\ OtherSide \in Sides
  BY LimitFillFacts
<1>2. LimitFront
  BY <1>1 DEF FrontSound
<1>3. /\ Queue = book[OtherSide][level] /\ Queue \in Seq(IDs) /\ todo \in Seq(IDs)
      /\ \A i, j \in DOMAIN Queue : i < j => Queue[i] < Queue[j]
  BY <1>1, LevelQueue DEF Queue, OtherSide, Inv, TypeOK
<1>4. PICK j \in DOMAIN Queue : Queue[j] = todo[1]
  BY <1>1, <1>2 DEF LimitFront
<1>5. 1 \in DOMAIN Queue /\ (j = 1 \/ 1 < j)
  BY <1>3, <1>4
<1>6. /\ \A i \in DOMAIN Queue : Queue[i] \in Nat
      /\ \A i \in DOMAIN todo : todo[i] \in Nat /\ (i = 1 \/ 1 < i)
  <2>1. IDs \subseteq Nat
    BY BoundsAssumption DEF IDs
  <2>2. (\A i \in DOMAIN Queue : Queue[i] \in IDs) /\ \A i \in DOMAIN todo : todo[i] \in IDs
    BY <1>3
  <2>3. \A i \in DOMAIN todo : i = 1 \/ 1 < i
    BY <1>3
  <2> QED
    BY <2>1, <2>2, <2>3
<1>7. Queue[1] <= todo[1]
  BY <1>3, <1>4, <1>5, <1>6
<1>8. \A i \in DOMAIN todo : i # 1 => todo[i] # Queue[1]
  BY <1>1, <1>2, <1>5, <1>6, <1>7 DEF LimitFront
<1>9. Queue[1] = todo[1] \/ Dead(Queue[1])
  BY <1>2, <1>5, <1>8 DEF LimitFront
<1>10. IsBest(OtherSide, level)
  <2>1. book[OtherSide][level] # <<>>
    BY <1>3, <1>5
  <2> QED
    BY <2>1, <1>2 DEF IsBest, LimitFront
<1> QED
  BY <1>5, <1>8, <1>9, <1>10

\* MatchLimit goes on after a fill: the order it filled is dead, and left the
\* level or waits there behind a dead one.
LEMMA FrontLimitFill ==
  ASSUME Inv, FrontSound, LimitFill
  PROVE  FrontSound'
<1>1. CASE pc' = "return"
  BY <1>1 DEF FrontSound
<1>2. CASE pc' # "return"
  <2>1. PICK m : m = Head(todo)
    OBVIOUS
  <2>2. PICK q : q = FillQty(m)
    OBVIOUS
  <2>3. /\ pc = "limit" /\ todo # <<>> /\ m = todo[1] /\ 1 \in DOMAIN todo
        /\ incoming \in OrderIDs /\ m \in OrderIDs /\ m # incoming
        /\ level \in Prices /\ OtherSide \in Sides
        /\ q \in Nat \ {0} /\ q <= Remaining(m) /\ q <= Remaining(incoming)
        /\ q = Remaining(m) \/ q = Remaining(incoming)
        /\ Fill(m, q, Taker.Price)
    BY <2>1, <2>2, LimitFillFacts
  <2>4. /\ ~(q >= Remaining(incoming)) /\ todo' = Tail(todo)
        /\ UNCHANGED <<pc, incoming, level>>
        /\ book' = IF q >= Remaining(m) THEN PopFront(OtherSide) ELSE book
    BY <1>2, <2>1, <2>2 DEF LimitFill, Return, OtherSide
  <2>5. Remaining(incoming) \in Nat /\ Remaining(m) \in Nat
    BY <2>3, Amounts
  <2>6. q = Remaining(m) /\ book' = PopFront(OtherSide)
    BY <2>3, <2>4, <2>5
  <2>7. LimitFront
    BY <2>3 DEF FrontSound
  <2>8. /\ 1 \in DOMAIN Queue /\ TakesOff(OtherSide, level, Queue[1])
        /\ \A i \in DOMAIN todo : i # 1 => todo[i] # Queue[1]
        /\ Queue = book[OtherSide][level]
    BY <2>3, <2>6, PopFrontOrder, PopFrontTakes DEF Queue, OtherSide
  <2>9. /\ \A o \in OrderIDs : Remaining(o)' = Remaining(o) - (IF o \in {m, incoming} THEN q ELSE 0)
        /\ orders'[incoming].Side = orders[incoming].Side
    BY <2>3, FillAmounts
  <2>10. /\ Remaining(incoming)' > 0 /\ Remaining(m)' = 0
         /\ OtherSide' = OtherSide /\ Queue' = book'[OtherSide][level]
    <3>1. Remaining(m)' = Remaining(m) - q
      BY <2>3, <2>9
    <3>2. Remaining(incoming)' = Remaining(incoming) - q
      BY <2>3, <2>4, <2>9
    <3> QED
      BY <3>1, <3>2, <2>3, <2>4, <2>5, <2>6, <2>9 DEF OtherSide, Queue, Taker
  <2>11. \A o : (\E j \in DOMAIN Queue' : Queue'[j] = o) <=>
                  (o # Queue[1] /\ \E j \in DOMAIN Queue : Queue[j] = o)
    BY <2>8, <2>10 DEF TakesOff, Cuts
  <2>12. /\ todo \in Seq(IDs) /\ Len(todo) \in Nat \ {0} /\ DOMAIN todo = 1 .. Len(todo)
         /\ DOMAIN todo' = 1 .. Len(todo) - 1
         /\ \A i \in 1 .. Len(todo) - 1 : todo'[i] = todo[i + 1]
    BY <2>3, <2>4 DEF Inv, TypeOK
  <2>13. /\ \A i \in DOMAIN todo' : i + 1 \in DOMAIN todo /\ i + 1 # 1 /\ todo'[i] = todo[i + 1]
         /\ \A i \in DOMAIN todo : i = 1 \/ (i - 1 \in DOMAIN todo' /\ todo'[i - 1] = todo[i])
         /\ \A i, j \in DOMAIN todo' : i < j => i + 1 < j + 1
    BY <2>12
  <2>14. \A i \in DOMAIN todo' : \E j \in DOMAIN Queue' : Queue'[j] = todo'[i]
    <3> TAKE i \in DOMAIN todo'
    <3>1. todo'[i] # Queue[1] /\ \E j \in DOMAIN Queue : Queue[j] = todo'[i]
      BY <2>7, <2>8, <2>13 DEF LimitFront
    <3> QED
      BY <3>1, <2>11
  <2>15. \A i, j \in DOMAIN todo' : i < j => todo'[i] < todo'[j]
    BY <2>7, <2>13 DEF LimitFront
  <2>16. ASSUME NEW j \in DOMAIN Queue', NEW z, z = Queue'[j]
         PROVE  Dead(z)' \/ \E i \in DOMAIN todo' : todo'[i] = z
    <3>1. PICK k \in DOMAIN Queue : Queue[k] = z
      BY <2>11, <2>16
    <3>2. z \in OrderIDs
      BY <3>1, <2>3, <2>8, LevelQueue
    <3>3. CASE Dead(z)
      BY <3>2, <3>3, <2>3, <2>4, DeadStays
    <3>4. CASE z = m
      BY <3>4, <2>10 DEF Dead
    <3>5. CASE ~Dead(z) /\ z # m
      BY <3>1, <3>5, <2>3, <2>7, <2>13 DEF LimitFront
    <3> QED
      BY <3>3, <3>4, <3>5
  <2>17. ASSUME NEW p \in Prices, book'[OtherSide][p] # <<>>
         PROVE  p = level \/ Less(OtherSide, level, p)
    BY <2>3, <2>7, <2>8, <2>17 DEF TakesOff, LimitFront
  <2>18. LimitFront'
    BY <2>4, <2>10, <2>14, <2>15, <2>16, <2>17 DEF LimitFront, Less, Dead, Remaining, Taker
  <2> QED
    BY <2>3, <2>4, <2>18 DEF FrontSound
<1> QED
  BY <1>1, <1>2

\* What MatchMarket sees while it visits a level.
LEMMA MarketVisitFacts ==
  ASSUME Inv, FrontSound, MarketVisits
  PROVE  /\ pc = "market" /\ MarketFront /\ level # NoLevel
         /\ incoming \in OrderIDs /\ Remaining(incoming) \in Nat \ {0}
         /\ level \in Prices /\ OtherSide \in Sides
         /\ Queue = book[OtherSide][level] /\ Queue \in Seq(IDs)
         /\ \A i \in DOMAIN Queue :
              /\ Queue[i] \in OrderIDs /\ Queue[i] # incoming
              /\ FillQty(Queue[i]) = 0 => Dead(Queue[i])
<1>1. /\ pc = "market" /\ MarketFront /\ level # NoLevel /\ Remaining(incoming) > 0
  BY DEF MarketVisits, FrontSound
<1>2. /\ incoming \in OrderIDs /\ level \in Prices /\ OtherSide \in Sides
      /\ Queue = book[OtherSide][level]
  BY <1>1 DEF Inv, TypeOK, LoopSound, Matching, OtherSide, Opposite, Sides, Queue
<1>3. Remaining(incoming) \in Nat
  BY <1>2, Amounts
<1>4. Queue \in Seq(IDs)
  BY <1>2, LevelQueue
<1>5. ASSUME NEW i \in DOMAIN Queue
      PROVE  /\ Queue[i] \in OrderIDs /\ Queue[i] # incoming
             /\ FillQty(Queue[i]) = 0 => Dead(Queue[i])
  <2>1. Queue[i] \in OrderIDs /\ Queue[i] < incoming
    BY <1>1, <1>2, LevelQueue DEF Inv, LoopSound, Matching
  <2>2. Queue[i] \in Nat /\ incoming \in Nat
    <3>1. OrderIDs \subseteq IDs
      BY DEF Inv, TypeOK
    <3>2. IDs \subseteq Nat
      BY BoundsAssumption DEF IDs
    <3> QED
      BY <3>1, <3>2, <2>1, <1>2
  <2> QED
    BY <2>1, <2>2, <1>1 DEF FillQty, Dead
<1> QED
  BY <1>1, <1>2, <1>3, <1>4, <1>5

\* A level MatchMarket leaves is used up, or a dead order ends it.
LEMMA FrontMarketNextLevel ==
  ASSUME Inv, FrontSound, MarketNextLevel
  PROVE  FrontSound'
<1>1. /\ MarketVisits /\ LeavesLevel /\ idx' = 1
      /\ UNCHANGED <<orders, book, pc, incoming>>
  BY DEF MarketNextLevel
<1>2. /\ pc = "market" /\ MarketFront /\ level # NoLevel
      /\ incoming \in OrderIDs /\ Remaining(incoming) \in Nat \ {0}
      /\ level \in Prices /\ OtherSide \in Sides
      /\ Queue = book[OtherSide][level] /\ Queue \in Seq(IDs)
      /\ \A i \in DOMAIN Queue :
           /\ Queue[i] \in OrderIDs /\ Queue[i] # incoming
           /\ FillQty(Queue[i]) = 0 => Dead(Queue[i])
  BY <1>1, MarketVisitFacts
<1>3. \A i \in DOMAIN Queue : i < idx => Dead(Queue[i])
  BY <1>2 DEF MarketFront
<1>4. /\ idx \in Nat \ {0} /\ DOMAIN Queue = 1 .. Len(Queue) /\ Len(Queue) \in Nat
  BY <1>2 DEF Inv, TypeOK
<1>5. idx \in DOMAIN Queue => Dead(Queue[idx])
  BY <1>1, <1>2, <1>4 DEF LeavesLevel, Resting, SelfTrade, Dead
<1>6. \A i \in DOMAIN Queue : \E j \in DOMAIN Queue : j <= i /\ Dead(Queue[j])
  <2> TAKE i \in DOMAIN Queue
  <2>1. CASE i < idx
    BY <2>1, <1>3, <1>4
  <2>2. CASE ~(i < idx)
    BY <2>2, <1>4, <1>5
  <2> QED
    BY <2>1, <2>2
<1>7. PICK S : S = OtherSide
  OBVIOUS
<1>8. /\ level' \in Prices \cup {NoLevel}
      /\ \A r \in Prices : book[S][r] # <<>> /\ Less(S, level, r) =>
           level' # NoLevel /\ (r = level' \/ Less(S, level', r))
  <2> DEFINE rest == {p \in Prices : book[S][p] # <<>> /\ Less(S, level, p)}
  <2>1. \/ rest = {} /\ level' = NoLevel
        \/ \E p \in rest : (\A r \in rest : r = p \/ Less(S, p, r)) /\ level' = p
    BY <1>7 DEF MarketNextLevel, OtherSide
  <2> QED
    BY <2>1, PricesAssumption DEF NoLevel
<1>9. OtherSide' = S /\ \A z : Dead(z)' <=> Dead(z)
  BY <1>1, <1>7 DEF OtherSide, Taker, Dead, Remaining
<1>10. ASSUME NEW r \in Prices, Passed(r)'
       PROVE  \A i \in DOMAIN book[S][r] : \E j \in DOMAIN book[S][r] :
                j <= i /\ Dead(book[S][r][j])
  <2>1. level \in Nat /\ r \in Nat /\ (level' = NoLevel \/ level' \in Nat)
    BY <1>2, <1>8, PricesAssumption
  <2>2. CASE Less(S, r, level)
    BY <2>2, <1>2, <1>7 DEF Passed, MarketFront
  <2>3. CASE r = level
    BY <2>3, <1>2, <1>6, <1>7
  <2>4. CASE Less(S, level, r)
    <3>1. level' = NoLevel \/ Less(S, r, level')
      BY <1>9, <1>10 DEF Passed, Less
    <3>2. book[S][r] = <<>>
      BY <3>1, <2>1, <2>4, <1>8 DEF Less
    <3> QED
      BY <3>2
  <2> QED
    BY <2>1, <2>2, <2>3, <2>4 DEF Less
<1>11. level' # NoLevel => \A i \in DOMAIN Queue' : ~(i < idx')
  <2> HAVE level' # NoLevel
  <2>1. level' \in Prices /\ Queue' = book[S][level'] /\ S \in Sides
    BY <1>1, <1>2, <1>7, <1>8 DEF Queue, OtherSide, Taker
  <2>2. Queue' \in Seq(IDs)
    BY <2>1, LevelQueue
  <2> QED
    BY <2>2, <1>1
<1>12. MarketFront'
  BY <1>1, <1>9, <1>10, <1>11 DEF MarketFront, Dead, Remaining, Taker
<1> QED
  BY <1>1, <1>2, <1>12 DEF FrontSound

\* An order MatchMarket steps over is dead.
LEMMA FrontMarketSkip ==
  ASSUME Inv, FrontSound, MarketSkip
  PROVE  FrontSound'
<1>1. /\ MarketVisits /\ ~LeavesLevel /\ FillQty(Resting) = 0 /\ idx' = idx + 1
      /\ UNCHANGED <<orders, book, pc, incoming, level>>
  BY DEF MarketSkip
<1>2. /\ pc = "market" /\ MarketFront /\ level # NoLevel
      /\ Remaining(incoming) \in Nat \ {0} /\ Queue \in Seq(IDs)
      /\ \A i \in DOMAIN Queue : FillQty(Queue[i]) = 0 => Dead(Queue[i])
  BY <1>1, MarketVisitFacts
<1>3. idx \in Nat \ {0} /\ DOMAIN Queue = 1 .. Len(Queue) /\ idx <= Len(Queue)
  BY <1>1, <1>2 DEF Inv, TypeOK, LeavesLevel
<1>4. \A i \in DOMAIN Queue : i < idx + 1 => Dead(Queue[i])
  <2>1. \A i \in DOMAIN Queue : i < idx => Dead(Queue[i])
    BY <1>2 DEF MarketFront
  <2>2. Dead(Queue[idx])
    BY <1>1, <1>2, <1>3 DEF Resting
  <2>3. \A i \in DOMAIN Queue : i < idx + 1 => i < idx \/ i = idx
    BY <1>3
  <2> QED
    BY <2>1, <2>2, <2>3
<1>5. /\ OtherSide' = OtherSide /\ Queue' = Queue
      /\ Remaining(incoming)' = Remaining(incoming)
      /\ \A z : Dead(z)' <=> Dead(z)
      /\ \A r \in Prices : Passed(r)' <=> Passed(r)
  BY <1>1 DEF OtherSide, Queue, Taker, Dead, Remaining, Passed, Less
<1>6. \A r \in Prices : Passed(r)' =>
        \A i \in DOMAIN book'[OtherSide'][r] : \E j \in DOMAIN book'[OtherSide'][r] :
          j <= i /\ Dead(book[OtherSide][r][j])'
  BY <1>1, <1>2, <1>5 DEF MarketFront, Dead, Remaining, Taker
<1>7. \A i \in DOMAIN Queue' : i < idx' => Dead(Queue[i])'
  BY <1>1, <1>4, <1>5 DEF Dead, Remaining, Taker
<1>8. MarketFront'
  BY <1>6, <1>7 DEF MarketFront
<1> QED
  BY <1>1, <1>2, <1>8 DEF FrontSound

\* A market fill leaves the levels passed and the orders before the index alone.
LEMMA FrontMarketFill ==
  ASSUME Inv, FrontSound, MarketFill
  PROVE  FrontSound'
<1>1. PICK m : m = Resting
  OBVIOUS
<1>2. PICK q : q = FillQty(m)
  OBVIOUS
<1>3. MarketVisits /\ UNCHANGED <<pc, incoming, level>>
  BY DEF MarketFill
<1>4. /\ pc = "market" /\ MarketFront /\ level # NoLevel
      /\ Queue = book[OtherSide][level] /\ Queue \in Seq(IDs)
      /\ \A i \in DOMAIN Queue : Queue[i] \in OrderIDs
  BY <1>3, MarketVisitFacts
<1>5. /\ Remaining(incoming) > 0
      /\ incoming \in OrderIDs /\ m \in OrderIDs /\ m # incoming
      /\ level \in Prices /\ OtherSide \in Sides
      /\ idx \in DOMAIN book[OtherSide][level] /\ m = book[OtherSide][level][idx]
      /\ q \in Nat \ {0} /\ q <= Remaining(m) /\ q <= Remaining(incoming)
      /\ q = Remaining(m) \/ q = Remaining(incoming)
      /\ Fill(m, q, orders[m].Price)
      /\ q = Remaining(m) => book' = RemoveAt(OtherSide, level, idx) /\ idx' = idx
      /\ q # Remaining(m) => book' = book /\ idx' = idx + 1
  BY <1>1, <1>2, MarketFillFacts
<1>6. PICK S : S = OtherSide
  OBVIOUS
<1>7. /\ Remaining(incoming)' = Remaining(incoming) - q
      /\ orders'[incoming].Side = orders[incoming].Side
      /\ Remaining(incoming) \in Nat
  BY <1>3, <1>5, FillAmounts, Amounts
<1>8. OtherSide' = S /\ Queue' = book'[S][level]
  BY <1>3, <1>6, <1>7 DEF OtherSide, Queue, Taker
<1>9. \A z \in OrderIDs : Dead(z) => Dead(z)'
  BY <1>3, <1>5, DeadStays
<1>10. \A r \in Prices : r # level => book'[S][r] = book[S][r]
  BY <1>5, <1>6, RemoveAtTakes DEF TakesOff
<1>11. ASSUME NEW r \in Prices, Passed(r)'
       PROVE  \A i \in DOMAIN book'[S][r] : \E j \in DOMAIN book'[S][r] :
                j <= i /\ Dead(book[S][r][j])'
  <2>1. Less(S, r, level) /\ r \in Nat /\ level \in Nat
    BY <1>3, <1>4, <1>5, <1>8, <1>11, PricesAssumption DEF Passed, Less
  <2>2. r # level /\ Passed(r)
    BY <2>1, <1>6 DEF Less, Passed
  <2>3. book'[S][r] = book[S][r]
    BY <2>2, <1>10
  <2> TAKE i \in DOMAIN book'[S][r]
  <2>4. PICK j \in DOMAIN book[S][r] : j <= i /\ Dead(book[S][r][j])
    BY <2>2, <2>3, <1>4, <1>6 DEF MarketFront
  <2>5. PICK z : z = book[S][r][j]
    OBVIOUS
  <2>6. Dead(z)' /\ z = book'[S][r][j]
    BY <2>3, <2>4, <2>5, <1>5, <1>6, <1>9, LevelQueue
  <2> QED
    BY <2>3, <2>4, <2>6 DEF Dead, Remaining, Taker
<1>12. ASSUME Remaining(incoming)' > 0, NEW i \in DOMAIN Queue', i < idx', NEW z, z = Queue'[i]
       PROVE  Dead(z)'
  <2>1. q = Remaining(m) /\ idx' = idx
    BY <1>5, <1>7, <1>12
  <2>2. Queue' = DropAt(Queue, idx)
    BY <2>1, <1>4, <1>5, <1>6, <1>8, RemoveAtTakes
  <2>3. Queue \in Seq(IDs) /\ idx \in 1 .. Len(Queue) /\ Len(Queue) \in Nat
    BY <1>4, <1>5
  <2>4. /\ DropAt(Queue, idx) \in Seq(IDs) /\ Len(DropAt(Queue, idx)) = Len(Queue) - 1
        /\ \A j \in 1 .. Len(Queue) - 1 :
             DropAt(Queue, idx)[j] = IF j < idx THEN Queue[j] ELSE Queue[j + 1]
    BY ONLY <2>3, DropAtElements
  <2>5. i \in DOMAIN Queue /\ i < idx /\ z = Queue[i]
    BY <2>1, <2>2, <2>3, <2>4, <1>12
  <2>6. Dead(z) /\ z \in OrderIDs
    BY <2>5, <1>4, <1>5 DEF MarketFront
  <2> QED
    BY <2>6, <1>9
<1>13. MarketFront'
  BY <1>3, <1>8, <1>11, <1>12 DEF MarketFront, Dead, Remaining, Taker
<1> QED
  BY <1>3, <1>4, <1>13 DEF FrontSound

\* Every step keeps the loops' place.
LEMMA NextFront ==
  ASSUME Inv, EventsSound, FrontSound, [Next]_vars
  PROVE  FrontSound'
<1>1. ASSUME pc' \notin {"limit", "market"}
      PROVE  FrontSound'
  BY <1>1 DEF FrontSound
<1>2. ASSUME NEW o \in IDs, NEW u \in Users, NEW s \in Sides, NEW p \in Prices,
             NEW q \in Quantities,
             \/ Seed(o, NewOrder(u, "limit", s, p, q))
             \/ MatchLimit(o, NewOrder(u, "limit", s, p, q))
             \/ MatchMarket(o, NewOrder(u, "market", s, p, q))
      PROVE  FrontSound'
  <2>1. \/ pc' = "return"
        \/ LimitBegin(o, NewOrder(u, "limit", s, p, q))
        \/ MarketBegin(o, NewOrder(u, "market", s, p, q))
    BY <1>2 DEF Seed, MatchLimit, MatchMarket, EmptyBook, LimitNoMatch, Return
  <2> QED
    BY <2>1, <1>1, FrontLimitBegin, FrontMarketBegin
<1>3. ASSUME NEW o \in 1 .. MaxOrders, NEW s \in Sides, NEW p \in Prices, Cancel(o, s, p)
      PROVE  FrontSound'
  BY <1>1, <1>3 DEF Cancel, Return
<1>4. CASE LimitStep
  <2>1. LimitRest => pc' = "return"
    BY DEF LimitRest, Return
  <2> QED
    BY <2>1, <1>1, <1>4, FrontLimitSkip, FrontLimitFill DEF LimitStep
<1>5. CASE MarketStep
  <2>1. MarketEnd => pc' = "return"
    BY DEF MarketEnd, Return
  <2> QED
    BY <2>1, <1>1, <1>5, FrontMarketNextLevel, FrontMarketSkip, FrontMarketFill DEF MarketStep
<1>6. CASE Unlock
  BY <1>1, <1>6 DEF Unlock
<1>7. CASE UNCHANGED vars
  <2>1. UNCHANGED <<orders, book, pc, incoming, level, todo, idx>>
    BY <1>7 DEF vars
  <2>2. /\ Queue' = Queue /\ OtherSide' = OtherSide /\ Taker' = Taker
        /\ Remaining(incoming)' = Remaining(incoming)
    BY <2>1 DEF Queue, OtherSide, Taker, Remaining
  <2>3. pc = "limit" => LimitFront'
    BY <2>1, <2>2 DEF FrontSound, LimitFront, Dead, Remaining, Less
  <2>4. pc = "market" => MarketFront'
    BY <2>1, <2>2 DEF FrontSound, MarketFront, Passed, Dead, Remaining, Less
  <2> QED
    BY <2>1, <2>3, <2>4 DEF FrontSound
<1> QED
  BY <1>2, <1>3, <1>4, <1>5, <1>6, <1>7 DEF Next

\* The two strengthenings hold with the invariant.
LEMMA LoopInvariance == Spec => [](Inv /\ EventsSound /\ FrontSound)
<1>1. Init => EventsSound /\ FrontSound
  BY DEF Init, EventsSound, NoOrders, OrderIDs, FrontSound
<1>2. Inv /\ EventsSound /\ FrontSound /\ [Next]_vars => EventsSound' /\ FrontSound'
  BY NextEvents, NextFront
<1> QED
  BY <1>1, <1>2, Invariance, PTL DEF Spec

\* Only the fills make a trade, and only a fill or the end of MatchLimit changes
\* the levels during a match.
LEMMA StepEffects ==
  ASSUME [Next]_vars
  PROVE  /\ trade' = trade \/ trade' = NoTrade \/ LimitFill \/ MarketFill
         /\ Matching => book' = book \/ LimitFill \/ LimitRest \/ MarketFill
<1>1. ASSUME NEW o \in IDs, NEW u \in Users, NEW s \in Sides, NEW p \in Prices,
             NEW q \in Quantities,
             \/ Seed(o, NewOrder(u, "limit", s, p, q))
             \/ MatchLimit(o, NewOrder(u, "limit", s, p, q))
             \/ MatchMarket(o, NewOrder(u, "market", s, p, q))
      PROVE  trade' = trade /\ pc = "idle"
  BY <1>1 DEF Seed, MatchLimit, MatchMarket, EmptyBook, LimitNoMatch, LimitBegin,
              MarketBegin, Arrive
<1>2. ASSUME NEW o \in 1 .. MaxOrders, NEW s \in Sides, NEW p \in Prices, Cancel(o, s, p)
      PROVE  trade' = trade /\ pc = "idle"
  BY <1>2 DEF Cancel
<1>3. CASE LimitStep
  BY <1>3 DEF LimitStep, LimitSkip, LimitRest
<1>4. CASE MarketStep
  <2>1. MarketNextLevel \/ MarketSkip \/ MarketEnd => UNCHANGED <<book, trade>>
    BY DEF MarketNextLevel, MarketSkip, MarketEnd
  <2> QED
    BY <2>1, <1>4 DEF MarketStep
<1>5. CASE Unlock
  BY <1>5 DEF Unlock
<1>6. CASE UNCHANGED vars
  BY <1>6 DEF vars
<1> QED
  BY <1>1, <1>2, <1>3, <1>4, <1>5, <1>6 DEF Next, Matching

\* A limit fill overtakes nobody.
LEMMA LimitFillInTurn ==
  ASSUME Inv, FrontSound, LimitFill, NEW o \in OrderIDs, OnBook(o),
         Ahead(o, trade'.Maker), Remaining(o) > 0,
         orders[o].UserID # orders[trade'.Taker].UserID
  PROVE  FALSE
<1>1. PICK m : m = Head(todo)
  OBVIOUS
<1>2. PICK q : q = FillQty(m)
  OBVIOUS
<1>3. /\ pc = "limit" /\ m = todo[1] /\ 1 \in DOMAIN todo
      /\ level \in Prices /\ OtherSide \in Sides /\ m \in OrderIDs
      /\ Fill(m, q, Taker.Price)
  BY <1>1, <1>2, LimitFillFacts
<1>4. trade'.Maker = m /\ trade'.Taker = incoming
  BY <1>3 DEF Fill
<1>5. orders[m].Side = OtherSide /\ orders[m].Price = level
  BY <1>3 DEF Inv, LoopSound, OtherSide, Taker
<1>6. PICK s \in Sides, p \in Prices : \E i \in DOMAIN book[s][p] : book[s][p][i] = o
  BY DEF OnBook
<1>7. PICK i \in DOMAIN book[s][p] : book[s][p][i] = o
  BY <1>6
<1>8. s = OtherSide /\ p = orders[o].Price /\ (Less(s, p, level) \/ (p = level /\ o < m))
  BY <1>4, <1>5, <1>7, LevelQueue DEF Ahead
<1>9. LimitFront /\ ~Dead(o)
  BY <1>3, <1>4 DEF FrontSound, Dead, Taker
<1>10. CASE Less(s, p, level)
  <2>1. book[s][p] # <<>> /\ p \in Nat /\ level \in Nat
    BY <1>3, <1>7, PricesAssumption
  <2> QED
    BY <2>1, <1>8, <1>9, <1>10 DEF LimitFront, Less
<1>11. CASE p = level /\ o < m
  <2>1. PICK k \in DOMAIN todo : todo[k] = o
    BY <1>7, <1>8, <1>9, <1>11 DEF LimitFront, Queue, OtherSide
  <2>2. todo \in Seq(IDs)
    BY DEF Inv, TypeOK
  <2>3. (k = 1 \/ 1 < k) /\ todo[1] \in Nat /\ todo[k] \in Nat
    BY <2>2, <1>3, BoundsAssumption DEF IDs
  <2> QED
    BY <2>1, <2>3, <1>3, <1>9, <1>11 DEF LimitFront
<1> QED
  BY <1>8, <1>10, <1>11

\* A market fill overtakes only orders behind a dead one, on a better level.
LEMMA MarketFillInTurn ==
  ASSUME Inv, FrontSound, MarketFill, NEW o \in OrderIDs, OnBook(o),
         Ahead(o, trade'.Maker), Remaining(o) > 0,
         orders[o].UserID # orders[trade'.Taker].UserID
  PROVE  /\ orders[trade'.Taker].Type = "market"
         /\ orders[o].Price # orders[trade'.Maker].Price
         /\ Stuck(o, trade'.Taker)
<1>1. PICK m : m = Resting
  OBVIOUS
<1>2. PICK q : q = FillQty(m)
  OBVIOUS
<1>3. /\ pc = "market" /\ Remaining(incoming) > 0
      /\ level \in Prices /\ OtherSide \in Sides /\ m \in OrderIDs
      /\ idx \in DOMAIN book[OtherSide][level] /\ m = book[OtherSide][level][idx]
      /\ Fill(m, q, orders[m].Price)
  BY <1>1, <1>2, MarketFillFacts
<1>4. /\ trade'.Maker = m /\ trade'.Taker = incoming
      /\ orders[incoming].Type = "market"
  BY <1>3 DEF Fill, Inv, LoopSound
<1>5. orders[m].Side = OtherSide /\ orders[m].Price = level
  BY <1>3, LevelQueue
<1>6. PICK s \in Sides, p \in Prices : \E i \in DOMAIN book[s][p] : book[s][p][i] = o
  BY DEF OnBook
<1>7. PICK i \in DOMAIN book[s][p] : book[s][p][i] = o
  BY <1>6
<1>8. /\ s = OtherSide /\ p = orders[o].Price /\ s = orders[o].Side
      /\ Less(s, p, level) \/ (p = level /\ o < m)
  BY <1>4, <1>5, <1>7, LevelQueue DEF Ahead
<1>9. MarketFront /\ ~Dead(o)
  BY <1>3, <1>4 DEF FrontSound, Dead, Taker
<1>10. /\ p \in Nat /\ level \in Nat /\ level # NoLevel /\ book[s][p] \in Seq(IDs)
       /\ \A j, k \in DOMAIN book[s][p] : j < k => book[s][p][j] < book[s][p][k]
       /\ \A j \in DOMAIN book[s][p] : book[s][p][j] \in Nat /\ j \in Nat
  <2>1. /\ book[s][p] \in Seq(IDs)
        /\ \A j, k \in DOMAIN book[s][p] : j < k => book[s][p][j] < book[s][p][k]
    BY LevelQueue
  <2>2. IDs \subseteq Nat
    BY BoundsAssumption DEF IDs
  <2>3. \A j \in DOMAIN book[s][p] : book[s][p][j] \in IDs /\ j \in Nat
    BY <2>1
  <2>4. p \in Nat /\ level \in Nat /\ level # NoLevel
    BY <1>3, PricesAssumption DEF NoLevel
  <2> QED
    BY <2>1, <2>2, <2>3, <2>4
<1>11. ~(p = level /\ o < m)
  <2> SUFFICES ASSUME p = level, o < m
               PROVE  FALSE
    OBVIOUS
  <2>1. i < idx
    <3>1. /\ idx \in DOMAIN book[s][p] /\ book[s][p][idx] = m /\ m \in Nat /\ o \in Nat
          /\ i \in Nat /\ idx \in Nat
      BY <1>3, <1>7, <1>8, <1>10
    <3>2. i # idx /\ ~(idx < i)
      BY <3>1, <1>7, <1>10
    <3> QED
      BY <3>1, <3>2
  <2>2. \A j \in DOMAIN book[s][p] : j < idx => Dead(book[s][p][j])
    BY <1>3, <1>8, <1>9, <1>10 DEF MarketFront, Queue, OtherSide
  <2> QED
    BY <2>1, <2>2, <1>7, <1>9
<1>12. PICK j \in DOMAIN book[s][p] : j <= i /\ Dead(book[s][p][j])
  BY <1>7, <1>8, <1>9, <1>11 DEF MarketFront, Passed
<1>13. PICK z : z = book[s][p][j]
  OBVIOUS
<1>14. z < o
  <2>1. j # i /\ j \in Nat /\ i \in Nat
    BY <1>7, <1>9, <1>10, <1>12
  <2>2. j < i
    BY <2>1, <1>12
  <2> QED
    BY <2>2, <1>7, <1>10, <1>13
<1>15. /\ z \in OrderIDs /\ OnBook(z) /\ orders[z].Side = s /\ orders[z].Price = p
  BY <1>12, <1>13, LevelQueue
<1>16. Stuck(o, incoming)
  BY <1>8, <1>12, <1>13, <1>14, <1>15 DEF Stuck, Dead, Taker
<1> QED
  BY <1>4, <1>5, <1>8, <1>10, <1>11, <1>16 DEF Less

\* Both loops serve the best price first and the oldest order first, but for the
\* levels that `return true` gives up.
THEOREM InTurn == Spec => FillsInTurn
<1>1. Inv /\ EventsSound /\ FrontSound /\ [Next]_vars =>
        [trade' # trade /\ trade' # NoTrade =>
           \A o \in OrderIDs :
             /\ OnBook(o) /\ Ahead(o, trade'.Maker) /\ Remaining(o) > 0
             /\ orders[o].UserID # orders[trade'.Taker].UserID
             => /\ orders[trade'.Taker].Type = "market"
                /\ orders[o].Price # orders[trade'.Maker].Price
                /\ Stuck(o, trade'.Taker)]_vars
  BY StepEffects, LimitFillInTurn, MarketFillInTurn
<1> QED
  BY <1>1, LoopInvariance, PTL DEF Spec, FillsInTurn

\* A match takes off the book an order it has filled, a dead one, or the taker's.
LEMMA StepTakesOff ==
  ASSUME Inv, FrontSound, [Next]_vars, Matching, NEW o \in OrderIDs, OnBook(o), ~OnBook(o)'
  PROVE  \/ orders'[o].Filled = orders[o].Quantity
         \/ orders[o].UserID = Taker.UserID
<1>1. CASE book' = book
  BY <1>1 DEF OnBook
<1>2. CASE LimitRest
  <2>1. book' = Add(Taker.Side, Taker.Price, incoming) \/ book' = book
    BY <1>2 DEF LimitRest
  <2>2. /\ incoming \in OrderIDs /\ incoming \in IDs /\ Taker.Side \in Sides
        /\ Taker.Price \in Prices /\ book \in [Sides -> [Prices -> Seq(IDs)]]
    BY <1>2 DEF LimitRest, Inv, TypeOK, LoopSound, Matching, Taker, OrderRecords
  <2>3. PICK s \in Sides, p \in Prices : \E i \in DOMAIN book[s][p] : book[s][p][i] = o
    BY DEF OnBook
  <2>4. PICK i \in DOMAIN book[s][p] : book[s][p][i] = o
    BY <2>3
  <2>5. CASE book' = Add(Taker.Side, Taker.Price, incoming)
    <3>1. PICK x, y : x = Taker.Side /\ y = Taker.Price
      OBVIOUS
    <3>2. PICK n : n = Append(book[x][y], incoming)
      OBVIOUS
    <3>3. book' = [book EXCEPT ![x][y] = n]
      BY <2>5, <3>1, <3>2 DEF Add
    <3>4. book'[s][p] = IF s = x /\ p = y THEN n ELSE book[s][p]
      BY <2>2, <3>1, <3>3
    <3>5. \A k \in DOMAIN book[x][y] : k \in DOMAIN n /\ n[k] = book[x][y][k]
      BY <2>2, <3>1, <3>2
    <3>6. i \in DOMAIN book'[s][p] /\ book'[s][p][i] = o
      BY <2>4, <3>4, <3>5
    <3> QED
      BY <3>6 DEF OnBook
  <2> QED
    BY <2>1, <2>5, <1>1
<1>3. CASE LimitFill
  <2>1. PICK m : m = Head(todo)
    OBVIOUS
  <2>2. PICK q : q = FillQty(m)
    OBVIOUS
  <2>3. /\ m = todo[1] /\ incoming \in OrderIDs /\ m \in OrderIDs /\ m # incoming
        /\ level \in Prices /\ OtherSide \in Sides
        /\ q \in Nat \ {0} /\ q <= Remaining(m) /\ q <= Remaining(incoming)
        /\ Fill(m, q, Taker.Price)
    BY <1>3, <2>1, <2>2, LimitFillFacts
  <2>4. book' = IF q >= Remaining(m) THEN PopFront(OtherSide) ELSE book
    BY <1>3, <2>1, <2>2 DEF LimitFill, OtherSide
  <2>5. q >= Remaining(m) /\ book' = PopFront(OtherSide)
    BY <2>4, <1>1 DEF OnBook
  <2>6. /\ IsBest(OtherSide, level) /\ 1 \in DOMAIN Queue
        /\ Queue[1] = m \/ Dead(Queue[1])
        /\ Queue = book[OtherSide][level]
    BY <1>3, <2>3, PopFrontOrder DEF Queue, OtherSide
  <2>7. o = Queue[1]
    BY <2>3, <2>5, <2>6, PopFrontTakes, OffBook
  <2>8. /\ orders'[o].Filled = orders[o].Filled + (IF o \in {m, incoming} THEN q ELSE 0)
        /\ orders[o].Filled \in Nat /\ orders[o].Quantity \in Nat
    BY <2>3, FillAmounts, Amounts
  <2>9. CASE o = m
    BY <2>3, <2>5, <2>8, <2>9 DEF Remaining
  <2>10. CASE o # m /\ Remaining(o) = 0
    <3>1. o # incoming
      BY <2>3, <2>10
    <3> QED
      BY <3>1, <2>8, <2>10 DEF Remaining
  <2>11. CASE o # m /\ Remaining(o) # 0
    BY <2>6, <2>7, <2>11 DEF Dead
  <2> QED
    BY <2>9, <2>10, <2>11
<1>4. CASE MarketFill
  <2>1. PICK m : m = Resting
    OBVIOUS
  <2>2. PICK q : q = FillQty(m)
    OBVIOUS
  <2>3. /\ incoming \in OrderIDs /\ m \in OrderIDs /\ m # incoming
        /\ level \in Prices /\ OtherSide \in Sides
        /\ idx \in DOMAIN book[OtherSide][level] /\ m = book[OtherSide][level][idx]
        /\ q \in Nat \ {0} /\ Fill(m, q, orders[m].Price)
        /\ q = Remaining(m) => book' = RemoveAt(OtherSide, level, idx)
        /\ q # Remaining(m) => book' = book
    BY <1>4, <2>1, <2>2, MarketFillFacts
  <2>4. q = Remaining(m) /\ book' = RemoveAt(OtherSide, level, idx)
    BY <2>3, <1>1 DEF OnBook
  <2>5. o = m
    <3>1. TakesOff(OtherSide, level, book[OtherSide][level][idx])
      BY <2>3, <2>4, RemoveAtTakes
    <3>2. \A x : OnBook(x)' <=> OnBook(x) /\ x # book[OtherSide][level][idx]
      BY <2>3, <3>1, OffBook
    <3> QED
      BY <3>2, <2>3
  <2>6. /\ orders'[o].Filled = orders[o].Filled + (IF o \in {m, incoming} THEN q ELSE 0)
        /\ orders[o].Filled \in Nat /\ orders[o].Quantity \in Nat
    <3>1. /\ incoming \in OrderIDs /\ m \in OrderIDs /\ m # incoming /\ q \in Nat
          /\ Fill(m, q, orders[m].Price)
      BY <2>3
    <3>2. orders'[o].Filled = orders[o].Filled + (IF o \in {m, incoming} THEN q ELSE 0)
      BY <3>1, FillAmounts
    <3> QED
      BY <3>2, Amounts
  <2> QED
    BY <2>4, <2>5, <2>6 DEF Remaining
<1> QED
  BY <1>1, <1>2, <1>3, <1>4, StepEffects

\* PopFront and RemoveFilledOrderInPriceLevel never take a third party's live
\* order off the book.
THEOREM PlacesKept == Spec => OthersKeepTheirPlace
<1>1. Inv /\ EventsSound /\ FrontSound /\ [Next]_vars =>
        [Matching =>
           \A o \in OrderIDs :
             OnBook(o) /\ ~OnBook(o)' =>
               \/ orders'[o].Filled = orders[o].Quantity
               \/ orders[o].UserID = Taker.UserID]_vars
  BY StepTakesOff
<1> QED
  BY <1>1, LoopInvariance, PTL DEF Spec, OthersKeepTheirPlace
------------------------------------------------------------------------------
(* The book is an exchange.                                                *)

\* Nobody is being matched unless a loop runs.
NoTakerWhenIdle == ~Matching => incoming = 0

\* What the exchange sees of an order.
LEMMA OffersFacts ==
  ASSUME Inv
  PROVE  /\ DOMAIN Offers = OrderIDs
         /\ \A o \in OrderIDs :
              /\ Offers[o] = [user |-> orders[o].UserID, side |-> orders[o].Side,
                              limit |-> orders[o].Price, left |-> Remaining(o)]
              /\ Remaining(o) \in Nat
         /\ Booked \subseteq OrderIDs
         /\ \A o : OnBook(o) => o \in OrderIDs
         /\ 0 \notin OrderIDs
<1>1. \A o : OnBook(o) => o \in OrderIDs
  BY DEF OnBook, Inv, LevelsAreQueues
<1>2. 0 \notin OrderIDs
  BY DEF Inv, TypeOK, IDs
<1> QED BY <1>1, <1>2, Amounts DEF Offers, Booked

\* Adding to a level puts that order on the book, and keeps the others there.
LEMMA AddBooks ==
  ASSUME Inv, NEW s \in Sides, NEW p \in Prices, NEW o \in IDs, book' = Add(s, p, o)
  PROVE  \A k : OnBook(k)' <=> OnBook(k) \/ k = o
<1> DEFINE n == Append(book[s][p], o)
<1>1. book \in [Sides -> [Prices -> Seq(IDs)]] /\ book[s][p] \in Seq(IDs)
  BY DEF Inv, TypeOK
<1>2. /\ DOMAIN n = DOMAIN book[s][p] \cup {Len(book[s][p]) + 1}
      /\ n[Len(book[s][p]) + 1] = o
      /\ \A i \in DOMAIN book[s][p] : n[i] = book[s][p][i]
  BY <1>1
<1>3. book' = [book EXCEPT ![s][p] = n]
  BY DEF Add
<1> HIDE DEF n
<1>4. /\ book'[s][p] = n
      /\ \A t \in Sides, r \in Prices : t # s \/ r # p => book'[t][r] = book[t][r]
  BY <1>1, <1>3
<1>5. ASSUME NEW k, OnBook(k)' PROVE OnBook(k) \/ k = o
  <2>1. PICK t \in Sides, r \in Prices : \E i \in DOMAIN book'[t][r] : book'[t][r][i] = k
    BY <1>5 DEF OnBook
  <2>2. CASE t = s /\ r = p
    BY <1>2, <1>4, <2>1, <2>2 DEF OnBook
  <2>3. CASE t # s \/ r # p
    BY <1>4, <2>1, <2>3 DEF OnBook
  <2> QED BY <2>2, <2>3
<1>6. ASSUME NEW k, OnBook(k) PROVE OnBook(k)'
  <2>1. PICK t \in Sides, r \in Prices : \E i \in DOMAIN book[t][r] : book[t][r][i] = k
    BY <1>6 DEF OnBook
  <2>2. CASE t = s /\ r = p
    BY <1>2, <1>4, <2>1, <2>2 DEF OnBook
  <2>3. CASE t # s \/ r # p
    BY <1>4, <2>1, <2>3 DEF OnBook
  <2> QED BY <2>2, <2>3
<1>7. OnBook(o)'
  BY <1>2, <1>4 DEF OnBook
<1> QED BY <1>5, <1>6, <1>7

\* A new order locks the book: it becomes the taker, rests, or is turned away.
LEMMA PlaceStep ==
  ASSUME Inv, NoTakerWhenIdle, NEW o \in IDs, NEW u \in Users, NEW type \in Types,
         NEW side \in Sides, NEW price \in Prices, NEW quantity \in Quantities,
         NEW ev \in Events, Arrive(o, NewOrder(u, type, side, price, quantity), ev),
         \/ incoming' = o /\ book' = book
         \/ incoming' = 0 /\ book' = book
         \/ incoming' = 0 /\ book' = Add(side, price, o)
  PROVE  Market!Next
<1> DEFINE order == [user |-> u, side |-> side, limit |-> price, left |-> quantity]
<1>1. /\ o \notin OrderIDs /\ OrderIDs' = OrderIDs \cup {o} /\ trade' = trade /\ pc = "idle"
      /\ orders'[o] = NewOrder(u, type, side, price, quantity)
  BY ArriveOrders
<1>2. \A k \in OrderIDs : orders'[k] = orders[k]
  BY <1>1 DEF Arrive
<1>3. incoming = 0
  BY <1>1 DEF NoTakerWhenIdle, Matching
<1>4. Offers' = [k \in DOMAIN Offers \cup {o} |-> IF k = o THEN order ELSE Offers[k]]
  <2>1. Offers' = [k \in OrderIDs' |-> [user |-> orders'[k].UserID, side |-> orders'[k].Side,
                                        limit |-> orders'[k].Price, left |-> Remaining(k)']]
    BY DEF Offers
  <2>2. DOMAIN Offers = OrderIDs
    BY OffersFacts
  <2>3. [user |-> orders'[o].UserID, side |-> orders'[o].Side,
         limit |-> orders'[o].Price, left |-> Remaining(o)'] = order
    <3>1. Remaining(o)' = quantity
      BY <1>1, QuantitiesAssumption DEF Remaining, NewOrder
    <3> QED BY <1>1, <3>1 DEF NewOrder
  <2>4. ASSUME NEW k \in OrderIDs
        PROVE  [user |-> orders'[k].UserID, side |-> orders'[k].Side,
                limit |-> orders'[k].Price, left |-> Remaining(k)'] = Offers[k]
    <3>1. Remaining(k)' = Remaining(k)
      BY <1>2 DEF Remaining
    <3> QED BY <1>2, <3>1 DEF Offers
  <2> HIDE DEF order
  <2> QED BY <1>1, <2>1, <2>2, <2>3, <2>4
<1>5. Booked' = Booked \/ (incoming' = 0 /\ Booked' = Booked \cup {o})
  <2>1. \A k : OnBook(k) => k \in OrderIDs
    BY OffersFacts
  <2>2. CASE book' = book
    <3>1. \A k : OnBook(k)' <=> OnBook(k)
      BY <2>2 DEF OnBook
    <3> QED BY <1>1, <2>1, <3>1 DEF Booked
  <2>3. CASE incoming' = 0 /\ book' = Add(side, price, o)
    <3>1. \A k : OnBook(k)' <=> OnBook(k) \/ k = o
      BY <2>3, AddBooks
    <3> QED BY <1>1, <2>1, <2>3, <3>1 DEF Booked
  <2> QED BY <2>2, <2>3
<1>6. o \notin DOMAIN Offers
  BY <1>1, OffersFacts
<1>7. incoming' = o => Booked' = Booked
  BY <1>5 DEF IDs
<1>8. order \in Market!Orders
  BY DEF Market!Orders, Market!Sides, Sides
<1>9. Market!Place(o, order)
  <2> HIDE DEF order
  <2> QED BY <1>1, <1>3, <1>4, <1>5, <1>6, <1>7 DEF Market!Place, Market!NoTaker
<1> HIDE DEF order
<1> QED BY <1>8, <1>9 DEF Market!Next

\* A fill that MatchLimit or MatchMarket makes is a trade of the exchange.
LEMMA TradeStep ==
  ASSUME Inv, Inv', FrontSound, [Next]_vars, Matching,
         NEW m \in OrderIDs, OnBook(m), m # incoming,
         NEW q \in Nat \ {0}, q <= Remaining(m), q <= Remaining(incoming),
         NEW price \in Prices, Fill(m, q, price),
         \A o : OnBook(o)' => OnBook(o),
         incoming' = incoming \/ (incoming' = 0 /\ q >= Remaining(incoming))
  PROVE  Market!Next
<1>0. incoming \in OrderIDs /\ incoming # 0 /\ price \in Nat
  BY PricesAssumption DEF Inv, LoopSound, TypeOK, IDs
<1>1. /\ OrderIDs' = OrderIDs
      /\ \A o \in OrderIDs :
           /\ orders'[o].Quantity = orders[o].Quantity
           /\ orders'[o].UserID = orders[o].UserID
           /\ orders'[o].Side = orders[o].Side
           /\ orders'[o].Price = orders[o].Price
           /\ Remaining(o)' = Remaining(o) - (IF o \in {m, incoming} THEN q ELSE 0)
  BY <1>0, FillAmounts
<1>2. trade' = [Maker |-> m, Taker |-> incoming, Price |-> price, Quantity |-> q]
  BY DEF Fill
<1>3. /\ DOMAIN Offers = OrderIDs
      /\ \A o \in OrderIDs :
           /\ Offers[o] = [user |-> orders[o].UserID, side |-> orders[o].Side,
                           limit |-> orders[o].Price, left |-> Remaining(o)]
           /\ Remaining(o) \in Nat
  BY OffersFacts
<1>4. \A o \in OrderIDs : /\ Offers[o].user = orders[o].UserID /\ Offers[o].side = orders[o].Side
                          /\ Offers[o].limit = orders[o].Price /\ Offers[o].left = Remaining(o)
  BY <1>3
<1>5. Offers' = [Offers EXCEPT ![m].left = @ - q, ![incoming].left = @ - q]
  <2> DEFINE cut(o) == [Offers[o] EXCEPT !.left = Offers[o].left - q]
  <2>1. [Offers EXCEPT ![m].left = @ - q, ![incoming].left = @ - q]
          = [o \in OrderIDs |-> IF o \in {m, incoming} THEN cut(o) ELSE Offers[o]]
    BY <1>0, <1>3
  <2>2. \A o \in OrderIDs : cut(o) = [user |-> orders[o].UserID, side |-> orders[o].Side,
                                     limit |-> orders[o].Price, left |-> Remaining(o) - q]
    BY <1>3
  <2> HIDE DEF cut
  <2>3. Offers' = [o \in OrderIDs |-> [user |-> orders'[o].UserID, side |-> orders'[o].Side,
                                       limit |-> orders'[o].Price, left |-> Remaining(o)']]
    BY <1>1 DEF Offers
  <2>4. ASSUME NEW o \in OrderIDs
        PROVE  [user |-> orders'[o].UserID, side |-> orders'[o].Side,
                limit |-> orders'[o].Price, left |-> Remaining(o)']
                 = IF o \in {m, incoming} THEN cut(o) ELSE Offers[o]
    <3>1. CASE o \in {m, incoming}
      <4>1. Remaining(o)' = Remaining(o) - q
        BY <1>1, <3>1
      <4> QED BY <1>1, <2>2, <3>1, <4>1
    <3>2. CASE o \notin {m, incoming}
      <4>1. Remaining(o)' = Remaining(o)
        BY <1>1, <1>3, <3>2
      <4> QED BY <1>1, <1>3, <3>2, <4>1
    <3> QED BY <3>1, <3>2
  <2> QED BY <2>1, <2>3, <2>4
<1>6. m \in Booked /\ Booked' \subseteq Booked
  BY <1>1 DEF Booked
<1>7. \A o \in OrderIDs : Offers'[o].left = Remaining(o)' /\ Remaining(o)' \in Nat
  <2>1. Remaining(m) - q \in Nat /\ Remaining(incoming) - q \in Nat
    BY <1>0, <1>3
  <2> QED BY <1>1, <1>3, <2>1 DEF Offers
<1>8. ASSUME NEW o \in Booked \ Booked'
      PROVE  Offers'[o].left = 0 \/ Offers[o].user = Offers[incoming].user
  <2>1. o \in OrderIDs /\ OnBook(o) /\ ~OnBook(o)'
    BY <1>1, <1>8 DEF Booked
  <2>2. orders'[o].Filled = orders[o].Quantity \/ orders[o].UserID = Taker.UserID
    BY <2>1, StepTakesOff
  <2>3. CASE orders'[o].Filled = orders[o].Quantity
    <3>1. Remaining(o)' = 0
      <4>1. orders[o].Quantity \in Nat
        BY <2>1, Amounts
      <4> QED BY <1>1, <2>1, <2>3, <4>1 DEF Remaining
    <3> QED BY <1>7, <2>1, <3>1
  <2>4. CASE orders[o].UserID = Taker.UserID
    BY <1>0, <1>4, <2>1, <2>4 DEF Taker
  <2> QED BY <2>2, <2>3, <2>4
<1>9. Market!Agreed(m, price)
  <2>1. /\ trade' # NoTrade /\ trade'.Maker = m /\ trade'.Taker = incoming
        /\ trade'.Price = price
    BY <1>0, <1>2 DEF NoTrade
  <2>2. /\ orders'[m].Side = Opposite(orders'[incoming].Side)
        /\ (IF orders'[incoming].Side = "buy" THEN orders'[m].Price ELSE orders'[incoming].Price)
             <= price
        /\ price <= (IF orders'[incoming].Side = "buy" THEN orders'[incoming].Price
                                                       ELSE orders'[m].Price)
    BY <2>1 DEF Inv, TradesWithinLimits
  <2>3. orders[incoming].Side \in {"buy", "sell"}
    BY <1>0 DEF Inv, TypeOK, OrderRecords, Sides
  <2>4. orders[m].Side = Opposite(orders[incoming].Side)
    BY <1>0, <1>1, <2>2
  <2> QED BY <1>0, <1>1, <1>4, <2>2, <2>3, <2>4 DEF Market!Agreed, Opposite
<1>10. incoming' = incoming \/ (incoming' = 0 /\ Offers'[incoming].left = 0)
  BY <1>0, <1>1, <1>3, <1>7
<1>11. /\ q > 0 /\ q <= Offers[m].left /\ q <= Offers[incoming].left
       /\ q \in 1 .. Offers[m].left
  BY <1>0, <1>3, <1>4
<1>12. Market!Trade(m, price, q)
  BY <1>0, <1>2, <1>5, <1>6, <1>8, <1>9, <1>10, <1>11, Zenon DEF Market!Trade, Market!NoTaker
<1> QED BY <1>6, <1>11, <1>12 DEF Market!Next
\* Every step of the book is a step of the exchange, or none.
LEMMA ExchangeStep ==
  ASSUME Inv, Inv', FrontSound, NoTakerWhenIdle, [Next]_vars
  PROVE  Market!Next \/ UNCHANGED Market!vars
<1>0. \A o : OnBook(o) => o \in OrderIDs
  BY OffersFacts
<1>1. ASSUME UNCHANGED <<orders, book, incoming, trade>> PROVE UNCHANGED Market!vars
  <2>1. UNCHANGED Offers
    BY <1>1 DEF Offers, OrderIDs, Remaining
  <2>2. UNCHANGED Booked
    BY <1>1 DEF Booked, OrderIDs, OnBook
  <2> QED BY <1>1, <2>1, <2>2 DEF Market!vars
<1>2. ASSUME NEW o \in IDs, NEW u \in Users, NEW s \in Sides, NEW p \in Prices,
             NEW q \in Quantities,
             \/ Seed(o, NewOrder(u, "limit", s, p, q))
             \/ MatchLimit(o, NewOrder(u, "limit", s, p, q))
             \/ MatchMarket(o, NewOrder(u, "market", s, p, q))
      PROVE  Market!Next
  <2>1. PICK type \in Types :
          \/ Seed(o, NewOrder(u, type, s, p, q))
          \/ MatchLimit(o, NewOrder(u, type, s, p, q))
          \/ MatchMarket(o, NewOrder(u, type, s, p, q))
    BY <1>2 DEF Types
  <2> DEFINE order == NewOrder(u, type, s, p, q)
  <2>2. order.Side = s /\ order.Price = p
    BY DEF NewOrder
  <2>3. Unpublished \in Events /\ Event("cancelled", 0) \in Events
    BY DEF Unpublished, Event, Events
  <2>4. PICK ev \in Events : Arrive(o, order, ev)
    BY <2>1, <2>3 DEF Seed, MatchLimit, MatchMarket, EmptyBook, LimitNoMatch, LimitBegin,
       MarketBegin
  <2>5. \/ incoming' = o /\ book' = book
        \/ incoming' = 0 /\ book' = book
        \/ incoming' = 0 /\ book' = Add(s, p, o)
    BY <2>1, <2>2 DEF Seed, MatchLimit, MatchMarket, EmptyBook, LimitNoMatch, LimitBegin,
       MarketBegin, Return
  <2> QED BY <2>4, <2>5, PlaceStep
<1>3. ASSUME NEW o \in 1 .. MaxOrders, NEW s \in Sides, NEW p \in Prices, Cancel(o, s, p)
      PROVE  Market!Next \/ UNCHANGED Market!vars
  <2>1. /\ incoming = 0 /\ incoming' = 0 /\ UNCHANGED <<orders, trade>>
    BY <1>3 DEF Cancel, Return, NoTakerWhenIdle, Matching
  <2>2. CASE UNCHANGED book
    BY <1>1, <2>1, <2>2
  <2>3. ASSUME NEW i \in DOMAIN book[s][p], book[s][p][i] = o, book' = RemoveAt(s, p, i)
        PROVE  Market!Next
    <3>1. \A k : OnBook(k)' <=> OnBook(k) /\ k # o
      BY <2>3, RemoveAtTakes, OffBook
    <3>2. o \in Booked
      BY <2>3, <1>0 DEF Booked, OnBook
    <3>3. Booked' = Booked \ {o} /\ Offers' = Offers
      BY <2>1, <3>1 DEF Booked, Offers, OrderIDs, Remaining
    <3>4. Market!Withdraw(o)
      BY <2>1, <3>3 DEF Market!Withdraw, Market!NoTaker
    <3> QED BY <3>2, <3>4 DEF Market!Next
  <2> QED BY <1>3, <2>2, <2>3 DEF Cancel
<1>4. CASE LimitSkip \/ MarketSkip \/ MarketNextLevel
  BY <1>1, <1>4 DEF LimitSkip, MarketSkip, MarketNextLevel
<1>5. CASE LimitRest \/ MarketEnd
  <2>1. /\ incoming \in OrderIDs /\ incoming # 0 /\ incoming' = 0
        /\ UNCHANGED <<orders, trade>>
    BY <1>5 DEF LimitRest, MarketEnd, Return, Inv, LoopSound, Matching, TypeOK, IDs
  <2>2. Offers' = Offers /\ OrderIDs' = OrderIDs
    BY <2>1 DEF Offers, OrderIDs, Remaining
  <2>3. CASE book' = book
    <3>1. Booked' = Booked
      BY <2>2, <2>3 DEF Booked, OnBook
    <3>2. Market!Finish
      BY <2>1, <2>2, <3>1 DEF Market!Finish, Market!NoTaker
    <3> QED BY <3>2 DEF Market!Next
  <2>4. CASE LimitRest /\ book' = Add(Taker.Side, Taker.Price, incoming)
    <3>1. /\ Taker.Side \in Sides /\ Taker.Price \in Prices /\ incoming \in IDs
      BY <2>1 DEF Inv, TypeOK, Taker, OrderRecords
    <3>2. \A k : OnBook(k)' <=> OnBook(k) \/ k = incoming
      BY <2>4, <3>1, AddBooks
    <3>3. Booked' = Booked \cup {incoming}
      BY <2>1, <2>2, <3>2 DEF Booked
    <3>4. Offers[incoming].left > 0
      BY <2>1, <2>4, OffersFacts DEF LimitRest, FrontSound, LimitFront
    <3>5. Market!Finish
      BY <2>1, <2>2, <3>3, <3>4 DEF Market!Finish, Market!NoTaker
    <3> QED BY <3>5 DEF Market!Next
  <2> QED BY <1>5, <2>3, <2>4 DEF LimitRest, MarketEnd
<1>6. CASE LimitFill
  <2>1. PICK m : m = Head(todo)
    OBVIOUS
  <2>2. PICK q : q = FillQty(m)
    OBVIOUS
  <2>3. /\ pc = "limit" /\ m = todo[1] /\ 1 \in DOMAIN todo
        /\ incoming \in OrderIDs /\ m \in OrderIDs /\ m # incoming
        /\ level \in Prices /\ OtherSide \in Sides
        /\ q \in Nat \ {0} /\ q <= Remaining(m) /\ q <= Remaining(incoming)
        /\ Fill(m, q, Taker.Price)
    BY <1>6, <2>1, <2>2, LimitFillFacts
  <2>4. /\ IsBest(OtherSide, level) /\ 1 \in DOMAIN Queue
        /\ Queue = book[OtherSide][level]
    BY <1>6, PopFrontOrder DEF Queue, OtherSide
  <2>5. OnBook(m)
    <3>1. \E j \in DOMAIN Queue : Queue[j] = m
      BY <2>3 DEF FrontSound, LimitFront
    <3> QED BY <2>3, <2>4, <3>1 DEF OnBook
  <2>6. ASSUME NEW o, OnBook(o)' PROVE OnBook(o)
    <3>1. book' = PopFront(OtherSide) \/ book' = book
      BY <1>6 DEF LimitFill, OtherSide
    <3>2. CASE book' = book
      BY <2>6, <3>2 DEF OnBook
    <3>3. CASE book' = PopFront(OtherSide)
      BY <2>3, <2>4, <2>6, <3>3, PopFrontTakes, OffBook
    <3> QED BY <3>1, <3>2, <3>3
  <2>7. incoming' = incoming \/ (incoming' = 0 /\ q >= Remaining(incoming))
    BY <1>6, <2>1, <2>2 DEF LimitFill, Return
  <2>8. Taker.Price \in Prices /\ Matching
    BY <2>3 DEF Inv, TypeOK, Taker, OrderRecords, Matching
  <2> QED BY <2>3, <2>5, <2>6, <2>7, <2>8, TradeStep
<1>7. CASE MarketFill
  <2>1. PICK m : m = Resting
    OBVIOUS
  <2>2. PICK q : q = FillQty(m)
    OBVIOUS
  <2>3. /\ pc = "market" /\ incoming \in OrderIDs /\ m \in OrderIDs /\ m # incoming
        /\ level \in Prices /\ OtherSide \in Sides
        /\ idx \in DOMAIN book[OtherSide][level] /\ m = book[OtherSide][level][idx]
        /\ q \in Nat \ {0} /\ q <= Remaining(m) /\ q <= Remaining(incoming)
        /\ Fill(m, q, orders[m].Price)
        /\ q = Remaining(m) => book' = RemoveAt(OtherSide, level, idx)
        /\ q # Remaining(m) => book' = book
    BY <1>7, <2>1, <2>2, MarketFillFacts
  <2>4. OnBook(m)
    BY <2>3 DEF OnBook
  <2>5. ASSUME NEW o, OnBook(o)' PROVE OnBook(o)
    <3>1. CASE book' = book
      BY <2>5, <3>1 DEF OnBook
    <3>2. CASE book' = RemoveAt(OtherSide, level, idx)
      BY <2>3, <2>5, <3>2, RemoveAtTakes, OffBook
    <3> QED BY <2>3, <3>1, <3>2
  <2>6. incoming' = incoming
    BY <1>7 DEF MarketFill
  <2>7. orders[m].Price \in Prices /\ Matching
    BY <2>3 DEF Inv, TypeOK, OrderRecords, Matching
  <2> QED BY <2>3, <2>4, <2>5, <2>6, <2>7, TradeStep
<1>8. CASE Unlock
  <2>1. /\ incoming = 0 /\ UNCHANGED <<book, incoming>> /\ trade' = NoTrade
        /\ orders' = [o \in Booked |-> orders[o]]
    BY <1>8 DEF Unlock, NoTakerWhenIdle, Matching, Booked
  <2>2. OrderIDs' = Booked /\ Booked \subseteq OrderIDs
    BY <2>1 DEF OrderIDs, Booked
  <2>3. Booked' = Booked
    <3>1. \A o : OnBook(o)' <=> OnBook(o)
      BY <2>1 DEF OnBook
    <3> QED BY <2>2, <3>1 DEF Booked
  <2>4. Offers' = [o \in Booked |-> Offers[o]]
    <3>1. Offers' = [o \in Booked |-> [user |-> orders'[o].UserID, side |-> orders'[o].Side,
                                       limit |-> orders'[o].Price, left |-> Remaining(o)']]
      BY <2>2 DEF Offers
    <3>2. ASSUME NEW o \in Booked
          PROVE  [user |-> orders'[o].UserID, side |-> orders'[o].Side,
                  limit |-> orders'[o].Price, left |-> Remaining(o)'] = Offers[o]
      <4>1. orders'[o] = orders[o] /\ o \in OrderIDs
        BY <2>1, <2>2
      <4>2. Remaining(o)' = Remaining(o)
        BY <4>1 DEF Remaining
      <4> QED BY <4>1, <4>2 DEF Offers
    <3> QED BY <3>1, <3>2
  <2>5. Market!Forget
    BY <2>1, <2>3, <2>4 DEF Market!Forget, Market!NoTaker, Market!NoTrade, NoTrade
  <2> QED BY <2>5 DEF Market!Next
<1>9. CASE UNCHANGED vars
  BY <1>1, <1>9 DEF vars
<1> QED
  BY <1>2, <1>3, <1>4, <1>5, <1>6, <1>7, <1>8, <1>9 DEF Next, LimitStep, MarketStep

\* The loops set and clear the taker.
LEMMA TakerInvariance == Spec => []NoTakerWhenIdle
<1>1. Init => NoTakerWhenIdle
  BY DEF Init, NoTakerWhenIdle
<1>2. NoTakerWhenIdle /\ [Next]_vars => NoTakerWhenIdle'
  <2> SUFFICES ASSUME NoTakerWhenIdle, [Next]_vars PROVE NoTakerWhenIdle'
    OBVIOUS
  <2>1. ASSUME NEW e, Return(e) PROVE NoTakerWhenIdle'
    BY <2>1 DEF Return, NoTakerWhenIdle
  <2>2. ASSUME NEW o \in IDs, NEW u \in Users, NEW s \in Sides, NEW p \in Prices,
               NEW q \in Quantities,
               \/ Seed(o, NewOrder(u, "limit", s, p, q))
               \/ MatchLimit(o, NewOrder(u, "limit", s, p, q))
               \/ MatchMarket(o, NewOrder(u, "market", s, p, q))
        PROVE  NoTakerWhenIdle'
    BY <2>1, <2>2 DEF Seed, MatchLimit, MatchMarket, EmptyBook, LimitNoMatch, LimitBegin,
       MarketBegin, NoTakerWhenIdle, Matching
  <2>3. ASSUME NEW o \in 1 .. MaxOrders, NEW s \in Sides, NEW p \in Prices, Cancel(o, s, p)
        PROVE  NoTakerWhenIdle'
    BY <2>3 DEF Cancel, Return, NoTakerWhenIdle
  <2>4. CASE LimitStep
    <3>1. CASE LimitSkip
      BY <3>1 DEF LimitSkip, NoTakerWhenIdle, Matching
    <3>2. CASE LimitRest
      BY <2>1, <3>2 DEF LimitRest
    <3>3. CASE LimitFill
      <4>1. pc = "limit" /\ (Return("nil") \/ UNCHANGED <<pc, incoming>>)
        BY <3>3 DEF LimitFill
      <4> QED BY <2>1, <4>1 DEF NoTakerWhenIdle, Matching
    <3> QED BY <2>4, <3>1, <3>2, <3>3 DEF LimitStep
  <2>5. CASE MarketStep
    <3>1. MarketEnd => Return("nil")
      BY DEF MarketEnd
    <3>2. MarketNextLevel \/ MarketSkip \/ MarketFill => UNCHANGED <<pc, incoming>>
      BY DEF MarketNextLevel, MarketSkip, MarketFill
    <3> QED BY <2>1, <2>5, <3>1, <3>2 DEF MarketStep, NoTakerWhenIdle, Matching
  <2>6. CASE Unlock
    BY <2>6 DEF Unlock, NoTakerWhenIdle, Matching
  <2>7. CASE UNCHANGED vars
    BY <2>7 DEF vars, NoTakerWhenIdle, Matching
  <2> QED BY <2>2, <2>3, <2>4, <2>5, <2>6, <2>7 DEF Next
<1> QED BY <1>1, <1>2, PTL DEF Spec

\* The book implements the exchange: whatever its loops do to levels, indices
\* and queues, orders only change by trades that both sides agreed to.
THEOREM BookIsAnExchange == Spec => ImplementsExchange
<1>1. Init => Market!Init
  <2> SUFFICES ASSUME Init PROVE Market!Init
    OBVIOUS
  <2>1. OrderIDs = {} /\ incoming = 0 /\ trade = Market!NoTrade
    BY DEF Init, OrderIDs, NoOrders, NoTrade, Market!NoTrade
  <2>2. Offers = [o \in {} |-> 0] /\ Booked = {}
    BY <2>1 DEF Offers, Booked
  <2> QED BY <2>1, <2>2 DEF Market!Init, Market!NoTaker
<1>2. /\ Inv /\ EventsSound /\ FrontSound /\ Inv' /\ NoTakerWhenIdle /\ [Next]_vars
      => [Market!Next]_Market!vars
  BY ExchangeStep
<1> QED
  BY <1>1, <1>2, LoopInvariance, TakerInvariance, PTL DEF Spec, ImplementsExchange, Market!Spec
------------------------------------------------------------------------------
(* Every match comes to an end.                                            *)

\* The orders that MatchMarket has still before it on its level, and those on
\* the levels behind that one.
Here == {o \in IDs : \E i \in DOMAIN Queue : idx <= i /\ Queue[i] = o}
Beyond ==
  {o \in IDs : \E p \in Prices : /\ Less(OtherSide, level, p)
                                 /\ \E i \in DOMAIN book[OtherSide][p] : book[OtherSide][p][i] = o}

\* Bounds on the steps a match has left.  An order counts once for the visit of
\* the order, and once more for the step to its level.
MarketRank ==
  IF level = NoLevel THEN 0 ELSE 1 + Cardinality(Here \cup Beyond) + Cardinality(Beyond)
MatchRank ==
  CASE pc = "idle" -> 0
    [] pc = "return" -> 1
    [] pc = "limit" -> 2 + Len(todo)
    [] pc = "market" -> 2 + MarketRank

\* While an operation holds the mutex, every step brings its end nearer.
MatchesWearOff == pc # "idle" => MatchRank' < MatchRank

\* Sets of orders are finite, and a proper subset has fewer.
LEMMA Fewer ==
  ASSUME NEW S \in SUBSET IDs, NEW T \in SUBSET S
  PROVE  /\ Cardinality(S) \in Nat /\ Cardinality(T) \in Nat
         /\ Cardinality(T) <= Cardinality(S)
         /\ T # S => Cardinality(T) < Cardinality(S)
<1>1. IsFiniteSet(IDs)
  BY BoundsAssumption, FS_Interval DEF IDs
<1>2. IsFiniteSet(S)
  BY <1>1, FS_Subset
<1>3. /\ IsFiniteSet(T) /\ Cardinality(T) <= Cardinality(S)
      /\ Cardinality(S) = Cardinality(T) => S = T
  BY <1>2, FS_Subset
<1>4. Cardinality(S) \in Nat /\ Cardinality(T) \in Nat
  BY <1>2, <1>3, FS_CardinalityType
<1> QED BY <1>3, <1>4

\* The rank is a natural number.
LEMMA RankIsNat ==
  ASSUME Inv
  PROVE  MarketRank \in Nat /\ MatchRank \in Nat
<1>1. Here \cup Beyond \in SUBSET IDs /\ Beyond \in SUBSET (Here \cup Beyond)
  BY DEF Here, Beyond
<1>2. Cardinality(Here \cup Beyond) \in Nat /\ Cardinality(Beyond) \in Nat
  BY <1>1, Fewer
<1>3. MarketRank \in Nat
  BY <1>2 DEF MarketRank
<1>4. pc \in {"idle", "limit", "market", "return"} /\ Len(todo) \in Nat
  BY DEF Inv, TypeOK
<1> QED BY <1>3, <1>4 DEF MatchRank

\* When both sets shrink, and one of them really does, so does the rank.
LEMMA MarketShrinks ==
  ASSUME level # NoLevel,
         Here' \cup Beyond' \subseteq Here \cup Beyond, Beyond' \subseteq Beyond,
         Beyond' # Beyond \/ Here' \cup Beyond' # Here \cup Beyond
  PROVE  MarketRank' < MarketRank
<1> DEFINE all == Here \cup Beyond
           left == Here' \cup Beyond'
<1>1. all \in SUBSET IDs /\ Beyond \in SUBSET IDs
  BY DEF Here, Beyond
<1>2. left \in SUBSET all /\ Beyond' \in SUBSET Beyond
  OBVIOUS
<1>3. /\ Cardinality(all) \in Nat /\ Cardinality(left) \in Nat
      /\ Cardinality(left) <= Cardinality(all)
      /\ left # all => Cardinality(left) < Cardinality(all)
  <2> HIDE DEF all, left
  <2> QED BY <1>1, <1>2, Fewer
<1>4. /\ Cardinality(Beyond) \in Nat /\ Cardinality(Beyond') \in Nat
      /\ Cardinality(Beyond') <= Cardinality(Beyond)
      /\ Beyond' # Beyond => Cardinality(Beyond') < Cardinality(Beyond)
  BY <1>1, <1>2, Fewer
<1>5. MarketRank = 1 + Cardinality(all) + Cardinality(Beyond)
  BY DEF MarketRank
<1>6. MarketRank' = 0 \/ MarketRank' = 1 + Cardinality(left) + Cardinality(Beyond')
  BY DEF MarketRank
<1> HIDE DEF all, left
<1>7. left # all \/ Beyond' # Beyond
  BY DEF all, left
<1> QED BY <1>3, <1>4, <1>5, <1>6, <1>7

\* Ascend leaves the orders of a level behind it, and those of the next one are
\* no longer beyond the level.
LEMMA NextLevelWears ==
  ASSUME Inv, FrontSound, MarketNextLevel
  PROVE  MarketRank' < MarketRank
<1>1. /\ MarketVisits /\ idx' = 1 /\ UNCHANGED <<orders, book, incoming>>
  BY DEF MarketNextLevel
<1>2. level # NoLevel /\ level \in Prices /\ OtherSide \in Sides
  BY <1>1, MarketVisitFacts
<1>3. PICK S : S = OtherSide
  OBVIOUS
<1>4. OtherSide' = S
  BY <1>1, <1>3 DEF OtherSide, Taker
<1>5. CASE level' = NoLevel
  <2>1. MarketRank' = 0
    BY <1>5 DEF MarketRank
  <2>2. Cardinality(Here \cup Beyond) \in Nat /\ Cardinality(Beyond) \in Nat
    <3>1. Here \cup Beyond \in SUBSET IDs /\ Beyond \in SUBSET (Here \cup Beyond)
      BY DEF Here, Beyond
    <3> QED BY <3>1, Fewer
  <2> QED BY <2>1, <2>2, <1>2 DEF MarketRank
<1>6. CASE level' # NoLevel
  <2>1. level' \in Prices /\ book[S][level'] # <<>> /\ Less(S, level, level')
    <3> DEFINE rest == {p \in Prices : book[S][p] # <<>> /\ Less(S, level, p)}
    <3>1. \/ rest = {} /\ level' = NoLevel
          \/ \E p \in rest : (\A r \in rest : r = p \/ Less(S, p, r)) /\ level' = p
      BY <1>3 DEF MarketNextLevel, OtherSide
    <3> QED BY <3>1, <1>6
  <2>2. /\ level \in Nat /\ level' \in Nat /\ Prices \subseteq Nat
        /\ \A p \in Prices : Less(S, level', p) => Less(S, level, p)
        /\ ~Less(S, level', level')
    BY <1>2, <2>1, PricesAssumption DEF Less
  <2>3. Beyond' \subseteq Beyond
    BY <1>1, <1>3, <1>4, <2>2 DEF Beyond
  <2>4. Queue' = book[S][level']
    BY <1>1, <1>4 DEF Queue, OtherSide
  <2>5. Here' \subseteq Beyond
    BY <1>1, <1>3, <2>1, <2>4 DEF Here, Beyond
  <2>6. PICK o \in IDs : o = book[S][level'][1] /\ 1 \in DOMAIN book[S][level']
    <3>1. book[S][level'] \in Seq(IDs)
      BY <1>2, <1>3, <2>1, LevelQueue
    <3> QED BY <3>1, <2>1
  <2>7. o \in Beyond
    BY <1>3, <2>1, <2>6 DEF Beyond
  <2>8. o \notin Beyond'
    <3> SUFFICES ASSUME o \in Beyond' PROVE FALSE
      OBVIOUS
    <3>1. PICK p \in Prices : /\ Less(S, level', p)
                              /\ \E i \in DOMAIN book[S][p] : book[S][p][i] = o
      BY <1>1, <1>4 DEF Beyond
    <3>2. orders[o].Price = p
      BY <3>1, <1>2, <1>3, LevelQueue
    <3>3. orders[o].Price = level'
      BY <2>1, <2>6, <1>2, <1>3, LevelQueue
    <3> QED BY <3>1, <3>2, <3>3, <2>2
  <2>9. Beyond' # Beyond /\ Here' \cup Beyond' \subseteq Here \cup Beyond
    BY <2>3, <2>5, <2>7, <2>8
  <2> QED BY <1>2, <2>3, <2>9, MarketShrinks
<1> QED BY <1>5, <1>6

\* A visited order is not visited again: the index passes it, or it is cut out
\* of the level.
LEMMA VisitWears ==
  ASSUME Inv, FrontSound, MarketSkip \/ MarketFill
  PROVE  MarketRank' < MarketRank
<1>1. /\ MarketVisits /\ ~LeavesLevel /\ UNCHANGED <<level, incoming>>
  BY DEF MarketSkip, MarketFill
<1>2. /\ level # NoLevel /\ level \in Prices /\ OtherSide \in Sides
      /\ Queue = book[OtherSide][level] /\ Queue \in Seq(IDs)
  BY <1>1, MarketVisitFacts
<1>3. idx \in DOMAIN Queue /\ idx \in Nat /\ DOMAIN Queue = 1 .. Len(Queue) /\ Len(Queue) \in Nat
  BY <1>1, <1>2 DEF LeavesLevel, Inv, TypeOK
<1>4. PICK m : m = Queue[idx] /\ m \in IDs
  BY <1>2, <1>3
<1>5. PICK S : S = OtherSide
  OBVIOUS
<1>6. OtherSide' = S
  <2>1. CASE MarketSkip
    BY <2>1, <1>5 DEF MarketSkip, OtherSide, Taker
  <2>2. CASE MarketFill
    <3>1. incoming \in OrderIDs /\ Fill(m, FillQty(m), orders[m].Price) /\ m \in OrderIDs
      BY <2>2, <1>4, MarketFillFacts DEF Resting
    <3>2. m # incoming /\ FillQty(m) \in Nat
      BY <2>2, <1>4, MarketFillFacts DEF Resting
    <3>3. orders'[incoming].Side = orders[incoming].Side
      BY <3>1, <3>2, FillAmounts
    <3> QED BY <3>3, <1>1, <1>5 DEF OtherSide, Taker
  <2> QED BY <2>1, <2>2
<1>7. /\ \A p \in Prices : p # level => book'[S][p] = book[S][p]
      /\ \/ book'[S][level] = Queue /\ idx' = idx + 1
         \/ book'[S][level] = DropAt(Queue, idx) /\ idx' = idx
  <2>1. CASE MarketSkip
    BY <2>1, <1>2, <1>5 DEF MarketSkip
  <2>2. CASE MarketFill
    <3>1. \/ book' = RemoveAt(S, level, idx) /\ idx' = idx
          \/ book' = book /\ idx' = idx + 1
      BY <2>2, <1>5, MarketFillFacts
    <3>2. CASE book' = book /\ idx' = idx + 1
      BY <3>2, <1>2, <1>5
    <3>3. CASE book' = RemoveAt(S, level, idx) /\ idx' = idx
      <4>1. TakesOff(S, level, book[S][level][idx]) /\ book'[S][level] = DropAt(book[S][level], idx)
        BY <3>3, <1>2, <1>3, <1>5, RemoveAtTakes
      <4> QED BY <4>1, <3>3, <1>2, <1>5 DEF TakesOff
    <3> QED BY <3>1, <3>2, <3>3
  <2> QED BY <2>1, <2>2
<1>8. Queue' = book'[S][level]
  BY <1>1, <1>6 DEF Queue, OtherSide
<1>9. Beyond' = Beyond
  <2>1. \A p \in Prices : Less(S, level, p) => book'[S][p] = book[S][p]
    BY <1>2, <1>7, PricesAssumption DEF Less
  <2> QED BY <2>1, <1>1, <1>5, <1>6 DEF Beyond
<1>10. \A i, j \in DOMAIN Queue : i # j => Queue[i] # Queue[j]
  <2>1. \A i, j \in DOMAIN Queue : i < j => Queue[i] < Queue[j]
    BY <1>2, LevelQueue
  <2>2. \A i \in DOMAIN Queue : i \in Nat /\ Queue[i] \in Nat
    BY <1>2, <1>3, BoundsAssumption DEF IDs
  <2> QED BY <2>1, <2>2
<1>11. Here' \subseteq Here \ {m}
  <2>1. CASE Queue' = Queue /\ idx' = idx + 1
    <3> SUFFICES ASSUME NEW o \in Here' PROVE o \in Here /\ o # m
      OBVIOUS
    <3>1. PICK i \in DOMAIN Queue : o \in IDs /\ idx + 1 <= i /\ Queue[i] = o
      BY <2>1 DEF Here
    <3>2. idx <= i /\ i # idx
      BY <3>1, <1>3
    <3> QED BY <3>1, <3>2, <1>3, <1>4, <1>10 DEF Here
  <2>2. CASE Queue' = DropAt(Queue, idx) /\ idx' = idx
    <3> SUFFICES ASSUME NEW o \in Here' PROVE o \in Here /\ o # m
      OBVIOUS
    <3>1. /\ DropAt(Queue, idx) \in Seq(IDs) /\ Len(DropAt(Queue, idx)) = Len(Queue) - 1
          /\ \A j \in 1 .. Len(Queue) - 1 :
               DropAt(Queue, idx)[j] = IF j < idx THEN Queue[j] ELSE Queue[j + 1]
      BY <1>2, <1>3, DropAtElements
    <3>2. PICK j \in 1 .. Len(Queue) - 1 : o \in IDs /\ idx <= j /\ DropAt(Queue, idx)[j] = o
      BY <2>2, <3>1 DEF Here
    <3>3. Queue[j + 1] = o /\ j + 1 \in DOMAIN Queue /\ idx <= j + 1 /\ j + 1 # idx
      BY <3>1, <3>2, <1>3
    <3> QED BY <3>2, <3>3, <1>3, <1>4, <1>10 DEF Here
  <2> QED BY <1>7, <1>8, <2>1, <2>2
<1>12. m \in Here /\ m \notin Beyond
  <2>1. m \in Here
    BY <1>3, <1>4 DEF Here
  <2>2. orders[m].Price = level
    BY <1>2, <1>3, <1>4, LevelQueue
  <2>3. ASSUME m \in Beyond PROVE FALSE
    <3>1. PICK p \in Prices : /\ Less(S, level, p)
                              /\ \E i \in DOMAIN book[S][p] : book[S][p][i] = m
      BY <2>3, <1>5 DEF Beyond
    <3>2. orders[m].Price = p
      BY <3>1, <1>2, <1>5, LevelQueue
    <3> QED BY <3>1, <3>2, <2>2, <1>2, PricesAssumption DEF Less
  <2> QED BY <2>1, <2>3
<1>13. Here' \cup Beyond' # Here \cup Beyond /\ Here' \cup Beyond' \subseteq Here \cup Beyond
  BY <1>9, <1>11, <1>12
<1> QED BY <1>2, <1>9, <1>13, MarketShrinks

\* Every match, refusal and cancel ends: while an operation holds the book's
\* mutex each step lowers the rank, a natural number, whatever the book holds,
\* however many levels and orders there are, and whichever publishes fail.  With
\* the fairness of Spec this is why MatchEnds holds.
THEOREM MatchesEnd == Spec => [](MatchRank \in Nat) /\ [][MatchesWearOff]_vars
<1>1. Inv => MatchRank \in Nat
  BY RankIsNat
<1>2. Inv /\ FrontSound /\ [Next]_vars => [MatchesWearOff]_vars
  <2> SUFFICES ASSUME Inv, FrontSound, Next, pc # "idle" PROVE MatchRank' < MatchRank
    BY DEF MatchesWearOff
  <2>0. MarketRank' \in Nat
    <3>1. Here' \cup Beyond' \in SUBSET IDs /\ Beyond' \in SUBSET (Here' \cup Beyond')
      BY DEF Here, Beyond
    <3>2. Cardinality(Here' \cup Beyond') \in Nat /\ Cardinality(Beyond') \in Nat
      BY <3>1, Fewer
    <3> QED BY <3>2 DEF MarketRank
  <2>1. LimitStep \/ MarketStep \/ Unlock
    <3>1. \A o, order, e : ~Arrive(o, order, e)
      BY DEF Arrive
    <3>2. \A o, order : ~Seed(o, order) /\ ~MatchLimit(o, order) /\ ~MatchMarket(o, order)
      BY <3>1 DEF Seed, MatchLimit, MatchMarket, EmptyBook, LimitNoMatch, LimitBegin, MarketBegin
    <3>3. \A o, side, price : ~Cancel(o, side, price)
      BY DEF Cancel
    <3> QED BY <3>2, <3>3 DEF Next
  <2>2. MatchRank \in Nat /\ MarketRank \in Nat /\ Len(todo) \in Nat /\ todo \in Seq(IDs)
    BY RankIsNat DEF Inv, TypeOK
  <2>3. CASE Unlock
    BY <2>3, <2>2 DEF Unlock, MatchRank
  <2>4. ASSUME Matching, pc' = "return" PROVE MatchRank' < MatchRank
    BY <2>4, <2>2 DEF Matching, MatchRank
  <2>5. ASSUME pc = "limit", pc' = pc, todo # <<>>, todo' = Tail(todo)
        PROVE  MatchRank' < MatchRank
    <3>1. Len(todo') = Len(todo) - 1
      BY <2>2, <2>5
    <3> QED BY <3>1, <2>2, <2>5 DEF MatchRank
  <2>6. CASE LimitStep
    <3>1. CASE LimitSkip
      BY <3>1, <2>5 DEF LimitSkip
    <3>2. CASE LimitFill
      <4>1. \/ pc = "limit" /\ pc' = "return"
            \/ pc = "limit" /\ pc' = pc /\ todo # <<>> /\ todo' = Tail(todo)
        BY <3>2 DEF LimitFill, Return
      <4> QED BY <4>1, <2>4, <2>5 DEF Matching
    <3>3. CASE LimitRest
      BY <3>3, <2>4 DEF LimitRest, Return, Matching
    <3> QED BY <2>6, <3>1, <3>2, <3>3 DEF LimitStep
  <2>7. ASSUME pc = "market", pc' = pc, MarketRank' < MarketRank PROVE MatchRank' < MatchRank
    <3>1. MatchRank = 2 + MarketRank /\ MatchRank' = 2 + MarketRank'
      BY <2>7 DEF MatchRank
    <3>2. MarketRank' \in Nat
      BY <2>0
    <3>3. PICK a \in Nat, b \in Nat : a = MarketRank /\ b = MarketRank'
      BY <3>2, <2>2
    <3>4. MatchRank = 2 + a /\ MatchRank' = 2 + b /\ b < a
      BY <3>1, <3>3, <2>7
    <3> QED BY <3>4
  <2>8. CASE MarketStep
    <3>1. CASE MarketNextLevel
      BY <3>1, <2>7, NextLevelWears DEF MarketNextLevel, MarketVisits
    <3>2. CASE MarketSkip \/ MarketFill
      BY <3>2, <2>7, VisitWears DEF MarketSkip, MarketFill, MarketVisits
    <3>3. CASE MarketEnd
      BY <3>3, <2>4 DEF MarketEnd, Return, Matching
    <3> QED BY <2>8, <3>1, <3>2, <3>3 DEF MarketStep
  <2> QED BY <2>1, <2>3, <2>6, <2>8
<1>3. Spec => []Inv
  BY Invariance
<1>4. Spec => [](Inv /\ EventsSound /\ FrontSound)
  BY LoopInvariance
<1> QED BY <1>1, <1>2, <1>3, <1>4, PTL DEF Spec
===============================================================================
