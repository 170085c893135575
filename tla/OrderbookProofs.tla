--------------------------- MODULE OrderbookProofs ---------------------------
(***************************************************************************)
(* The order book's safety invariants, proved for every set of users,      *)
(* prices and quantities and every bound.                                  *)
(***************************************************************************)
EXTENDS Orderbook, SequenceTheorems, TLAPS

\* While a loop runs, the taker is the newest order and is not on the book; the
\* orders MatchLimit has still to visit are on the level it reached, on the
\* other side, and are older than the taker.
LoopSound ==
  /\ Matching =>
       /\ incoming \in OrderIDs
       /\ \A s \in Sides, p \in Prices : \A i \in DOMAIN book[s][p] :
            book[s][p][i] < incoming
  /\ pc = "market" => orders[incoming].Type = "market"
  /\ pc = "limit" =>
       /\ orders[incoming].Type = "limit"
       /\ level \in Prices
       /\ Reaches(orders[incoming].Side, level, orders[incoming].Price)
       /\ \A i \in DOMAIN todo :
            /\ todo[i] \in OrderIDs
            /\ todo[i] < incoming
            /\ orders[todo[i]].Side = Opposite(orders[incoming].Side)
            /\ orders[todo[i]].Price = level

\* The last trade names two orders the book still knows; an idle book has none.
TradeSound ==
  /\ pc = "idle" => trade = NoTrade
  /\ trade # NoTrade => trade.Maker \in OrderIDs /\ trade.Taker \in OrderIDs

\* The inductive invariant.
Inv == /\ TypeOK
       /\ NeverOverfilled
       /\ LevelsAreQueues
       /\ LoopSound
       /\ TradeSound
       /\ TradesWithinLimits
       /\ SelfTradeSkipped

------------------------------------------------------------------------------
(* Sequences.                                                              *)

\* Cutting one index out of a slice keeps the other elements in their order.
LEMMA DropAtElements ==
  ASSUME NEW S, NEW s \in Seq(S), NEW i \in 1 .. Len(s)
  PROVE  /\ DropAt(s, i) \in Seq(S)
         /\ Len(DropAt(s, i)) = Len(s) - 1
         /\ \A j \in 1 .. Len(s) - 1 :
              DropAt(s, i)[j] = IF j < i THEN s[j] ELSE s[j + 1]
<1> DEFINE a == SubSeq(s, 1, i - 1)
           b == SubSeq(s, i + 1, Len(s))
<1>1. Len(s) \in Nat
  OBVIOUS
<1>2. a \in Seq(S) /\ Len(a) = i - 1 /\ \A j \in 1 .. i - 1 : a[j] = s[j]
  BY <1>1
<1>3. b \in Seq(S) /\ Len(b) = Len(s) - i /\ \A j \in 1 .. Len(s) - i : b[j] = s[i + j]
  BY <1>1
<1> HIDE DEF a, b
<1>4. /\ a \o b \in Seq(S)
      /\ Len(a \o b) = Len(a) + Len(b)
      /\ \A j \in 1 .. Len(a) + Len(b) :
           (a \o b)[j] = IF j <= Len(a) THEN a[j] ELSE b[j - Len(a)]
  BY <1>2, <1>3, ConcatProperties
<1>5. \A j \in 1 .. Len(s) - 1 : (a \o b)[j] = IF j < i THEN s[j] ELSE s[j + 1]
  <2> TAKE j \in 1 .. Len(s) - 1
  <2>1. CASE j < i
    BY <2>1, <1>1, <1>2, <1>3, <1>4
  <2>2. CASE ~(j < i)
    <3>1. j - Len(a) \in 1 .. Len(s) - i /\ ~(j <= Len(a)) /\ j \in 1 .. Len(a) + Len(b)
      BY <2>2, <1>1, <1>2, <1>3
    <3>2. b[j - Len(a)] = s[i + (j - Len(a))] /\ i + (j - Len(a)) = j + 1
      BY <3>1, <1>1, <1>2, <1>3
    <3> QED
      BY <3>1, <3>2, <2>2, <1>4
  <2> QED
    BY <2>1, <2>2
<1>6. DropAt(s, i) = a \o b
  BY DEF DropAt, a, b
<1>7. Len(a) + Len(b) = Len(s) - 1
  BY <1>1, <1>2, <1>3
<1> QED
  BY <1>4, <1>5, <1>6, <1>7

\* `new` is `old` with some elements left out.
Thinned(new, old) ==
  /\ \A i \in DOMAIN new : \E a \in DOMAIN old : new[i] = old[a]
  /\ \A i, j \in DOMAIN new : i < j =>
       \E a, b \in DOMAIN old : a < b /\ new[i] = old[a] /\ new[j] = old[b]

\* A slice thins itself, its tail thins it, and so does cutting one index out.
LEMMA Thinning ==
  ASSUME NEW S, NEW s \in Seq(S)
  PROVE  /\ Thinned(s, s)
         /\ s # <<>> => Tail(s) \in Seq(S) /\ Thinned(Tail(s), s)
         /\ \A i \in 1 .. Len(s) : DropAt(s, i) \in Seq(S) /\ Thinned(DropAt(s, i), s)
<1>0. Len(s) \in Nat /\ DOMAIN s = 1 .. Len(s)
  OBVIOUS
<1>1. Thinned(s, s)
  BY DEF Thinned
<1>2. ASSUME s # <<>>
      PROVE  Tail(s) \in Seq(S) /\ Thinned(Tail(s), s)
  <2> DEFINE t == Tail(s)
  <2>1. /\ t \in Seq(S) /\ Len(t) = Len(s) - 1 /\ DOMAIN t = 1 .. Len(s) - 1
        /\ \A i \in 1 .. Len(s) - 1 : t[i] = s[i + 1]
    BY <1>2, <1>0, HeadTailProperties
  <2> HIDE DEF t
  <2>2. \A i \in DOMAIN t : i + 1 \in DOMAIN s /\ t[i] = s[i + 1]
    BY <2>1, <1>0
  <2>3. \A i \in DOMAIN t : \E a \in DOMAIN s : t[i] = s[a]
    BY <2>2
  <2>4. ASSUME NEW i \in DOMAIN t, NEW j \in DOMAIN t, i < j
        PROVE  \E a, b \in DOMAIN s : a < b /\ t[i] = s[a] /\ t[j] = s[b]
    <3>1. i + 1 < j + 1
      BY <2>4, <2>1, <1>0
    <3> QED
      BY <3>1, <2>2
  <2> QED
    BY <2>1, <2>3, <2>4 DEF Thinned, t
<1>3. ASSUME NEW c \in 1 .. Len(s)
      PROVE  DropAt(s, c) \in Seq(S) /\ Thinned(DropAt(s, c), s)
  <2> DEFINE t == DropAt(s, c)
             at(i) == IF i < c THEN i ELSE i + 1
  <2>1. /\ t \in Seq(S) /\ Len(t) = Len(s) - 1
        /\ \A i \in 1 .. Len(s) - 1 : t[i] = IF i < c THEN s[i] ELSE s[i + 1]
    BY DropAtElements
  <2>2. DOMAIN t = 1 .. Len(s) - 1
    BY <2>1
  <2> HIDE DEF t
  <2>3. \A i \in DOMAIN t : at(i) \in DOMAIN s /\ t[i] = s[at(i)]
    BY <2>1, <2>2, <1>0
  <2>4. \A i, j \in DOMAIN t : i < j => at(i) < at(j)
    BY <2>2, <1>0
  <2> HIDE DEF at
  <2>5. Thinned(t, s)
    BY <2>3, <2>4 DEF Thinned
  <2> QED
    BY <2>1, <2>5 DEF t
<1> QED
  BY <1>1, <1>2, <1>3

------------------------------------------------------------------------------
(* Steps.                                                                  *)

\* An order that stays known keeps its owner and its terms.
SameTerms(o) ==
  /\ o \in DOMAIN orders'
  /\ orders'[o].UserID = orders[o].UserID
  /\ orders'[o].Type = orders[o].Type
  /\ orders'[o].Side = orders[o].Side
  /\ orders'[o].Price = orders[o].Price

\* A step that only takes orders out of levels and keeps the terms of those on
\* the book keeps every level a queue.
LEMMA QueuesThin ==
  ASSUME TypeOK, LevelsAreQueues,
         book' \in [Sides -> [Prices -> Seq(IDs)]],
         \A s \in Sides, p \in Prices : Thinned(book'[s][p], book[s][p]),
         \A o \in OrderIDs : OnBook(o) => SameTerms(o)
  PROVE  LevelsAreQueues'
<1> SUFFICES ASSUME NEW s \in Sides, NEW p \in Prices, NEW i \in DOMAIN book'[s][p]
             PROVE  /\ book'[s][p][i] \in DOMAIN orders'
                    /\ orders'[book'[s][p][i]].Type = "limit"
                    /\ orders'[book'[s][p][i]].Side = s
                    /\ orders'[book'[s][p][i]].Price = p
                    /\ \A j \in DOMAIN book'[s][p] :
                         i < j => book'[s][p][i] < book'[s][p][j]
  BY DEF LevelsAreQueues, OrderIDs
<1>1. PICK a \in DOMAIN book[s][p] : book'[s][p][i] = book[s][p][a]
  BY DEF Thinned
<1>2. SameTerms(book[s][p][a])
  BY DEF LevelsAreQueues, OnBook
<1>3. ASSUME NEW j \in DOMAIN book'[s][p], i < j
      PROVE  book'[s][p][i] < book'[s][p][j]
  <2>1. PICK c, d \in DOMAIN book[s][p] :
          c < d /\ book'[s][p][i] = book[s][p][c] /\ book'[s][p][j] = book[s][p][d]
    BY <1>3 DEF Thinned
  <2> QED
    BY <2>1 DEF LevelsAreQueues
<1> QED
  BY <1>1, <1>2, <1>3 DEF LevelsAreQueues, SameTerms

\* What Arrive does to the order records.
LEMMA ArriveOrders ==
  ASSUME Inv, NEW o \in IDs, NEW u \in Users, NEW type \in Types, NEW side \in Sides,
         NEW price \in Prices, NEW quantity \in Quantities, NEW ev \in Events,
         Arrive(o, NewOrder(u, type, side, price, quantity), ev)
  PROVE  /\ o \notin OrderIDs /\ \A k \in OrderIDs : k < o
         /\ OrderIDs' = OrderIDs \cup {o} /\ OrderIDs' \subseteq IDs
         /\ orders' \in [OrderIDs' -> OrderRecords]
         /\ told' \in [OrderIDs' -> Events]
         /\ traded' \in [OrderIDs' -> Nat] /\ missed' = missed
         /\ orders'[o] = NewOrder(u, type, side, price, quantity)
         /\ \A k \in OrderIDs : SameTerms(k)
         /\ NeverOverfilled'
         /\ trade = NoTrade /\ trade' = NoTrade /\ pc = "idle"
<1> DEFINE order == NewOrder(u, type, side, price, quantity)
<1>1. o \notin OrderIDs /\ \A k \in OrderIDs : k < o
  BY DEF Arrive, IsNewID, Inv, TypeOK, IDs
<1>2. order \in OrderRecords
  BY DEF NewOrder, OrderRecords, Statuses
<1>3. /\ OrderIDs' = OrderIDs \cup {o} /\ OrderIDs' \subseteq IDs
      /\ orders'[o] = order
      /\ \A k \in OrderIDs : orders'[k] = orders[k]
  BY <1>1 DEF Arrive, OrderIDs, Inv, TypeOK
<1>4. /\ orders' \in [OrderIDs' -> OrderRecords]
      /\ told' \in [OrderIDs' -> Events]
      /\ traded' \in [OrderIDs' -> Nat] /\ missed' = missed
  BY <1>2, <1>3 DEF Arrive, Inv, TypeOK
<1>5. NeverOverfilled'
  <2>1. order.Filled <= order.Quantity
    BY QuantitiesAssumption DEF NewOrder
  <2> QED
    BY <2>1, <1>3 DEF NeverOverfilled, Inv
<1>6. trade = NoTrade /\ trade' = NoTrade /\ pc = "idle"
  BY DEF Arrive, Inv, TradeSound
<1> QED
  BY <1>1, <1>3, <1>4, <1>5, <1>6 DEF SameTerms, OrderIDs

\* A step that keeps the last trade and the terms of every order keeps what is
\* known about that trade.
LEMMA TradeKept ==
  ASSUME Inv, trade' = trade, pc' # "idle", \A o \in OrderIDs : SameTerms(o)
  PROVE  TradeSound' /\ TradesWithinLimits' /\ SelfTradeSkipped'
<1>1. CASE trade = NoTrade
  BY <1>1 DEF TradeSound, TradesWithinLimits, SelfTradeSkipped
<1>2. CASE trade # NoTrade
  <2>1. SameTerms(trade.Maker) /\ SameTerms(trade.Taker)
    BY <1>2 DEF Inv, TradeSound
  <2>2. TradeSound'
    BY <2>1 DEF TradeSound, SameTerms, OrderIDs
  <2>3. SelfTradeSkipped'
    BY <1>2, <2>1 DEF Inv, SelfTradeSkipped, SameTerms
  <2>4. TradesWithinLimits'
    BY <1>2, <2>1 DEF Inv, TradesWithinLimits, SameTerms
  <2> QED
    BY <2>2, <2>3, <2>4
<1> QED
  BY <1>1, <1>2

\* Publishing a batch of well-typed events keeps told and lost well typed.
LEMMA PublishTypes ==
  ASSUME TypeOK, NEW evs \in Seq(IDs \X Events), Publish(evs)
  PROVE  told' \in [OrderIDs -> Events] /\ lost' \subseteq IDs
<1>1. PICK k \in 0 .. Len(evs) :
        /\ told' = [o \in OrderIDs |->
                      IF \E i \in 1 .. k : evs[i][1] = o
                      THEN LET i == CHOOSE i \in 1 .. k : evs[i][1] = o IN evs[i][2]
                      ELSE told[o]]
        /\ lost' = lost \cup {evs[i][1] : i \in k + 1 .. Len(evs)}
  BY DEF Publish
<1>2. \A i \in 1 .. Len(evs) : evs[i][1] \in IDs /\ evs[i][2] \in Events
  OBVIOUS
<1>3. Len(evs) \in Nat
  OBVIOUS
<1>4. ASSUME NEW o \in OrderIDs, \E i \in 1 .. k : evs[i][1] = o
      PROVE  (LET i == CHOOSE i \in 1 .. k : evs[i][1] = o IN evs[i][2]) \in Events
  <2> DEFINE c == CHOOSE i \in 1 .. k : evs[i][1] = o
  <2>1. c \in 1 .. k
    BY <1>4, Zenon
  <2> HIDE DEF c
  <2>2. evs[c][2] \in Events
    BY <2>1, <1>2, <1>3
  <2> QED
    BY <2>2 DEF c
<1>5. told' \in [OrderIDs -> Events]
  BY <1>1, <1>4 DEF TypeOK
<1>6. lost' \subseteq IDs
  <2>1. \A i \in k + 1 .. Len(evs) : evs[i][1] \in IDs
    BY <1>2, <1>3
  <2>2. lost \subseteq IDs
    BY DEF TypeOK
  <2> QED
    BY <1>1, <2>1, <2>2
<1> QED
  BY <1>5, <1>6

\* A fill of at most what both orders have left keeps the records well typed,
\* their terms, and every Filled within its Quantity.
LEMMA FillOrders ==
  ASSUME Inv, incoming \in OrderIDs, NEW m \in OrderIDs, m # incoming,
         NEW q \in Nat, q <= Remaining(m), q <= Remaining(incoming),
         NEW price \in Nat, Fill(m, q, price)
  PROVE  /\ OrderIDs' = OrderIDs
         /\ orders' \in [OrderIDs -> OrderRecords]
         /\ NeverOverfilled'
         /\ \A o \in OrderIDs : SameTerms(o)
         /\ trade' = [Maker |-> m, Taker |-> incoming, Price |-> price, Quantity |-> q]
<1> DEFINE new(o) == AfterFill(o, q)
<1>1. ASSUME NEW o \in {m, incoming}
      PROVE  /\ new(o) \in OrderRecords
             /\ new(o).UserID = orders[o].UserID /\ new(o).Type = orders[o].Type
             /\ new(o).Side = orders[o].Side /\ new(o).Price = orders[o].Price
             /\ new(o).Filled <= new(o).Quantity
  <2>1. orders[o] \in OrderRecords /\ orders[o].Filled \in Nat /\ orders[o].Quantity \in Nat
    BY QuantitiesAssumption DEF Inv, TypeOK, OrderRecords
  <2>2. orders[o].Filled + q <= orders[o].Quantity /\ orders[o].Filled + q \in Nat
    BY <2>1 DEF Remaining
  <2>3. \E st \in Statuses :
          new(o) = [orders[o] EXCEPT !.Filled = orders[o].Filled + q, !.Status = st]
    BY <2>1 DEF AfterFill, OrderRecords, Statuses
  <2> QED
    BY <2>1, <2>2, <2>3 DEF OrderRecords
<1>2. orders' = [orders EXCEPT ![m] = new(m), ![incoming] = new(incoming)]
  BY DEF Fill
<1> HIDE DEF new
<1>3. /\ DOMAIN orders' = OrderIDs
      /\ \A o \in OrderIDs : orders'[o] = IF o \in {m, incoming} THEN new(o) ELSE orders[o]
  BY <1>2 DEF OrderIDs, Inv, TypeOK
<1>4. orders' \in [OrderIDs -> OrderRecords]
  BY <1>1, <1>2 DEF Inv, TypeOK
<1>5. \A o \in OrderIDs : SameTerms(o)
  BY <1>1, <1>3 DEF SameTerms
<1>6. NeverOverfilled'
  BY <1>1, <1>3 DEF NeverOverfilled, OrderIDs, Inv
<1> QED
  BY <1>3, <1>4, <1>5, <1>6 DEF Fill, OrderIDs

\* Appending a new limit order to the level of its side and price keeps every
\* level a queue.
LEMMA QueuesAdd ==
  ASSUME TypeOK, LevelsAreQueues,
         NEW side \in Sides, NEW price \in Prices, NEW o \in IDs,
         book' = Add(side, price, o),
         \A k \in OrderIDs : SameTerms(k),
         o \in OrderIDs', orders'[o].Type = "limit",
         orders'[o].Side = side, orders'[o].Price = price,
         \A s \in Sides, p \in Prices : \A i \in DOMAIN book[s][p] : book[s][p][i] < o
  PROVE  book' \in [Sides -> [Prices -> Seq(IDs)]] /\ LevelsAreQueues'
<1> DEFINE q == book[side][price]
<1>1. q \in Seq(IDs) /\ Len(q) \in Nat /\ DOMAIN q = 1 .. Len(q)
  BY DEF TypeOK
<1>2. /\ Append(q, o) \in Seq(IDs)
      /\ DOMAIN Append(q, o) = 1 .. Len(q) + 1
      /\ \A i \in 1 .. Len(q) : Append(q, o)[i] = q[i]
      /\ Append(q, o)[Len(q) + 1] = o
  BY <1>1
<1>3. /\ book' \in [Sides -> [Prices -> Seq(IDs)]]
      /\ \A s \in Sides, p \in Prices :
           book'[s][p] = IF s = side /\ p = price THEN Append(q, o) ELSE book[s][p]
  <2> DEFINE r == Append(q, o)
  <2>1. book' = [book EXCEPT ![side][price] = r]
    BY DEF Add
  <2>0. r \in Seq(IDs)
    BY <1>2
  <2> HIDE DEF r
  <2>2. /\ book' \in [Sides -> [Prices -> Seq(IDs)]]
        /\ \A s \in Sides, p \in Prices :
             book'[s][p] = IF s = side /\ p = price THEN r ELSE book[s][p]
    BY <2>0, <2>1 DEF TypeOK
  <2> QED
    BY <2>2 DEF r
<1> SUFFICES ASSUME NEW s \in Sides, NEW p \in Prices, NEW i \in DOMAIN book'[s][p]
             PROVE  /\ book'[s][p][i] \in DOMAIN orders'
                    /\ orders'[book'[s][p][i]].Type = "limit"
                    /\ orders'[book'[s][p][i]].Side = s
                    /\ orders'[book'[s][p][i]].Price = p
                    /\ \A j \in DOMAIN book'[s][p] :
                         i < j => book'[s][p][i] < book'[s][p][j]
  BY <1>3 DEF LevelsAreQueues, OrderIDs
<1>4. CASE ~(s = side /\ p = price)
  <2>1. book'[s][p] = book[s][p]
    BY <1>3, <1>4
  <2>2. SameTerms(book[s][p][i])
    BY <2>1 DEF LevelsAreQueues
  <2> QED
    BY <2>1, <2>2 DEF LevelsAreQueues, SameTerms
<1>5. CASE s = side /\ p = price
  <2>1. /\ book'[s][p] = Append(q, o) /\ DOMAIN book'[s][p] = 1 .. Len(q) + 1
    BY <1>2, <1>3, <1>5
  <2>2. CASE i = Len(q) + 1
    BY <2>1, <2>2, <1>1, <1>2, <1>5 DEF OrderIDs
  <2>3. CASE i # Len(q) + 1
    <3>1. i \in DOMAIN q /\ book'[s][p][i] = q[i]
      BY <2>1, <2>3, <1>1, <1>2
    <3>2. SameTerms(q[i]) /\ orders[q[i]].Type = "limit" /\ orders[q[i]].Side = s
          /\ orders[q[i]].Price = p
      BY <3>1, <1>5 DEF LevelsAreQueues
    <3>3. ASSUME NEW j \in DOMAIN book'[s][p], i < j
          PROVE  q[i] < book'[s][p][j]
      <4>1. CASE j = Len(q) + 1
        BY <4>1, <3>1, <2>1, <1>2
      <4>2. CASE j # Len(q) + 1
        <5>1. j \in DOMAIN q /\ book'[s][p][j] = q[j]
          BY <4>2, <2>1, <1>1, <1>2
        <5> QED
          BY <5>1, <3>1, <3>3 DEF LevelsAreQueues
      <4> QED
        BY <4>1, <4>2
    <3> QED
      BY <3>1, <3>2, <3>3 DEF SameTerms
  <2> QED
    BY <2>2, <2>3
<1> QED
  BY <1>4, <1>5

\* Orders on the book are known, so a new ID is above all of them.
LEMMA BookBelow ==
  ASSUME Inv, NEW o \in IDs, \A k \in OrderIDs : k < o
  PROVE  \A s \in Sides, p \in Prices : \A i \in DOMAIN book[s][p] : book[s][p][i] < o
BY DEF Inv, LevelsAreQueues

Answers == {"nil", "ErrOrderbookEmpty", "ErrOrderNotFoundInOrderbook"}

\* The end of an operation resets the loop, which is then sound.
LEMMA ReturnTypes ==
  ASSUME NEW e \in Answers, Return(e)
  PROVE  /\ pc' = "return" /\ incoming' \in 0 .. MaxOrders
         /\ level' \in Prices \cup {NoLevel} /\ todo' \in Seq(IDs)
         /\ idx' \in Nat \ {0} /\ pending' \in Seq(IDs \X Events) /\ tape' \in Seq(Trades)
         /\ err' \in Answers
         /\ LoopSound'
<1>1. pc' = "return" /\ incoming' = 0 /\ level' = NoLevel /\ todo' = <<>> /\ idx' = 1
      /\ pending' = <<>> /\ tape' = <<>> /\ err' = e
  BY DEF Return
<1>2. LoopSound'
  BY <1>1 DEF LoopSound, Matching
<1>3. 0 \in 0 .. MaxOrders
  BY BoundsAssumption
<1> QED
  BY <1>1, <1>2, <1>3

\* One lemma per action: it keeps the inductive invariant.
LEMMA StepSeed ==
  ASSUME Inv, NEW o \in IDs, NEW u \in Users, NEW s \in Sides, NEW p \in Prices,
         NEW q \in Quantities, Seed(o, NewOrder(u, "limit", s, p, q))
  PROVE  Inv'
<1> DEFINE order == NewOrder(u, "limit", s, p, q)
<1>1. Arrive(o, order, Unpublished) /\ Unpublished \in Events
  BY DEF Seed, Unpublished, Event, Events
<1>2. /\ \A k \in OrderIDs : k < o
      /\ o \in OrderIDs' /\ orders'[o] = order
      /\ OrderIDs' \subseteq IDs
      /\ orders' \in [OrderIDs' -> OrderRecords]
      /\ told' \in [OrderIDs' -> Events]
      /\ traded' \in [OrderIDs' -> Nat] /\ missed' = missed
      /\ \A k \in OrderIDs : SameTerms(k)
      /\ NeverOverfilled'
      /\ trade' = NoTrade /\ trade' = trade
  BY <1>1, ArriveOrders DEF Types
<1>3. order.Type = "limit" /\ order.Side = s /\ order.Price = p
  BY DEF NewOrder
<1>4. book' \in [Sides -> [Prices -> Seq(IDs)]] /\ LevelsAreQueues'
  <2>1. book' = Add(s, p, o)
    BY <1>3 DEF Seed
  <2> QED
    BY <2>1, <1>2, <1>3, BookBelow, QueuesAdd DEF Inv
<1>5. Return("nil") /\ lost' = lost
  BY DEF Seed
<1>6. TypeOK' /\ LoopSound' /\ pc' # "idle"
  BY <1>2, <1>4, <1>5, ReturnTypes DEF Inv, TypeOK, Answers
<1>7. TradeSound' /\ TradesWithinLimits' /\ SelfTradeSkipped'
  BY <1>2, <1>6, TradeKept
<1> QED
  BY <1>2, <1>4, <1>6, <1>7 DEF Inv

\* A step that leaves the levels alone keeps them queues.
LEMMA QueuesSame ==
  ASSUME TypeOK, LevelsAreQueues, book' = book,
         \A o \in OrderIDs : OnBook(o) => SameTerms(o)
  PROVE  LevelsAreQueues'
<1>1. book' \in [Sides -> [Prices -> Seq(IDs)]]
  BY DEF TypeOK
<1>2. ASSUME NEW s \in Sides, NEW p \in Prices
      PROVE  Thinned(book'[s][p], book[s][p])
  <2>1. book[s][p] \in Seq(IDs)
    BY DEF TypeOK
  <2> QED
    BY <2>1, Thinning
<1> QED
  BY <1>1, <1>2, QueuesThin

\* The parts of the invariant that an arrival alone settles when the levels
\* stay as they are.
LEMMA ArriveKeeps ==
  ASSUME Inv, NEW o \in IDs, NEW u \in Users, NEW type \in Types, NEW side \in Sides,
         NEW price \in Prices, NEW quantity \in Quantities, NEW ev \in Events,
         Arrive(o, NewOrder(u, type, side, price, quantity), ev),
         book' = book, pc' # "idle"
  PROVE  /\ OrderIDs' \subseteq IDs
         /\ orders' \in [OrderIDs' -> OrderRecords]
         /\ book' \in [Sides -> [Prices -> Seq(IDs)]]
         /\ trade' \in [Maker : 0 .. MaxOrders, Taker : 0 .. MaxOrders, Price : Nat,
                        Quantity : Nat]
         /\ told' \in [OrderIDs' -> Events]
         /\ traded' \in [OrderIDs' -> Nat] /\ missed' \subseteq IDs
         /\ NeverOverfilled' /\ LevelsAreQueues'
         /\ TradeSound' /\ TradesWithinLimits' /\ SelfTradeSkipped'
<1>1. /\ OrderIDs' \subseteq IDs
      /\ orders' \in [OrderIDs' -> OrderRecords]
      /\ told' \in [OrderIDs' -> Events]
      /\ traded' \in [OrderIDs' -> Nat] /\ missed' = missed
      /\ \A k \in OrderIDs : SameTerms(k)
      /\ NeverOverfilled'
      /\ trade' = trade
  BY ArriveOrders
<1>2. LevelsAreQueues'
  BY <1>1, QueuesSame DEF Inv
<1>3. TradeSound' /\ TradesWithinLimits' /\ SelfTradeSkipped'
  BY <1>1, TradeKept
<1> QED
  BY <1>1, <1>2, <1>3 DEF Inv, TypeOK

\* An order that meets an empty other side is returned to its caller: the
\* levels stay as they were.
LEMMA StepEmptyBook ==
  ASSUME Inv, NEW o \in IDs, NEW u \in Users, NEW type \in Types, NEW s \in Sides,
         NEW p \in Prices, NEW q \in Quantities,
         EmptyBook(o, NewOrder(u, type, s, p, q))
  PROVE  Inv'
<1>1. /\ Arrive(o, NewOrder(u, type, s, p, q), Unpublished) /\ Unpublished \in Events
      /\ Return("ErrOrderbookEmpty") /\ book' = book /\ lost' = lost
  BY DEF EmptyBook, Unpublished, Event, Events
<1>2. /\ pc' = "return" /\ incoming' \in 0 .. MaxOrders
      /\ level' \in Prices \cup {NoLevel} /\ todo' \in Seq(IDs)
      /\ idx' \in Nat \ {0} /\ pending' \in Seq(IDs \X Events) /\ tape' \in Seq(Trades)
      /\ err' \in Answers /\ LoopSound'
  BY <1>1, ReturnTypes DEF Answers
<1> QED
  BY <1>1, <1>2, ArriveKeeps DEF Inv, TypeOK, Answers

\* A limit order out of reach of the best level changes no level either.
LEMMA StepLimitNoMatch ==
  ASSUME Inv, NEW o \in IDs, NEW u \in Users, NEW s \in Sides, NEW p \in Prices,
         NEW q \in Quantities, LimitNoMatch(o, NewOrder(u, "limit", s, p, q))
  PROVE  Inv'
<1>1. PICK ev \in Events : Arrive(o, NewOrder(u, "limit", s, p, q), ev)
  BY DEF LimitNoMatch, Unpublished, Event, Events
<1>2. Return("nil") /\ book' = book /\ lost' \subseteq IDs
  BY DEF LimitNoMatch, Inv, TypeOK
<1>3. /\ pc' = "return" /\ incoming' \in 0 .. MaxOrders
      /\ level' \in Prices \cup {NoLevel} /\ todo' \in Seq(IDs)
      /\ idx' \in Nat \ {0} /\ pending' \in Seq(IDs \X Events) /\ tape' \in Seq(Trades)
      /\ err' \in Answers /\ LoopSound'
  BY <1>2, ReturnTypes DEF Answers
<1>4. "limit" \in Types
  BY DEF Types
<1> QED
  BY <1>1, <1>2, <1>3, <1>4, ArriveKeeps DEF Inv, TypeOK, Answers

\* The limit loop starts on a level it reaches, with a copy of that queue.
LEMMA StepLimitBegin ==
  ASSUME Inv, NEW o \in IDs, NEW u \in Users, NEW s \in Sides, NEW p \in Prices,
         NEW q \in Quantities, LimitBegin(o, NewOrder(u, "limit", s, p, q))
  PROVE  Inv'
<1> DEFINE order == NewOrder(u, "limit", s, p, q)
<1>1. /\ Arrive(o, order, Unpublished) /\ Unpublished \in Events /\ "limit" \in Types
      /\ pc' = "limit" /\ incoming' = o /\ book' = book /\ idx' = idx
      /\ pending' = pending /\ tape' = tape /\ lost' = lost /\ err' = err
  BY DEF LimitBegin, Unpublished, Event, Events, Types
<1>2. order.Type = "limit" /\ order.Side = s /\ order.Price = p
  BY DEF NewOrder
<1>3. PICK l \in Prices : /\ Reaches(s, l, p) /\ level' = l
                          /\ todo' = book[Opposite(s)][l]
  BY <1>2 DEF LimitBegin
<1>4. todo' \in Seq(IDs) /\ Opposite(s) \in Sides
  BY <1>3 DEF Inv, TypeOK, Opposite, Sides
<1>5. /\ \A k \in OrderIDs : k < o
      /\ OrderIDs' = OrderIDs \cup {o} /\ orders'[o] = order
      /\ \A k \in OrderIDs : SameTerms(k)
  BY <1>1, ArriveOrders
<1>6. LoopSound'
  <2>1. \A z \in Sides, l2 \in Prices : \A i \in DOMAIN book'[z][l2] : book'[z][l2][i] < o
    BY <1>1, <1>5, BookBelow
  <2>2. ASSUME NEW i \in DOMAIN todo'
        PROVE  /\ todo'[i] \in OrderIDs' /\ todo'[i] < o
               /\ orders'[todo'[i]].Side = Opposite(s)
               /\ orders'[todo'[i]].Price = l
    <3>1. /\ todo'[i] \in OrderIDs /\ orders[todo'[i]].Side = Opposite(s)
          /\ orders[todo'[i]].Price = l
      BY <1>3, <1>4 DEF Inv, LevelsAreQueues
    <3> QED
      BY <3>1, <1>5 DEF SameTerms
  <2> QED
    BY <2>1, <2>2, <1>1, <1>2, <1>3, <1>5 DEF LoopSound, Matching, OrderIDs
<1>7. incoming' \in 0 .. MaxOrders
  BY <1>1, BoundsAssumption DEF IDs
<1> HIDE DEF order
<1>8. /\ OrderIDs' \subseteq IDs
      /\ orders' \in [OrderIDs' -> OrderRecords]
      /\ book' \in [Sides -> [Prices -> Seq(IDs)]]
      /\ trade' \in [Maker : 0 .. MaxOrders, Taker : 0 .. MaxOrders, Price : Nat,
                     Quantity : Nat]
      /\ told' \in [OrderIDs' -> Events]
      /\ traded' \in [OrderIDs' -> Nat] /\ missed' \subseteq IDs
      /\ NeverOverfilled' /\ LevelsAreQueues'
      /\ TradeSound' /\ TradesWithinLimits' /\ SelfTradeSkipped'
  BY <1>1, ArriveKeeps DEF order
<1> QED
  BY <1>1, <1>3, <1>4, <1>6, <1>7, <1>8 DEF Inv, TypeOK

\* The market loop starts on the best level, before its first order.
LEMMA StepMarketBegin ==
  ASSUME Inv, NEW o \in IDs, NEW u \in Users, NEW s \in Sides, NEW p \in Prices,
         NEW q \in Quantities, MarketBegin(o, NewOrder(u, "market", s, p, q))
  PROVE  Inv'
<1> DEFINE order == NewOrder(u, "market", s, p, q)
<1>1. /\ Arrive(o, order, Unpublished) /\ Unpublished \in Events /\ "market" \in Types
      /\ pc' = "market" /\ incoming' = o /\ book' = book /\ idx' = idx /\ todo' = todo
      /\ pending' = pending /\ tape' = tape /\ lost' = lost /\ err' = err
      /\ level' \in Prices
  BY DEF MarketBegin, Unpublished, Event, Events, Types
<1>2. (\A k \in OrderIDs : k < o) /\ OrderIDs' = OrderIDs \cup {o} /\ orders'[o] = order
  BY <1>1, ArriveOrders
<1>6. order.Type = "market"
  BY DEF NewOrder
<1>3. LoopSound'
  <2>1. \A z \in Sides, l \in Prices : \A i \in DOMAIN book'[z][l] : book'[z][l][i] < o
    BY <1>1, <1>2, BookBelow
  <2> QED
    BY <2>1, <1>1, <1>2, <1>6 DEF LoopSound, Matching, OrderIDs
<1>4. incoming' \in 0 .. MaxOrders
  BY <1>1, BoundsAssumption DEF IDs
<1> HIDE DEF order
<1>5. /\ OrderIDs' \subseteq IDs
      /\ orders' \in [OrderIDs' -> OrderRecords]
      /\ book' \in [Sides -> [Prices -> Seq(IDs)]]
      /\ trade' \in [Maker : 0 .. MaxOrders, Taker : 0 .. MaxOrders, Price : Nat,
                     Quantity : Nat]
      /\ told' \in [OrderIDs' -> Events]
      /\ traded' \in [OrderIDs' -> Nat] /\ missed' \subseteq IDs
      /\ NeverOverfilled' /\ LevelsAreQueues'
      /\ TradeSound' /\ TradesWithinLimits' /\ SelfTradeSkipped'
  BY <1>1, ArriveKeeps DEF order
<1> QED
  BY <1>1, <1>3, <1>4, <1>5 DEF Inv, TypeOK

------------------------------------------------------------------------------
(* The loops.                                                              *)

\* The step takes orders out of levels and puts none in.
BookThins ==
  /\ book' \in [Sides -> [Prices -> Seq(IDs)]]
  /\ \A s \in Sides, p \in Prices : Thinned(book'[s][p], book[s][p])

\* Leaving the levels alone, PopFront and cutting one index out all thin them.
LEMMA SameThins ==
  ASSUME TypeOK, book' = book
  PROVE  BookThins
<1>1. \A s \in Sides, p \in Prices : book[s][p] \in Seq(IDs)
  BY DEF TypeOK
<1>2. \A s \in Sides, p \in Prices : Thinned(book[s][p], book[s][p])
  BY <1>1, Thinning
<1> QED
  BY <1>2 DEF BookThins, TypeOK

\* PopFront leaves every level a subsequence of what it was.
LEMMA PopFrontThins ==
  ASSUME TypeOK, NEW side \in Sides, book' = PopFront(side)
  PROVE  BookThins
<1>1. \A s \in Sides, p \in Prices : book[s][p] \in Seq(IDs)
  BY DEF TypeOK
<1>2. ASSUME NEW s \in Sides, NEW p \in Prices
      PROVE  /\ Thinned(book[s][p], book[s][p])
             /\ IsBest(s, p) => Tail(book[s][p]) \in Seq(IDs) /\ Thinned(Tail(book[s][p]), book[s][p])
  BY <1>1, Thinning DEF IsBest
<1>3. /\ DOMAIN book' = Sides
      /\ \A s \in Sides : s # side => book'[s] = book[s]
      /\ book'[side] = [p \in Prices |-> IF IsBest(side, p) THEN Tail(book[side][p])
                                                            ELSE book[side][p]]
  BY DEF TypeOK, PopFront
<1>4. book' \in [Sides -> [Prices -> Seq(IDs)]]
  <2>1. book'[side] \in [Prices -> Seq(IDs)]
    BY <1>1, <1>2, <1>3
  <2>2. book' = [s \in Sides |-> book'[s]]
    BY DEF TypeOK, PopFront
  <2>3. \A s \in Sides : book'[s] \in [Prices -> Seq(IDs)]
    BY <2>1, <1>3 DEF TypeOK
  <2> QED
    BY <2>2, <2>3
<1>5. ASSUME NEW s \in Sides, NEW p \in Prices
      PROVE  Thinned(book'[s][p], book[s][p])
  <2>1. book'[s][p] = IF s = side /\ IsBest(s, p) THEN Tail(book[s][p]) ELSE book[s][p]
    BY <1>3
  <2> QED
    BY <2>1, <1>2
<1> QED
  BY <1>4, <1>5 DEF BookThins

\* So does cutting one index out of a level.
LEMMA RemoveAtThins ==
  ASSUME TypeOK, NEW side \in Sides, NEW price \in Prices,
         NEW i \in DOMAIN book[side][price], book' = RemoveAt(side, price, i)
  PROVE  BookThins
<1> DEFINE r == DropAt(book[side][price], i)
<1>1. \A s \in Sides, p \in Prices : book[s][p] \in Seq(IDs)
  BY DEF TypeOK
<1>2. i \in 1 .. Len(book[side][price])
  BY <1>1
<1>3. r \in Seq(IDs) /\ Thinned(r, book[side][price])
  BY <1>1, <1>2, Thinning
<1>4. book' = [book EXCEPT ![side][price] = r]
  BY DEF RemoveAt
<1> HIDE DEF r
<1>5. /\ book' \in [Sides -> [Prices -> Seq(IDs)]]
      /\ \A s \in Sides, p \in Prices :
           book'[s][p] = IF s = side /\ p = price THEN r ELSE book[s][p]
  BY <1>3, <1>4 DEF TypeOK
<1>6. ASSUME NEW s \in Sides, NEW p \in Prices
      PROVE  Thinned(book'[s][p], book[s][p])
  <2>1. Thinned(book[s][p], book[s][p])
    BY <1>1, Thinning
  <2> QED
    BY <2>1, <1>3, <1>5
<1> QED
  BY <1>5, <1>6 DEF BookThins

\* One turn of a loop that goes on: the taker stays above the book, and what
\* MatchLimit has still to visit is the tail of what it had.
LEMMA LoopThins ==
  ASSUME Inv, Matching, pc' = pc, incoming' = incoming, BookThins,
         \A o \in OrderIDs : SameTerms(o),
         pc = "limit" => level' = level /\ todo # <<>> /\ todo' = Tail(todo)
  PROVE  LoopSound'
<1>1. incoming \in OrderIDs /\ SameTerms(incoming)
  BY DEF Inv, LoopSound
<1>2. ASSUME NEW s \in Sides, NEW p \in Prices, NEW i \in DOMAIN book'[s][p]
      PROVE  book'[s][p][i] < incoming
  <2>1. PICK a \in DOMAIN book[s][p] : book'[s][p][i] = book[s][p][a]
    BY DEF BookThins, Thinned
  <2> QED
    BY <2>1 DEF Inv, LoopSound
<1>3. ASSUME pc = "limit", NEW i \in DOMAIN todo'
      PROVE  /\ todo'[i] \in DOMAIN orders' /\ todo'[i] < incoming
             /\ orders'[todo'[i]].Side = Opposite(orders'[incoming].Side)
             /\ orders'[todo'[i]].Price = level
  <2>1. PICK a \in DOMAIN todo : todo'[i] = todo[a]
    <3>1. todo \in Seq(IDs) /\ todo # <<>>
      BY <1>3 DEF Inv, TypeOK
    <3>2. Thinned(Tail(todo), todo)
      BY <3>1, Thinning
    <3> QED
      BY <3>2, <1>3 DEF Thinned
  <2>2. /\ todo[a] \in OrderIDs /\ todo[a] < incoming
        /\ orders[todo[a]].Side = Opposite(orders[incoming].Side)
        /\ orders[todo[a]].Price = level
    BY <1>3 DEF Inv, LoopSound
  <2> QED
    BY <2>1, <2>2, <1>1 DEF SameTerms
<1> QED
  BY <1>1, <1>2, <1>3 DEF LoopSound, Inv, SameTerms, OrderIDs, Matching

\* Skipping an order only shortens what the limit loop has left.
LEMMA StepLimitSkip ==
  ASSUME Inv, LimitSkip
  PROVE  Inv'
<1>1. /\ pc = "limit" /\ todo # <<>> /\ todo' = Tail(todo)
      /\ UNCHANGED <<orders, book, pc, incoming, level, idx, pending, tape, trade, told,
                     traded, lost, missed, err>>
  BY DEF LimitSkip
<1>2. todo' \in Seq(IDs)
  BY <1>1, Thinning DEF Inv, TypeOK
<1>3. TypeOK'
  BY <1>1, <1>2 DEF Inv, TypeOK, OrderIDs
<1>4. \A o \in OrderIDs : SameTerms(o)
  BY <1>1 DEF SameTerms, OrderIDs
<1>5. LoopSound'
  BY <1>1, <1>4, SameThins, LoopThins DEF Inv, Matching
<1>6. LevelsAreQueues'
  BY <1>1, <1>4, QueuesSame DEF Inv
<1>7. TradeSound' /\ TradesWithinLimits' /\ SelfTradeSkipped'
  BY <1>1, <1>4, TradeKept
<1>8. NeverOverfilled'
  BY <1>1 DEF Inv, NeverOverfilled, OrderIDs
<1> QED
  BY <1>3, <1>5, <1>6, <1>7, <1>8 DEF Inv

\* fillQty is a quantity, and no more than either order has left.
LEMMA FillQtyBounds ==
  ASSUME Inv, incoming \in OrderIDs, NEW m \in OrderIDs
  PROVE  /\ FillQty(m) \in Nat
         /\ FillQty(m) <= Remaining(m) /\ FillQty(m) <= Remaining(incoming)
<1>1. \A o \in OrderIDs : /\ orders[o].Filled \in Nat /\ orders[o].Quantity \in Nat
                          /\ orders[o].Filled <= orders[o].Quantity
  BY QuantitiesAssumption DEF Inv, TypeOK, OrderRecords, NeverOverfilled
<1>2. \A o \in OrderIDs : Remaining(o) \in Nat
  BY <1>1 DEF Remaining
<1> QED
  BY <1>2 DEF FillQty

\* The event of a fill is well typed.
LEMMA FillEventType ==
  ASSUME Inv, NEW o \in OrderIDs, NEW q \in Nat
  PROVE  FillEvent(o, q) \in Events
<1>1. orders[o].Filled \in Nat
  BY DEF Inv, TypeOK, OrderRecords
<1>2. orders[o].Filled + q \in Nat
  BY <1>1
<1> QED
  BY <1>2 DEF FillEvent, Event, Events

\* A trade event keeps the sums well typed.
LEMMA TradeEventType ==
  ASSUME Inv, incoming \in OrderIDs, NEW m \in OrderIDs, NEW q \in Nat
  PROVE  TradeEvent(m, q) \in [OrderIDs -> Nat]
<1>1. \A o \in OrderIDs : traded[o] \in Nat
  BY DEF Inv, TypeOK
<1>2. traded[m] + q \in Nat /\ traded[incoming] + q \in Nat /\ (traded[m] + q) + q \in Nat
  BY <1>1
<1> QED
  BY <1>2 DEF TradeEvent, Inv, TypeOK

\* So does publishing one, whether it goes out or not.
LEMMA PublishTradeTypes ==
  ASSUME Inv, incoming \in OrderIDs, NEW m \in OrderIDs, NEW q \in Nat, PublishTrade(m, q)
  PROVE  traded' \in [OrderIDs -> Nat] /\ missed' \subseteq IDs
<1>1. TradeEvent(m, q) \in [OrderIDs -> Nat]
  BY TradeEventType
<1>2. traded \in [OrderIDs -> Nat] /\ missed \subseteq IDs /\ {m, incoming} \subseteq IDs
  BY DEF Inv, TypeOK
<1> QED
  BY <1>1, <1>2 DEF PublishTrade

\* What the trades of a batch say was traded of an order is a quantity.
LEMMA TradedOfType ==
  ASSUME TypeOK, NEW k \in 0 .. Len(tape), NEW o
  PROVE  TradedOf(o, k) \in Nat
<1>1. /\ Len(tape) \in Nat
      /\ \A i \in 1 .. Len(tape) : tape[i].quantity \in Nat /\ tape[i].total \in Nat
  <2>1. tape \in Seq(Trades) /\ Len(tape) \in Nat
    BY DEF TypeOK
  <2>2. \A i \in 1 .. Len(tape) : tape[i] \in Trades
    BY <2>1
  <2> QED
    BY <2>1, <2>2 DEF Trades
<1>2. CASE o = incoming
  BY <1>1, <1>2 DEF TradedOf
<1>3. CASE o # incoming /\ \E i \in 1 .. k : tape[i].maker = o
  <2> DEFINE c == CHOOSE i \in 1 .. k : tape[i].maker = o
  <2>1. c \in 1 .. k
    BY <1>3, Zenon
  <2> HIDE DEF c
  <2>2. tape[c].quantity \in Nat
    BY <2>1, <1>1
  <2> QED
    BY <2>2, <1>3 DEF TradedOf, c
<1>4. CASE o # incoming /\ ~\E i \in 1 .. k : tape[i].maker = o
  BY <1>4 DEF TradedOf
<1> QED
  BY <1>2, <1>3, <1>4

\* A batch of trades keeps the sums well typed, however far it gets.
LEMMA PublishTradeBatchTypes ==
  ASSUME TypeOK, incoming \in OrderIDs, PublishTradeBatch
  PROVE  traded' \in [OrderIDs -> Nat] /\ missed' \subseteq IDs
<1>1. PICK k \in 0 .. Len(tape) :
        /\ traded' = [o \in OrderIDs |-> traded[o] + TradedOf(o, k)]
        /\ missed' = missed \cup {tape[i].maker : i \in k + 1 .. Len(tape)}
                            \cup {o \in {incoming} : k < Len(tape)}
  BY DEF PublishTradeBatch
<1>2. ASSUME NEW o \in OrderIDs
      PROVE  traded[o] + TradedOf(o, k) \in Nat
  <2>1. TradedOf(o, k) \in Nat /\ traded[o] \in Nat
    BY TradedOfType DEF TypeOK
  <2> QED
    BY <2>1
<1>3. ASSUME NEW i \in k + 1 .. Len(tape)
      PROVE  tape[i].maker \in IDs
  <2>1. i \in 1 .. Len(tape) /\ tape \in Seq(Trades)
    BY DEF TypeOK
  <2>2. tape[i] \in Trades
    BY <2>1
  <2> QED
    BY <2>2 DEF Trades
<1>4. missed' \subseteq IDs
  BY <1>1, <1>3 DEF TypeOK
<1> QED
  BY <1>1, <1>2, <1>4

\* The next trade of a batch is well typed.
LEMMA OnTapeType ==
  ASSUME TypeOK, NEW m \in IDs, NEW q \in Nat
  PROVE  OnTape(m, q) \in Trades
<1>1. CASE tape = <<>>
  BY <1>1 DEF OnTape, Trades
<1>2. CASE tape # <<>>
  <2>1. Len(tape) \in 1 .. Len(tape) /\ tape \in Seq(Trades)
    BY <1>2 DEF TypeOK
  <2>2. tape[Len(tape)] \in Trades
    BY <2>1
  <2>3. tape[Len(tape)].total \in Nat
    BY <2>2 DEF Trades
  <2>4. q + tape[Len(tape)].total \in Nat
    BY <2>3
  <2> QED
    BY <2>4, <1>2 DEF OnTape, Trades
<1> QED
  BY <1>1, <1>2

\* A limit fill takes at most what either order has, trades at the taker's
\* price, which reaches the level, and thins the level by one order.
LEMMA StepLimitFill ==
  ASSUME Inv, LimitFill
  PROVE  Inv'
<1> DEFINE m == Head(todo)
           q == FillQty(m)
<1>1. /\ pc = "limit" /\ todo # <<>> /\ ~LimitSkips(m)
      /\ Fill(m, q, Taker.Price)
      /\ PublishTrade(m, q) \/ UNCHANGED <<traded, missed>>
      /\ book' = PopFront(Opposite(Taker.Side)) \/ book' = book
      /\ Publish(<< <<m, FillEvent(m, q)>>, <<incoming, FillEvent(incoming, q)>> >>)
      /\ \/ Return("nil")
         \/ /\ todo' = Tail(todo)
            /\ UNCHANGED <<pc, incoming, level, idx, pending, tape, err>>
  BY DEF LimitFill
<1>2. m = todo[1] /\ 1 \in DOMAIN todo
  BY <1>1 DEF Inv, TypeOK
<1> HIDE DEF m
<1>3. /\ m \in OrderIDs /\ m # incoming /\ incoming \in OrderIDs
      /\ orders[m].Side = Opposite(orders[incoming].Side)
      /\ orders[m].Price = level
      /\ orders[incoming].Type = "limit"
      /\ Reaches(orders[incoming].Side, level, orders[incoming].Price)
      /\ level \in Prices
  BY <1>1, <1>2 DEF Inv, TypeOK, LoopSound, Matching, IDs
<1>4. /\ orders[m].UserID # orders[incoming].UserID /\ q # 0
      /\ orders[incoming].Price \in Nat /\ level \in Nat
      /\ orders[incoming].Side \in Sides
  BY <1>1, <1>3, PricesAssumption DEF LimitSkips, Taker, Inv, TypeOK, OrderRecords
<1>5. q \in Nat /\ q <= Remaining(m) /\ q <= Remaining(incoming)
  BY <1>3, FillQtyBounds
<1> HIDE DEF q
<1>6. /\ OrderIDs' = OrderIDs
      /\ orders' \in [OrderIDs -> OrderRecords]
      /\ NeverOverfilled'
      /\ \A o \in OrderIDs : SameTerms(o)
      /\ trade' = [Maker |-> m, Taker |-> incoming, Price |-> orders[incoming].Price,
                   Quantity |-> q]
  BY <1>1, <1>3, <1>4, <1>5, FillOrders DEF Taker
<1>7. told' \in [OrderIDs -> Events] /\ lost' \subseteq IDs
  <2>1. FillEvent(m, q) \in Events /\ FillEvent(incoming, q) \in Events
    BY <1>3, <1>5, FillEventType
  <2>2. m \in IDs /\ incoming \in IDs
    BY <1>3 DEF Inv, TypeOK
  <2>3. << <<m, FillEvent(m, q)>>, <<incoming, FillEvent(incoming, q)>> >> \in Seq(IDs \X Events)
    BY <2>1, <2>2
  <2> QED
    BY <2>3, <1>1, PublishTypes DEF Inv
<1>8. traded' \in [OrderIDs -> Nat] /\ missed' \subseteq IDs
  <2>1. CASE PublishTrade(m, q)
    BY <2>1, <1>3, <1>5, PublishTradeTypes
  <2>2. CASE UNCHANGED <<traded, missed>>
    BY <2>2 DEF Inv, TypeOK
  <2> QED
    BY <2>1, <2>2, <1>1
<1>9. BookThins
  BY <1>1, <1>4, PopFrontThins, SameThins DEF Inv, Taker, Opposite, Sides
<1>10. LevelsAreQueues'
  BY <1>6, <1>9, QueuesThin DEF Inv, BookThins
<1>11. /\ pc' \in {"limit", "return"} /\ incoming' \in 0 .. MaxOrders
       /\ level' \in Prices \cup {NoLevel} /\ todo' \in Seq(IDs)
       /\ idx' \in Nat \ {0} /\ pending' \in Seq(IDs \X Events) /\ tape' \in Seq(Trades)
       /\ err' \in Answers /\ LoopSound'
  <2>1. CASE Return("nil")
    BY <2>1, ReturnTypes DEF Answers
  <2>2. CASE todo' = Tail(todo) /\ UNCHANGED <<pc, incoming, level, idx, pending, tape, err>>
    <3>1. todo' \in Seq(IDs)
      BY <2>2, <1>1, Thinning DEF Inv, TypeOK
    <3>2. LoopSound'
      BY <2>2, <1>1, <1>6, <1>9, LoopThins DEF Matching
    <3> QED
      BY <3>1, <3>2, <2>2, <1>1 DEF Inv, TypeOK, Answers
  <2> QED
    BY <2>1, <2>2, <1>1
<1>12. TypeOK'
  <2>1. trade' \in [Maker : 0 .. MaxOrders, Taker : 0 .. MaxOrders, Price : Nat, Quantity : Nat]
    <3>1. OrderIDs \subseteq IDs
      BY DEF Inv, TypeOK
    <3>2. m \in 0 .. MaxOrders /\ incoming \in 0 .. MaxOrders
      BY <3>1, <1>3, BoundsAssumption DEF IDs
    <3> QED
      BY <3>2, <1>4, <1>5, <1>6
  <2>2. OrderIDs' \subseteq IDs
    BY <1>6 DEF Inv, TypeOK
  <2> QED
    BY <2>1, <2>2, <1>6, <1>7, <1>8, <1>9, <1>11 DEF TypeOK, BookThins, Answers
<1>13. TradeSound' /\ TradesWithinLimits' /\ SelfTradeSkipped'
  <2>1. /\ trade'.Maker = m /\ trade'.Taker = incoming /\ trade'.Quantity = q
        /\ trade'.Price = orders[incoming].Price
    BY <1>6
  <2>2. SameTerms(m) /\ SameTerms(incoming)
    BY <1>3, <1>6
  <2>3. TradeSound'
    BY <2>1, <2>2, <1>11 DEF TradeSound, SameTerms, OrderIDs
  <2>4. SelfTradeSkipped'
    BY <2>1, <2>2, <1>4 DEF SelfTradeSkipped, SameTerms
  <2>5. TradesWithinLimits'
    BY <2>1, <2>2, <1>3, <1>4, <1>5
    DEF TradesWithinLimits, SameTerms, Reaches, Opposite, Sides
  <2> QED
    BY <2>3, <2>4, <2>5
<1> QED
  BY <1>6, <1>10, <1>11, <1>12, <1>13 DEF Inv

\* The taker rests behind older orders, on a level of its own side and price.
LEMMA StepLimitRest ==
  ASSUME Inv, LimitRest
  PROVE  Inv'
<1>1. /\ pc = "limit" /\ Return("nil")
      /\ UNCHANGED <<orders, trade, told, traded, lost, missed>>
      /\ book' = Add(Taker.Side, Taker.Price, incoming) \/ book' = book
  BY DEF LimitRest
<1>2. /\ incoming \in OrderIDs /\ Taker.Type = "limit"
      /\ Taker.Side \in Sides /\ Taker.Price \in Prices
      /\ \A s \in Sides, p \in Prices : \A i \in DOMAIN book[s][p] : book[s][p][i] < incoming
  BY <1>1 DEF Inv, TypeOK, LoopSound, Matching, Taker, OrderRecords
<1>3. \A o \in OrderIDs : SameTerms(o)
  BY <1>1 DEF SameTerms, OrderIDs
<1>4. book' \in [Sides -> [Prices -> Seq(IDs)]] /\ LevelsAreQueues'
  <2>1. CASE book' = book
    BY <2>1, <1>3, QueuesSame DEF Inv, TypeOK
  <2>2. CASE book' = Add(Taker.Side, Taker.Price, incoming)
    <3>1. /\ incoming \in IDs /\ incoming \in OrderIDs' /\ orders'[incoming] = Taker
      BY <1>1, <1>2 DEF Inv, TypeOK, Taker, OrderIDs
    <3>2. /\ orders'[incoming].Type = "limit" /\ orders'[incoming].Side = Taker.Side
          /\ orders'[incoming].Price = Taker.Price
      BY <3>1, <1>2
    <3> HIDE DEF Taker
    <3> QED
      BY <2>2, <3>1, <3>2, <1>2, <1>3, QueuesAdd DEF Inv
  <2> QED
    BY <2>1, <2>2, <1>1
<1>5. /\ pc' = "return" /\ incoming' \in 0 .. MaxOrders
      /\ level' \in Prices \cup {NoLevel} /\ todo' \in Seq(IDs)
      /\ idx' \in Nat \ {0} /\ pending' \in Seq(IDs \X Events) /\ tape' \in Seq(Trades)
      /\ err' \in Answers /\ LoopSound'
  BY <1>1, ReturnTypes DEF Answers
<1>6. TypeOK'
  BY <1>1, <1>4, <1>5 DEF Inv, TypeOK, OrderIDs, Answers
<1>7. TradeSound' /\ TradesWithinLimits' /\ SelfTradeSkipped'
  BY <1>1, <1>3, <1>5, TradeKept
<1>8. NeverOverfilled'
  BY <1>1 DEF Inv, NeverOverfilled, OrderIDs
<1> QED
  BY <1>4, <1>5, <1>6, <1>7, <1>8 DEF Inv

\* A step of MatchMarket's loop that fills nothing only moves the level or the
\* index.
LEMMA MarketMoves ==
  ASSUME Inv, pc = "market", level' \in Prices \cup {NoLevel}, idx' \in Nat \ {0},
         UNCHANGED <<orders, book, pc, incoming, todo, pending, tape, trade, told,
                     traded, lost, missed, err>>
  PROVE  Inv'
<1>1. TypeOK'
  BY DEF Inv, TypeOK, OrderIDs
<1>2. \A o \in OrderIDs : SameTerms(o)
  BY DEF SameTerms, OrderIDs
<1>3. LoopSound'
  BY <1>2, SameThins, LoopThins DEF Inv, Matching
<1>4. LevelsAreQueues'
  BY <1>2, QueuesSame DEF Inv
<1>5. TradeSound' /\ TradesWithinLimits' /\ SelfTradeSkipped'
  BY <1>2, TradeKept
<1>6. NeverOverfilled'
  BY DEF Inv, NeverOverfilled, OrderIDs
<1> QED
  BY <1>1, <1>3, <1>4, <1>5, <1>6 DEF Inv

\* The market loop moves to another level and back to its first order.
LEMMA StepMarketNextLevel ==
  ASSUME Inv, MarketNextLevel
  PROVE  Inv'
<1>1. /\ pc = "market" /\ level' \in Prices \cup {NoLevel} /\ idx' = 1
      /\ UNCHANGED <<orders, book, pc, incoming, todo, pending, tape, trade, told,
                     traded, lost, missed, err>>
  BY DEF MarketNextLevel, MarketVisits
<1> QED
  BY <1>1, MarketMoves

\* Stepping over an order changes the index alone.
LEMMA StepMarketSkip ==
  ASSUME Inv, MarketSkip
  PROVE  Inv'
<1>1. /\ pc = "market" /\ level' = level /\ idx' = idx + 1
      /\ UNCHANGED <<orders, book, pc, incoming, todo, pending, tape, trade, told,
                     traded, lost, missed, err>>
  BY DEF MarketSkip, MarketVisits
<1>2. idx' \in Nat \ {0} /\ level' \in Prices \cup {NoLevel}
  BY <1>1 DEF Inv, TypeOK
<1> QED
  BY <1>1, <1>2, MarketMoves

\* A market fill takes at most what either order has, at the resting price,
\* and takes a filled order out of its level.
LEMMA StepMarketFill ==
  ASSUME Inv, MarketFill
  PROVE  Inv'
<1> DEFINE m == Resting
           q == FillQty(m)
           side == Opposite(Taker.Side)
<1>1. /\ pc = "market" /\ level # NoLevel
      /\ Reaches(Taker.Side, level, Taker.Price)
      /\ idx <= Len(Queue) /\ ~SelfTrade(m)
      /\ q > 0
      /\ Fill(m, q, orders[m].Price)
      /\ \/ book' = RemoveAt(side, level, idx) /\ idx' = idx
         \/ idx' = idx + 1 /\ book' = book
      /\ pending' = Append(pending, <<m, FillEvent(m, q)>>)
      /\ tape' = Append(tape, OnTape(m, q))
      /\ UNCHANGED <<pc, incoming, level, todo, told, traded, lost, missed, err>>
  BY DEF MarketFill, MarketVisits, LeavesLevel
<1>2. /\ incoming \in OrderIDs /\ orders[incoming].Type = "market"
      /\ orders[incoming].Side \in Sides /\ orders[incoming].Price \in Nat
      /\ level \in Prices /\ level \in Nat /\ side \in Sides
      /\ \A i \in DOMAIN book[side][level] : book[side][level][i] < incoming
  <2>1. /\ incoming \in OrderIDs /\ orders[incoming].Type = "market"
        /\ \A s \in Sides, p \in Prices : \A i \in DOMAIN book[s][p] :
             book[s][p][i] < incoming
    BY <1>1 DEF Inv, LoopSound, Matching
  <2>2. orders[incoming] \in OrderRecords /\ level \in Prices
    BY <2>1, <1>1 DEF Inv, TypeOK
  <2>3. side \in Sides
    BY DEF Opposite, Sides
  <2> QED
    BY <2>1, <2>2, <2>3, PricesAssumption DEF OrderRecords
<1>3. idx \in DOMAIN book[side][level] /\ m = book[side][level][idx]
  BY <1>1, <1>2 DEF Inv, TypeOK, Queue, Resting
<1>4. /\ m \in OrderIDs /\ m # incoming
      /\ orders[m].Side = Opposite(orders[incoming].Side)
      /\ orders[m].Price = level
  BY <1>2, <1>3 DEF Inv, TypeOK, IDs, LevelsAreQueues, Taker
<1>5. orders[incoming].Side = "sell" => orders[m].UserID # orders[incoming].UserID
  BY <1>1 DEF SelfTrade, Taker
<1> HIDE DEF m
<1>6. q \in Nat /\ q <= Remaining(m) /\ q <= Remaining(incoming) /\ q # 0
  BY <1>1, <1>2, <1>4, FillQtyBounds
<1> HIDE DEF q
<1>7. /\ OrderIDs' = OrderIDs
      /\ orders' \in [OrderIDs -> OrderRecords]
      /\ NeverOverfilled'
      /\ \A o \in OrderIDs : SameTerms(o)
      /\ trade' = [Maker |-> m, Taker |-> incoming, Price |-> level, Quantity |-> q]
  BY <1>1, <1>2, <1>4, <1>6, FillOrders
<1>8. tape' \in Seq(Trades)
  <2>1. m \in IDs /\ tape \in Seq(Trades)
    BY <1>4 DEF Inv, TypeOK
  <2>2. OnTape(m, q) \in Trades
    BY <2>1, <1>6, OnTapeType DEF Inv
  <2> QED
    BY <2>1, <2>2, <1>1
<1>9. pending' \in Seq(IDs \X Events)
  <2>1. FillEvent(m, q) \in Events /\ m \in IDs
    BY <1>4, <1>6, FillEventType DEF Inv, TypeOK
  <2>2. pending \in Seq(IDs \X Events) /\ <<m, FillEvent(m, q)>> \in IDs \X Events
    BY <2>1 DEF Inv, TypeOK
  <2> QED
    BY <2>2, <1>1
<1>10. BookThins /\ idx' \in Nat \ {0}
  <2>1. idx \in Nat \ {0} /\ TypeOK
    BY DEF Inv, TypeOK
  <2>2. BookThins
    BY <2>1, <1>1, <1>2, <1>3, RemoveAtThins, SameThins
  <2> QED
    BY <2>1, <2>2, <1>1
<1>11. LevelsAreQueues'
  BY <1>7, <1>10, QueuesThin DEF Inv, BookThins
<1>12. LoopSound'
  BY <1>1, <1>7, <1>10, LoopThins DEF Matching
<1>13. TypeOK'
  <2>1. trade' \in [Maker : 0 .. MaxOrders, Taker : 0 .. MaxOrders, Price : Nat, Quantity : Nat]
    <3>1. m \in 0 .. MaxOrders /\ incoming \in 0 .. MaxOrders
      <4>1. OrderIDs \subseteq IDs
        BY DEF Inv, TypeOK
      <4> QED
        BY <4>1, <1>2, <1>4, BoundsAssumption DEF IDs
    <3> QED
      BY <3>1, <1>2, <1>6, <1>7
  <2>2. OrderIDs' \subseteq IDs
    BY <1>7 DEF Inv, TypeOK
  <2>3. told' \in [OrderIDs' -> Events] /\ traded' \in [OrderIDs' -> Nat]
        /\ orders' \in [OrderIDs' -> OrderRecords]
    BY <1>1, <1>7 DEF Inv, TypeOK
  <2>4. book' \in [Sides -> [Prices -> Seq(IDs)]]
    BY <1>10 DEF BookThins
  <2> QED
    BY <2>1, <2>2, <2>3, <2>4, <1>1, <1>8, <1>9, <1>10 DEF Inv, TypeOK
<1>14. TradeSound' /\ TradesWithinLimits' /\ SelfTradeSkipped'
  <2>1. /\ trade'.Maker = m /\ trade'.Taker = incoming /\ trade'.Quantity = q
        /\ trade'.Price = level
    BY <1>7
  <2>2. SameTerms(m) /\ SameTerms(incoming)
    BY <1>2, <1>4, <1>7
  <2>3. TradeSound'
    BY <2>1, <2>2, <1>1 DEF TradeSound, SameTerms, OrderIDs
  <2>4. SelfTradeSkipped'
    BY <2>1, <2>2, <1>2, <1>5 DEF SelfTradeSkipped, SameTerms
  <2>5. Reaches(orders[incoming].Side, level, orders[incoming].Price)
    BY <1>1 DEF Taker
  <2>6. TradesWithinLimits'
    BY <2>1, <2>2, <2>5, <1>2, <1>4, <1>6
    DEF TradesWithinLimits, SameTerms, Reaches, Opposite, Sides
  <2> QED
    BY <2>3, <2>4, <2>6
<1> QED
  BY <1>7, <1>11, <1>12, <1>13, <1>14 DEF Inv

\* The end of an operation that leaves the order records alone and at most takes
\* orders out of levels.
LEMMA ReturnKeeps ==
  ASSUME Inv, NEW e \in Answers, Return(e), BookThins,
         UNCHANGED <<orders, trade>>,
         told' \in [OrderIDs -> Events], lost' \subseteq IDs,
         traded' \in [OrderIDs -> Nat], missed' \subseteq IDs
  PROVE  Inv'
<1>1. /\ pc' = "return" /\ incoming' \in 0 .. MaxOrders
      /\ level' \in Prices \cup {NoLevel} /\ todo' \in Seq(IDs)
      /\ idx' \in Nat \ {0} /\ pending' \in Seq(IDs \X Events) /\ tape' \in Seq(Trades)
      /\ err' \in Answers /\ LoopSound'
  BY ReturnTypes
<1>2. TypeOK'
  BY <1>1 DEF Inv, TypeOK, OrderIDs, Answers, BookThins
<1>3. \A o \in OrderIDs : SameTerms(o)
  BY DEF SameTerms, OrderIDs
<1>4. LevelsAreQueues'
  BY <1>3, QueuesThin DEF Inv, BookThins
<1>5. TradeSound' /\ TradesWithinLimits' /\ SelfTradeSkipped'
  BY <1>1, <1>3, TradeKept
<1>6. NeverOverfilled'
  BY DEF Inv, NeverOverfilled, OrderIDs
<1> QED
  BY <1>1, <1>2, <1>4, <1>5, <1>6 DEF Inv

\* The end of the market loop publishes and changes no order.
LEMMA StepMarketEnd ==
  ASSUME Inv, MarketEnd
  PROVE  Inv'
<1>1. /\ pc = "market" /\ Return("nil") /\ UNCHANGED <<orders, book, trade>>
      /\ \/ UNCHANGED <<told, lost, traded, missed>>
         \/ /\ \E st \in {"filled", "cancelled", "partial"} :
                 Publish(Append(pending, <<incoming, Event(st, Taker.Filled)>>))
            /\ PublishTradeBatch
  BY DEF MarketEnd
<1>2. told' \in [OrderIDs -> Events] /\ lost' \subseteq IDs
  <2>1. CASE UNCHANGED <<told, lost>>
    BY <2>1 DEF Inv, TypeOK
  <2>2. ASSUME NEW st \in {"filled", "cancelled", "partial"},
               Publish(Append(pending, <<incoming, Event(st, Taker.Filled)>>))
        PROVE  told' \in [OrderIDs -> Events] /\ lost' \subseteq IDs
    <3>1. incoming \in OrderIDs /\ incoming \in IDs
      BY <1>1 DEF Inv, TypeOK, LoopSound, Matching
    <3>2. Event(st, Taker.Filled) \in Events
      BY <3>1 DEF Event, Events, Taker, Inv, TypeOK, OrderRecords
    <3>3. /\ pending \in Seq(IDs \X Events)
          /\ <<incoming, Event(st, Taker.Filled)>> \in IDs \X Events
      BY <3>1, <3>2 DEF Inv, TypeOK
    <3>4. Append(pending, <<incoming, Event(st, Taker.Filled)>>) \in Seq(IDs \X Events)
      BY <3>3
    <3> QED
      BY <3>4, <2>2, PublishTypes DEF Inv
  <2> QED
    BY <2>1, <2>2, <1>1
<1>3. BookThins
  BY <1>1, SameThins DEF Inv
<1>4. traded' \in [OrderIDs -> Nat] /\ missed' \subseteq IDs
  <2>1. CASE UNCHANGED <<traded, missed>>
    BY <2>1 DEF Inv, TypeOK
  <2>2. CASE PublishTradeBatch
    BY <2>2, <1>1, PublishTradeBatchTypes DEF Inv, LoopSound, Matching
  <2> QED
    BY <2>1, <2>2, <1>1
<1> QED
  BY <1>1, <1>2, <1>3, <1>4, ReturnKeeps DEF Answers

\* A cancel thins one level, or none.
LEMMA StepCancel ==
  ASSUME Inv, NEW o \in IDs, NEW s \in Sides, NEW p \in Prices, Cancel(o, s, p)
  PROVE  Inv'
<1>1. /\ \E e \in Answers : Return(e)
      /\ UNCHANGED <<orders, trade, told, traded, lost, missed>>
      /\ \/ \E i \in DOMAIN book[s][p] : book' = RemoveAt(s, p, i)
         \/ book' = book
  BY DEF Cancel, Answers
<1>2. BookThins
  BY <1>1, RemoveAtThins, SameThins DEF Inv
<1>3. /\ told' \in [OrderIDs -> Events] /\ lost' \subseteq IDs
      /\ traded' \in [OrderIDs -> Nat] /\ missed' \subseteq IDs
  BY <1>1 DEF Inv, TypeOK
<1> QED
  BY <1>1, <1>2, <1>3, ReturnKeeps

\* Orders that are forgotten when the book unlocks are on no level.
LEMMA StepUnlock ==
  ASSUME Inv, Unlock
  PROVE  Inv'
<1> DEFINE kept == {o \in OrderIDs : OnBook(o)}
<1>1. /\ pc' = "idle" /\ orders' = [o \in kept |-> orders[o]]
      /\ told' = [o \in kept |-> told[o]] /\ traded' = [o \in kept |-> traded[o]]
      /\ lost' = lost \cap kept /\ missed' = missed \cap kept
      /\ trade' = NoTrade /\ err' = "nil"
      /\ UNCHANGED <<book, incoming, level, todo, idx, pending, tape>>
  BY DEF Unlock
<1>2. kept \subseteq OrderIDs /\ \A o \in OrderIDs : OnBook(o) => o \in kept
  OBVIOUS
<1> HIDE DEF kept
<1>3. OrderIDs' = kept
  BY <1>1 DEF OrderIDs
<1>4. TypeOK'
  <2>1. trade' \in [Maker : 0 .. MaxOrders, Taker : 0 .. MaxOrders, Price : Nat, Quantity : Nat]
    BY <1>1, BoundsAssumption DEF NoTrade
  <2> QED
    BY <2>1, <1>1, <1>2, <1>3 DEF Inv, TypeOK
<1>5. NeverOverfilled'
  BY <1>1, <1>2, <1>3 DEF Inv, NeverOverfilled
<1>6. LevelsAreQueues'
  <2>1. \A o \in OrderIDs : OnBook(o) => SameTerms(o)
    BY <1>1, <1>2 DEF SameTerms
  <2> QED
    BY <2>1, <1>1, QueuesSame DEF Inv
<1>7. LoopSound'
  BY <1>1 DEF LoopSound, Matching
<1>8. TradeSound' /\ TradesWithinLimits' /\ SelfTradeSkipped'
  BY <1>1 DEF TradeSound, TradesWithinLimits, SelfTradeSkipped
<1> QED
  BY <1>4, <1>5, <1>6, <1>7, <1>8 DEF Inv

------------------------------------------------------------------------------
(* The theorems.                                                           *)

\* An empty book is sound.
LEMMA InitInv ==
  ASSUME Init
  PROVE  Inv
<1>1. OrderIDs = {}
  BY DEF Init, OrderIDs, NoOrders
<1>2. TypeOK
  <2>1. 0 \in 0 .. MaxOrders
    BY BoundsAssumption
  <2>2. /\ trade \in [Maker : 0 .. MaxOrders, Taker : 0 .. MaxOrders, Price : Nat, Quantity : Nat]
        /\ incoming \in 0 .. MaxOrders
    BY <2>1 DEF Init, NoTrade
  <2>3. /\ orders \in [OrderIDs -> OrderRecords] /\ told \in [OrderIDs -> Events]
        /\ traded \in [OrderIDs -> Nat]
    BY <1>1 DEF Init, NoOrders
  <2>4. book \in [Sides -> [Prices -> Seq(IDs)]] /\ todo \in Seq(IDs)
        /\ pending \in Seq(IDs \X Events) /\ tape \in Seq(Trades)
    BY DEF Init
  <2> QED
    BY <1>1, <2>2, <2>3, <2>4 DEF Init, TypeOK
<1>3. LevelsAreQueues
  <2>1. \A s \in Sides, p \in Prices : book[s][p] = <<>>
    BY DEF Init
  <2> QED
    BY <2>1 DEF LevelsAreQueues
<1>4. NeverOverfilled /\ LoopSound /\ TradeSound /\ TradesWithinLimits /\ SelfTradeSkipped
  BY <1>1 DEF Init, NeverOverfilled, LoopSound, TradeSound, TradesWithinLimits,
              SelfTradeSkipped, Matching
<1> QED
  BY <1>2, <1>3, <1>4 DEF Inv

\* Stuttering keeps the invariant.
LEMMA StepStutter ==
  ASSUME Inv, UNCHANGED vars
  PROVE  Inv'
BY DEF vars, Inv, TypeOK, NeverOverfilled, LevelsAreQueues, LoopSound, TradeSound,
       TradesWithinLimits, SelfTradeSkipped, OrderIDs, Matching

\* Every step keeps the invariant.
LEMMA NextInv ==
  ASSUME Inv, [Next]_vars
  PROVE  Inv'
<1>1. ASSUME NEW o \in IDs, NEW u \in Users, NEW s \in Sides, NEW p \in Prices,
             NEW q \in Quantities,
             \/ Seed(o, NewOrder(u, "limit", s, p, q))
             \/ MatchLimit(o, NewOrder(u, "limit", s, p, q))
             \/ MatchMarket(o, NewOrder(u, "market", s, p, q))
      PROVE  Inv'
  <2>1. "limit" \in Types /\ "market" \in Types
    BY DEF Types
  <2>2. CASE Seed(o, NewOrder(u, "limit", s, p, q))
    BY <2>2, StepSeed
  <2>3. CASE MatchLimit(o, NewOrder(u, "limit", s, p, q))
    <3>1. \/ EmptyBook(o, NewOrder(u, "limit", s, p, q))
          \/ LimitNoMatch(o, NewOrder(u, "limit", s, p, q))
          \/ LimitBegin(o, NewOrder(u, "limit", s, p, q))
      BY <2>3 DEF MatchLimit
    <3> QED
      BY <3>1, <2>1, StepEmptyBook, StepLimitNoMatch, StepLimitBegin
  <2>4. CASE MatchMarket(o, NewOrder(u, "market", s, p, q))
    <3>1. \/ EmptyBook(o, NewOrder(u, "market", s, p, q))
          \/ MarketBegin(o, NewOrder(u, "market", s, p, q))
      BY <2>4 DEF MatchMarket
    <3> QED
      BY <3>1, <2>1, StepEmptyBook, StepMarketBegin
  <2> QED
    BY <1>1, <2>2, <2>3, <2>4
<1>2. ASSUME NEW o \in 1 .. MaxOrders, NEW s \in Sides, NEW p \in Prices, Cancel(o, s, p)
      PROVE  Inv'
  BY <1>2, StepCancel DEF IDs
<1>3. CASE LimitStep
  BY <1>3, StepLimitSkip, StepLimitFill, StepLimitRest DEF LimitStep
<1>4. CASE MarketStep
  BY <1>4, StepMarketNextLevel, StepMarketSkip, StepMarketFill, StepMarketEnd
  DEF MarketStep
<1>5. CASE Unlock
  BY <1>5, StepUnlock
<1>6. CASE UNCHANGED vars
  BY <1>6, StepStutter
<1> QED
  BY <1>1, <1>2, <1>3, <1>4, <1>5, <1>6 DEF Next

\* The inductive invariant holds in every reachable state.
THEOREM Invariance == Spec => []Inv
<1>1. Init => Inv
  BY InitInv
<1>2. Inv /\ [Next]_vars => Inv'
  BY NextInv
<1> QED
  BY <1>1, <1>2, PTL DEF Spec

\* The shape of the book and of the running loop (the structs of order.go,
\* side.go and price_level.go).
THEOREM TypeCorrect == Spec => []TypeOK
<1>1. Inv => TypeOK
  BY DEF Inv
<1> QED
  BY <1>1, Invariance, PTL

\* decimal.Min in both loops keeps every Filled within its Quantity, over any
\* sequence of matches, partial fills and cancels.
THEOREM NoOverfill == Spec => []NeverOverfilled
<1>1. Inv => NeverOverfilled
  BY DEF Inv
<1> QED
  BY <1>1, Invariance, PTL

\* Side.Add, PopFront, RemoveFilledOrderInPriceLevel and Cancel between them
\* keep every level a time-ordered queue of its own side and price.
THEOREM QueuesCorrect == Spec => []LevelsAreQueues
<1>1. Inv => LevelsAreQueues
  BY DEF Inv
<1> QED
  BY <1>1, Invariance, PTL

\* MatchLimit and MatchMarket never execute a trade outside the prices of the
\* two orders.
THEOREM PricesRespected == Spec => []TradesWithinLimits
<1>1. Inv => TradesWithinLimits
  BY DEF Inv
<1> QED
  BY <1>1, Invariance, PTL

\* The user checks of MatchLimit and of MatchMarket's sell branch prevent self
\* trades there.
THEOREM SelfTradesSkipped == Spec => []SelfTradeSkipped
<1>1. Inv => SelfTradeSkipped
  BY DEF Inv
<1> QED
  BY <1>1, Invariance, PTL
==============================================================================
