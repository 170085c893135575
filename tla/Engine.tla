-------------------------------- MODULE Engine --------------------------------
(***************************************************************************)
(* The way of an order from the HTTP handler to its book:                  *)
(* http/order.go and usecases/order in the API process, two Kafka topics,  *)
(* and internal/engine/engine.go in the engine process: one consumer, a    *)
(* router, and a channel and a worker per pair.                            *)
(*                                                                         *)
(* The consumer is Runner's, used through AtLeastOnce: a batch is handled  *)
(* record by record, offsets are committed some time behind.  A call of    *)
(* the handler is MarkEvent in the database and then a send to the pair's  *)
(* channel, which blocks while the channel is full.                        *)
(*                                                                         *)
(* What a book does with an order is Orderbook's subject: nothing comes to *)
(* rest on an empty book, and the books start empty, so that here a call   *)
(* of a book answers an error and publishes nothing.  The reaper, whose    *)
(* heap stays empty in this process, has nothing to do.                    *)
(***************************************************************************)
EXTENDS Integers, Sequences, FiniteSets

CONSTANTS
  Requests,   \* the HTTP requests: what they publish is named after them
  Pairs,      \* the pairs that requests name
  Naming,     \* the ways in which they may name them, one by one
  Supported,  \* those that were active when the engine started
  Capacity,   \* OrderChanBufferSize
  MaxCrashes  \* bound: how often the engine process stops

ASSUME PairsAssumption == Supported \subseteq Pairs /\ Naming \subseteq [Requests -> Pairs]
ASSUME CapacityAssumption == Capacity \in Nat \ {0}
ASSUME CrashesAssumption == MaxCrashes \in Nat

VARIABLES
  phase,     \* phase[r]: how far the API has come with request r
  pair,      \* pair[r]: the pair it is about
  log,       \* log[t]: the records of topic t
  passed,    \* passed[t]: records of t the engine's consumer is done with
  acked,     \* acked[t]: the group's offset
  cur,       \* the topic of the record that is to be sent to its channel
  marked,    \* the event IDs in processed_order_events
  routed,    \* routed[p]: the records routed for p since the engine started
  channel,   \* channel[p]: what is in the pair's channel
  worked,    \* worked[p]: what its worker has handled since then
  before,    \* the records handled and committed before a restart
  crashes

vars == <<phase, pair, log, passed, acked, cur, marked, routed, channel, worked,
          before, crashes>>
apiVars == <<phase, pair, log>>
engineVars == <<passed, acked, cur, marked, routed, channel, worked, before, crashes>>

Topics == {"submitted", "canceled"}
NoTopic == "none"

Phases == {"new", "begun", "inserted", "published", "over"}
InTransaction == {"begun", "inserted", "published"}

\* A record is known by its place.
Places == Topics \X (Nat \ {0})
EventAt(m) == log[m[1]][m[2]]
PairOf(m) == pair[EventAt(m)]
Elements(s) == {s[i] : i \in DOMAIN s}
NothingYet == [p \in Supported |-> <<>>]
Handled == UNION {Elements(worked[p]) : p \in Supported}

Consumer == INSTANCE AtLeastOnce
              WITH ResetToEnd <- TRUE,
                   produced <- [t \in Topics |-> Len(log[t])]

------------------------------------------------------------------------------
Init ==
  /\ phase = [r \in Requests |-> "new"]
  /\ pair \in Naming
  /\ log = [t \in Topics |-> <<>>]
  /\ passed = [t \in Topics |-> 0]
  /\ acked = [t \in Topics |-> 0]
  /\ cur = NoTopic
  /\ marked = {}
  /\ routed = NothingYet
  /\ channel = NothingYet
  /\ worked = NothingYet
  /\ before = {}
  /\ crashes = 0

------------------------------------------------------------------------------
(* The API process.                                                        *)

Publish(t, r) == log' = [log EXCEPT ![t] = Append(@, r)]

\* SubmitOrder opens a transaction.
Begin(r) ==
  /\ phase[r] = "new"
  /\ phase' = [phase EXCEPT ![r] = "begun"]
  /\ UNCHANGED <<pair, log, engineVars>>

\* PlaceLimitOrderHTTPHandler: the body binds, and the user is there.
Place(r) == Begin(r)

\* PlaceMarketOrderHTTPHandler: the price feed has answered as well.
PlaceMarket(r) == Begin(r)

\* One of these is not so.  Only the rules between fields are checked.
Refuse(r) ==
  /\ phase[r] = "new"
  /\ phase' = [phase EXCEPT ![r] = "over"]
  /\ UNCHANGED <<pair, log, engineVars>>

\* The pair has no dash, NewOrder answers nil (for the order types that the
\* body may name and the engine does not know, for one), or the insert fails:
\* an error or a recovered panic, and the transaction is rolled back.
RefuseOrder(r) ==
  /\ phase[r] = "begun"
  /\ phase' = [phase EXCEPT ![r] = "over"]
  /\ UNCHANGED <<pair, log, engineVars>>

\* CreateOrder, inside the transaction: the row.
Insert(r) ==
  /\ phase[r] = "begun"
  /\ phase' = [phase EXCEPT ![r] = "inserted"]
  /\ UNCHANGED <<pair, log, engineVars>>

\* MatchEngine.SubmitOrder, still inside the transaction: the event.
PublishSubmitted(r) ==
  /\ phase[r] = "inserted"
  /\ Publish("submitted", r)
  /\ phase' = [phase EXCEPT ![r] = "published"]
  /\ UNCHANGED <<pair, engineVars>>

\* The publish answers an error, and the transaction is rolled back.  The
\* broker may have the record all the same.
PublishFails(r) ==
  /\ phase[r] = "inserted"
  /\ Publish("submitted", r) \/ UNCHANGED log
  /\ phase' = [phase EXCEPT ![r] = "over"]
  /\ UNCHANGED <<pair, engineVars>>

\* heap.Push of the expiry entry: BookReaper.Push and heap.Push call each
\* other until the stack overflows, which ends the API process.  Every open
\* transaction is rolled back; the process is started again.
PushExpiry(r) ==
  /\ phase[r] = "published"
  /\ phase' = [q \in Requests |-> IF phase[q] \in InTransaction THEN "over" ELSE phase[q]]
  /\ UNCHANGED <<pair, log, engineVars>>

\* SubmitCancelOrder: an event; the publish may fail.
SubmitCancelOrder(r) == Publish("canceled", r) \/ UNCHANGED log

\* A transaction around it that reads and writes no row.
CancelLimitOrder(r) == SubmitCancelOrder(r)

\* CancelOrderHTTPHandler.
Cancel(r) ==
  /\ phase[r] = "new"
  /\ CancelLimitOrder(r)
  /\ phase' = [phase EXCEPT ![r] = "over"]
  /\ UNCHANGED <<pair, engineVars>>

------------------------------------------------------------------------------
(* The engine process.                                                     *)

NextPlace(t) == <<t, passed[t] + 1>>

\* Mutant of HasRoom: off by one.
HasRoomForOneMore(p) == p \in Supported => Len(channel[p]) <= Capacity

\* OrderRouter.addOrder: a pair without a channel is logged and dropped; a
\* full channel makes the consumer wait.
HasRoom(p) == p \in Supported => Len(channel[p]) < Capacity
SendTo(queue, p, m) == [q \in Supported |-> IF q = p THEN Append(queue[q], m) ELSE queue[q]]

\* Mutant of Mark: the order is sent first, so that a failed MarkEvent makes
\* the runner call a handler that sends it again.
MarkAfterRoute(t) ==
  /\ cur = NoTopic
  /\ passed[t] < Len(log[t])
  /\ HasRoom(PairOf(NextPlace(t)))
  /\ routed' = SendTo(routed, PairOf(NextPlace(t)), NextPlace(t))
  /\ channel' = SendTo(channel, PairOf(NextPlace(t)), NextPlace(t))
  /\ UNCHANGED <<apiVars, cur, worked, before, crashes>>
  /\ \/ Consumer!Pass(t) /\ marked' = marked \cup {EventAt(NextPlace(t))}
     \/ UNCHANGED <<passed, acked, marked>>

\* HandleIncmingOrder: MarkEvent inserts the event ID.  That it was there
\* already makes no difference.
Mark(t) ==
  /\ cur = NoTopic
  /\ passed[t] < Len(log[t])
  /\ marked' = marked \cup {EventAt(NextPlace(t))}
  /\ cur' = t
  /\ UNCHANGED <<apiVars, passed, acked, routed, channel, worked, before, crashes>>

\* Every attempt of the runner fails: the record goes to the dead letters, or
\* only to the log.
GiveUp(t) ==
  /\ cur = NoTopic
  /\ UNCHANGED <<apiVars, cur, marked, routed, channel, worked, before, crashes>>
  /\ Consumer!Pass(t)

\* Mutant of Route: a send that does not wait, and drops what has no room.
RouteDropsWhenFull ==
  /\ cur \in Topics
  /\ routed' = SendTo(routed, PairOf(NextPlace(cur)), NextPlace(cur))
  /\ channel' = IF HasRoom(PairOf(NextPlace(cur)))
                THEN SendTo(channel, PairOf(NextPlace(cur)), NextPlace(cur)) ELSE channel
  /\ cur' = NoTopic
  /\ UNCHANGED <<apiVars, marked, worked, before, crashes>>
  /\ Consumer!Pass(cur)

\* routeOrderEventFanOut, and the handler returns.
Route ==
  /\ cur \in Topics
  /\ HasRoom(PairOf(NextPlace(cur)))
  /\ routed' = SendTo(routed, PairOf(NextPlace(cur)), NextPlace(cur))
  /\ channel' = SendTo(channel, PairOf(NextPlace(cur)), NextPlace(cur))
  /\ cur' = NoTopic
  /\ UNCHANGED <<apiVars, marked, worked, before, crashes>>
  /\ Consumer!Pass(cur)

\* Mutant of Work: an error of the book ends the worker.
WorkUntilError(p) ==
  /\ channel[p] # <<>> /\ worked[p] = <<>>
  /\ channel' = [channel EXCEPT ![p] = Tail(@)]
  /\ worked' = [worked EXCEPT ![p] = Append(@, Head(channel[p]))]
  /\ UNCHANGED <<apiVars, passed, acked, cur, marked, routed, before, crashes>>

\* orderHandlerWorker takes an order and has orderTypeRouter call its book.
\* An error is logged, and the loop goes on.
Work(p) ==
  /\ channel[p] # <<>>
  /\ channel' = [channel EXCEPT ![p] = Tail(@)]
  /\ worked' = [worked EXCEPT ![p] = Append(@, Head(channel[p]))]
  /\ UNCHANGED <<apiVars, passed, acked, cur, marked, routed, before, crashes>>

\* CommitRecords after a batch, or the client's auto-commit.
Ack ==
  /\ UNCHANGED <<apiVars, cur, marked, routed, channel, worked, before, crashes>>
  /\ Consumer!Ack

\* Mutant of Restart: the consumer starts at the beginning of its topics.
RestartFromTheBeginning ==
  /\ crashes < MaxCrashes
  /\ crashes' = crashes + 1
  /\ cur' = NoTopic
  /\ routed' = NothingYet
  /\ channel' = NothingYet
  /\ before' = before \cup {m \in Handled : m[2] <= acked[m[1]]}
  /\ worked' = NothingYet
  /\ passed' = [t \in Topics |-> 0]
  /\ UNCHANGED <<apiVars, marked, acked>>

\* The engine process is killed (SIGTERM does not end it: the command waits
\* for workers that never return) and started again.  Channels and books are
\* empty, the consumer starts where the group is, or at the end of a topic
\* that the group has no offset for.
Restart ==
  /\ crashes < MaxCrashes
  /\ crashes' = crashes + 1
  /\ cur' = NoTopic
  /\ routed' = NothingYet
  /\ channel' = NothingYet
  /\ before' = before \cup {m \in Handled : m[2] <= acked[m[1]]}
  /\ worked' = NothingYet
  /\ UNCHANGED <<apiVars, marked>>
  /\ Consumer!Restart

------------------------------------------------------------------------------
Api(r) == \/ Place(r) \/ PlaceMarket(r) \/ Refuse(r) \/ RefuseOrder(r)
          \/ Insert(r) \/ PublishSubmitted(r) \/ PublishFails(r) \/ PushExpiry(r) \/ Cancel(r)
Consume == Route \/ \E t \in Topics : Mark(t) \/ GiveUp(t)

Next == \/ \E r \in Requests : Api(r)
        \/ Consume
        \/ \E p \in Supported : Work(p)
        \/ Ack
        \/ Restart

\* The consumer and the workers are goroutines that keep running; nothing is
\* assumed of clients, of the database or of commits.
Spec == /\ Init /\ [][Next]_vars
        /\ WF_vars(Consume)
        /\ \A p \in Supported : WF_vars(Work(p))

------------------------------------------------------------------------------
(* What the engine promises.                                               *)

\* Type invariant: the requests, the topics, and the state of the process; a
\* channel holds at most its buffer.
TypeOK ==
  /\ phase \in [Requests -> Phases]
  /\ pair \in [Requests -> Pairs]
  /\ log \in [Topics -> Seq(Requests)]
  /\ passed \in [Topics -> Nat]
  /\ acked \in [Topics -> Nat]
  /\ cur \in Topics \cup {NoTopic}
  /\ marked \subseteq Requests
  /\ routed \in [Supported -> Seq(Places)]
  /\ channel \in [Supported -> Seq(Places)]
  /\ \A p \in Supported : Len(channel[p]) <= Capacity
  /\ worked \in [Supported -> Seq(Places)]
  /\ before \subseteq Places
  /\ crashes \in 0 .. MaxCrashes

\* While the engine runs, the worker of a pair gets exactly the orders that the
\* consumer has passed for this pair, in the same order: a full channel delays
\* the consumer, and never drops, repeats or reorders an order.
ChannelsKeepOrder ==
  \A p \in Supported : worked[p] \o channel[p] = routed[p]

\* Between two restarts the records of a topic are routed in the order of the
\* topic, and no request is routed twice, to one book or to two: a retry of a
\* handler whose MarkEvent has failed does not send the order a second time, and
\* the API has published each request once at most, whichever step of it failed.
RoutedInOrder ==
  /\ \A p \in Supported : \A i, j \in DOMAIN routed[p] :
       i < j /\ routed[p][i][1] = routed[p][j][1] => routed[p][i][2] < routed[p][j][2]
  /\ \A p, q \in Supported : \A i \in DOMAIN routed[p], j \in DOMAIN routed[q] :
       EventAt(routed[p][i]) = EventAt(routed[q][j]) => p = q /\ i = j

\* A restart repeats orders, since channels and books are empty and offsets are
\* committed late; but no request that was handled and committed is routed again.
CommittedOnce ==
  \A p \in Supported : \A i \in DOMAIN routed[p], m \in before :
    EventAt(routed[p][i]) # EventAt(m)

Drained == /\ \A t \in Topics : passed[t] = Len(log[t])
           /\ \A p \in Supported : channel[p] = <<>>

\* The backlog drains again and again: although one full channel stops the only
\* consumer, and with it the orders of every other pair, its worker frees it,
\* whatever its book answers.
BacklogDrains == []<>Drained

===============================================================================
