------------------------------ MODULE Projection ------------------------------
(***************************************************************************)
(* The projection consumer: the record loop of                             *)
(* internal/infrastructure/kafka/consumer/consumer.go (Runner) with the    *)
(* handler of cmd/order_projection_consumer.go (ProjectionHandler), which  *)
(* writes the engine's events into the orders table.                       *)
(*                                                                         *)
(* CoinhubOrderEventDispatcher gives each event type its own topic, and    *)
(* the key of a record is its pair: a topic here is one partition, and     *)
(* nothing orders two topics.  An event is a row of the orders table to    *)
(* come: an order, a status and a filled quantity.  A handler call is two  *)
(* database statements, MarkEvent and the UPDATE, each of which can fail,  *)
(* and the process can stop between any two steps.                         *)
(*                                                                         *)
(* Kafka and its client are external.  Offsets are positions: n means that *)
(* the first n records of a topic are behind.  The client auto-commits     *)
(* (kgo's default, which the command does not turn off) the position that  *)
(* the last PollFetches call found.                                        *)
(***************************************************************************)
EXTENDS Integers, Sequences, FiniteSets

CONSTANTS
  Orders,      \* the order IDs that events name
  Stored,      \* those that have a row in the orders table
  Takers,      \* those whose fills all come from one MatchLimit call of theirs
  Quantity,    \* the quantity of every order
  MaxRetries,  \* NewRunner's maxRetries
  MaxTrades,   \* bound: trade events in their topic
  MaxCrashes   \* bound: how often the consumer stops and is started again

ASSUME OrdersAssumption == Stored \subseteq Orders /\ Takers \subseteq Orders
ASSUME QuantityAssumption == Quantity \in Nat \ {0}
ASSUME BoundsAssumption == {MaxRetries, MaxTrades, MaxCrashes} \subseteq Nat

VARIABLES
  engine,     \* engine[o]: the row the engine's last event about o describes
  log,        \* log[t]: the records of topic t
  rows,       \* the orders table
  marked,     \* the event IDs in processed_order_events
  pc,         \* where Runner.Run is
  cur,        \* the topic of the last record the batch's iterator returned
  attempt,    \* processRecord's loop variable
  next,       \* next[t]: records of t that processRecord is done with
  limit,      \* limit[t]: records of t that PollFetches has returned
  head,       \* head[t]: what auto-commit may commit
  toCommit,   \* toCommit[t]: where CommitRecords will commit t; 0 for nothing
  committed,  \* committed[t]: the consumer group's offset
  applied,    \* <<t, i>>: record i of topic t has reached the table
  failed,     \* <<t, i>>: all its attempts have failed once
  crashes

vars == <<engine, log, rows, marked, pc, cur, attempt, next, limit, head,
          toCommit, committed, applied, failed, crashes>>
engineVars == <<engine, log>>
tableVars == <<rows, marked>>
historyVars == <<applied, failed>>

------------------------------------------------------------------------------
(* Events and topics.                                                      *)

Topics == {"partial", "filled", "canceled", "trade"}
NoTopic == "none"
Statuses == {"open", "partial", "filled", "cancelled"}

TopicOf(status) == IF status = "cancelled" THEN "canceled" ELSE status

Row(status, filled) == [status |-> status, filled |-> filled]

\* MatchLimit makes the taker's event once and changes it fill by fill, so
\* those events share an EventID; a maker's event is new each time.
EventID(o, filled) == IF o \in Takers THEN <<o, 0>> ELSE <<o, filled>>

Record(o, row) == [id |-> EventID(o, row.filled), order |-> o, row |-> row]

\* publishOrderEvent and publishTradeEvent append to a topic.
Produce(topics, record) ==
  [t \in Topics |-> IF t \in topics THEN Append(log[t], record) ELSE log[t]]

Settled == applied \cup failed

------------------------------------------------------------------------------
Init ==
  /\ engine = [o \in Orders |-> Row("open", 0)]
  /\ log = [t \in Topics |-> <<>>]
  /\ rows = [o \in Stored |-> Row("open", 0)]
  /\ marked = {}
  /\ pc = "poll" /\ cur = NoTopic /\ attempt = 0
  /\ next = [t \in Topics |-> 0]
  /\ limit = [t \in Topics |-> 0]
  /\ head = [t \in Topics |-> 0]
  /\ toCommit = [t \in Topics |-> 0]
  /\ committed = [t \in Topics |-> 0]
  /\ applied = {} /\ failed = {}
  /\ crashes = 0

\* The engine publishes a fill of o: its order event and then the trade event,
\* unless that publish fails, which is only logged.
PublishFill(o) ==
  /\ engine[o].status \in {"open", "partial"}
  /\ \E f \in engine[o].filled + 1 .. Quantity :
       LET row == Row(IF f = Quantity THEN "filled" ELSE "partial", f)
           topics == {TopicOf(row.status)}
       IN  /\ engine' = [engine EXCEPT ![o] = row]
           /\ \/ log' = Produce(topics, Record(o, row))
              \/ /\ Len(log["trade"]) < MaxTrades
                 /\ log' = Produce(topics \cup {"trade"}, Record(o, row))
  /\ UNCHANGED <<tableVars, historyVars, pc, cur, attempt, next, limit, head,
                 toCommit, committed, crashes>>

\* The engine cancels what it could not match of o, its only event about o.
PublishCancel(o) ==
  /\ engine[o].status = "open"
  /\ \E f \in 0 .. Quantity - 1 :
       LET row == Row("cancelled", f)
       IN  /\ engine' = [engine EXCEPT ![o] = row]
           /\ log' = Produce({TopicOf(row.status)}, Record(o, row))
  /\ UNCHANGED <<tableVars, historyVars, pc, cur, attempt, next, limit, head,
                 toCommit, committed, crashes>>

------------------------------------------------------------------------------
(* Runner.Run.                                                             *)

\* PollFetches returns: some new records of some topics.
Poll ==
  /\ pc = "poll"
  /\ \E fetched \in [Topics -> UNION {0 .. Len(log[t]) : t \in Topics}] :
       /\ \A t \in Topics : fetched[t] \in next[t] .. Len(log[t])
       /\ \E t \in Topics : fetched[t] > next[t]
       /\ limit' = fetched
  /\ pc' = "iter"
  /\ UNCHANGED <<engineVars, tableVars, historyVars, cur, attempt, next, head,
                 toCommit, committed, crashes>>

\* The iterator goes through a topic's records before it takes another topic.
Take(t) ==
  /\ pc = "iter"
  /\ next[t] < limit[t]
  /\ cur \in Topics \ {t} => next[cur] = limit[cur]
  /\ cur' = t
  /\ pc' = "mark"
  /\ UNCHANGED <<engineVars, tableVars, historyVars, attempt, next, limit, head, toCommit,
                 committed, crashes>>

Offset == next[cur] + 1
Position == <<cur, Offset>>
Event == log[cur][Offset]

\* processRecord returns.  Only a record without an error is to be committed.
Done(ok) ==
  /\ next' = [next EXCEPT ![cur] = Offset]
  /\ toCommit' = IF ok THEN [toCommit EXCEPT ![cur] = Offset] ELSE toCommit
  /\ attempt' = 0
  /\ pc' = "iter"

\* Mutant of Mark: an event ID that is already there ends the handler.
MarkSkipsDuplicates ==
  /\ pc = "mark"
  /\ cur # "trade"
  /\ marked' = marked \cup {Event.id}
  /\ IF Event.id \in marked
     THEN Done(TRUE)
     ELSE pc' = "update" /\ UNCHANGED <<attempt, next, toCommit>>
  /\ UNCHANGED <<engineVars, historyVars, rows, cur, limit, head,
                 committed, crashes>>

\* The record passes validation, and MarkEvent inserts its event ID.  Whether
\* the ID was there already makes no difference to the caller.
Mark ==
  /\ pc = "mark"
  /\ cur # "trade"
  /\ marked' = marked \cup {Event.id}
  /\ pc' = "update"
  /\ UNCHANGED <<engineVars, historyVars, rows, cur, attempt, next, limit, head,
                 toCommit, committed, crashes>>

\* Mutant of Written: adds to what the row has.
WrittenAdds(old, new) == Row(new.status, old.filled + new.filled)

\* UPDATE orders SET status, filled: overwrites, whatever the row was.
Written(old, new) == new

\* UpdateOrderStatus: an UPDATE that finds no row is no error.
Update ==
  /\ pc = "update"
  /\ rows' = [o \in Stored |-> IF o = Event.order THEN Written(rows[o], Event.row) ELSE rows[o]]
  /\ applied' = applied \cup {Position}
  /\ Done(TRUE)
  /\ UNCHANGED <<engineVars, marked, failed, cur, limit, head,
                 committed, crashes>>

\* Mutant of LastAttempt: attempt > maxRetries.
OneRetryMore == attempt = MaxRetries + 1

LastAttempt == attempt = MaxRetries

\* Mutant of Retry: the attempt is not counted.
RetryForever ==
  /\ ~LastAttempt
  /\ pc' = "mark"
  /\ UNCHANGED <<attempt, failed, next, toCommit>>

\* The handler fails and is called again after the backoff.
Retry ==
  /\ ~LastAttempt
  /\ attempt' = attempt + 1
  /\ pc' = "mark"
  /\ UNCHANGED <<failed, next, toCommit>>

\* The last attempt fails: sendToDLQ.  The record is fine if it is published
\* to the dead-letter topic (--enable-dlq); if not, the error is only logged.
SendToDLQ(published) ==
  /\ LastAttempt
  /\ failed' = failed \cup {Position}
  /\ Done(published)

\* A handler call returns an error: a statement failed, or the record is a
\* trade, which decoded as an OrderStatusEvent lacks an order ID.
HandlerFails ==
  /\ pc \in {"mark", "update"}
  /\ Retry \/ SendToDLQ(TRUE) \/ SendToDLQ(FALSE)
  /\ UNCHANGED <<engineVars, tableVars, applied, cur, limit, head, committed,
                 crashes>>

\* Mutant of Commit: toCommit is not declared anew for each batch.
CommitKeepsList ==
  /\ pc = "iter"
  /\ next = limit
  /\ \/ committed' = [t \in Topics |-> IF toCommit[t] > 0 THEN toCommit[t] ELSE committed[t]]
     \/ UNCHANGED committed
  /\ head' = next
  /\ cur' = NoTopic
  /\ pc' = "poll"
  /\ UNCHANGED <<engineVars, tableVars, historyVars, attempt, next, limit,
                 toCommit, crashes>>

\* The batch is over.  CommitRecords commits the last good record of each
\* topic, or fails, which is only logged; then PollFetches is called again.
Commit ==
  /\ pc = "iter"
  /\ next = limit
  /\ \/ committed' = [t \in Topics |-> IF toCommit[t] > 0 THEN toCommit[t] ELSE committed[t]]
     \/ UNCHANGED committed
  /\ head' = next
  /\ toCommit' = [t \in Topics |-> 0]
  /\ cur' = NoTopic
  /\ pc' = "poll"
  /\ UNCHANGED <<engineVars, tableVars, historyVars, attempt, next, limit,
                 crashes>>

------------------------------------------------------------------------------
(* The client and the process.                                             *)

\* Mutant of AutoCommitted: greedy, what was fetched counts as consumed.
AutoCommittedGreedily(t) == limit[t]

AutoCommitted(t) == head[t]

\* The client's auto-commit, at any time.
AutoCommit ==
  /\ committed' = [t \in Topics |-> IF AutoCommitted(t) > committed[t]
                                    THEN AutoCommitted(t) ELSE committed[t]]
  /\ UNCHANGED <<engineVars, tableVars, historyVars, pc, cur, attempt, next, limit,
                 head, toCommit, crashes>>

\* The process is killed or told to stop, and runs again from the group's
\* offset.  Its database writes and dead letters stay.
Restart ==
  /\ crashes < MaxCrashes
  /\ crashes' = crashes + 1
  /\ next' = committed /\ limit' = committed /\ head' = committed
  /\ toCommit' = [t \in Topics |-> 0]
  /\ pc' = "poll" /\ cur' = NoTopic /\ attempt' = 0
  /\ UNCHANGED <<engineVars, tableVars, historyVars, committed>>

Process == \/ Poll \/ (\E t \in Topics : Take(t)) \/ Mark \/ Update \/ HandlerFails
           \/ Commit

Next == \/ \E o \in Orders : PublishFill(o) \/ PublishCancel(o)
        \/ Process
        \/ AutoCommit
        \/ Restart

\* The runner's goroutine keeps running.  Nothing is assumed of the database,
\* of Kafka's answers, or of the engine.
Spec == Init /\ [][Next]_vars /\ WF_vars(Process)

------------------------------------------------------------------------------
(* What the projection promises.                                           *)

Rows == [status : Statuses, filled : 0 .. Quantity]
Records == [id : Orders \X (0 .. Quantity), order : Orders, row : Rows]

\* Type invariant: the shape of the logs, of the tables and of the runner.
\* No handler is called more often than maxRetries + 1 times in a row.
TypeOK ==
  /\ engine \in [Orders -> Rows]
  /\ log \in [Topics -> Seq(Records)]
  /\ rows \in [Stored -> Rows]
  /\ marked \subseteq Orders \X (0 .. Quantity)
  /\ pc \in {"poll", "iter", "mark", "update"}
  /\ cur \in Topics \cup {NoTopic}
  /\ attempt \in 0 .. MaxRetries
  /\ next \in [Topics -> Nat]
  /\ limit \in [Topics -> Nat]
  /\ head \in [Topics -> Nat]
  /\ toCommit \in [Topics -> Nat]
  /\ committed \in [Topics -> Nat]
  /\ applied \subseteq Topics \X Nat
  /\ failed \subseteq Topics \X Nat
  /\ crashes \in 0 .. MaxCrashes

\* An offset is committed only behind records that have been dealt with: each
\* is in the table, in the dead-letter topic, or in the log as given up.  A
\* mark in processed_order_events is not enough: the process can stop between
\* MarkEvent and the UPDATE, and events can share an ID.
NothingSkipped ==
  \A t \in Topics : \A i \in 1 .. committed[t] : <<t, i>> \in Settled

\* Whatever commits fail and whenever the process restarts, the records of a
\* topic that have been dealt with are the first ones of that topic: a restart
\* repeats records and never jumps one.
NoGaps ==
  \A e \in Settled : \A j \in 1 .. e[2] : <<e[1], j>> \in Settled

Idle == pc = "poll" /\ \A t \in Topics : next[t] = Len(log[t])

OrderTopics == Topics \ {"trade"}
EventsOf(o, t) == {i \in 1 .. Len(log[t]) : log[t][i].order = o}
NoneFailed(o) ==
  \A t \in OrderTopics : \A i \in EventsOf(o, t) : <<t, i>> \notin failed

\* When the consumer has caught up and no write of an order's events was given
\* up, the row is the last event of the order in one of the topics, however
\* often records were applied again after a restart: replays are idempotent.
RowIsALastEvent ==
  Idle => \A o \in Stored :
    NoneFailed(o) /\ engine[o].status # "open" =>
      \E t \in OrderTopics : \E i \in EventsOf(o, t) :
        /\ \A j \in EventsOf(o, t) : j <= i
        /\ rows[o] = log[t][i].row

\* The consumer catches up with the events again and again: a record that
\* keeps failing, such as every trade, holds up the ones behind it for
\* maxRetries + 1 attempts only.
EventsSettled ==
  []<>(\A t \in Topics : \A i \in 1 .. Len(log[t]) : <<t, i>> \in Settled)

Runner == INSTANCE AtLeastOnce
            WITH ResetToEnd <- FALSE,
                 produced <- [t \in Topics |-> Len(log[t])],
                 passed <- next,
                 acked <- committed

\* With its batches, retries, dead letters, failed commits and the client's
\* auto-commit, the runner implements AtLeastOnce.  Of the two ways in which
\* offsets are committed, neither takes one back that the other committed.
ImplementsAtLeastOnce == Runner!Spec
===============================================================================
