-------------------------- MODULE ProjectionProofs --------------------------
(***************************************************************************)
(* Proofs about Projection: commits never pass a record that has not been  *)
(* dealt with, and what has been dealt with is a prefix of each topic, for *)
(* every number of orders, retries and restarts.                           *)
(*                                                                         *)
(* NothingSkipped alone is not inductive: a commit moves to head or to     *)
(* toCommit, and a restart moves the positions back to committed.  The     *)
(* strengthening says that all of these are at most next, and that every   *)
(* record before next has been dealt with.  On top of it: the runner       *)
(* implements AtLeastOnce, its backlog wears off, and a replay leaves each *)
(* row at a last event.                                                    *)
(***************************************************************************)
EXTENDS Projection, TLAPS

\* The positions of one topic are in order.
Positions ==
  \A t \in Topics : /\ committed[t] <= next[t]
                    /\ head[t] <= next[t]
                    /\ toCommit[t] <= next[t]
                    /\ next[t] <= limit[t]
                    /\ limit[t] <= Len(log[t])

\* A handler works on a record of the batch.
Busy == pc \in {"mark", "update"} => cur \in Topics /\ next[cur] < limit[cur]

\* What the runner has passed has been dealt with.
PassedIsSettled == \A t \in Topics : \A i \in 1 .. next[t] : <<t, i>> \in Settled

Inv == TypeOK /\ Positions /\ Busy /\ PassedIsSettled /\ NoGaps

------------------------------------------------------------------------------
(* The parts of a step.                                                    *)

\* The bounds, one by one.
LEMMA Bounds == MaxRetries \in Nat /\ MaxCrashes \in Nat
BY BoundsAssumption

\* Publishing appends records to some topics and touches nothing else.
LEMMA ProduceExtends ==
  ASSUME log \in [Topics -> Seq(Records)], NEW topics, NEW record \in Records
  PROVE  /\ Produce(topics, record) \in [Topics -> Seq(Records)]
         /\ \A t \in Topics : Len(log[t]) <= Len(Produce(topics, record)[t])
<1>1. \A t \in Topics : /\ Append(log[t], record) \in Seq(Records)
                        /\ Len(Append(log[t], record)) = Len(log[t]) + 1
                        /\ Len(log[t]) \in Nat
  OBVIOUS
<1> QED BY <1>1 DEF Produce

\* The record of an event has the type of a record.
LEMMA RecordType ==
  ASSUME NEW o \in Orders, NEW row \in Rows
  PROVE  Record(o, row) \in Records
BY QuantityAssumption DEF Record, Records, EventID, Rows

\* What the engine publishes: a row that is not open, in the topic of its status
\* and perhaps among the trades.
LEMMA Published ==
  ASSUME TypeOK, NEW o \in Orders, PublishFill(o) \/ PublishCancel(o)
  PROVE  \E row \in Rows, topics \in SUBSET Topics :
           /\ engine' = [engine EXCEPT ![o] = row]
           /\ log' = Produce(topics, Record(o, row))
           /\ topics \cap OrderTopics # {}
<1>1. CASE PublishFill(o)
  <2>1. PICK f \in engine[o].filled + 1 .. Quantity :
          LET row == Row(IF f = Quantity THEN "filled" ELSE "partial", f)
          IN  /\ engine' = [engine EXCEPT ![o] = row]
              /\ \/ log' = Produce({TopicOf(row.status)}, Record(o, row))
                 \/ log' = Produce({TopicOf(row.status)} \cup {"trade"}, Record(o, row))
    BY <1>1 DEF PublishFill
  <2> DEFINE r == Row(IF f = Quantity THEN "filled" ELSE "partial", f)
  <2>2. f \in 0 .. Quantity
    <3>1. engine[o].filled \in 0 .. Quantity
      BY DEF TypeOK, Rows
    <3> QED BY <3>1, QuantityAssumption
  <2>3. r \in Rows /\ TopicOf(r.status) \in OrderTopics
    BY <2>2 DEF Row, Rows, Statuses, TopicOf, Topics, OrderTopics
  <2> HIDE DEF r
  <2>4. /\ {TopicOf(r.status)} \in SUBSET Topics
        /\ {TopicOf(r.status)} \cup {"trade"} \in SUBSET Topics
        /\ {TopicOf(r.status)} \cap OrderTopics # {}
        /\ ({TopicOf(r.status)} \cup {"trade"}) \cap OrderTopics # {}
    BY <2>3 DEF Topics, OrderTopics
  <2>5. /\ engine' = [engine EXCEPT ![o] = r]
        /\ \/ log' = Produce({TopicOf(r.status)}, Record(o, r))
           \/ log' = Produce({TopicOf(r.status)} \cup {"trade"}, Record(o, r))
    BY <2>1 DEF r
  <2> QED BY <2>3, <2>4, <2>5
<1>2. CASE PublishCancel(o)
  <2>1. PICK f \in 0 .. Quantity - 1 :
          /\ engine' = [engine EXCEPT ![o] = Row("cancelled", f)]
          /\ log' = Produce({TopicOf(Row("cancelled", f).status)}, Record(o, Row("cancelled", f)))
    BY <1>2 DEF PublishCancel
  <2>2. /\ Row("cancelled", f) \in Rows
        /\ TopicOf(Row("cancelled", f).status) \in OrderTopics
    BY <2>1, QuantityAssumption DEF Row, Rows, Statuses, TopicOf, Topics, OrderTopics
  <2>3. /\ {TopicOf(Row("cancelled", f).status)} \in SUBSET Topics
        /\ {TopicOf(Row("cancelled", f).status)} \cap OrderTopics # {}
    BY <2>2 DEF OrderTopics
  <2> QED BY <2>1, <2>2, <2>3
<1> QED BY <1>1, <1>2

\* processRecord returns: the position moves over a record that is now dealt
\* with, so the passed records still are, and form a prefix.
LEMMA DoneMoves ==
  ASSUME Inv, pc \in {"mark", "update"},
         applied' \cup failed' = Settled \cup {Position},
         NEW ok \in BOOLEAN, Done(ok),
         UNCHANGED <<log, limit, head, committed>>
  PROVE  /\ next' \in [Topics -> Nat] /\ toCommit' \in [Topics -> Nat]
         /\ Positions' /\ PassedIsSettled' /\ NoGaps'
<1> USE DEF Inv, TypeOK
<1>1. cur \in Topics /\ next[cur] < limit[cur]
  BY DEF Busy
<1>2. /\ next' = [next EXCEPT ![cur] = next[cur] + 1]
      /\ toCommit' = toCommit \/ toCommit' = [toCommit EXCEPT ![cur] = next[cur] + 1]
  BY DEF Done, Offset
<1>3. next' \in [Topics -> Nat] /\ toCommit' \in [Topics -> Nat]
  <2>1. next \in [Topics -> Nat] /\ toCommit \in [Topics -> Nat]
    OBVIOUS
  <2> HIDE DEF Inv, TypeOK
  <2> QED BY <1>1, <1>2, <2>1
<1>4. Positions'
  <2> SUFFICES ASSUME NEW t \in Topics
               PROVE  /\ committed[t] <= next'[t] /\ head[t] <= next'[t]
                      /\ toCommit'[t] <= next'[t] /\ next'[t] <= limit[t]
                      /\ limit[t] <= Len(log[t])
    BY DEF Positions
  <2>1. CASE t = cur
    BY <2>1, <1>1, <1>2 DEF Positions
  <2>2. CASE t # cur
    BY <2>2, <1>1, <1>2 DEF Positions
  <2> QED BY <2>1, <2>2
<1>5. Settled' = Settled \cup {<<cur, next[cur] + 1>>}
  BY DEF Settled, Position, Offset
<1>6. PassedIsSettled'
  <2> SUFFICES ASSUME NEW t \in Topics, NEW i \in 1 .. next'[t]
               PROVE  <<t, i>> \in Settled'
    BY DEF PassedIsSettled
  <2>1. CASE t # cur
    BY <2>1, <1>1, <1>2, <1>5 DEF PassedIsSettled
  <2>2. CASE t = cur
    <3>1. i \in 1 .. next[cur] \/ i = next[cur] + 1
      BY <2>2, <1>1, <1>2
    <3> QED BY <3>1, <2>2, <1>1, <1>5 DEF PassedIsSettled
  <2> QED BY <2>1, <2>2
<1>7. NoGaps'
  <2> SUFFICES ASSUME NEW e \in Settled', NEW j \in 1 .. e[2]
               PROVE  <<e[1], j>> \in Settled'
    BY DEF NoGaps
  <2>1. CASE e \in Settled
    BY <2>1, <1>5 DEF NoGaps
  <2>2. CASE e = <<cur, next[cur] + 1>>
    <3>1. j \in 1 .. next[cur] \/ j = next[cur] + 1
      BY <2>2, <1>1
    <3> QED BY <3>1, <2>2, <1>1, <1>5 DEF PassedIsSettled
  <2> QED BY <2>1, <2>2, <1>5
<1> QED BY <1>3, <1>4, <1>6, <1>7

------------------------------------------------------------------------------
(* One lemma per action.                                                   *)

\* The engine appends to the logs, so limits stay within them.
LEMMA StepPublish ==
  ASSUME Inv, NEW o \in Orders, PublishFill(o) \/ PublishCancel(o)
  PROVE  Inv'
<1> USE DEF Inv
<1>1. PICK row \in Rows, topics \in SUBSET Topics :
        /\ engine' = [engine EXCEPT ![o] = row]
        /\ log' = Produce(topics, Record(o, row))
  BY Published
<1>2. UNCHANGED <<tableVars, historyVars, pc, cur, attempt, next, limit, head,
                  toCommit, committed, crashes>>
  BY DEF PublishFill, PublishCancel
<1>3. /\ log' \in [Topics -> Seq(Records)]
      /\ \A t \in Topics : Len(log[t]) <= Len(log'[t])
  BY <1>1, RecordType, ProduceExtends DEF TypeOK
<1>4. TypeOK'
  BY <1>1, <1>2, <1>3 DEF TypeOK, tableVars, historyVars
<1>5. Positions'
  <2> SUFFICES ASSUME NEW t \in Topics PROVE limit[t] <= Len(log'[t])
    BY <1>2 DEF Positions
  <2>1. limit[t] \in Nat /\ Len(log[t]) \in Nat /\ Len(log'[t]) \in Nat
    <3>1. limit \in [Topics -> Nat] /\ log \in [Topics -> Seq(Records)]
      BY DEF TypeOK
    <3> QED BY <3>1, <1>3
  <2> QED BY <2>1, <1>3 DEF Positions
<1>6. Busy' /\ PassedIsSettled' /\ NoGaps'
  BY <1>2 DEF Busy, PassedIsSettled, NoGaps, Settled, historyVars
<1> QED BY <1>4, <1>5, <1>6

\* A poll moves only the limits, and not beyond the logs.
LEMMA StepPoll == ASSUME Inv, Poll PROVE Inv'
<1> USE DEF Inv
<1>1. PICK fetched \in [Topics -> UNION {0 .. Len(log[t]) : t \in Topics}] :
        /\ \A t \in Topics : fetched[t] \in next[t] .. Len(log[t])
        /\ limit' = fetched
  BY DEF Poll
<1>2. /\ pc' = "iter"
      /\ UNCHANGED <<engine, log, rows, marked, applied, failed, cur, attempt, next,
                     head, toCommit, committed, crashes>>
  BY DEF Poll, engineVars, tableVars, historyVars
<1>3. \A t \in Topics : next[t] \in Nat /\ Len(log[t]) \in Nat
  BY DEF TypeOK
<1>4. limit' \in [Topics -> Nat]
  BY <1>1, <1>3
<1>5. TypeOK'
  BY <1>2, <1>4 DEF TypeOK
<1>6. Positions'
  BY <1>1, <1>2, <1>3 DEF Positions
<1>7. Busy' /\ PassedIsSettled' /\ NoGaps'
  BY <1>2 DEF Busy, PassedIsSettled, NoGaps, Settled
<1> QED BY <1>5, <1>6, <1>7

\* The iterator returns a record within the limit.
LEMMA StepTake == ASSUME Inv, NEW t \in Topics, Take(t) PROVE Inv'
<1> USE DEF Inv
<1>1. /\ next[t] < limit[t] /\ cur' = t /\ pc' = "mark"
      /\ UNCHANGED <<engine, log, rows, marked, applied, failed, attempt, next, limit,
                     head, toCommit, committed, crashes>>
  BY DEF Take, engineVars, tableVars, historyVars
<1>2. TypeOK'
  BY <1>1 DEF TypeOK
<1>3. Positions' /\ Busy' /\ PassedIsSettled' /\ NoGaps'
  BY <1>1 DEF Positions, Busy, PassedIsSettled, NoGaps, Settled
<1> QED BY <1>2, <1>3

\* The event a handler works on is a record of the log.
LEMMA EventType == ASSUME Inv, pc \in {"mark", "update"} PROVE Event \in Records
<1>1. cur \in Topics /\ next[cur] < limit[cur] /\ limit[cur] <= Len(log[cur])
  BY DEF Inv, Busy, Positions
<1>2. next[cur] \in Nat /\ limit[cur] \in Nat /\ log[cur] \in Seq(Records)
  BY <1>1 DEF Inv, TypeOK
<1>3. next[cur] + 1 \in 1 .. Len(log[cur])
  BY <1>1, <1>2
<1> QED BY <1>2, <1>3 DEF Event, Offset

\* So is its position.
LEMMA PositionType == ASSUME Inv, pc \in {"mark", "update"} PROVE Position \in Topics \X Nat
<1>1. cur \in Topics
  BY DEF Inv, Busy
<1>2. next[cur] + 1 \in Nat
  BY <1>1 DEF Inv, TypeOK
<1> QED BY <1>1, <1>2 DEF Position, Offset

\* A mark touches only its table.
LEMMA StepMark == ASSUME Inv, Mark PROVE Inv'
<1> USE DEF Inv
<1>1. /\ pc = "mark" /\ pc' = "update" /\ marked' = marked \cup {Event.id}
      /\ UNCHANGED <<engine, log, rows, applied, failed, cur, attempt, next, limit,
                     head, toCommit, committed, crashes>>
  BY DEF Mark, engineVars, historyVars
<1>2. Event.id \in Orders \X (0 .. Quantity)
  BY <1>1, EventType DEF Records
<1>3. TypeOK'
  BY <1>1, <1>2 DEF TypeOK
<1>4. Positions' /\ Busy' /\ PassedIsSettled' /\ NoGaps'
  BY <1>1 DEF Positions, Busy, PassedIsSettled, NoGaps, Settled
<1> QED BY <1>3, <1>4

\* An update deals with the record it moves over.
LEMMA StepUpdate == ASSUME Inv, Update PROVE Inv'
<1> USE DEF Inv
<1>1. /\ pc = "update" /\ Done(TRUE) /\ applied' = applied \cup {Position}
      /\ rows' = [o \in Stored |-> IF o = Event.order THEN Event.row ELSE rows[o]]
      /\ UNCHANGED <<engine, log, marked, failed, cur, limit, head, committed, crashes>>
  BY DEF Update, engineVars, Written
<1>2. applied' \cup failed' = Settled \cup {Position}
  BY <1>1 DEF Settled
<1>3. /\ next' \in [Topics -> Nat] /\ toCommit' \in [Topics -> Nat]
      /\ Positions' /\ PassedIsSettled' /\ NoGaps'
  BY <1>1, <1>2, DoneMoves
<1>4. rows' \in [Stored -> Rows]
  BY <1>1, EventType DEF TypeOK, Records
<1>5. Position \in Topics \X Nat
  BY <1>1, PositionType
<1>6. pc' = "iter" /\ attempt' = 0
  BY <1>1 DEF Done
<1>7. 0 \in 0 .. MaxRetries
  BY Bounds
<1>8. TypeOK' /\ Busy'
  BY <1>1, <1>3, <1>4, <1>5, <1>6, <1>7 DEF TypeOK, Busy
<1> QED BY <1>3, <1>8

\* A failed handler call retries, or deals with the record by giving it up.
LEMMA StepHandlerFails == ASSUME Inv, HandlerFails PROVE Inv'
<1> USE DEF Inv
<1>1. /\ pc \in {"mark", "update"}
      /\ UNCHANGED <<engine, log, rows, marked, applied, cur, limit, head, committed, crashes>>
  BY DEF HandlerFails, engineVars, tableVars
<1>2. CASE Retry
  <2>1. /\ attempt # MaxRetries /\ attempt' = attempt + 1 /\ pc' = "mark"
        /\ UNCHANGED <<failed, next, toCommit>>
    BY <1>2 DEF Retry, LastAttempt
  <2>2. attempt' \in 0 .. MaxRetries
    BY <2>1, Bounds DEF TypeOK
  <2>3. TypeOK'
    BY <1>1, <2>1, <2>2 DEF TypeOK
  <2>4. Positions' /\ Busy' /\ PassedIsSettled' /\ NoGaps'
    BY <1>1, <2>1 DEF Positions, Busy, PassedIsSettled, NoGaps, Settled
  <2> QED BY <2>3, <2>4
<1>3. CASE \E published \in BOOLEAN : SendToDLQ(published)
  <2>1. PICK published \in BOOLEAN : SendToDLQ(published)
    BY <1>3
  <2>2. Done(published) /\ failed' = failed \cup {Position}
    BY <2>1 DEF SendToDLQ
  <2>3. applied' \cup failed' = Settled \cup {Position}
    BY <1>1, <2>2 DEF Settled
  <2>4. /\ next' \in [Topics -> Nat] /\ toCommit' \in [Topics -> Nat]
        /\ Positions' /\ PassedIsSettled' /\ NoGaps'
    BY <1>1, <2>2, <2>3, DoneMoves
  <2>5. Position \in Topics \X Nat
    BY <1>1, PositionType
  <2>6. pc' = "iter" /\ attempt' = 0
    BY <2>2 DEF Done
  <2>7. 0 \in 0 .. MaxRetries
    BY Bounds
  <2>8. TypeOK' /\ Busy'
    BY <1>1, <2>2, <2>4, <2>5, <2>6, <2>7 DEF TypeOK, Busy
  <2> QED BY <2>4, <2>8
<1> QED BY <1>2, <1>3 DEF HandlerFails

\* A commit moves to a position at most next.
LEMMA StepCommit == ASSUME Inv, Commit PROVE Inv'
<1> USE DEF Inv
<1>1. /\ head' = next /\ toCommit' = [t \in Topics |-> 0] /\ cur' = NoTopic /\ pc' = "poll"
      /\ \/ committed' = [t \in Topics |-> IF toCommit[t] > 0 THEN toCommit[t] ELSE committed[t]]
         \/ committed' = committed
      /\ UNCHANGED <<engine, log, rows, marked, applied, failed, attempt, next, limit, crashes>>
  BY DEF Commit, engineVars, tableVars, historyVars
<1>2. committed' \in [Topics -> Nat] /\ \A t \in Topics : committed'[t] <= next[t]
  BY <1>1 DEF TypeOK, Positions
<1>3. TypeOK'
  BY <1>1, <1>2 DEF TypeOK
<1>4. Positions'
  BY <1>1, <1>2 DEF TypeOK, Positions
<1>5. Busy' /\ PassedIsSettled' /\ NoGaps'
  BY <1>1 DEF Busy, PassedIsSettled, NoGaps, Settled
<1> QED BY <1>3, <1>4, <1>5

\* An auto-commit moves to head, which is at most next.
LEMMA StepAutoCommit == ASSUME Inv, AutoCommit PROVE Inv'
<1> USE DEF Inv
<1>1. /\ committed' = [t \in Topics |-> IF head[t] > committed[t] THEN head[t] ELSE committed[t]]
      /\ UNCHANGED <<engine, log, rows, marked, applied, failed, pc, cur, attempt, next,
                     limit, head, toCommit, crashes>>
  BY DEF AutoCommit, AutoCommitted, engineVars, tableVars, historyVars
<1>2. committed' \in [Topics -> Nat] /\ \A t \in Topics : committed'[t] <= next[t]
  BY <1>1 DEF TypeOK, Positions
<1>3. TypeOK' /\ Positions'
  BY <1>1, <1>2 DEF TypeOK, Positions
<1>4. Busy' /\ PassedIsSettled' /\ NoGaps'
  BY <1>1 DEF Busy, PassedIsSettled, NoGaps, Settled
<1> QED BY <1>3, <1>4

\* A restart takes the positions back to committed, which has been passed.
LEMMA StepRestart == ASSUME Inv, Restart PROVE Inv'
<1> USE DEF Inv
<1>1. /\ crashes < MaxCrashes /\ crashes' = crashes + 1
      /\ next' = committed /\ limit' = committed /\ head' = committed
      /\ toCommit' = [t \in Topics |-> 0]
      /\ pc' = "poll" /\ cur' = NoTopic /\ attempt' = 0
      /\ UNCHANGED <<engine, log, rows, marked, applied, failed, committed>>
  BY DEF Restart, engineVars, tableVars, historyVars
<1>2. TypeOK'
  <2>1. crashes + 1 \in 0 .. MaxCrashes /\ 0 \in 0 .. MaxRetries
    BY <1>1, Bounds DEF TypeOK
  <2> QED BY <1>1, <2>1 DEF TypeOK
<1>3. \A t \in Topics : /\ committed[t] \in Nat /\ next[t] \in Nat /\ limit[t] \in Nat
                        /\ Len(log[t]) \in Nat
  BY DEF TypeOK
<1>4. Positions'
  BY <1>1, <1>3 DEF Positions
<1>5. PassedIsSettled'
  <2> SUFFICES ASSUME NEW t \in Topics, NEW i \in 1 .. committed[t]
               PROVE  <<t, i>> \in Settled
    BY <1>1 DEF PassedIsSettled, Settled
  <2>1. i \in 1 .. next[t]
    BY <1>3 DEF Positions
  <2> QED BY <2>1 DEF PassedIsSettled
<1>6. Busy' /\ NoGaps'
  BY <1>1 DEF Busy, NoGaps, Settled
<1> QED BY <1>2, <1>4, <1>5, <1>6

------------------------------------------------------------------------------
(* The theorems.                                                           *)

\* Before the consumer starts nothing is committed and nothing dealt with.
LEMMA InitInv == Init => Inv
<1> SUFFICES ASSUME Init PROVE Inv
  OBVIOUS
<1> USE QuantityAssumption, Bounds DEF Init
<1>1. TypeOK
  BY DEF TypeOK, Rows, Row, Statuses, NoTopic
<1>2. Positions /\ Busy
  BY DEF Positions, Busy
<1>3. PassedIsSettled /\ NoGaps
  BY DEF PassedIsSettled, NoGaps, Settled
<1> QED BY <1>1, <1>2, <1>3 DEF Inv

\* The inductive invariant holds in every reachable state.
THEOREM Invariance == Spec => []Inv
<1>1. Inv /\ [Next]_vars => Inv'
  <2> SUFFICES ASSUME Inv, [Next]_vars PROVE Inv'
    OBVIOUS
  <2>1. CASE UNCHANGED vars
    BY <2>1 DEF vars, Inv, TypeOK, Positions, Busy, PassedIsSettled, NoGaps, Settled
  <2>2. CASE Next
    BY <2>2, StepPublish, StepPoll, StepTake, StepMark, StepUpdate, StepHandlerFails,
       StepCommit, StepAutoCommit, StepRestart DEF Next, Process
  <2> QED BY <2>1, <2>2
<1> QED BY InitInv, <1>1, PTL DEF Spec

\* Type correctness of the projection consumer.
THEOREM TypeCorrect == Spec => []TypeOK
<1>1. Inv => TypeOK
  BY DEF Inv
<1> QED BY <1>1, Invariance, PTL

\* No commit, automatic or by CommitRecords, passes a record that was not
\* written, dead-lettered or given up.
THEOREM CommitsSound == Spec => []NothingSkipped
<1>1. Inv => NothingSkipped
  <2> SUFFICES ASSUME Inv, NEW t \in Topics, NEW i \in 1 .. committed[t]
               PROVE  <<t, i>> \in Settled
    BY DEF NothingSkipped
  <2>1. i \in 1 .. next[t]
    BY DEF Inv, TypeOK, Positions
  <2> QED BY <2>1 DEF Inv, PassedIsSettled
<1> QED BY <1>1, Invariance, PTL

\* Restarts repeat records of a topic and never jump one.
THEOREM RestartsSound == Spec => []NoGaps
<1>1. Inv => NoGaps
  BY DEF Inv
<1> QED BY <1>1, Invariance, PTL
------------------------------------------------------------------------------
(* The runner implements AtLeastOnce.                                      *)

\* Auto-commit is behind head, and CommitRecords moves beyond it.
Ordered ==
  \A t \in Topics : /\ committed[t] <= head[t]
                    /\ toCommit[t] = 0 \/ head[t] <= toCommit[t]

\* The order of the commits survives every step.
LEMMA StepOrdered == ASSUME Inv, Ordered, [Next]_vars PROVE Ordered'
<1> USE DEF Inv
<1>0. \A t \in Topics : /\ committed[t] \in Nat /\ head[t] \in Nat /\ toCommit[t] \in Nat
                        /\ next[t] \in Nat
                        /\ committed[t] <= next[t] /\ head[t] <= next[t]
                        /\ toCommit[t] <= next[t]
  BY DEF TypeOK, Positions
<1>1. CASE UNCHANGED <<committed, head, toCommit>>
  BY <1>1 DEF Ordered
<1>2. ASSUME NEW ok \in BOOLEAN, Done(ok), pc \in {"mark", "update"},
             UNCHANGED <<committed, head>>
      PROVE  Ordered'
  <2>1. cur \in Topics
    BY <1>2 DEF Busy
  <2>2. toCommit' = toCommit \/ toCommit' = [toCommit EXCEPT ![cur] = next[cur] + 1]
    BY <1>2 DEF Done, Offset
  <2> SUFFICES ASSUME NEW t \in Topics
               PROVE  toCommit'[t] = 0 \/ head[t] <= toCommit'[t]
    BY <1>2 DEF Ordered
  <2>3. toCommit'[t] = toCommit[t] \/ toCommit'[t] = next[t] + 1
    BY <2>1, <2>2 DEF TypeOK
  <2> QED BY <2>3, <1>0 DEF Ordered
<1>3. CASE Update
  BY <1>3, <1>2 DEF Update
<1>4. CASE HandlerFails
  <2>1. CASE Retry
    BY <1>4, <2>1, <1>1 DEF HandlerFails, Retry
  <2>2. CASE \E published \in BOOLEAN : SendToDLQ(published)
    BY <1>4, <2>2, <1>2 DEF HandlerFails, SendToDLQ
  <2> QED BY <1>4, <2>1, <2>2 DEF HandlerFails
<1>5. CASE Commit
  <2>1. /\ head' = next /\ toCommit' = [t \in Topics |-> 0]
        /\ \/ committed' = [t \in Topics |-> IF toCommit[t] > 0 THEN toCommit[t] ELSE committed[t]]
           \/ committed' = committed
    BY <1>5 DEF Commit
  <2> QED BY <2>1, <1>0 DEF Ordered
<1>6. CASE AutoCommit
  <2>1. /\ committed' = [t \in Topics |-> IF head[t] > committed[t] THEN head[t] ELSE committed[t]]
        /\ UNCHANGED <<head, toCommit>>
    BY <1>6 DEF AutoCommit, AutoCommitted
  <2> QED BY <2>1, <1>0 DEF Ordered
<1>7. CASE Restart
  <2>1. /\ head' = committed /\ toCommit' = [t \in Topics |-> 0] /\ committed' = committed
    BY <1>7 DEF Restart
  <2> QED BY <2>1, <1>0 DEF Ordered
<1>8. CASE UNCHANGED vars
  BY <1>8, <1>1 DEF vars
<1>9. CASE (\E o \in Orders : PublishFill(o) \/ PublishCancel(o)) \/ Poll
           \/ (\E t \in Topics : Take(t)) \/ Mark
  BY <1>9, <1>1 DEF PublishFill, PublishCancel, Poll, Take, Mark
<1> QED BY <1>3, <1>4, <1>5, <1>6, <1>7, <1>8, <1>9 DEF Next, Process

\* What the log's lengths do when records are published.
LEMMA ProduceCounts ==
  ASSUME log \in [Topics -> Seq(Records)], NEW topics \in SUBSET Topics,
         NEW record \in Records, log' = Produce(topics, record),
         UNCHANGED <<next, committed>>
  PROVE  Runner!Produce(topics)
<1>1. \A t \in Topics : Len(Append(log[t], record)) = Len(log[t]) + 1
  OBVIOUS
<1>2. \A t \in Topics : Len(log'[t]) = IF t \in topics THEN Len(log[t]) + 1 ELSE Len(log[t])
  BY <1>1 DEF Produce
<1> QED BY <1>2 DEF Runner!Produce

\* processRecord returns: the record has been passed.
LEMMA DonePasses ==
  ASSUME Inv, pc \in {"mark", "update"}, NEW ok \in BOOLEAN, Done(ok),
         UNCHANGED <<log, committed>>
  PROVE  Runner!Pass(cur)
<1>1. /\ cur \in Topics /\ next[cur] < limit[cur] /\ limit[cur] <= Len(log[cur])
      /\ next[cur] \in Nat /\ limit[cur] \in Nat /\ Len(log[cur]) \in Nat
  BY DEF Inv, TypeOK, Busy, Positions
<1>2. next' = [next EXCEPT ![cur] = next[cur] + 1]
  BY DEF Done, Offset
<1> QED BY <1>1, <1>2 DEF Runner!Pass

\* Commits that stay within what has been passed are acknowledgements.
LEMMA CommitAcks ==
  ASSUME Inv, committed' \in [Topics -> Nat],
         \A t \in Topics : committed[t] <= committed'[t] /\ committed'[t] <= next[t],
         UNCHANGED <<log, next>>
  PROVE  Runner!Ack
<1>1. \A t \in Topics : committed'[t] \in 0 .. next[t]
  BY DEF Inv, TypeOK
<1>2. \A t \in Topics : committed'[t] \in UNION {0 .. next[u] : u \in Topics}
  BY <1>1
<1>3. committed' \in [Topics -> UNION {0 .. next[u] : u \in Topics}]
  BY <1>2
<1> QED BY <1>3 DEF Runner!Ack

\* Every step of the consumer is a step of AtLeastOnce, or none.
LEMMA StepRefines ==
  ASSUME Inv, Ordered, [Next]_vars
  PROVE  [Runner!Next]_(Runner!vars)
<1> USE DEF Inv
<1>0. \A t \in Topics : /\ committed[t] \in Nat /\ head[t] \in Nat /\ toCommit[t] \in Nat
                        /\ next[t] \in Nat
                        /\ committed[t] <= next[t] /\ head[t] <= next[t]
                        /\ toCommit[t] <= next[t]
  BY DEF TypeOK, Positions
<1>1. CASE UNCHANGED <<log, next, committed>>
  BY <1>1 DEF Runner!vars
<1>2. ASSUME NEW o \in Orders, PublishFill(o) \/ PublishCancel(o)
      PROVE  Runner!Next
  <2>1. PICK row \in Rows, topics \in SUBSET Topics :
          log' = Produce(topics, Record(o, row))
    BY <1>2, Published
  <2>2. UNCHANGED <<next, committed>>
    BY <1>2 DEF PublishFill, PublishCancel
  <2>3. Record(o, row) \in Records
    BY RecordType
  <2>4. Runner!Produce(topics)
    BY <2>1, <2>2, <2>3, ProduceCounts DEF TypeOK
  <2> QED BY <2>4 DEF Runner!Next
<1>3. CASE Update
  <2>1. pc = "update" /\ Done(TRUE) /\ UNCHANGED <<log, committed>> /\ cur \in Topics
    BY <1>3 DEF Update, engineVars, Busy
  <2>2. Runner!Pass(cur)
    BY <2>1, DonePasses
  <2> QED BY <2>1, <2>2 DEF Runner!Next
<1>4. CASE HandlerFails
  <2>1. pc \in {"mark", "update"} /\ UNCHANGED <<log, committed>> /\ cur \in Topics
    BY <1>4 DEF HandlerFails, engineVars, Busy
  <2>2. CASE Retry
    BY <2>1, <2>2, <1>1 DEF Retry
  <2>3. CASE \E published \in BOOLEAN : SendToDLQ(published)
    <3>1. PICK published \in BOOLEAN : Done(published)
      BY <2>3 DEF SendToDLQ
    <3>2. Runner!Pass(cur)
      BY <2>1, <3>1, DonePasses
    <3> QED BY <2>1, <3>2 DEF Runner!Next
  <2> QED BY <1>4, <2>2, <2>3 DEF HandlerFails
<1>5. CASE Commit
  <2>1. /\ UNCHANGED <<log, next>>
        /\ \/ committed' = [t \in Topics |-> IF toCommit[t] > 0 THEN toCommit[t] ELSE committed[t]]
           \/ committed' = committed
    BY <1>5 DEF Commit, engineVars
  <2>2. CASE committed' = committed
    BY <2>1, <2>2, <1>1
  <2>3. CASE committed' = [t \in Topics |-> IF toCommit[t] > 0 THEN toCommit[t] ELSE committed[t]]
    <3>1. committed' \in [Topics -> Nat]
      BY <2>3, <1>0
    <3>2. \A t \in Topics : committed[t] <= committed'[t] /\ committed'[t] <= next[t]
      BY <2>3, <1>0 DEF Ordered
    <3>3. Runner!Ack
      BY <2>1, <3>1, <3>2, CommitAcks
    <3> QED BY <3>3 DEF Runner!Next
  <2> QED BY <2>1, <2>2, <2>3
<1>6. CASE AutoCommit
  <2>1. /\ UNCHANGED <<log, next>>
        /\ committed' = [t \in Topics |-> IF head[t] > committed[t] THEN head[t] ELSE committed[t]]
    BY <1>6 DEF AutoCommit, AutoCommitted, engineVars
  <2>2. committed' \in [Topics -> Nat]
    BY <2>1, <1>0
  <2>3. \A t \in Topics : committed[t] <= committed'[t] /\ committed'[t] <= next[t]
    BY <2>1, <1>0
  <2>4. Runner!Ack
    BY <2>1, <2>2, <2>3, CommitAcks
  <2> QED BY <2>4 DEF Runner!Next
<1>7. CASE Restart
  <2>1. next' = committed /\ UNCHANGED <<log, committed>>
    BY <1>7 DEF Restart, engineVars
  <2>2. next' = [t \in Topics |-> committed[t]]
    BY <2>1 DEF TypeOK
  <2>3. Runner!Restart
    BY <2>1, <2>2 DEF Runner!Restart, Runner!StartsAt
  <2> QED BY <2>3 DEF Runner!Next
<1>8. CASE UNCHANGED vars
  BY <1>8, <1>1 DEF vars
<1>9. CASE Poll \/ (\E t \in Topics : Take(t)) \/ Mark
  BY <1>9, <1>1 DEF Poll, Take, Mark, engineVars
<1> QED BY <1>2, <1>3, <1>4, <1>5, <1>6, <1>7, <1>8, <1>9 DEF Next, Process

\* The runner implements AtLeastOnce, for every number of topics' records,
\* retries and restarts: whatever fails, a consumer built on it is handed
\* every record in order and after a restart only what is not acknowledged.
THEOREM Refinement == Spec => ImplementsAtLeastOnce
<1>1. Init => Runner!Init /\ Ordered
  BY DEF Init, Runner!Init, Ordered
<1>2. Inv /\ Ordered /\ [Next]_vars => Ordered'
  BY StepOrdered
<1>3. Inv /\ Ordered /\ [Next]_vars => [Runner!Next]_(Runner!vars)
  BY StepRefines
<1> QED BY <1>1, <1>2, <1>3, Invariance, PTL DEF Spec, ImplementsAtLeastOnce, Runner!Spec
------------------------------------------------------------------------------
(* Replays are idempotent.                                                 *)

\* The row of an order is an event that no later one of its topic has passed;
\* or none of the order's events has been passed since the last restart.
RowIsEvent(o) ==
  \/ \A t \in OrderTopics : \A j \in EventsOf(o, t) : next[t] < j
  \/ \E t \in OrderTopics : \E i \in EventsOf(o, t) :
       /\ \A j \in EventsOf(o, t) : j <= next[t] => j <= i
       /\ rows[o] = log[t][i].row

\* An order that is not open any more has events.
HasEvents ==
  \A o \in Stored : engine[o].status # "open" => \E t \in OrderTopics : EventsOf(o, t) # {}

RowsFollow ==
  /\ pc = "update" => cur # "trade"
  /\ HasEvents
  /\ \A o \in Stored : NoneFailed(o) => RowIsEvent(o)

\* The engine appends events, which nobody has passed.
LEMMA PublishFollows ==
  ASSUME Inv, RowsFollow, NEW o \in Orders, PublishFill(o) \/ PublishCancel(o)
  PROVE  RowsFollow'
<1>1. PICK row \in Rows, topics \in SUBSET Topics :
        /\ engine' = [engine EXCEPT ![o] = row]
        /\ log' = Produce(topics, Record(o, row))
        /\ topics \cap OrderTopics # {}
  BY Published DEF Inv
<1>2. UNCHANGED <<rows, applied, failed, pc, cur, next>>
  BY DEF PublishFill, PublishCancel, tableVars, historyVars
<1>3. Record(o, row).order = o
  BY DEF Record
<1>4. \A t \in Topics : log[t] \in Seq(Records) /\ Len(log[t]) \in Nat /\ next[t] \in Nat
                        /\ next[t] <= Len(log[t])
  <2> SUFFICES ASSUME NEW t \in Topics
               PROVE  /\ log[t] \in Seq(Records) /\ Len(log[t]) \in Nat /\ next[t] \in Nat
                      /\ next[t] <= Len(log[t])
    OBVIOUS
  <2>1. log[t] \in Seq(Records) /\ next[t] \in Nat /\ limit[t] \in Nat
    BY DEF Inv, TypeOK
  <2>2. next[t] <= limit[t] /\ limit[t] <= Len(log[t])
    BY DEF Inv, Positions
  <2> QED BY <2>1, <2>2
<1>5. \A t \in Topics :
        \/ log'[t] = log[t]
        \/ /\ Len(log'[t]) = Len(log[t]) + 1
           /\ \A i \in 1 .. Len(log[t]) : log'[t][i] = log[t][i]
           /\ log'[t][Len(log[t]) + 1] = Record(o, row)
  <2>1. \A t \in Topics : log'[t] = log[t] \/ log'[t] = Append(log[t], Record(o, row))
    BY <1>1 DEF Produce
  <2> QED BY <2>1, <1>4
<1>6. \A t \in Topics, q \in Orders :
        /\ EventsOf(q, t) \subseteq EventsOf(q, t)'
        /\ \A i \in EventsOf(q, t)' : i \in EventsOf(q, t) \/ i = Len(log[t]) + 1
        /\ \A i \in EventsOf(q, t) : log'[t][i] = log[t][i]
  <2> SUFFICES ASSUME NEW t \in Topics, NEW q \in Orders
               PROVE  /\ EventsOf(q, t) \subseteq EventsOf(q, t)'
                      /\ \A i \in EventsOf(q, t)' : i \in EventsOf(q, t) \/ i = Len(log[t]) + 1
                      /\ \A i \in EventsOf(q, t) : log'[t][i] = log[t][i]
    OBVIOUS
  <2>1. CASE log'[t] = log[t]
    BY <2>1 DEF EventsOf
  <2>2. CASE /\ Len(log'[t]) = Len(log[t]) + 1
             /\ \A i \in 1 .. Len(log[t]) : log'[t][i] = log[t][i]
    <3>1. /\ \A i \in 1 .. Len(log[t]) : i \in 1 .. Len(log'[t])
          /\ \A i \in 1 .. Len(log'[t]) : i \in 1 .. Len(log[t]) \/ i = Len(log[t]) + 1
      BY <2>2, <1>4
    <3> QED BY <2>2, <3>1 DEF EventsOf
  <2> QED BY <2>1, <2>2, <1>5
<1>7. HasEvents'
  <2> SUFFICES ASSUME NEW q \in Stored, engine'[q].status # "open"
               PROVE  \E t \in OrderTopics : EventsOf(q, t)' # {}
    BY DEF HasEvents
  <2>0. q \in Orders
    BY OrdersAssumption
  <2>1. CASE q = o
    <3>1. PICK t \in topics : t \in OrderTopics /\ t \in Topics
      BY <1>1
    <3>2. log'[t] = Append(log[t], Record(o, row))
      BY <1>1, <3>1 DEF Produce
    <3>3. Len(log[t]) + 1 \in 1 .. Len(log'[t]) /\ log'[t][Len(log[t]) + 1].order = o
      BY <3>1, <3>2, <1>3, <1>4
    <3> QED BY <2>1, <3>1, <3>3 DEF EventsOf
  <2>2. CASE q # o
    <3>1. engine'[q] = engine[q]
      BY <2>2, <1>1, <2>0 DEF Inv, TypeOK
    <3>2. PICK t \in OrderTopics : EventsOf(q, t) # {}
      BY <3>1 DEF RowsFollow, HasEvents
    <3> QED BY <3>2, <1>6, <2>0 DEF OrderTopics
  <2> QED BY <2>1, <2>2
<1>8. \A q \in Stored : NoneFailed(q)' => RowIsEvent(q)'
  <2> SUFFICES ASSUME NEW q \in Stored, NoneFailed(q)' PROVE RowIsEvent(q)'
    OBVIOUS
  <2>0. q \in Orders
    BY OrdersAssumption
  <2>1. NoneFailed(q)
    BY <2>0, <1>2, <1>6 DEF NoneFailed, OrderTopics
  <2>2. CASE \A t \in OrderTopics : \A j \in EventsOf(q, t) : next[t] < j
    <3>1. \A t \in OrderTopics : \A j \in EventsOf(q, t)' : next[t] < j
      <4> SUFFICES ASSUME NEW t \in OrderTopics, NEW j \in EventsOf(q, t)'
                   PROVE  next[t] < j
        OBVIOUS
      <4>1. j \in EventsOf(q, t) \/ j = Len(log[t]) + 1
        BY <2>0, <1>6 DEF OrderTopics
      <4> QED BY <4>1, <2>2, <1>4 DEF OrderTopics
    <3> QED BY <3>1, <1>2 DEF RowIsEvent
  <2>3. CASE \E t \in OrderTopics : \E i \in EventsOf(q, t) :
               /\ \A j \in EventsOf(q, t) : j <= next[t] => j <= i
               /\ rows[q] = log[t][i].row
    <3>a. PICK t \in OrderTopics : \E i \in EventsOf(q, t) :
               /\ \A j \in EventsOf(q, t) : j <= next[t] => j <= i
               /\ rows[q] = log[t][i].row
      BY <2>3
    <3>1. PICK i \in EventsOf(q, t) :
               /\ \A j \in EventsOf(q, t) : j <= next[t] => j <= i
               /\ rows[q] = log[t][i].row
      BY <3>a
    <3>2. t \in Topics
      BY DEF OrderTopics
    <3>3. i \in EventsOf(q, t)' /\ rows'[q] = log'[t][i].row
      BY <3>1, <3>2, <2>0, <1>2, <1>6
    <3>4. \A j \in EventsOf(q, t)' : j <= next[t] => j <= i
      <4> SUFFICES ASSUME NEW j \in EventsOf(q, t)', j <= next[t] PROVE j <= i
        OBVIOUS
      <4>1. j \in EventsOf(q, t) \/ j = Len(log[t]) + 1
        BY <2>0, <3>2, <1>6
      <4> QED BY <4>1, <3>1, <3>2, <1>4
    <3> QED BY <3>3, <3>4, <1>2 DEF RowIsEvent
  <2> QED BY <2>1, <2>2, <2>3 DEF RowsFollow, RowIsEvent
<1> QED BY <1>2, <1>7, <1>8 DEF RowsFollow

\* A record that is not an event of the order is passed.
LEMMA PassingOthers ==
  ASSUME Inv, NEW q \in Stored, RowIsEvent(q), cur \in Topics,
         next' = [next EXCEPT ![cur] = next[cur] + 1], UNCHANGED log,
         rows'[q] = rows[q],
         cur \in OrderTopics => next[cur] + 1 \notin EventsOf(q, cur)
  PROVE  RowIsEvent(q)'
<1>1. \A t \in OrderTopics : /\ EventsOf(q, t)' = EventsOf(q, t)
                             /\ next[t] \in Nat /\ EventsOf(q, t) \subseteq Nat
  BY DEF EventsOf, OrderTopics, Inv, TypeOK
<1>2. \A t \in OrderTopics : \A j \in EventsOf(q, t) : (j <= next'[t]) <=> (j <= next[t])
  <2> SUFFICES ASSUME NEW t \in OrderTopics, NEW j \in EventsOf(q, t)
               PROVE  (j <= next'[t]) <=> (j <= next[t])
    OBVIOUS
  <2>0. t \in Topics /\ j \in Nat /\ next[t] \in Nat
    BY <1>1 DEF OrderTopics
  <2>1. CASE t = cur
    <3>1. next'[t] = next[t] + 1 /\ j # next[t] + 1
      BY <2>1, <2>0 DEF Inv, TypeOK
    <3> QED BY <3>1, <2>0
  <2>2. CASE t # cur
    BY <2>2, <2>0 DEF Inv, TypeOK
  <2> QED BY <2>1, <2>2
<1>3. \A t \in OrderTopics : next'[t] \in Nat
  BY DEF OrderTopics, Inv, TypeOK
<1>4. CASE \A t \in OrderTopics : \A j \in EventsOf(q, t) : next[t] < j
  <2>1. \A t \in OrderTopics : \A j \in EventsOf(q, t) : next'[t] < j
    BY <1>1, <1>2, <1>3, <1>4
  <2> QED BY <2>1, <1>1 DEF RowIsEvent
<1>5. CASE \E t \in OrderTopics : \E i \in EventsOf(q, t) :
             /\ \A j \in EventsOf(q, t) : j <= next[t] => j <= i
             /\ rows[q] = log[t][i].row
  <2>a. PICK t \in OrderTopics : \E i \in EventsOf(q, t) :
             /\ \A j \in EventsOf(q, t) : j <= next[t] => j <= i
             /\ rows[q] = log[t][i].row
    BY <1>5
  <2>1. PICK i \in EventsOf(q, t) :
             /\ \A j \in EventsOf(q, t) : j <= next[t] => j <= i
             /\ rows[q] = log[t][i].row
    BY <2>a
  <2>2. \A j \in EventsOf(q, t)' : j <= next'[t] => j <= i
    BY <2>1, <1>1, <1>2
  <2>3. i \in EventsOf(q, t)' /\ rows'[q] = log'[t][i].row
    BY <2>1, <1>1
  <2> QED BY <2>2, <2>3 DEF RowIsEvent
<1> QED BY <1>4, <1>5 DEF RowIsEvent

\* The event that a handler is at.
LEMMA EventIsOf ==
  ASSUME Inv, pc \in {"mark", "update"}
  PROVE  /\ cur \in Topics /\ next[cur] \in Nat
         /\ \A q \in Orders : Offset \in EventsOf(q, cur) <=> Event.order = q
<1>1. cur \in Topics /\ next[cur] < limit[cur] /\ limit[cur] <= Len(log[cur])
  BY DEF Inv, Busy, Positions
<1>2. next[cur] \in Nat /\ limit[cur] \in Nat /\ log[cur] \in Seq(Records)
  BY <1>1 DEF Inv, TypeOK
<1>3. Offset \in 1 .. Len(log[cur])
  BY <1>1, <1>2 DEF Offset
<1> QED BY <1>1, <1>2, <1>3 DEF EventsOf, Event

\* An update makes the row the event that is passed.
LEMMA UpdateFollows == ASSUME Inv, RowsFollow, Update PROVE RowsFollow'
<1>1. /\ pc = "update" /\ pc' = "iter" /\ cur # "trade"
      /\ next' = [next EXCEPT ![cur] = next[cur] + 1]
      /\ rows' = [o \in Stored |-> IF o = Event.order THEN Event.row ELSE rows[o]]
      /\ UNCHANGED <<engine, log, failed>>
  BY DEF Update, Done, Offset, engineVars, Written, RowsFollow
<1>2. /\ cur \in OrderTopics /\ cur \in Topics /\ next[cur] \in Nat
      /\ \A q \in Orders : Offset \in EventsOf(q, cur) <=> Event.order = q
  BY <1>1, EventIsOf DEF OrderTopics
<1>3. HasEvents'
  BY <1>1 DEF RowsFollow, HasEvents, EventsOf
<1>4. \A q \in Stored : NoneFailed(q)' => RowIsEvent(q)'
  <2> SUFFICES ASSUME NEW q \in Stored, NoneFailed(q)' PROVE RowIsEvent(q)'
    OBVIOUS
  <2>0. q \in Orders /\ NoneFailed(q)
    BY <1>1, OrdersAssumption DEF NoneFailed, EventsOf
  <2>1. CASE q = Event.order
    <3>1. PICK t \in OrderTopics, i \in Nat : t = cur /\ i = next[cur] + 1
      BY <1>2
    <3>2. i \in EventsOf(q, t) /\ rows'[q] = log[t][i].row /\ next'[t] = i
      BY <2>0, <2>1, <3>1, <1>1, <1>2 DEF Event, Offset, Inv, TypeOK
    <3>3. EventsOf(q, t)' = EventsOf(q, t)
      BY <1>1 DEF EventsOf
    <3> QED BY <3>2, <3>3, <1>1 DEF RowIsEvent
  <2>2. CASE q # Event.order
    <3>1. rows'[q] = rows[q]
      BY <2>2, <1>1
    <3>2. next[cur] + 1 \notin EventsOf(q, cur)
      BY <2>0, <2>2, <1>2 DEF Offset
    <3>3. RowIsEvent(q)
      BY <2>0 DEF RowsFollow
    <3> QED BY <3>1, <3>2, <3>3, <1>1, <1>2, PassingOthers
  <2> QED BY <2>1, <2>2
<1> QED BY <1>1, <1>3, <1>4 DEF RowsFollow

\* A record that is given up is passed too; its order is not spoken of any more.
LEMMA HandlerFailsFollows == ASSUME Inv, RowsFollow, HandlerFails PROVE RowsFollow'
<1>1. /\ pc \in {"mark", "update"} /\ UNCHANGED <<engine, log, rows, cur>>
  BY DEF HandlerFails, engineVars, tableVars
<1>2. HasEvents'
  BY <1>1 DEF RowsFollow, HasEvents, EventsOf
<1>3. CASE Retry
  <2>1. pc' = "mark" /\ UNCHANGED <<failed, next>>
    BY <1>3 DEF Retry
  <2> QED BY <1>1, <1>2, <2>1 DEF RowsFollow, NoneFailed, RowIsEvent, EventsOf
<1>4. CASE \E published \in BOOLEAN : SendToDLQ(published)
  <2>1. /\ failed' = failed \cup {<<cur, Offset>>} /\ pc' = "iter"
        /\ next' = [next EXCEPT ![cur] = next[cur] + 1]
    BY <1>4 DEF SendToDLQ, Done, Position, Offset
  <2>2. cur \in Topics
    BY <1>1, EventIsOf
  <2>3. \A q \in Stored : NoneFailed(q)' => RowIsEvent(q)'
    <3> SUFFICES ASSUME NEW q \in Stored, NoneFailed(q)' PROVE RowIsEvent(q)'
      OBVIOUS
    <3>1. NoneFailed(q)
      BY <1>1, <2>1 DEF NoneFailed, EventsOf
    <3>2. cur \in OrderTopics => next[cur] + 1 \notin EventsOf(q, cur)
      BY <1>1, <2>1 DEF NoneFailed, EventsOf, Offset
    <3>3. RowIsEvent(q)
      BY <3>1 DEF RowsFollow
    <3>4. rows'[q] = rows[q] /\ log' = log
      BY <1>1
    <3> QED BY <3>2, <3>3, <3>4, <2>1, <2>2, PassingOthers
  <2> QED BY <1>2, <2>1, <2>3 DEF RowsFollow
<1> QED BY <1>3, <1>4 DEF HandlerFails

\* A restart only takes positions back.
LEMMA RestartFollows == ASSUME Inv, RowsFollow, Restart PROVE RowsFollow'
<1>1. next' = committed /\ pc' = "poll" /\ UNCHANGED <<engine, log, rows, failed>>
  BY DEF Restart, engineVars, tableVars, historyVars
<1>2. \A t \in OrderTopics : /\ committed[t] \in Nat /\ next[t] \in Nat
                             /\ committed[t] <= next[t]
  BY DEF Inv, TypeOK, Positions, OrderTopics
<1>3. HasEvents'
  BY <1>1 DEF RowsFollow, HasEvents, EventsOf
<1>4. \A q \in Stored, t \in OrderTopics : /\ EventsOf(q, t)' = EventsOf(q, t)
                                          /\ EventsOf(q, t) \subseteq Nat
  BY <1>1 DEF EventsOf
<1>5. \A q \in Stored : NoneFailed(q)' => RowIsEvent(q)'
  <2> SUFFICES ASSUME NEW q \in Stored, NoneFailed(q)' PROVE RowIsEvent(q)'
    OBVIOUS
  <2>1. RowIsEvent(q)
    BY <1>1, <1>4 DEF RowsFollow, NoneFailed
  <2>2. CASE \A t \in OrderTopics : \A j \in EventsOf(q, t) : next[t] < j
    <3>1. \A t \in OrderTopics : \A j \in EventsOf(q, t) : committed[t] < j
      BY <1>2, <1>4, <2>2
    <3> QED BY <3>1, <1>1, <1>4 DEF RowIsEvent
  <2>3. CASE \E t \in OrderTopics : \E i \in EventsOf(q, t) :
               /\ \A j \in EventsOf(q, t) : j <= next[t] => j <= i
               /\ rows[q] = log[t][i].row
    <3>a. PICK t \in OrderTopics : \E i \in EventsOf(q, t) :
               /\ \A j \in EventsOf(q, t) : j <= next[t] => j <= i
               /\ rows[q] = log[t][i].row
      BY <2>3
    <3>1. PICK i \in EventsOf(q, t) :
               /\ \A j \in EventsOf(q, t) : j <= next[t] => j <= i
               /\ rows[q] = log[t][i].row
      BY <3>a
    <3>2. \A j \in EventsOf(q, t) : j <= committed[t] => j <= i
      <4> SUFFICES ASSUME NEW j \in EventsOf(q, t), j <= committed[t] PROVE j <= i
        OBVIOUS
      <4>1. j \in Nat /\ j <= next[t]
        BY <1>2, <1>4
      <4> QED BY <4>1, <3>1
    <3> QED BY <3>1, <3>2, <1>1, <1>4 DEF RowIsEvent
  <2> QED BY <2>1, <2>2, <2>3 DEF RowIsEvent
<1> QED BY <1>1, <1>3, <1>5 DEF RowsFollow

\* Every step keeps to it.
LEMMA StepFollows == ASSUME Inv, RowsFollow, [Next]_vars PROVE RowsFollow'
<1>1. ASSUME UNCHANGED <<engine, log, rows, failed, next>>, pc' = "update" => cur' # "trade"
      PROVE  RowsFollow'
  BY <1>1 DEF RowsFollow, HasEvents, NoneFailed, RowIsEvent, EventsOf
<1>2. CASE Poll \/ (\E t \in Topics : Take(t)) \/ Commit
  BY <1>2, <1>1 DEF Poll, Take, Commit, engineVars, tableVars, historyVars
<1>3. CASE Mark
  BY <1>3, <1>1 DEF Mark, engineVars, historyVars
<1>4. CASE AutoCommit
  BY <1>4, <1>1 DEF AutoCommit, engineVars, tableVars, historyVars, RowsFollow
<1>5. CASE UNCHANGED vars
  BY <1>5, <1>1 DEF vars, RowsFollow
<1> QED BY <1>2, <1>3, <1>4, <1>5, PublishFollows, UpdateFollows, HandlerFailsFollows,
        RestartFollows DEF Next, Process

\* When the consumer has caught up, the row of an order whose events did not fail
\* is the last event of one of its topics, whatever was applied again.
THEOREM ReplaysIdempotent == Spec => []RowIsALastEvent
<1>1. Init => RowsFollow
  <2> SUFFICES ASSUME Init PROVE RowsFollow
    OBVIOUS
  <2>1. \A o \in Stored : engine[o].status = "open"
    BY OrdersAssumption DEF Init, Row
  <2>2. \A o \in Stored, t \in OrderTopics : EventsOf(o, t) = {}
    BY DEF Init, EventsOf, OrderTopics
  <2> QED BY <2>1, <2>2 DEF Init, RowsFollow, HasEvents, RowIsEvent
<1>2. Inv /\ RowsFollow /\ [Next]_vars => RowsFollow'
  BY StepFollows
<1>3. Inv /\ RowsFollow => RowIsALastEvent
  <2> SUFFICES ASSUME Inv, RowsFollow, Idle, NEW o \in Stored,
                      NoneFailed(o), engine[o].status # "open"
               PROVE  \E t \in OrderTopics : \E i \in EventsOf(o, t) :
                        /\ \A j \in EventsOf(o, t) : j <= i
                        /\ rows[o] = log[t][i].row
    BY DEF RowIsALastEvent
  <2>1. \A t \in OrderTopics : \A j \in EventsOf(o, t) : j \in Nat /\ next[t] \in Nat /\ j <= next[t]
    BY DEF Idle, EventsOf, OrderTopics, Inv, TypeOK
  <2>2. PICK t \in OrderTopics : EventsOf(o, t) # {}
    BY DEF RowsFollow, HasEvents
  <2>3. ~ (\A u \in OrderTopics : \A j \in EventsOf(o, u) : next[u] < j)
    BY <2>1, <2>2
  <2>4. RowIsEvent(o)
    BY DEF RowsFollow
  <2> QED BY <2>1, <2>3, <2>4 DEF RowIsEvent
<1> QED BY <1>1, <1>2, <1>3, Invariance, PTL DEF Spec
------------------------------------------------------------------------------
(* The runner gets through its backlog.                                    *)

\* How far behind the runner is; the calls of the handler that the record it is
\* at may still cost; and where the runner is within such a call.
Behind(t) == Len(log[t]) - next[t]
Backlog == Behind("partial") + Behind("filled") + Behind("canceled") + Behind("trade")
TriesLeft == MaxRetries - attempt
Stage ==
  CASE pc = "iter" /\ next = limit -> 4
    [] pc = "poll" -> 3
    [] pc = "iter" /\ next # limit -> 2
    [] pc = "mark" -> 1
    [] pc = "update" -> 0

\* The three get lower, the first before the others.
Lower == \/ Backlog' < Backlog
         \/ Backlog' = Backlog /\ TriesLeft' < TriesLeft
         \/ Backlog' = Backlog /\ TriesLeft' = TriesLeft /\ Stage' < Stage

\* A step of the runner lowers them, whatever fails in it; the client's own
\* commits do not touch them.
RunnerWears ==
  /\ Process => Lower
  /\ AutoCommit => UNCHANGED <<Backlog, TriesLeft, Stage>>

\* The three are natural numbers, and without a backlog all is dealt with.
LEMMA RanksAreNat ==
  ASSUME Inv
  PROVE  /\ Backlog \in Nat /\ TriesLeft \in Nat /\ Stage \in 0 .. 4
         /\ Backlog = 0 => \A t \in Topics : \A i \in 1 .. Len(log[t]) : <<t, i>> \in Settled
<1>1. \A t \in Topics : next[t] \in Nat /\ Len(log[t]) \in Nat /\ Behind(t) \in Nat
  <2> SUFFICES ASSUME NEW t \in Topics PROVE next[t] \in Nat /\ Len(log[t]) \in Nat /\ Behind(t) \in Nat
    OBVIOUS
  <2>1. next[t] \in Nat /\ limit[t] \in Nat /\ log[t] \in Seq(Records)
    BY DEF Inv, TypeOK
  <2>2. Len(log[t]) \in Nat /\ next[t] <= limit[t] /\ limit[t] <= Len(log[t])
    BY <2>1 DEF Inv, Positions
  <2> QED BY <2>1, <2>2 DEF Behind
<1>2. /\ Behind("partial") \in Nat /\ Behind("filled") \in Nat
      /\ Behind("canceled") \in Nat /\ Behind("trade") \in Nat
  BY <1>1 DEF Topics
<1>3. Backlog \in Nat
  BY <1>2 DEF Backlog
<1>4. TriesLeft \in Nat
  BY Bounds DEF TriesLeft, Inv, TypeOK
<1>5. Stage \in 0 .. 4
  BY DEF Stage, Inv, TypeOK
<1>6. ASSUME Backlog = 0, NEW t \in Topics, NEW i \in 1 .. Len(log[t])
      PROVE  <<t, i>> \in Settled
  <2>1. Behind(t) = 0
    BY <1>2, <1>6 DEF Backlog, Topics
  <2>2. next[t] = Len(log[t])
    BY <2>1, <1>1 DEF Behind
  <2> QED BY <2>2, <1>6 DEF Inv, PassedIsSettled
<1> QED BY <1>3, <1>4, <1>5, <1>6

\* processRecord returns: the backlog is one record shorter.
LEMMA DoneWears ==
  ASSUME Inv, pc \in {"mark", "update"}, NEW ok, Done(ok), UNCHANGED log
  PROVE  Backlog' < Backlog
<1>1. cur \in Topics /\ next \in [Topics -> Nat] /\ log \in [Topics -> Seq(Records)]
  BY DEF Inv, TypeOK, Busy
<1>2. next' = [next EXCEPT ![cur] = next[cur] + 1]
  BY DEF Done, Offset
<1>3. \A t \in Topics : /\ Behind(t) \in Int
                        /\ Behind(t)' = IF t = cur THEN Behind(t) - 1 ELSE Behind(t)
  <2> SUFFICES ASSUME NEW t \in Topics
               PROVE  /\ Behind(t) \in Int
                      /\ Behind(t)' = IF t = cur THEN Behind(t) - 1 ELSE Behind(t)
    OBVIOUS
  <2>1. next[t] \in Nat /\ Len(log[t]) \in Nat
    BY <1>1
  <2>2. next'[t] = IF t = cur THEN next[t] + 1 ELSE next[t]
    BY <1>1, <1>2
  <2> QED BY <2>1, <2>2 DEF Behind
<1>4. /\ "partial" \in Topics /\ "filled" \in Topics /\ "canceled" \in Topics /\ "trade" \in Topics
      /\ cur \in {"partial", "filled", "canceled", "trade"}
  BY <1>1 DEF Topics
<1> QED BY <1>3, <1>4 DEF Backlog

\* However many orders, topics' records, retries and failures there are: every
\* step of the runner brings it nearer to the end of its topics, a record that
\* keeps failing included, and there all records are dealt with.  With the
\* fairness of Spec this is why EventsSettled holds.
THEOREM BacklogWearsOff ==
  Spec => /\ [](/\ Backlog \in Nat /\ TriesLeft \in Nat /\ Stage \in 0 .. 4
                /\ Backlog = 0 =>
                     \A t \in Topics : \A i \in 1 .. Len(log[t]) : <<t, i>> \in Settled)
          /\ [][RunnerWears]_vars
<1> DEFINE Ranks == /\ Backlog \in Nat /\ TriesLeft \in Nat /\ Stage \in 0 .. 4
                    /\ Backlog = 0 =>
                         \A t \in Topics : \A i \in 1 .. Len(log[t]) : <<t, i>> \in Settled
<1>1. Inv => Ranks
  BY RanksAreNat
<1>2. Inv /\ [Next]_vars => [RunnerWears]_vars
  <2> SUFFICES ASSUME Inv PROVE RunnerWears
    OBVIOUS
  <2>1. ASSUME UNCHANGED <<log, next>> PROVE Backlog' = Backlog
    BY <2>1 DEF Backlog, Behind
  <2>2. ASSUME UNCHANGED <<log, next, attempt>>, Stage' < Stage
        PROVE  Lower
    BY <2>1, <2>2 DEF TriesLeft, Lower
  <2>3. ASSUME Poll PROVE Lower
    <3>1. pc = "poll" /\ pc' = "iter" /\ UNCHANGED <<log, next, attempt>>
      BY <2>3 DEF Poll, engineVars
    <3>2. next' # limit'
      <4>1. PICK t \in Topics : limit'[t] > next[t] /\ next[t] \in Nat
        BY <2>3 DEF Poll, Inv, TypeOK
      <4> QED BY <3>1, <4>1
    <3>3. Stage = 3 /\ Stage' = 2
      BY <3>1, <3>2 DEF Stage
    <3> QED BY <2>2, <3>1, <3>3
  <2>4. ASSUME NEW t \in Topics, Take(t) PROVE Lower
    <3>1. pc = "iter" /\ pc' = "mark" /\ UNCHANGED <<log, next, attempt>> /\ next[t] < limit[t]
      BY <2>4 DEF Take, engineVars
    <3>2. next # limit
      BY <3>1 DEF Inv, TypeOK
    <3>3. Stage = 2 /\ Stage' = 1
      BY <3>1, <3>2 DEF Stage
    <3> QED BY <2>2, <3>1, <3>3
  <2>5. ASSUME Mark PROVE Lower
    <3>1. pc = "mark" /\ pc' = "update" /\ UNCHANGED <<log, next, attempt>>
      BY <2>5 DEF Mark, engineVars
    <3>2. Stage = 1 /\ Stage' = 0
      BY <3>1 DEF Stage
    <3> QED BY <2>2, <3>1, <3>2
  <2>6. ASSUME Update PROVE Lower
    BY <2>6, DoneWears DEF Update, engineVars, Lower
  <2>7. ASSUME HandlerFails PROVE Lower
    <3>1. pc \in {"mark", "update"} /\ UNCHANGED log
      BY <2>7 DEF HandlerFails, engineVars
    <3>2. CASE Retry
      <4>1. UNCHANGED next /\ attempt' = attempt + 1 /\ attempt \in 0 .. MaxRetries
        BY <3>2 DEF Retry, Inv, TypeOK
      <4>2. TriesLeft' < TriesLeft
        BY <4>1, Bounds DEF TriesLeft
      <4> QED BY <2>1, <3>1, <4>1, <4>2 DEF Lower
    <3>3. CASE SendToDLQ(TRUE) \/ SendToDLQ(FALSE)
      BY <3>1, <3>3, DoneWears DEF SendToDLQ, Lower
    <3> QED BY <2>7, <3>2, <3>3 DEF HandlerFails
  <2>8. ASSUME Commit PROVE Lower
    <3>1. /\ pc = "iter" /\ next = limit /\ pc' = "poll" /\ UNCHANGED <<log, next, attempt>>
      BY <2>8 DEF Commit, engineVars
    <3>2. Stage = 4 /\ Stage' = 3
      BY <3>1 DEF Stage
    <3> QED BY <2>2, <3>1, <3>2
  <2>9. AutoCommit => UNCHANGED <<Backlog, TriesLeft, Stage>>
    BY <2>1 DEF AutoCommit, engineVars, TriesLeft, Stage
  <2>10. Process => Lower
    BY <2>3, <2>4, <2>5, <2>6, <2>7, <2>8 DEF Process
  <2> QED BY <2>9, <2>10 DEF RunnerWears
<1> HIDE DEF Ranks
<1>3. Spec => []Ranks /\ [][RunnerWears]_vars
  BY <1>1, <1>2, Invariance, PTL DEF Spec
<1> QED BY <1>3 DEF Ranks
=============================================================================
