----------------------------- MODULE AtLeastOnce -----------------------------
(***************************************************************************)
(* What Runner of internal/infrastructure/kafka/consumer/consumer.go gives *)
(* the handlers that it calls: each topic's records one after the other,   *)
(* offsets that are committed only behind them and never go back, and      *)
(* after a restart the records from the committed offset again.            *)
(*                                                                         *)
(* Projection, which has the batches, retries and both kinds of commit,    *)
(* implements this; Engine uses it for its own consumer.                   *)
(***************************************************************************)
EXTENDS Integers

CONSTANTS
  Topics,     \* the topics that ConsumeTopics names
  ResetToEnd  \* ConsumeResetOffset: AtEnd, else AtStart

VARIABLES
  produced,  \* produced[t]: the number of records in topic t
  passed,    \* passed[t]: how many of them the handler is done with
  acked      \* acked[t]: the group's offset; 0 when it has none

vars == <<produced, passed, acked>>

Init ==
  /\ produced = [t \in Topics |-> 0]
  /\ passed = [t \in Topics |-> 0]
  /\ acked = [t \in Topics |-> 0]

\* Somebody publishes a record to each topic of T.
Produce(T) ==
  /\ produced' = [t \in Topics |-> IF t \in T THEN produced[t] + 1 ELSE produced[t]]
  /\ UNCHANGED <<passed, acked>>

\* The handler is done with the next record of t: processRecord returns.
Pass(t) ==
  /\ passed[t] < produced[t]
  /\ passed' = [passed EXCEPT ![t] = @ + 1]
  /\ UNCHANGED <<produced, acked>>

\* Offsets are committed, in any topics at once.
Ack ==
  /\ acked' \in [Topics -> UNION {0 .. passed[t] : t \in Topics}]
  /\ \A t \in Topics : acked[t] <= acked'[t] /\ acked'[t] <= passed[t]
  /\ UNCHANGED <<produced, passed>>

\* Where the client starts when it joins the group.
StartsAt(t) == IF acked[t] = 0 /\ ResetToEnd THEN produced[t] ELSE acked[t]

\* The process stops, and is started again.
Restart ==
  /\ passed' = [t \in Topics |-> StartsAt(t)]
  /\ UNCHANGED <<produced, acked>>

Next == \/ \E T \in SUBSET Topics : Produce(T)
        \/ \E t \in Topics : Pass(t)
        \/ Ack
        \/ Restart

Spec == Init /\ [][Next]_vars
===============================================================================
