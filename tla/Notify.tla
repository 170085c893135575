-------------------------------- MODULE Notify --------------------------------
(***************************************************************************)
(* The notification consumer: cmd/notification_consumer.go with            *)
(* NotificationHandler of usecases/order_event_usecases/handlers.go.  It   *)
(* reads every topic, and has the hub of its own process broadcast each    *)
(* order event to the event's user.                                        *)
(*                                                                         *)
(* The runner is used through AtLeastOnce.  A call of the handler is       *)
(* MarkEvent in the database and then BroadcastUser, which answers no      *)
(* error; whom a broadcast reaches is Hub's subject.                       *)
(*                                                                         *)
(* The runner decodes every record as an OrderStatusEvent, so that the     *)
(* branch for trades is never taken: a trade, and an expired order, has no *)
(* user, does not pass validation, and is given up.                        *)
(***************************************************************************)
EXTENDS Integers, Sequences

CONSTANTS
  Topics,
  Users,
  NoUser,      \* a record without a user
  MaxRecords,  \* bound: the records of a topic
  MaxCrashes   \* bound: how often the process stops

NoTopic == <<>>

ASSUME UsersAssumption == NoUser \notin Users
ASSUME TopicsAssumption == NoTopic \notin Topics
ASSUME BoundsAssumption == MaxRecords \in Nat /\ MaxCrashes \in Nat

VARIABLES
  log,     \* log[t]: the user of each record of topic t
  passed,  \* passed[t]: records of t the runner is done with
  acked,   \* acked[t]: the group's offset
  cur,     \* the topic of the record that is to be broadcast
  marked,  \* the records whose event ID is in processed_order_events
  told,    \* told[m]: how often record m was broadcast
  failed,  \* the records given up
  crashes

vars == <<log, passed, acked, cur, marked, told, failed, crashes>>

Places == Topics \X (1 .. MaxRecords)
NextPlace(t) == <<t, passed[t] + 1>>
UserOf(m) == log[m[1]][m[2]]

Consumer == INSTANCE AtLeastOnce
              WITH ResetToEnd <- FALSE,
                   produced <- [t \in Topics |-> Len(log[t])]

Init ==
  /\ log = [t \in Topics |-> <<>>]
  /\ passed = [t \in Topics |-> 0]
  /\ acked = [t \in Topics |-> 0]
  /\ cur = NoTopic
  /\ marked = {}
  /\ told = [m \in Places |-> 0]
  /\ failed = {}
  /\ crashes = 0

\* The API or the engine publishes an event.
Publish(t, u) ==
  /\ Len(log[t]) < MaxRecords
  /\ log' = [log EXCEPT ![t] = Append(@, u)]
  /\ UNCHANGED <<passed, acked, cur, marked, told, failed, crashes>>

\* Mutant of Mark: an event that is marked already is not broadcast.
MarkSkipsDuplicates(t) ==
  /\ cur = NoTopic
  /\ passed[t] < Len(log[t])
  /\ UserOf(NextPlace(t)) # NoUser
  /\ marked' = marked \cup {NextPlace(t)}
  /\ UNCHANGED <<log, acked, told, failed, crashes>>
  /\ IF NextPlace(t) \in marked
     THEN passed' = [passed EXCEPT ![t] = @ + 1] /\ UNCHANGED cur
     ELSE cur' = t /\ UNCHANGED passed

\* The record passes validation, and MarkEvent inserts its event ID.  That it
\* was there already makes no difference.
Mark(t) ==
  /\ cur = NoTopic
  /\ passed[t] < Len(log[t])
  /\ UserOf(NextPlace(t)) # NoUser
  /\ marked' = marked \cup {NextPlace(t)}
  /\ cur' = t
  /\ UNCHANGED <<log, passed, acked, told, failed, crashes>>

\* Mutant of Broadcast: a handler that answers an error after the broadcast,
\* and is called again.
BroadcastAndRetry ==
  /\ cur \in Topics
  /\ told' = [told EXCEPT ![NextPlace(cur)] = @ + 1]
  /\ cur' = NoTopic
  /\ UNCHANGED <<log, marked, failed, crashes>>
  /\ \/ Consumer!Pass(cur)
     \/ UNCHANGED <<passed, acked>>

\* HandleNotificationForOrders: BroadcastUser, and the handler returns nil.
Broadcast ==
  /\ cur \in Topics
  /\ told' = [told EXCEPT ![NextPlace(cur)] = @ + 1]
  /\ cur' = NoTopic
  /\ UNCHANGED <<log, marked, failed, crashes>>
  /\ Consumer!Pass(cur)

\* Every attempt fails, in validation or in MarkEvent: the record goes to the
\* dead letters, or only to the log.
GiveUp(t) ==
  /\ cur = NoTopic
  /\ failed' = failed \cup {NextPlace(t)}
  /\ UNCHANGED <<log, cur, marked, told, crashes>>
  /\ Consumer!Pass(t)

Ack ==
  /\ UNCHANGED <<log, cur, marked, told, failed, crashes>>
  /\ Consumer!Ack

\* Mutant of Restart: off by one, the record at the offset is taken for done.
RestartOneLater ==
  /\ crashes < MaxCrashes
  /\ crashes' = crashes + 1
  /\ cur' = NoTopic
  /\ passed' = [t \in Topics |-> acked[t] + 1]
  /\ UNCHANGED <<log, acked, marked, told, failed>>

\* The process is killed or told to stop, and runs again from the group's
\* offset, or from the first record.
Restart ==
  /\ crashes < MaxCrashes
  /\ crashes' = crashes + 1
  /\ cur' = NoTopic
  /\ UNCHANGED <<log, marked, told, failed>>
  /\ Consumer!Restart

Next == \/ \E t \in Topics : \/ \E u \in Users \cup {NoUser} : Publish(t, u)
                             \/ Mark(t) \/ GiveUp(t)
        \/ Broadcast
        \/ Ack
        \/ Restart

Spec == Init /\ [][Next]_vars

------------------------------------------------------------------------------
Shapes ==
  /\ log \in [Topics -> Seq(Users \cup {NoUser})]
  /\ passed \in [Topics -> 0 .. MaxRecords]
  /\ acked \in [Topics -> 0 .. MaxRecords]
  /\ cur \in Topics \cup {NoTopic}
  /\ marked \subseteq Places
  /\ told \in [Places -> Nat]
  /\ failed \subseteq Places
  /\ crashes \in 0 .. MaxCrashes

\* The records that are in their topics.
Published == {m \in Places : m[2] <= Len(log[m[1]])}

\* Type invariant: the offset and the position are within the topic, and a record
\* is marked, broadcast or given up only once it is there.
TypeOK ==
  /\ Shapes
  /\ \A t \in Topics : acked[t] <= passed[t] /\ passed[t] <= Len(log[t])
  /\ marked \cup failed \subseteq Published
  /\ \A m \in Places : told[m] > 0 => m \in Published

\* Wherever the process stops, no notification is lost: every record that the
\* runner is behind was broadcast, or was given up after its retries.  MarkEvent
\* comes before the broadcast, so that this holds only because a duplicate mark
\* is ignored.
NoneMissed ==
  \A t \in Topics : \A i \in 1 .. passed[t] :
    told[<<t, i>>] > 0 \/ <<t, i>> \in failed

\* A user is told the same thing twice only when the process has stopped in
\* between: retries of the runner repeat the mark and never the broadcast.
ToldOncePerRun == \A m \in Places : told[m] <= 1 + crashes
===============================================================================
