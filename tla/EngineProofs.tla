---------------------------- MODULE EngineProofs ----------------------------
(***************************************************************************)
(* Proofs about Engine, for every set of requests and pairs, every channel *)
(* size and every number of restarts: channels keep order, the API         *)
(* publishes a request once at most, the records of a topic are routed     *)
(* once and in order between restarts, nothing that was handled and        *)
(* committed is routed again, the consumer implements AtLeastOnce, and its *)
(* backlog wears off.                                                      *)
(*                                                                         *)
(* All rest on where the consumer is.  What was routed is behind its       *)
(* position, and what was handled and committed before a restart is behind *)
(* the group's offset; the next record to be routed is ahead of both.      *)
(***************************************************************************)
EXTENDS Engine, SequenceTheorems, FiniteSetTheorems, TLAPS

\* The positions of a topic are in order.
Positions == \A t \in Topics : acked[t] <= passed[t] /\ passed[t] <= Len(log[t])

\* The handler works on a record that is there.
Busy == cur \in Topics => passed[cur] < Len(log[cur])

\* What was routed is behind the position.
RoutedIsPassed ==
  \A p \in Supported : \A i \in DOMAIN routed[p] : routed[p][i][2] <= passed[routed[p][i][1]]

\* What was handled and committed before a restart is behind the offset.
BeforeIsAcked == \A m \in before : m[2] <= acked[m[1]]

\* Between restarts the records of a topic are routed in order, to any one pair.
PlacesInOrder ==
  \A p \in Supported : \A i, j \in DOMAIN routed[p] :
    i < j /\ routed[p][i][1] = routed[p][j][1] => routed[p][i][2] < routed[p][j][2]

\* No record that was handled and committed before a restart is routed again.
PlacesOnce == \A p \in Supported : Elements(routed[p]) \cap before = {}

Inv == /\ TypeOK /\ Positions /\ Busy /\ RoutedIsPassed /\ BeforeIsAcked
       /\ ChannelsKeepOrder /\ PlacesInOrder /\ PlacesOnce

------------------------------------------------------------------------------
(* Sequences.                                                              *)

\* Sending to a channel is sending to all that follows.
LEMMA ConcatAppend ==
  ASSUME NEW S
  PROVE  \A a, b \in Seq(S) : \A x \in S : a \o Append(b, x) = Append(a \o b, x)
OBVIOUS

\* The places of a sequence that was appended to.
LEMMA AppendPlaces ==
  ASSUME NEW S, NEW a \in Seq(S), NEW x \in S
  PROVE  \A i \in DOMAIN Append(a, x) :
           \/ i \in DOMAIN a /\ Append(a, x)[i] = a[i]
           \/ i = Len(a) + 1 /\ Append(a, x)[i] = x /\ \A j \in DOMAIN a : j < i
OBVIOUS

\* Taking the head of a channel moves it to what was worked.
LEMMA MoveHead ==
  ASSUME NEW S, NEW a \in Seq(S), NEW b \in Seq(S), b # <<>>
  PROVE  /\ Append(a, Head(b)) \o Tail(b) = a \o b
         /\ Head(b) \in S /\ Tail(b) \in Seq(S) /\ Len(Tail(b)) = Len(b) - 1
OBVIOUS

------------------------------------------------------------------------------
(* The parts of a step.                                                    *)

\* The record that is next is one of a request.
LEMMA NextIsRecord ==
  ASSUME TypeOK, NEW t \in Topics, passed[t] < Len(log[t])
  PROVE  /\ EventAt(NextPlace(t)) \in Requests
         /\ NextPlace(t) \in Places
         /\ passed[t] \in Nat
<1>1. passed[t] \in Nat /\ log[t] \in Seq(Requests)
  BY DEF TypeOK
<1>2. passed[t] + 1 \in 1 .. Len(log[t])
  BY <1>1
<1> QED BY <1>1, <1>2 DEF EventAt, NextPlace, Places

\* The API only makes the topics longer.
LEMMA ApiInv ==
  ASSUME Inv, UNCHANGED engineVars, phase' \in [Requests -> Phases], UNCHANGED pair,
         \/ UNCHANGED log
         \/ \E t \in Topics, r \in Requests : log' = [log EXCEPT ![t] = Append(@, r)]
  PROVE  Inv'
<1>1. /\ log' \in [Topics -> Seq(Requests)]
      /\ \A t \in Topics : Len(log[t]) \in Nat /\ Len(log'[t]) \in Nat /\ Len(log[t]) <= Len(log'[t])
  <2>1. log \in [Topics -> Seq(Requests)]
    BY DEF Inv, TypeOK
  <2>2. CASE UNCHANGED log
    BY <2>1, <2>2
  <2>3. ASSUME NEW t \in Topics, NEW r \in Requests, log' = [log EXCEPT ![t] = Append(@, r)]
        PROVE  /\ log' \in [Topics -> Seq(Requests)]
               /\ \A s \in Topics : /\ Len(log[s]) \in Nat /\ Len(log'[s]) \in Nat
                                    /\ Len(log[s]) <= Len(log'[s])
    <3>1. Append(log[t], r) \in Seq(Requests) /\ Len(Append(log[t], r)) = Len(log[t]) + 1
      BY <2>1
    <3>2. \A s \in Topics : Len(log[s]) \in Nat
      BY <2>1
    <3> QED BY <2>1, <2>3, <3>1, <3>2
  <2> QED BY <2>2, <2>3
<1>2. UNCHANGED <<passed, acked, cur, marked, routed, channel, worked, before, crashes>>
  BY DEF engineVars
<1>3. TypeOK'
  BY <1>1, <1>2 DEF Inv, TypeOK
<1>4. Positions' /\ Busy'
  <2>1. \A t \in Topics : passed[t] \in Nat /\ acked[t] \in Nat
    BY DEF Inv, TypeOK
  <2>2. Positions'
    BY <1>1, <1>2, <2>1 DEF Inv, Positions
  <2>3. Busy'
    BY <1>1, <1>2, <2>1 DEF Inv, Busy
  <2> QED BY <2>2, <2>3
<1>5. RoutedIsPassed' /\ BeforeIsAcked' /\ ChannelsKeepOrder' /\ PlacesInOrder' /\ PlacesOnce'
  BY <1>2 DEF Inv, RoutedIsPassed, BeforeIsAcked, ChannelsKeepOrder, PlacesInOrder, PlacesOnce
<1> QED BY <1>3, <1>4, <1>5 DEF Inv

\* MarkEvent: the record is there.
LEMMA MarkInv == ASSUME Inv, NEW t \in Topics, Mark(t) PROVE Inv'
<1>1. EventAt(NextPlace(t)) \in Requests
  BY NextIsRecord DEF Inv, Mark
<1>2. TypeOK'
  BY <1>1 DEF Inv, TypeOK, Mark, apiVars
<1>3. Positions' /\ Busy' /\ RoutedIsPassed' /\ BeforeIsAcked'
  BY DEF Inv, Positions, Busy, RoutedIsPassed, BeforeIsAcked, Mark, apiVars
<1>4. ChannelsKeepOrder' /\ PlacesInOrder' /\ PlacesOnce'
  BY DEF Inv, ChannelsKeepOrder, PlacesInOrder, PlacesOnce, Mark
<1> QED BY <1>2, <1>3, <1>4 DEF Inv

\* The position moves over a record.
LEMMA PassMoves ==
  ASSUME TypeOK, Positions, NEW t \in Topics, Consumer!Pass(t), UNCHANGED log
  PROVE  /\ passed' \in [Topics -> Nat] /\ acked' = acked
         /\ passed' = [passed EXCEPT ![t] = @ + 1]
         /\ passed[t] < Len(log[t])
         /\ \A s \in Topics : passed[s] \in Nat /\ passed[s] <= passed'[s]
         /\ Positions'
<1>1. passed' = [passed EXCEPT ![t] = @ + 1] /\ acked' = acked /\ passed[t] < Len(log[t])
  BY DEF Consumer!Pass
<1>2. passed \in [Topics -> Nat] /\ acked \in [Topics -> Nat] /\ log \in [Topics -> Seq(Requests)]
  BY DEF TypeOK
<1>3. passed' \in [Topics -> Nat] /\ \A s \in Topics : passed[s] \in Nat /\ passed[s] <= passed'[s]
  BY <1>1, <1>2
<1>4. Positions'
  <2>1. \A s \in Topics : acked[s] \in Nat /\ Len(log[s]) \in Nat
    BY <1>2
  <2> QED BY <1>1, <1>2, <1>3, <2>1 DEF Positions
<1> QED BY <1>1, <1>3, <1>4

\* What was routed stays behind the position when that moves on.
LEMMA RoutedStays ==
  ASSUME TypeOK, RoutedIsPassed, passed' \in [Topics -> Nat],
         \A s \in Topics : passed[s] <= passed'[s]
  PROVE  \A p \in Supported : \A i \in DOMAIN routed[p] :
           routed[p][i] \in Places /\ routed[p][i][2] <= passed'[routed[p][i][1]]
<1> SUFFICES ASSUME NEW p \in Supported, NEW i \in DOMAIN routed[p]
             PROVE  routed[p][i] \in Places /\ routed[p][i][2] <= passed'[routed[p][i][1]]
  OBVIOUS
<1>1. routed[p] \in Seq(Places) /\ routed[p][i] \in Places
  BY DEF TypeOK
<1>2. routed[p][i][1] \in Topics /\ routed[p][i][2] \in Nat
  BY <1>1 DEF Places
<1>3. routed[p][i][2] <= passed[routed[p][i][1]]
  BY DEF RoutedIsPassed
<1>4. passed[routed[p][i][1]] \in Nat /\ passed'[routed[p][i][1]] \in Nat
  BY <1>2 DEF TypeOK
<1> QED BY <1>1, <1>2, <1>3, <1>4

\* A record is given up: nothing is routed.
LEMMA GiveUpInv == ASSUME Inv, NEW t \in Topics, GiveUp(t) PROVE Inv'
<1>1. UNCHANGED <<phase, pair, log, cur, marked, routed, channel, worked, before, crashes>>
      /\ cur = NoTopic
  BY DEF GiveUp, apiVars
<1>2. /\ passed' \in [Topics -> Nat] /\ acked' = acked /\ Positions'
      /\ \A s \in Topics : passed[s] <= passed'[s]
  BY <1>1, PassMoves DEF GiveUp, Inv
<1>3. TypeOK' /\ Busy'
  BY <1>1, <1>2 DEF Inv, TypeOK, Busy, NoTopic, Topics
<1>4. RoutedIsPassed'
  BY <1>1, <1>2, RoutedStays DEF Inv, RoutedIsPassed
<1>5. BeforeIsAcked' /\ ChannelsKeepOrder' /\ PlacesInOrder' /\ PlacesOnce'
  BY <1>1, <1>2 DEF Inv, BeforeIsAcked, ChannelsKeepOrder, PlacesInOrder, PlacesOnce
<1> QED BY <1>2, <1>3, <1>4, <1>5 DEF Inv

\* A record is routed: it is ahead of all that was routed since the restart, and
\* of all that was handled and committed before it.
LEMMA RouteInv == ASSUME Inv, Route PROVE Inv'
<1> DEFINE m == NextPlace(cur)
           q == PairOf(m)
<1>1. /\ cur \in Topics /\ cur' = NoTopic
      /\ HasRoom(q)
      /\ routed' = SendTo(routed, q, m) /\ channel' = SendTo(channel, q, m)
      /\ UNCHANGED <<phase, pair, log, marked, worked, before, crashes>>
      /\ Consumer!Pass(cur)
  BY DEF Route, apiVars
<1>2. /\ passed' \in [Topics -> Nat] /\ acked' = acked /\ Positions'
      /\ passed' = [passed EXCEPT ![cur] = @ + 1] /\ passed[cur] < Len(log[cur])
      /\ \A s \in Topics : passed[s] \in Nat /\ passed[s] <= passed'[s]
  BY <1>1, PassMoves DEF Inv
<1>3. m \in Places /\ m[1] = cur /\ m[2] = passed[cur] + 1
  BY <1>1, <1>2, NextIsRecord DEF Inv, NextPlace
<1> HIDE DEF m, q
<1>4. \A p \in Supported :
        /\ routed[p] \in Seq(Places) /\ channel[p] \in Seq(Places) /\ worked[p] \in Seq(Places)
        /\ p # q => routed'[p] = routed[p] /\ channel'[p] = channel[p]
        /\ p = q => routed'[p] = Append(routed[p], m) /\ channel'[p] = Append(channel[p], m)
  BY <1>1 DEF Inv, TypeOK, SendTo
<1>5. TypeOK'
  <2>1. routed' \in [Supported -> Seq(Places)] /\ channel' \in [Supported -> Seq(Places)]
    BY <1>1, <1>3, <1>4 DEF SendTo
  <2>2. \A p \in Supported : Len(channel'[p]) <= Capacity
    <3> TAKE p \in Supported
    <3>1. Len(channel[p]) \in Nat /\ Len(channel[p]) <= Capacity
      BY <1>4 DEF Inv, TypeOK
    <3>2. CASE p # q
      BY <1>4, <3>1, <3>2
    <3>3. CASE p = q
      <4>1. Len(channel[p]) < Capacity
        BY <1>1, <3>3 DEF HasRoom
      <4>2. Len(channel'[p]) = Len(channel[p]) + 1
        BY <1>3, <1>4, <3>3
      <4> QED BY <3>1, <4>1, <4>2, CapacityAssumption
    <3> QED BY <3>2, <3>3
  <2> QED BY <1>1, <1>2, <2>1, <2>2 DEF Inv, TypeOK
<1>6. Busy' /\ BeforeIsAcked'
  BY <1>1, <1>2 DEF Inv, Busy, NoTopic, Topics, BeforeIsAcked
<1>7. \A p \in Supported : \A i \in DOMAIN routed[p] :
        /\ routed[p][i] \in Places
        /\ routed[p][i][2] <= passed[routed[p][i][1]]
        /\ routed[p][i][2] <= passed'[routed[p][i][1]]
  BY <1>2, RoutedStays DEF Inv, RoutedIsPassed
<1>8. \A p \in Supported : \A i \in DOMAIN routed'[p] :
        \/ i \in DOMAIN routed[p] /\ routed'[p][i] = routed[p][i]
        \/ /\ p = q /\ i = Len(routed[p]) + 1 /\ routed'[p][i] = m
           /\ \A j \in DOMAIN routed[p] : j < i
  <2> TAKE p \in Supported
  <2>1. CASE p # q
    BY <1>4, <2>1
  <2>2. CASE p = q
    <3>1. routed[p] \in Seq(Places) /\ routed'[p] = Append(routed[p], m) /\ m \in Places
      BY <1>3, <1>4, <2>2
    <3>2. \A i \in DOMAIN Append(routed[p], m) :
            \/ i \in DOMAIN routed[p] /\ Append(routed[p], m)[i] = routed[p][i]
            \/ /\ i = Len(routed[p]) + 1 /\ Append(routed[p], m)[i] = m
               /\ \A j \in DOMAIN routed[p] : j < i
      BY <3>1, AppendPlaces
    <3> QED BY <2>2, <3>1, <3>2
  <2> QED BY <2>1, <2>2
<1>9. RoutedIsPassed'
  <2>1. m[2] <= passed'[m[1]]
    BY <1>1, <1>2, <1>3 DEF Inv, TypeOK
  <2> QED BY <1>7, <1>8, <2>1 DEF RoutedIsPassed
<1>10. PlacesInOrder'
  <2> SUFFICES ASSUME NEW p \in Supported, NEW i \in DOMAIN routed'[p], NEW j \in DOMAIN routed'[p],
                      i < j, routed'[p][i][1] = routed'[p][j][1]
               PROVE  routed'[p][i][2] < routed'[p][j][2]
    BY DEF PlacesInOrder
  <2>1. i \in Nat /\ j \in Nat
    BY <1>3, <1>4
  <2>2. CASE i \in DOMAIN routed[p] /\ routed'[p][i] = routed[p][i]
    <3>1. CASE j \in DOMAIN routed[p] /\ routed'[p][j] = routed[p][j]
      BY <2>2, <3>1 DEF Inv, PlacesInOrder
    <3>2. CASE routed'[p][j] = m
      <4>1. routed[p][i][1] = cur /\ routed[p][i][2] <= passed[cur]
        BY <1>3, <1>7, <2>2, <3>2
      <4>2. routed[p][i][2] \in Nat /\ passed[cur] \in Nat
        BY <1>1, <1>2, <1>7, <2>2 DEF Places
      <4> QED BY <1>3, <2>2, <3>2, <4>1, <4>2
    <3> QED BY <1>8, <3>1, <3>2
  <2>3. CASE i = Len(routed[p]) + 1 /\ \A k \in DOMAIN routed[p] : k < i
    <3>1. j \in DOMAIN routed[p] \/ j = Len(routed[p]) + 1
      BY <1>8
    <3> QED BY <2>1, <2>3, <3>1
  <2> QED BY <1>8, <2>2, <2>3
<1>11. ChannelsKeepOrder'
  <2> SUFFICES ASSUME NEW p \in Supported PROVE worked[p] \o channel'[p] = routed'[p]
    BY <1>1 DEF ChannelsKeepOrder
  <2>1. worked[p] \o channel[p] = routed[p]
    BY DEF Inv, ChannelsKeepOrder
  <2>2. CASE p # q
    BY <1>4, <2>1, <2>2
  <2>3. CASE p = q
    <3>1. worked[p] \o Append(channel[p], m) = Append(worked[p] \o channel[p], m)
      <4>1. worked[p] \in Seq(Places) /\ channel[p] \in Seq(Places) /\ m \in Places
        BY <1>3, <1>4
      <4>2. \A a, b \in Seq(Places) : \A x \in Places : a \o Append(b, x) = Append(a \o b, x)
        BY ConcatAppend
      <4> QED BY <4>1, <4>2, Zenon
    <3> QED BY <1>4, <2>1, <2>3, <3>1
  <2> QED BY <2>2, <2>3
<1>12. PlacesOnce'
  <2>1. m \notin before
    <3>1. acked[cur] \in Nat /\ passed[cur] \in Nat /\ acked[cur] <= passed[cur]
      BY <1>1 DEF Inv, TypeOK, Positions
    <3>2. ~(m[2] <= acked[m[1]])
      BY <1>3, <3>1
    <3> QED BY <3>2 DEF Inv, BeforeIsAcked
  <2>2. \A p \in Supported : \A i \in DOMAIN routed[p] : routed[p][i] \notin before
    BY DEF Inv, PlacesOnce, Elements
  <2>3. \A p \in Supported : \A i \in DOMAIN routed'[p] : routed'[p][i] \notin before
    BY <1>8, <2>1, <2>2
  <2> QED BY <1>1, <2>3 DEF PlacesOnce, Elements
<1> QED BY <1>2, <1>5, <1>6, <1>9, <1>10, <1>11, <1>12 DEF Inv

\* A worker takes the head of its channel.
LEMMA WorkInv == ASSUME Inv, NEW p \in Supported, Work(p) PROVE Inv'
<1>1. /\ channel[p] # <<>>
      /\ channel' = [channel EXCEPT ![p] = Tail(@)]
      /\ worked' = [worked EXCEPT ![p] = Append(@, Head(channel[p]))]
      /\ UNCHANGED <<phase, pair, log, passed, acked, cur, marked, routed, before, crashes>>
  BY DEF Work, apiVars
<1>2. channel \in [Supported -> Seq(Places)] /\ worked \in [Supported -> Seq(Places)]
  BY DEF Inv, TypeOK
<1>3. /\ Append(worked[p], Head(channel[p])) \o Tail(channel[p]) = worked[p] \o channel[p]
      /\ Head(channel[p]) \in Places /\ Tail(channel[p]) \in Seq(Places)
      /\ Len(Tail(channel[p])) = Len(channel[p]) - 1
  BY <1>1, <1>2, MoveHead
<1>4. TypeOK'
  <2>1. channel' \in [Supported -> Seq(Places)] /\ worked' \in [Supported -> Seq(Places)]
    BY <1>1, <1>2, <1>3
  <2>2. \A r \in Supported : Len(channel'[r]) <= Capacity
    <3>1. \A r \in Supported : Len(channel[r]) \in Nat /\ Len(channel[r]) <= Capacity
      BY <1>2 DEF Inv, TypeOK
    <3> QED BY <1>1, <1>2, <1>3, <3>1, CapacityAssumption
  <2> QED BY <1>1, <2>1, <2>2 DEF Inv, TypeOK
<1>5. ChannelsKeepOrder'
  BY <1>1, <1>2, <1>3 DEF Inv, ChannelsKeepOrder
<1>6. Positions' /\ Busy' /\ RoutedIsPassed' /\ BeforeIsAcked' /\ PlacesInOrder' /\ PlacesOnce'
  BY <1>1 DEF Inv, Positions, Busy, RoutedIsPassed, BeforeIsAcked, PlacesInOrder, PlacesOnce
<1> QED BY <1>4, <1>5, <1>6 DEF Inv

\* Offsets move on, behind the position.
LEMMA AckInv == ASSUME Inv, Ack PROVE Inv'
<1>1. /\ \A t \in Topics : acked[t] <= acked'[t] /\ acked'[t] <= passed[t]
      /\ acked' \in [Topics -> UNION {0 .. passed[t] : t \in Topics}]
      /\ UNCHANGED <<phase, pair, log, passed, cur, marked, routed, channel, worked, before, crashes>>
  BY DEF Ack, Consumer!Ack, apiVars
<1>2. acked' \in [Topics -> Nat]
  <2>1. \A t \in Topics : acked'[t] \in Nat
    <3> TAKE t \in Topics
    <3>1. PICK s \in Topics : acked'[t] \in 0 .. passed[s]
      BY <1>1
    <3>2. passed[s] \in Nat
      BY DEF Inv, TypeOK
    <3> QED BY <3>1, <3>2
  <2> QED BY <1>1, <2>1
<1>3. TypeOK' /\ Positions' /\ Busy'
  BY <1>1, <1>2 DEF Inv, TypeOK, Positions, Busy
<1>4. BeforeIsAcked'
  <2> SUFFICES ASSUME NEW m \in before PROVE m[2] <= acked'[m[1]]
    BY <1>1 DEF BeforeIsAcked
  <2>1. m[1] \in Topics /\ m[2] \in Nat
    BY DEF Inv, TypeOK, Places
  <2>2. m[2] <= acked[m[1]] /\ acked[m[1]] \in Nat /\ acked'[m[1]] \in Nat
    BY <1>2, <2>1 DEF Inv, BeforeIsAcked, TypeOK
  <2> QED BY <1>1, <2>1, <2>2
<1>5. RoutedIsPassed' /\ ChannelsKeepOrder' /\ PlacesInOrder' /\ PlacesOnce'
  BY <1>1 DEF Inv, RoutedIsPassed, ChannelsKeepOrder, PlacesInOrder, PlacesOnce
<1> QED BY <1>3, <1>4, <1>5 DEF Inv

\* A restart empties the channels and goes to the offset or to the end.
LEMMA RestartInv == ASSUME Inv, Restart PROVE Inv'
<1>1. /\ crashes < MaxCrashes /\ crashes' = crashes + 1 /\ cur' = NoTopic
      /\ routed' = NothingYet /\ channel' = NothingYet /\ worked' = NothingYet
      /\ before' = before \cup {m \in Handled : m[2] <= acked[m[1]]}
      /\ UNCHANGED <<phase, pair, log, marked, acked>>
      /\ passed' = [t \in Topics |-> Consumer!StartsAt(t)]
  BY DEF Restart, Consumer!Restart, apiVars
<1>2. \A t \in Topics : /\ acked[t] \in Nat /\ passed[t] \in Nat /\ Len(log[t]) \in Nat
                        /\ acked[t] <= passed[t] /\ passed[t] <= Len(log[t])
  BY DEF Inv, TypeOK, Positions
<1>3. \A t \in Topics : passed'[t] = Len(log[t]) \/ passed'[t] = acked[t]
  BY <1>1 DEF Consumer!StartsAt
<1>4. passed' \in [Topics -> Nat] /\ Positions'
  <2>1. \A t \in Topics : passed'[t] \in Nat /\ acked[t] <= passed'[t] /\ passed'[t] <= Len(log[t])
    BY <1>2, <1>3
  <2> QED BY <1>1, <2>1 DEF Positions
<1>5. before' \subseteq Places
  <2>1. \A p \in Supported : \A i \in DOMAIN worked[p] : worked[p][i] \in Places
    BY DEF Inv, TypeOK
  <2>2. Handled \subseteq Places
    BY <2>1 DEF Handled, Elements
  <2> QED BY <1>1, <2>2 DEF Inv, TypeOK
<1>6. /\ NothingYet \in [Supported -> Seq(Places)]
      /\ \A p \in Supported : NothingYet[p] = <<>> /\ DOMAIN NothingYet[p] = {}
                              /\ Len(NothingYet[p]) = 0
  BY DEF NothingYet
<1>7. TypeOK'
  <2>1. \A p \in Supported : Len(channel'[p]) <= Capacity
    BY <1>1, <1>6, CapacityAssumption
  <2>2. crashes' \in 0 .. MaxCrashes
    BY <1>1, CrashesAssumption DEF Inv, TypeOK
  <2> QED BY <1>1, <1>4, <1>5, <1>6, <2>1, <2>2 DEF Inv, TypeOK
<1>8. Busy' /\ BeforeIsAcked'
  BY <1>1 DEF Inv, Busy, NoTopic, Topics, BeforeIsAcked
<1>9. ChannelsKeepOrder'
  BY <1>1, <1>6 DEF ChannelsKeepOrder
<1>10. RoutedIsPassed' /\ PlacesInOrder' /\ PlacesOnce'
  BY <1>1, <1>6 DEF RoutedIsPassed, PlacesInOrder, PlacesOnce, Elements
<1> QED BY <1>4, <1>7, <1>8, <1>9, <1>10 DEF Inv

------------------------------------------------------------------------------
(* All steps.                                                              *)

\* Inv holds in every reachable state.
LEMMA Invariance == Spec => []Inv
<1>1. Init => Inv
  <2> SUFFICES ASSUME Init PROVE Inv
    OBVIOUS
  <2>1. /\ NothingYet \in [Supported -> Seq(Places)]
        /\ \A p \in Supported : NothingYet[p] = <<>> /\ DOMAIN NothingYet[p] = {}
                                /\ Len(NothingYet[p]) = 0
    BY DEF NothingYet
  <2>2. TypeOK
    BY <2>1, PairsAssumption, CapacityAssumption, CrashesAssumption DEF Init, TypeOK, Phases
  <2>3. Positions /\ Busy /\ BeforeIsAcked
    BY DEF Init, Positions, Busy, BeforeIsAcked, NoTopic, Topics
  <2>4. ChannelsKeepOrder
    BY <2>1 DEF Init, ChannelsKeepOrder
  <2>5. RoutedIsPassed /\ PlacesInOrder /\ PlacesOnce
    BY <2>1 DEF Init, RoutedIsPassed, PlacesInOrder, PlacesOnce, Elements
  <2> QED BY <2>2, <2>3, <2>4, <2>5 DEF Inv
<1>2. Inv /\ [Next]_vars => Inv'
  <2> SUFFICES ASSUME Inv, [Next]_vars PROVE Inv'
    OBVIOUS
  <2>1. ASSUME NEW r \in Requests, Api(r) PROVE Inv'
    <3>1. UNCHANGED engineVars /\ UNCHANGED pair
      BY <2>1 DEF Api, Place, PlaceMarket, Begin, Refuse, RefuseOrder, Insert, PublishSubmitted,
         PublishFails, PushExpiry, Cancel
    <3>2. phase' \in [Requests -> Phases]
      BY <2>1 DEF Api, Place, PlaceMarket, Begin, Refuse, RefuseOrder, Insert, PublishSubmitted,
         PublishFails, PushExpiry, Cancel, Inv, TypeOK, Phases
    <3>3. \/ UNCHANGED log
          \/ \E t \in Topics, q \in Requests : log' = [log EXCEPT ![t] = Append(@, q)]
      BY <2>1 DEF Api, Place, PlaceMarket, Begin, Refuse, RefuseOrder, Insert, PublishSubmitted,
         PublishFails, PushExpiry, Cancel, CancelLimitOrder, SubmitCancelOrder, Publish, Topics
    <3> QED BY <3>1, <3>2, <3>3, ApiInv
  <2>2. CASE Consume
    BY <2>2, RouteInv, MarkInv, GiveUpInv DEF Consume
  <2>3. ASSUME NEW p \in Supported, Work(p) PROVE Inv'
    BY <2>3, WorkInv
  <2>4. CASE Ack
    BY <2>4, AckInv
  <2>5. CASE Restart
    BY <2>5, RestartInv
  <2>6. CASE UNCHANGED vars
    BY <2>6 DEF vars, Inv, TypeOK, Positions, Busy, RoutedIsPassed, BeforeIsAcked,
       ChannelsKeepOrder, PlacesInOrder, PlacesOnce
  <2> QED BY <2>1, <2>2, <2>3, <2>4, <2>5, <2>6 DEF Next
<1> QED BY <1>1, <1>2, PTL DEF Spec

------------------------------------------------------------------------------
(* From places to requests.                                                *)

\* The API has not published r yet.
Fresh(r) == phase[r] \in {"new", "begun", "inserted"}

\* No request is in two places of the topics.
PublishedOnce ==
  \A t, u \in Topics : \A i \in DOMAIN log[t], j \in DOMAIN log[u] :
    log[t][i] = log[u][j] => t = u /\ i = j

\* A request that is not published is in no topic.
FreshIsNowhere ==
  \A r \in Requests : Fresh(r) => \A t \in Topics : \A i \in DOMAIN log[t] : log[t][i] # r

\* What was routed to a book is about its pair.
RoutedIsOfPair == \A p \in Supported : \A i \in DOMAIN routed[p] : PairOf(routed[p][i]) = p

OrderInv == PublishedOnce /\ FreshIsNowhere /\ RoutedIsOfPair

\* A record that was routed is in its topic, and so is one of before.
LEMMA InTopics ==
  ASSUME Inv
  PROVE  /\ \A p \in Supported : \A i \in DOMAIN routed[p] :
              /\ routed[p][i] \in Places /\ routed[p][i][1] \in Topics
              /\ routed[p][i][2] \in DOMAIN log[routed[p][i][1]]
         /\ \A m \in before : /\ m \in Places /\ m[1] \in Topics
                              /\ m[2] \in DOMAIN log[m[1]]
<1>1. ASSUME NEW m \in Places, m[2] <= passed[m[1]]
      PROVE  m[1] \in Topics /\ m[2] \in DOMAIN log[m[1]]
  <2>1. m[1] \in Topics /\ m[2] \in Nat \ {0}
    BY DEF Places
  <2>2. /\ passed[m[1]] \in Nat /\ passed[m[1]] <= Len(log[m[1]])
        /\ log[m[1]] \in Seq(Requests)
    BY <2>1 DEF Inv, TypeOK, Positions
  <2>3. m[2] \in 1 .. Len(log[m[1]])
    BY <1>1, <2>1, <2>2
  <2> QED BY <2>1, <2>2, <2>3
<1>2. ASSUME NEW p \in Supported, NEW i \in DOMAIN routed[p]
      PROVE  routed[p][i] \in Places /\ routed[p][i][2] <= passed[routed[p][i][1]]
  <2>1. routed[p] \in Seq(Places)
    BY DEF Inv, TypeOK
  <2> QED BY <2>1 DEF Inv, RoutedIsPassed
<1>3. ASSUME NEW m \in before
      PROVE  m \in Places /\ m[2] <= passed[m[1]]
  <2>1. m \in Places /\ m[1] \in Topics /\ m[2] \in Nat
    BY DEF Inv, TypeOK, Places
  <2>2. /\ acked[m[1]] \in Nat /\ passed[m[1]] \in Nat
        /\ acked[m[1]] <= passed[m[1]] /\ m[2] <= acked[m[1]]
    BY <2>1 DEF Inv, TypeOK, Positions, BeforeIsAcked
  <2> QED BY <2>1, <2>2
<1> QED BY <1>1, <1>2, <1>3

\* The API publishes a request at most once, and then it is no longer fresh.
LEMMA ApiOrders ==
  ASSUME Inv, OrderInv, UNCHANGED <<pair, routed>>, NEW r \in Requests,
         \A q \in Requests : Fresh(q)' => Fresh(q),
         \/ UNCHANGED log
         \/ /\ \E t \in Topics : log' = [log EXCEPT ![t] = Append(@, r)]
            /\ Fresh(r) /\ ~Fresh(r)'
  PROVE  OrderInv'
<1>1. CASE UNCHANGED log
  BY <1>1 DEF OrderInv, PublishedOnce, FreshIsNowhere, RoutedIsOfPair, PairOf, EventAt
<1>2. ASSUME NEW t \in Topics, log' = [log EXCEPT ![t] = Append(@, r)], Fresh(r), ~Fresh(r)'
      PROVE  OrderInv'
  <2>1. \A s \in Topics : log[s] \in Seq(Requests)
    BY DEF Inv, TypeOK
  <2>2. \A s \in Topics : \A i \in DOMAIN log'[s] :
          \/ i \in DOMAIN log[s] /\ log'[s][i] = log[s][i]
          \/ s = t /\ i = Len(log[s]) + 1 /\ log'[s][i] = r
    <3> TAKE s \in Topics
    <3>1. CASE s # t
      BY <1>2, <3>1 DEF Inv, TypeOK
    <3>2. CASE s = t
      <4>1. log'[s] = Append(log[s], r)
        BY <1>2, <3>2 DEF Inv, TypeOK
      <4> QED BY <2>1, <3>2, <4>1, AppendPlaces
    <3> QED BY <3>1, <3>2
  <2>3. \A s \in Topics : \A i \in DOMAIN log[s] : log[s][i] # r
    BY <1>2 DEF OrderInv, FreshIsNowhere
  <2>4. PublishedOnce'
    BY <2>2, <2>3 DEF OrderInv, PublishedOnce
  <2>5. FreshIsNowhere'
    BY <1>2, <2>2 DEF OrderInv, FreshIsNowhere
  <2>6. \A s \in Topics : \A i \in DOMAIN log[s] : log'[s][i] = log[s][i]
    <3> TAKE s \in Topics
    <3>1. CASE s # t
      BY <1>2, <3>1 DEF Inv, TypeOK
    <3>2. CASE s = t
      <4>1. log'[s] = Append(log[s], r)
        BY <1>2, <3>2 DEF Inv, TypeOK
      <4> QED BY <2>1, <4>1
    <3> QED BY <3>1, <3>2
  <2>7. RoutedIsOfPair'
    BY <2>6, InTopics DEF OrderInv, RoutedIsOfPair, PairOf, EventAt
  <2> QED BY <2>4, <2>5, <2>7 DEF OrderInv
<1> QED BY <1>1, <1>2

\* Every step of the API is one of those.
LEMMA ApiStepOrders ==
  ASSUME Inv, OrderInv, NEW r \in Requests, Api(r)
  PROVE  OrderInv'
<1>1. UNCHANGED <<pair, routed>>
  BY DEF Api, Place, PlaceMarket, Begin, Refuse, RefuseOrder, Insert, PublishSubmitted,
     PublishFails, PushExpiry, Cancel, engineVars
<1>2. phase \in [Requests -> Phases]
  BY DEF Inv, TypeOK
<1>3. CASE Place(r) \/ PlaceMarket(r) \/ Refuse(r) \/ RefuseOrder(r) \/ Insert(r) \/ PushExpiry(r)
  <2>1. UNCHANGED log /\ \A q \in Requests : Fresh(q)' => Fresh(q)
    BY <1>2, <1>3 DEF Place, PlaceMarket, Begin, Refuse, RefuseOrder, Insert, PushExpiry, Fresh,
       InTransaction
  <2> QED BY <1>1, <2>1, ApiOrders
<1>4. CASE PublishSubmitted(r) \/ PublishFails(r) \/ Cancel(r)
  <2>1. /\ Fresh(r) /\ ~Fresh(r)'
        /\ \A q \in Requests : Fresh(q)' => Fresh(q)
    BY <1>2, <1>4 DEF PublishSubmitted, PublishFails, Cancel, Fresh
  <2>2. \/ UNCHANGED log
        \/ \E t \in Topics : log' = [log EXCEPT ![t] = Append(@, r)]
    BY <1>4 DEF PublishSubmitted, PublishFails, Cancel, CancelLimitOrder, SubmitCancelOrder,
       Publish, Topics
  <2> QED BY <1>1, <2>1, <2>2, ApiOrders
<1> QED BY <1>3, <1>4 DEF Api

\* Routing sends a record to the channel of its pair.
LEMMA RouteOrders == ASSUME Inv, OrderInv, Route PROVE OrderInv'
<1> DEFINE m == NextPlace(cur)
           q == PairOf(m)
<1>1. /\ cur \in Topics /\ routed' = SendTo(routed, q, m)
      /\ UNCHANGED <<phase, pair, log>> /\ Consumer!Pass(cur)
  BY DEF Route, apiVars
<1>2. m \in Places
  <2>1. passed[cur] < Len(log[cur])
    BY <1>1 DEF Inv, Busy
  <2> QED BY <1>1, <2>1, NextIsRecord DEF Inv
<1>3. q = PairOf(m)
  OBVIOUS
<1> HIDE DEF m, q
<1>4. RoutedIsOfPair'
  <2> SUFFICES ASSUME NEW p \in Supported, NEW i \in DOMAIN routed'[p]
               PROVE  PairOf(routed'[p][i]) = p
    BY <1>1 DEF RoutedIsOfPair, PairOf, EventAt
  <2>1. routed[p] \in Seq(Places)
    BY DEF Inv, TypeOK
  <2>2. CASE p # q
    BY <1>1, <2>2 DEF SendTo, OrderInv, RoutedIsOfPair
  <2>3. CASE p = q
    <3>1. routed'[p] = Append(routed[p], m)
      BY <1>1, <2>3 DEF SendTo
    <3>2. (i \in DOMAIN routed[p] /\ routed'[p][i] = routed[p][i]) \/ routed'[p][i] = m
      BY <1>2, <2>1, <3>1, AppendPlaces
    <3> QED BY <1>3, <2>3, <3>2 DEF OrderInv, RoutedIsOfPair
  <2> QED BY <2>2, <2>3
<1> QED BY <1>1, <1>4 DEF OrderInv, PublishedOnce, FreshIsNowhere, Fresh

\* OrderInv holds in every reachable state.
LEMMA OrderInvariance == Spec => []OrderInv
<1>1. Init => OrderInv
  <2> SUFFICES ASSUME Init PROVE OrderInv
    OBVIOUS
  <2>1. \A p \in Supported : DOMAIN routed[p] = {}
    BY DEF Init, NothingYet
  <2>2. \A t \in Topics : DOMAIN log[t] = {}
    BY DEF Init
  <2> QED BY <2>1, <2>2 DEF OrderInv, PublishedOnce, FreshIsNowhere, RoutedIsOfPair
<1>2. Inv /\ OrderInv /\ [Next]_vars => OrderInv'
  <2> SUFFICES ASSUME Inv, OrderInv, [Next]_vars PROVE OrderInv'
    OBVIOUS
  <2>1. ASSUME NEW r \in Requests, Api(r) PROVE OrderInv'
    BY <2>1, ApiStepOrders
  <2>2. CASE Route
    BY <2>2, RouteOrders
  <2>3. CASE UNCHANGED <<phase, pair, log, routed>>
    BY <2>3 DEF OrderInv, PublishedOnce, FreshIsNowhere, Fresh, RoutedIsOfPair, PairOf, EventAt
  <2>4. CASE Restart
    <3>1. UNCHANGED <<phase, pair, log>> /\ \A p \in Supported : DOMAIN routed'[p] = {}
      BY <2>4 DEF Restart, apiVars, NothingYet
    <3> QED BY <3>1 DEF OrderInv, PublishedOnce, FreshIsNowhere, Fresh, RoutedIsOfPair
  <2>5. ASSUME NEW t \in Topics, Mark(t) \/ GiveUp(t) PROVE UNCHANGED <<phase, pair, log, routed>>
    BY <2>5 DEF Mark, GiveUp, apiVars
  <2>6. ASSUME NEW p \in Supported, Work(p) PROVE UNCHANGED <<phase, pair, log, routed>>
    BY <2>6 DEF Work, apiVars
  <2>7. CASE Ack \/ UNCHANGED vars
    BY <2>3, <2>7 DEF Ack, apiVars, vars
  <2> QED BY <2>1, <2>2, <2>3, <2>4, <2>5, <2>6, <2>7 DEF Next, Consume
<1> QED BY <1>1, <1>2, Invariance, PTL DEF Spec

\* Two places of the topics that hold one request are one place.
LEMMA SameEvent ==
  ASSUME OrderInv, NEW m \in Places, NEW n \in Places, EventAt(m) = EventAt(n),
         m[2] \in DOMAIN log[m[1]], n[2] \in DOMAIN log[n[1]]
  PROVE  m = n
<1>1. m[1] \in Topics /\ n[1] \in Topics /\ m = <<m[1], m[2]>> /\ n = <<n[1], n[2]>>
  BY DEF Places
<1> QED BY <1>1 DEF OrderInv, PublishedOnce, EventAt

------------------------------------------------------------------------------
(* The theorems.                                                           *)

\* The type invariant of the engine; no channel is over its buffer.
THEOREM TypeCorrect == Spec => []TypeOK
<1>1. Inv => TypeOK
  BY DEF Inv
<1> QED BY <1>1, Invariance, PTL

\* A worker gets what the consumer routed for its pair, in that order.
THEOREM ChannelsAreQueues == Spec => []ChannelsKeepOrder
<1>1. Inv => ChannelsKeepOrder
  BY DEF Inv
<1> QED BY <1>1, Invariance, PTL

\* Between restarts, the records of a topic are routed in order, and no request
\* is routed twice, to whichever book.
THEOREM RoutingInOrder == Spec => []RoutedInOrder
<1>1. Inv /\ OrderInv => RoutedInOrder
  <2> SUFFICES ASSUME Inv, OrderInv PROVE RoutedInOrder
    OBVIOUS
  <2>1. ASSUME NEW p \in Supported, NEW q \in Supported,
               NEW i \in DOMAIN routed[p], NEW j \in DOMAIN routed[q],
               EventAt(routed[p][i]) = EventAt(routed[q][j])
        PROVE  p = q /\ i = j
    <3>1. p = q
      BY <2>1 DEF OrderInv, RoutedIsOfPair, PairOf
    <3>2. routed[p][i] = routed[p][j]
      BY <2>1, <3>1, InTopics, SameEvent
    <3>3. routed[p] \in Seq(Places) /\ i \in Nat /\ j \in Nat
      BY <3>1 DEF Inv, TypeOK
    <3>4. routed[p][i][2] \in Nat /\ ~(routed[p][i][2] < routed[p][i][2])
      BY <3>3 DEF Places
    <3>5. ~(i < j) /\ ~(j < i)
      BY <3>1, <3>2, <3>4 DEF Inv, PlacesInOrder
    <3> QED BY <3>1, <3>3, <3>5
  <2>2. PlacesInOrder
    BY DEF Inv
  <2> QED BY <2>1, <2>2 DEF RoutedInOrder, PlacesInOrder
<1> QED BY <1>1, Invariance, OrderInvariance, PTL

\* A request that was handled and committed is not routed again after a restart.
THEOREM CommittedIsOver == Spec => []CommittedOnce
<1>1. Inv /\ OrderInv => CommittedOnce
  <2> SUFFICES ASSUME Inv, OrderInv, NEW p \in Supported, NEW i \in DOMAIN routed[p],
                      NEW m \in before, EventAt(routed[p][i]) = EventAt(m)
               PROVE  FALSE
    BY DEF CommittedOnce
  <2>1. routed[p][i] = m
    BY InTopics, SameEvent
  <2> QED BY <2>1 DEF Inv, PlacesOnce, Elements
<1> QED BY <1>1, Invariance, OrderInvariance, PTL

\* The engine's consumer, with its handler, channels and restarts, is one of
\* AtLeastOnce: it skips nothing but what a restart without an offset leaves
\* behind, and commits only what its handler is done with.
THEOREM ConsumesAtLeastOnce == Spec => Consumer!Spec
<1>1. Init => Consumer!Init
  BY DEF Init, Consumer!Init
<1>2. Inv /\ [Next]_vars => [Consumer!Next]_Consumer!vars
  <2> SUFFICES ASSUME Inv, [Next]_vars PROVE [Consumer!Next]_Consumer!vars
    OBVIOUS
  <2>1. CASE UNCHANGED <<log, passed, acked>>
    BY <2>1 DEF Consumer!vars
  <2>2. ASSUME NEW t \in Topics, Consumer!Pass(t) PROVE Consumer!Next
    BY <2>2 DEF Consumer!Next
  <2>3. ASSUME NEW t \in Topics, NEW r \in Requests, log' = [log EXCEPT ![t] = Append(@, r)],
               UNCHANGED <<passed, acked>>
        PROVE  Consumer!Next
    <3>1. log \in [Topics -> Seq(Requests)]
      BY DEF Inv, TypeOK
    <3>2. \A s \in Topics : Len(log'[s]) = IF s \in {t} THEN Len(log[s]) + 1 ELSE Len(log[s])
      BY <2>3, <3>1
    <3>3. Consumer!Produce({t})
      BY <2>3, <3>2 DEF Consumer!Produce
    <3> QED BY <3>3 DEF Consumer!Next
  <2>4. ASSUME NEW r \in Requests, Api(r) PROVE [Consumer!Next]_Consumer!vars
    <3>1. UNCHANGED <<passed, acked>>
      BY <2>4 DEF Api, Place, PlaceMarket, Begin, Refuse, RefuseOrder, Insert, PublishSubmitted,
         PublishFails, PushExpiry, Cancel, engineVars
    <3>2. \/ UNCHANGED log
          \/ \E t \in Topics : log' = [log EXCEPT ![t] = Append(@, r)]
      BY <2>4 DEF Api, Place, PlaceMarket, Begin, Refuse, RefuseOrder, Insert, PublishSubmitted,
         PublishFails, PushExpiry, Cancel, CancelLimitOrder, SubmitCancelOrder, Publish, Topics
    <3> QED BY <2>1, <2>3, <3>1, <3>2
  <2>5. CASE Consume
    BY <2>1, <2>2, <2>5 DEF Consume, Route, Mark, GiveUp, apiVars
  <2>6. ASSUME NEW p \in Supported, Work(p) PROVE UNCHANGED <<log, passed, acked>>
    BY <2>6 DEF Work, apiVars
  <2>7. CASE Ack \/ Restart
    BY <2>7 DEF Ack, Restart, Consumer!Next
  <2>8. CASE UNCHANGED vars
    BY <2>1, <2>8 DEF vars
  <2> QED BY <2>1, <2>4, <2>5, <2>6, <2>7, <2>8 DEF Next
<1> QED BY <1>1, <1>2, Invariance, PTL DEF Spec, Consumer!Spec
------------------------------------------------------------------------------
(* The backlog wears off.                                                  *)

\* Records that the consumer has before it, and those that are in a channel.
Behind(t) == Len(log[t]) - passed[t]
Waiting == UNION {Elements(channel[p]) : p \in Supported}

\* A record costs the consumer two steps at most, and a worker one.
Backlog ==
  3 * (Behind("submitted") + Behind("canceled")) + Cardinality(Waiting)
    - (IF cur = NoTopic THEN 0 ELSE 1)

\* The consumer and the workers, whichever of them runs, lower the backlog, and
\* commits do not touch it.
BacklogWears ==
  /\ Consume \/ (\E p \in Supported : Work(p)) => Backlog' < Backlog
  /\ Ack => Backlog' = Backlog

\* The consumer waits only for a worker that has something to do.
NeverStuck ==
  cur \in Topics => LET p == PairOf(NextPlace(cur))
                    IN  HasRoom(p) \/ (p \in Supported /\ channel[p] # <<>>)

\* The places of the second of two sequences in their concatenation.
LEMMA ConcatPlaces ==
  ASSUME NEW S, NEW a \in Seq(S), NEW b \in Seq(S), NEW i \in DOMAIN b
  PROVE  Len(a) + i \in DOMAIN (a \o b) /\ (a \o b)[Len(a) + i] = b[i]
OBVIOUS

\* What is in a channel was routed, and is in no other place of a channel.
LEMMA ChannelPlaces ==
  ASSUME Inv, OrderInv
  PROVE  /\ \A p \in Supported : \A i \in DOMAIN channel[p] :
              /\ channel[p][i] \in Places
              /\ channel[p][i][2] <= passed[channel[p][i][1]]
              /\ PairOf(channel[p][i]) = p
         /\ \A p \in Supported : \A i, j \in DOMAIN channel[p] :
              channel[p][i] = channel[p][j] => i = j
<1> SUFFICES ASSUME NEW p \in Supported
             PROVE  /\ \A i \in DOMAIN channel[p] :
                         /\ channel[p][i] \in Places
                         /\ channel[p][i][2] <= passed[channel[p][i][1]]
                         /\ PairOf(channel[p][i]) = p
                    /\ \A i, j \in DOMAIN channel[p] : channel[p][i] = channel[p][j] => i = j
  OBVIOUS
<1>1. /\ worked[p] \in Seq(Places) /\ channel[p] \in Seq(Places) /\ routed[p] \in Seq(Places)
      /\ routed[p] = worked[p] \o channel[p]
  BY DEF Inv, TypeOK, ChannelsKeepOrder
<1>2. \A i \in DOMAIN channel[p] :
        Len(worked[p]) + i \in DOMAIN routed[p] /\ routed[p][Len(worked[p]) + i] = channel[p][i]
  <2>1. \A i \in DOMAIN channel[p] :
          /\ Len(worked[p]) + i \in DOMAIN (worked[p] \o channel[p])
          /\ (worked[p] \o channel[p])[Len(worked[p]) + i] = channel[p][i]
    <3>1. worked[p] \in Seq(Places) /\ channel[p] \in Seq(Places)
      BY ONLY <1>1
    <3> TAKE i \in DOMAIN channel[p]
    <3> QED BY ONLY <3>1, i \in DOMAIN channel[p], ConcatPlaces, ZenonT(60)
  <2> QED BY <1>1, <2>1, Zenon
<1>3. \A i \in DOMAIN channel[p] :
        /\ channel[p][i] \in Places /\ channel[p][i][2] <= passed[channel[p][i][1]]
        /\ PairOf(channel[p][i]) = p
  <2> TAKE i \in DOMAIN channel[p]
  <2>1. PICK k \in DOMAIN routed[p] : routed[p][k] = channel[p][i]
    BY <1>2
  <2>2. routed[p][k][2] <= passed[routed[p][k][1]] /\ PairOf(routed[p][k]) = p
    BY DEF Inv, RoutedIsPassed, OrderInv, RoutedIsOfPair
  <2> QED BY <1>1, <2>1, <2>2
<1>4. ASSUME NEW i \in DOMAIN channel[p], NEW j \in DOMAIN channel[p],
             channel[p][i] = channel[p][j], i < j
      PROVE  FALSE
  <2>1. Len(worked[p]) \in Nat /\ i \in Nat /\ j \in Nat
    BY <1>1
  <2>2. Len(worked[p]) + i < Len(worked[p]) + j
    BY <1>4, <2>1
  <2>3. channel[p][i][2] < channel[p][i][2]
    BY <1>2, <1>4, <2>2 DEF Inv, PlacesInOrder
  <2>4. channel[p][i][2] \in Nat
    BY <1>3 DEF Places
  <2> QED BY <2>3, <2>4
<1>5. \A i, j \in DOMAIN channel[p] : channel[p][i] = channel[p][j] => i = j
  <2> TAKE i, j \in DOMAIN channel[p]
  <2>1. i \in Nat /\ j \in Nat
    BY <1>1
  <2> QED BY <1>4, <2>1
<1> QED BY <1>3, <1>5

\* Only finitely many records wait, whatever the number of pairs.
LEMMA WaitingIsFinite ==
  ASSUME Inv, OrderInv
  PROVE  IsFiniteSet(Waiting) /\ Cardinality(Waiting) \in Nat
<1> DEFINE N == passed["submitted"] + passed["canceled"]
<1>1. passed["submitted"] \in Nat /\ passed["canceled"] \in Nat /\ N \in Nat
  BY DEF Inv, TypeOK, Topics
<1>2. \A t \in Topics : passed[t] <= N
  BY <1>1 DEF Topics
<1>3. Waiting \in SUBSET (Topics \X (1 .. N))
  <2> SUFFICES ASSUME NEW p \in Supported, NEW i \in DOMAIN channel[p]
               PROVE  channel[p][i] \in Topics \X (1 .. N)
    BY DEF Waiting, Elements
  <2>1. channel[p][i] \in Places /\ channel[p][i][2] <= passed[channel[p][i][1]]
    BY ChannelPlaces
  <2>2. /\ channel[p][i][1] \in Topics /\ channel[p][i][2] \in Nat \ {0}
        /\ channel[p][i] = <<channel[p][i][1], channel[p][i][2]>>
    BY <2>1 DEF Places
  <2>3. passed[channel[p][i][1]] \in Nat
    BY <2>2 DEF Inv, TypeOK
  <2>4. channel[p][i][2] \in 1 .. N
    BY <1>1, <1>2, <2>1, <2>2, <2>3
  <2> QED BY <2>2, <2>4
<1>4. IsFiniteSet(Topics)
  <2>1. IsFiniteSet({"submitted"})
    BY FS_Singleton
  <2>2. IsFiniteSet({"submitted"} \cup {"canceled"})
    BY <2>1, FS_AddElement
  <2> QED BY <2>2 DEF Topics
<1>5. IsFiniteSet(1 .. N)
  BY <1>1, FS_Interval
<1> HIDE DEF N
<1>6. IsFiniteSet(Topics \X (1 .. N))
  BY <1>4, <1>5, FS_Product
<1>7. IsFiniteSet(Waiting)
  BY <1>3, <1>6, FS_Subset
<1> QED BY <1>7, FS_CardinalityType

\* The backlog is a natural number, and 0 when all is drained and not before.
LEMMA BacklogIsNat ==
  ASSUME Inv, OrderInv
  PROVE  /\ Backlog \in Nat /\ Behind("submitted") \in Nat /\ Behind("canceled") \in Nat
         /\ Backlog = 0 <=> Drained
<1>1. \A t \in Topics : Behind(t) \in Nat /\ (Behind(t) = 0 <=> passed[t] = Len(log[t]))
  <2> TAKE t \in Topics
  <2>1. passed[t] \in Nat /\ log[t] \in Seq(Requests) /\ passed[t] <= Len(log[t])
    BY DEF Inv, TypeOK, Positions
  <2>2. Len(log[t]) \in Nat
    BY <2>1
  <2> QED BY <2>1, <2>2 DEF Behind
<1>2. cur \in Topics => Behind(cur) > 0
  <2> HAVE cur \in Topics
  <2>1. passed[cur] \in Nat /\ log[cur] \in Seq(Requests) /\ passed[cur] < Len(log[cur])
    BY DEF Inv, TypeOK, Busy
  <2>2. Len(log[cur]) \in Nat
    BY <2>1
  <2> QED BY <2>1, <2>2 DEF Behind
<1>3. PICK a \in Nat, b \in Nat, c \in Nat :
        a = Behind("submitted") /\ b = Behind("canceled") /\ c = Cardinality(Waiting)
  BY <1>1, WaitingIsFinite DEF Topics
<1>4. cur = NoTopic \/ (cur # NoTopic /\ a + b > 0)
  <2>1. cur = NoTopic \/ cur = "submitted" \/ cur = "canceled"
    BY DEF Inv, TypeOK, Topics
  <2>2. CASE cur = "submitted"
    BY <1>2, <1>3, <2>2 DEF Topics, NoTopic
  <2>3. CASE cur = "canceled"
    BY <1>2, <1>3, <2>3 DEF Topics, NoTopic
  <2> QED BY <2>1, <2>2, <2>3
<1>5. Backlog = 3 * (a + b) + c - (IF cur = NoTopic THEN 0 ELSE 1)
  BY <1>3 DEF Backlog
<1>6. Backlog \in Nat /\ (Backlog = 0 <=> a = 0 /\ b = 0 /\ c = 0)
  <2>1. CASE cur = NoTopic
    BY <1>5, <2>1
  <2>2. CASE cur # NoTopic /\ a + b > 0
    <3>1. Backlog = 3 * (a + b) + c - 1
      BY <1>5, <2>2
    <3> QED BY <2>2, <3>1
  <2> QED BY <1>4, <2>1, <2>2
<1>7. a = 0 /\ b = 0 <=> \A t \in Topics : passed[t] = Len(log[t])
  BY <1>1, <1>3 DEF Topics
<1>8. c = 0 <=> \A p \in Supported : channel[p] = <<>>
  <2>1. c = 0 <=> Waiting = {}
    BY <1>3, WaitingIsFinite, FS_EmptySet
  <2>2. \A p \in Supported : channel[p] = <<>> <=> Elements(channel[p]) = {}
    <3> TAKE p \in Supported
    <3>1. channel[p] \in Seq(Places)
      BY DEF Inv, TypeOK
    <3>2. CASE channel[p] = <<>>
      BY <3>2 DEF Elements
    <3>3. CASE channel[p] # <<>>
      <4>1. 1 \in DOMAIN channel[p]
        BY <3>1, <3>3
      <4>2. channel[p][1] \in Elements(channel[p])
        BY <4>1 DEF Elements
      <4> QED BY <3>3, <4>2
    <3> QED BY <3>2, <3>3
  <2>3. Waiting = {} <=> \A p \in Supported : Elements(channel[p]) = {}
    BY DEF Waiting
  <2> QED BY <2>1, <2>2, <2>3
<1> QED BY <1>1, <1>3, <1>6, <1>7, <1>8 DEF Drained, Topics

\* The position moves over one record.
LEMMA PassLowers ==
  ASSUME Inv, OrderInv, NEW t \in Topics, Consumer!Pass(t), UNCHANGED log
  PROVE  Behind("submitted")' + Behind("canceled")' = Behind("submitted") + Behind("canceled") - 1
<1>1. passed' = [passed EXCEPT ![t] = @ + 1] /\ passed \in [Topics -> Nat]
  BY DEF Consumer!Pass, Inv, TypeOK
<1>2. \A s \in Topics : Behind(s)' = IF s = t THEN Behind(s) - 1 ELSE Behind(s)
  <2> TAKE s \in Topics
  <2>1. passed[s] \in Nat /\ Len(log[s]) \in Nat
    BY DEF Inv, TypeOK
  <2>2. passed'[s] = IF s = t THEN passed[s] + 1 ELSE passed[s]
    BY <1>1
  <2> QED BY <2>1, <2>2 DEF Behind
<1>3. t = "submitted" \/ t = "canceled"
  BY DEF Topics
<1> QED BY <1>2, <1>3, BacklogIsNat DEF Topics

\* A worker takes a record out that waits in no other place.
LEMMA WorkLowers ==
  ASSUME Inv, OrderInv, NEW p \in Supported, Work(p)
  PROVE  Cardinality(Waiting') = Cardinality(Waiting) - 1
<1>1. channel[p] # <<>> /\ channel' = [channel EXCEPT ![p] = Tail(@)]
  BY DEF Work
<1>2. channel \in [Supported -> Seq(Places)] /\ channel[p] \in Seq(Places)
  BY DEF Inv, TypeOK
<1>3. PICK m : m = channel[p][1]
  OBVIOUS
<1>4. Elements(Tail(channel[p])) = Elements(channel[p]) \ {m} /\ m \in Elements(channel[p])
  <2>1. \A i, j \in DOMAIN channel[p] : channel[p][i] = channel[p][j] => i = j
    BY ChannelPlaces
  <2>2. Len(channel[p]) \in Nat \ {0} /\ DOMAIN channel[p] = 1 .. Len(channel[p])
    BY <1>1, <1>2
  <2>3. /\ DOMAIN Tail(channel[p]) = 1 .. Len(channel[p]) - 1
        /\ \A i \in 1 .. Len(channel[p]) - 1 : Tail(channel[p])[i] = channel[p][i + 1]
    BY <1>1, <1>2
  <2>4. ASSUME NEW x \in Elements(Tail(channel[p])) PROVE x \in Elements(channel[p]) \ {m}
    <3>1. PICK i \in 1 .. Len(channel[p]) - 1 : x = channel[p][i + 1]
      BY <2>3, <2>4 DEF Elements
    <3>2. i + 1 \in DOMAIN channel[p] /\ 1 \in DOMAIN channel[p] /\ i + 1 # 1
      BY <2>2
    <3> QED BY <1>3, <2>1, <3>1, <3>2 DEF Elements
  <2>5. ASSUME NEW x \in Elements(channel[p]), x # m PROVE x \in Elements(Tail(channel[p]))
    <3>1. PICK i \in 1 .. Len(channel[p]) : x = channel[p][i]
      BY <2>2, <2>5 DEF Elements
    <3>2. i # 1
      BY <1>3, <2>5, <3>1
    <3>3. i - 1 \in 1 .. Len(channel[p]) - 1 /\ (i - 1) + 1 = i
      BY <2>2, <3>1, <3>2
    <3>4. Tail(channel[p])[i - 1] = x
      BY <2>3, <3>1, <3>3
    <3> QED BY <2>3, <3>3, <3>4 DEF Elements
  <2>6. m \in Elements(channel[p])
    <3>1. 1 \in DOMAIN channel[p]
      BY <2>2
    <3> QED BY <1>3, <3>1 DEF Elements
  <2> QED BY <2>4, <2>5, <2>6
<1>5. \A q \in Supported : q # p => m \notin Elements(channel[q])
  <2>1. PairOf(m) = p
    BY <1>1, <1>2, <1>3, ChannelPlaces
  <2> QED BY <2>1, ChannelPlaces DEF Elements
<1>6. Waiting' = Waiting \ {m} /\ m \in Waiting
  <2>1. \A q \in Supported : Elements(channel'[q]) = Elements(channel[q]) \ {m}
    BY <1>1, <1>2, <1>4, <1>5
  <2>2. Waiting' = UNION {Elements(channel'[q]) : q \in Supported}
    BY DEF Waiting, Elements
  <2> QED BY <1>4, <2>1, <2>2 DEF Waiting
<1> QED BY <1>6, WaitingIsFinite, FS_RemoveElement

\* A routed record adds one to those that wait, or none if its pair has no book.
LEMMA RouteRaises ==
  ASSUME Inv, OrderInv, Route
  PROVE  Cardinality(Waiting') \in Nat /\ Cardinality(Waiting') <= Cardinality(Waiting) + 1
<1> DEFINE m == NextPlace(cur)
           q == PairOf(m)
<1>1. channel' = SendTo(channel, q, m) /\ channel \in [Supported -> Seq(Places)]
  BY DEF Route, Inv, TypeOK
<1>2. m \in Places
  BY NextIsRecord DEF Route, Inv, Busy
<1> HIDE DEF m, q
<1>3. \A p \in Supported : Elements(channel'[p]) \subseteq Elements(channel[p]) \cup {m}
  <2> SUFFICES ASSUME NEW p \in Supported, NEW i \in DOMAIN channel'[p]
               PROVE  channel'[p][i] \in Elements(channel[p]) \cup {m}
    BY DEF Elements
  <2>1. channel[p] \in Seq(Places)
    BY <1>1
  <2>2. channel'[p] = channel[p] \/ channel'[p] = Append(channel[p], m)
    BY <1>1 DEF SendTo
  <2>3. i \in DOMAIN Append(channel[p], m) => \/ i \in DOMAIN channel[p]
                                                 /\ Append(channel[p], m)[i] = channel[p][i]
                                              \/ Append(channel[p], m)[i] = m
    BY <1>2, <2>1, AppendPlaces
  <2> QED BY <2>2, <2>3 DEF Elements
<1>4. Waiting' \in SUBSET (Waiting \cup {m})
  <2>1. Waiting' = UNION {Elements(channel'[p]) : p \in Supported}
    BY DEF Waiting, Elements
  <2> QED BY <1>3, <2>1 DEF Waiting
<1>5. IsFiniteSet(Waiting) /\ Cardinality(Waiting) \in Nat
  BY WaitingIsFinite
<1>6. /\ IsFiniteSet(Waiting \cup {m})
      /\ Cardinality(Waiting \cup {m}) \in Nat
      /\ Cardinality(Waiting \cup {m}) <= Cardinality(Waiting) + 1
  <2>1. IsFiniteSet(Waiting \cup {m}) /\ Cardinality(Waiting \cup {m}) =
          IF m \in Waiting THEN Cardinality(Waiting) ELSE Cardinality(Waiting) + 1
    BY <1>5, FS_AddElement
  <2> QED BY <1>5, <2>1
<1>7. IsFiniteSet(Waiting') /\ Cardinality(Waiting') <= Cardinality(Waiting \cup {m})
  BY <1>4, <1>6, FS_Subset
<1>8. Cardinality(Waiting') \in Nat
  BY <1>7, FS_CardinalityType
<1> QED BY <1>5, <1>6, <1>7, <1>8

\* For any number of pairs and requests and any size of the channels: the
\* consumer waits only for a worker that can go on, each step of either brings
\* the end of the backlog nearer, and the end is where nothing is left.  With
\* the fairness of Spec this is why BacklogDrains holds.
THEOREM BacklogWearsOff ==
  Spec => /\ [](NeverStuck /\ Backlog \in Nat /\ (Backlog = 0 <=> Drained))
          /\ [][BacklogWears]_vars
<1>1. Inv /\ OrderInv => NeverStuck /\ Backlog \in Nat /\ (Backlog = 0 <=> Drained)
  <2> SUFFICES ASSUME Inv, OrderInv PROVE NeverStuck
    BY BacklogIsNat
  <2>1. \A p \in Supported : channel[p] = <<>> => Len(channel[p]) < Capacity
    BY CapacityAssumption
  <2> QED BY <2>1 DEF NeverStuck, HasRoom
<1>2. Inv /\ OrderInv /\ [Next]_vars => [BacklogWears]_vars
  <2> SUFFICES ASSUME Inv, OrderInv PROVE BacklogWears
    OBVIOUS
  <2>1. PICK d \in Nat, c \in Nat :
          d = Behind("submitted") + Behind("canceled") /\ c = Cardinality(Waiting)
    BY BacklogIsNat, WaitingIsFinite
  <2>2. Backlog = 3 * d + c - (IF cur = NoTopic THEN 0 ELSE 1)
    BY <2>1 DEF Backlog
  <2>3. Backlog' = 3 * (Behind("submitted")' + Behind("canceled")') + Cardinality(Waiting')
                     - (IF cur' = NoTopic THEN 0 ELSE 1)
    BY DEF Backlog
  <2>4. ASSUME Route PROVE Backlog' < Backlog
    <3>1. cur \in Topics /\ cur' = NoTopic /\ Consumer!Pass(cur) /\ UNCHANGED log
      BY <2>4 DEF Route, apiVars
    <3>2. Behind("submitted")' + Behind("canceled")' = d - 1
      <4>1. Behind("submitted")' + Behind("canceled")' = Behind("submitted") + Behind("canceled") - 1
        BY <3>1, PassLowers
      <4> QED BY <2>1, <4>1, BacklogIsNat
    <3>3. PICK e \in Nat : e = Cardinality(Waiting') /\ e <= c + 1
      BY <2>1, <2>4, RouteRaises
    <3>4. Backlog' = 3 * (d - 1) + e /\ Backlog = 3 * d + c - 1
      BY <2>2, <2>3, <3>1, <3>2, <3>3 DEF Topics, NoTopic
    <3> QED BY <2>1, <3>3, <3>4
  <2>5. ASSUME NEW t \in Topics, Mark(t) PROVE Backlog' < Backlog
    <3>1. cur = NoTopic /\ cur' = t /\ UNCHANGED <<log, passed, channel>>
      BY <2>5 DEF Mark, apiVars
    <3>2. Behind("submitted")' + Behind("canceled")' = d /\ Cardinality(Waiting') = c
      BY <2>1, <3>1 DEF Behind, Waiting
    <3>3. Backlog' = 3 * d + c - 1 /\ Backlog = 3 * d + c
      BY <2>2, <2>3, <3>1, <3>2 DEF Topics, NoTopic
    <3> QED BY <2>1, <3>3
  <2>6. ASSUME NEW t \in Topics, GiveUp(t) PROVE Backlog' < Backlog
    <3>1. cur' = cur /\ Consumer!Pass(t) /\ UNCHANGED log /\ UNCHANGED channel /\ cur = NoTopic
      BY <2>6 DEF GiveUp, apiVars
    <3>2. Behind("submitted")' + Behind("canceled")' = d - 1
      <4>1. Behind("submitted")' + Behind("canceled")' = Behind("submitted") + Behind("canceled") - 1
        BY <3>1, PassLowers
      <4> QED BY <2>1, <4>1, BacklogIsNat
    <3>3. Cardinality(Waiting') = c
      BY <2>1, <3>1 DEF Waiting
    <3>4. Backlog' = 3 * (d - 1) + c /\ Backlog = 3 * d + c
      BY <2>2, <2>3, <3>1, <3>2, <3>3
    <3> QED BY <2>1, <3>4
  <2>7. ASSUME NEW p \in Supported, Work(p) PROVE Backlog' < Backlog
    <3>1. UNCHANGED <<log, passed, cur>>
      BY <2>7 DEF Work, apiVars
    <3>2. Behind("submitted")' + Behind("canceled")' = d
      BY <2>1, <3>1 DEF Behind
    <3>3. Cardinality(Waiting') = c - 1
      BY <2>1, <2>7, WorkLowers
    <3> QED BY <2>1, <2>2, <2>3, <3>1, <3>2, <3>3
  <2>8. ASSUME Ack PROVE Backlog' = Backlog
    <3>1. UNCHANGED <<log, passed, cur, channel>>
      BY <2>8 DEF Ack, apiVars, Consumer!Ack
    <3> QED BY <3>1 DEF Backlog, Behind, Waiting
  <2> QED BY <2>4, <2>5, <2>6, <2>7, <2>8 DEF BacklogWears, Consume
<1> QED BY <1>1, <1>2, Invariance, OrderInvariance, PTL DEF Spec
=============================================================================
