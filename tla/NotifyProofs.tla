---------------------------- MODULE NotifyProofs ----------------------------
(***************************************************************************)
(* Proofs about Notify, for every number of topics, users, records and     *)
(* restarts: no record is missed, none is broadcast twice in one run of    *)
(* the process, and the consumer implements AtLeastOnce.                   *)
(*                                                                         *)
(* Neither of the first two is inductive by itself.  That no record is     *)
(* missed needs the order of the offsets: a restart goes back, never       *)
(* forward. The bound on broadcasts needs to know on which side of the     *)
(* position a record is: one that is still ahead was broadcast at most     *)
(* once for each restart.                                                  *)
(***************************************************************************)
EXTENDS Notify, TLAPS

\* The positions of one topic are in order.
Positions ==
  \A t \in Topics : /\ acked[t] <= passed[t]
                    /\ passed[t] <= Len(log[t])
                    /\ Len(log[t]) <= MaxRecords

\* The handler works on a record that is there.
Busy == cur \in Topics => passed[cur] < Len(log[cur])

\* A record behind the position counts one broadcast more than one ahead of it.
ToldByPosition ==
  \A t \in Topics : \A i \in 1 .. MaxRecords :
    /\ told[<<t, i>>] <= 1 + crashes
    /\ passed[t] < i => told[<<t, i>>] <= crashes

\* What was done with records, was done with published ones.
InTopics ==
  /\ marked \cup failed \subseteq Published
  /\ \A m \in Places : told[m] > 0 => m \in Published

Inv == Shapes /\ Positions /\ Busy /\ NoneMissed /\ ToldByPosition /\ InTopics

------------------------------------------------------------------------------
(* The parts of a step.                                                    *)

\* What the type invariant says about numbers.
LEMMA Numbers ==
  ASSUME Shapes
  PROVE  /\ crashes \in Nat
         /\ \A t \in Topics : passed[t] \in Nat /\ acked[t] \in Nat /\ Len(log[t]) \in Nat
         /\ \A t \in Topics : \A i \in 1 .. MaxRecords : told[<<t, i>>] \in Nat
<1>1. crashes \in Nat
  BY BoundsAssumption DEF Shapes
<1>2. \A t \in Topics : passed[t] \in 0 .. MaxRecords /\ acked[t] \in 0 .. MaxRecords
  BY DEF Shapes
<1>3. \A t \in Topics : Len(log[t]) \in Nat
  BY DEF Shapes
<1>4. \A t \in Topics : \A i \in 1 .. MaxRecords : told[<<t, i>>] \in Nat
  BY DEF Shapes, Places
<1> QED BY <1>1, <1>2, <1>3, <1>4, BoundsAssumption

\* The record that is next in its topic has a place.
LEMMA NextIsPlace ==
  ASSUME Shapes, Positions, NEW t \in Topics, passed[t] < Len(log[t])
  PROVE  NextPlace(t) \in Places /\ passed[t] + 1 \in 1 .. MaxRecords
<1>1. passed[t] \in Nat /\ Len(log[t]) \in Nat /\ Len(log[t]) <= MaxRecords
  BY DEF Shapes, Positions
<1>2. passed[t] + 1 \in 1 .. MaxRecords
  BY <1>1, BoundsAssumption
<1> QED BY <1>2 DEF NextPlace, Places

\* It is published.
LEMMA NextIsPublished ==
  ASSUME Shapes, Positions, NEW t \in Topics, passed[t] < Len(log[t])
  PROVE  NextPlace(t) \in Published
<1>1. passed[t] \in Nat /\ Len(log[t]) \in Nat
  BY DEF Shapes
<1>2. NextPlace(t)[1] = t /\ NextPlace(t)[2] = passed[t] + 1
  BY DEF NextPlace
<1> QED BY <1>1, <1>2, NextIsPlace DEF Published

\* Publishing makes a topic longer by one.
LEMMA PublishInv == ASSUME Inv, NEW t \in Topics, NEW u \in Users \cup {NoUser}, Publish(t, u)
                    PROVE  Inv'
<1> USE DEF Inv, Publish
<1>1. /\ Append(log[t], u) \in Seq(Users \cup {NoUser})
      /\ Len(Append(log[t], u)) = Len(log[t]) + 1
      /\ \A s \in Topics : Len(log[s]) \in Nat
  BY DEF Shapes
<1>2. Shapes'
  BY <1>1 DEF Shapes
<1>3. \A s \in Topics : Len(log[s]) <= Len(log'[s]) /\ Len(log'[s]) <= MaxRecords
  BY <1>1, BoundsAssumption DEF Shapes, Positions
<1>4. Positions' /\ Busy'
  <2>1. \A s \in Topics : passed[s] \in Nat /\ acked[s] \in Nat /\ Len(log'[s]) \in Nat
    BY <1>1 DEF Shapes
  <2> QED BY <1>1, <1>3, <2>1 DEF Positions, Busy
<1>5. NoneMissed' /\ ToldByPosition'
  BY DEF NoneMissed, ToldByPosition
<1>6. InTopics'
  <2>1. \A m \in Places : m[1] \in Topics /\ m[2] \in Nat
    BY BoundsAssumption DEF Places
  <2>2. \A s \in Topics : Len(log[s]) \in Nat /\ Len(log'[s]) \in Nat
    BY <1>1, <1>2 DEF Shapes
  <2>3. Published \subseteq Published'
    BY <1>3, <2>1, <2>2 DEF Published
  <2> QED BY <2>3 DEF InTopics
<1> QED BY <1>2, <1>4, <1>5, <1>6

\* The mark changes nothing that counts.
LEMMA MarkInv == ASSUME Inv, NEW t \in Topics, Mark(t) PROVE Inv'
<1>1. NextPlace(t) \in Places
  BY NextIsPlace DEF Inv, Mark
<1>2. Shapes'
  BY <1>1 DEF Shapes, Inv, Mark
<1>3. Positions' /\ Busy' /\ NoneMissed' /\ ToldByPosition'
  BY DEF Inv, Mark, Positions, Busy, NoneMissed, ToldByPosition
<1>4. InTopics'
  BY NextIsPublished DEF Inv, Mark, InTopics, Published
<1> QED BY <1>2, <1>3, <1>4 DEF Inv

Told(t) == told' = [told EXCEPT ![NextPlace(t)] = @ + 1] /\ UNCHANGED failed
Failed(t) == failed' = failed \cup {NextPlace(t)} /\ UNCHANGED told

\* The runner passes a record that was broadcast or given up.
LEMMA PassInv ==
  ASSUME Inv, NEW t \in Topics, Consumer!Pass(t),
         UNCHANGED <<log, marked, crashes>>, cur' = NoTopic,
         Told(t) \/ Failed(t)
  PROVE  Inv'
<1>1. /\ passed[t] < Len(log[t])
      /\ passed' = [passed EXCEPT ![t] = @ + 1]
      /\ acked' = acked
  BY DEF Consumer!Pass
<1>2. NextPlace(t) \in Places /\ passed[t] + 1 \in 1 .. MaxRecords
  BY <1>1, NextIsPlace DEF Inv
<1>3. \A m \in Places : told[m] \in Nat /\ told'[m] \in Nat /\ told[m] <= told'[m]
  <2>1. told \in [Places -> Nat]
    BY DEF Inv, Shapes
  <2>2. CASE Told(t)
    BY <1>2, <2>1, <2>2 DEF Told
  <2>3. CASE Failed(t)
    BY <2>1, <2>3 DEF Failed
  <2> QED BY <2>2, <2>3
<1>4. Shapes'
  <2>1. told' \in [Places -> Nat] /\ failed' \subseteq Places
    <3>1. told \in [Places -> Nat] /\ failed \subseteq Places
      BY DEF Inv, Shapes
    <3>2. CASE Told(t)
      BY <1>2, <3>1, <3>2 DEF Told
    <3>3. CASE Failed(t)
      BY <1>2, <3>1, <3>3 DEF Failed
    <3> QED BY <3>2, <3>3
  <2>2. passed[t] + 1 \in 0 .. MaxRecords
    BY <1>2, BoundsAssumption
  <2>3. passed' \in [Topics -> 0 .. MaxRecords]
    BY <1>1, <2>2 DEF Inv, Shapes
  <2> QED BY <1>1, <2>1, <2>3 DEF Inv, Shapes
<1>5. Positions' /\ Busy'
  <2>1. \A s \in Topics : passed[s] \in Nat /\ acked[s] \in Nat /\ Len(log[s]) \in Nat
    BY Numbers DEF Inv
  <2>2. Positions'
    BY <1>1, <2>1 DEF Inv, Positions
  <2> QED BY <2>2, TopicsAssumption DEF Busy
<1>6. NoneMissed'
  <2> SUFFICES ASSUME NEW s \in Topics, NEW i \in 1 .. passed'[s]
               PROVE  told'[<<s, i>>] > 0 \/ <<s, i>> \in failed'
    BY DEF NoneMissed
  <2>1. <<s, i>> \in Places
    BY <1>4, BoundsAssumption DEF Shapes, Places
  <2>2. CASE i \in 1 .. passed[s]
    <3>1. told[<<s, i>>] > 0 \/ <<s, i>> \in failed
      BY <2>2 DEF Inv, NoneMissed
    <3>2. failed \subseteq failed'
      BY DEF Told, Failed
    <3> QED BY <1>3, <2>1, <3>1, <3>2
  <2>3. CASE i \notin 1 .. passed[s]
    <3>1. passed[s] \in Nat /\ passed[t] \in Nat
      BY Numbers DEF Inv
    <3>2. s = t /\ i = passed[t] + 1
      <4>1. passed'[s] = IF s = t THEN passed[t] + 1 ELSE passed[s]
        BY <1>1 DEF Inv, Shapes
      <4> QED BY <2>3, <3>1, <4>1
    <3>3. <<s, i>> = NextPlace(t)
      BY <3>2 DEF NextPlace
    <3>4. CASE Told(t)
      <4>1. told'[NextPlace(t)] = told[NextPlace(t)] + 1 /\ told[NextPlace(t)] \in Nat
        BY <1>2, <3>4 DEF Told, Inv, Shapes
      <4> QED BY <3>3, <4>1
    <3>5. CASE Failed(t)
      BY <3>3, <3>5 DEF Failed
    <3> QED BY <3>4, <3>5
  <2> QED BY <2>2, <2>3
<1>7. ToldByPosition'
  <2> SUFFICES ASSUME NEW s \in Topics, NEW i \in 1 .. MaxRecords
               PROVE  /\ told'[<<s, i>>] <= 1 + crashes
                      /\ passed'[s] < i => told'[<<s, i>>] <= crashes
    BY DEF ToldByPosition
  <2>1. /\ told[<<s, i>>] <= 1 + crashes
        /\ passed[s] < i => told[<<s, i>>] <= crashes
    BY DEF Inv, ToldByPosition
  <2>2. <<s, i>> \in Places /\ crashes \in Nat /\ passed[s] \in Nat
    BY Numbers DEF Places, Inv
  <2>3. CASE s = t /\ i = passed[t] + 1
    <3>1. told'[<<s, i>>] <= told[<<s, i>>] + 1
      <4>1. told[<<s, i>>] \in Nat /\ told \in [Places -> Nat]
        BY <2>2 DEF Inv, Shapes
      <4>2. CASE Told(t)
        BY <1>2, <2>3, <4>1, <4>2 DEF Told, NextPlace
      <4>3. CASE Failed(t)
        BY <4>1, <4>3 DEF Failed
      <4> QED BY <4>2, <4>3
    <3>2. passed'[s] = i
      BY <1>1, <2>3 DEF Inv, Shapes
    <3>3. told[<<s, i>>] <= crashes
      BY <2>1, <2>2, <2>3
    <3> QED BY <1>3, <2>2, <3>1, <3>2, <3>3
  <2>4. CASE ~(s = t /\ i = passed[t] + 1)
    <3>1. told'[<<s, i>>] = told[<<s, i>>]
      <4>1. told \in [Places -> Nat] /\ <<s, i>> # NextPlace(t)
        BY <2>4 DEF NextPlace, Inv, Shapes
      <4>2. CASE Told(t)
        BY <2>2, <4>1, <4>2 DEF Told
      <4>3. CASE Failed(t)
        BY <4>3 DEF Failed
      <4> QED BY <4>2, <4>3
    <3>2. passed[s] <= passed'[s]
      BY <1>1, <2>2 DEF Inv, Shapes
    <3>3. passed'[s] \in Nat
      BY <1>4 DEF Shapes
    <3> QED BY <2>1, <2>2, <3>1, <3>2, <3>3
  <2> QED BY <2>3, <2>4
<1>8. InTopics'
  <2>1. NextPlace(t) \in Published /\ Published' = Published
    BY <1>1, NextIsPublished DEF Inv, Published
  <2>2. CASE Told(t)
    <3>1. \A m \in Places : m # NextPlace(t) => told'[m] = told[m]
      BY <2>2 DEF Told, Inv, Shapes
    <3> QED BY <2>1, <2>2, <3>1 DEF Inv, InTopics, Told
  <2>3. CASE Failed(t)
    BY <2>1, <2>3 DEF Inv, InTopics, Failed
  <2> QED BY <2>2, <2>3
<1> QED BY <1>4, <1>5, <1>6, <1>7, <1>8 DEF Inv

\* Offsets are committed behind the position.
LEMMA AckInv == ASSUME Inv, Ack PROVE Inv'
<1>1. /\ \A t \in Topics : acked[t] <= acked'[t] /\ acked'[t] <= passed[t]
      /\ acked' \in [Topics -> UNION {0 .. passed[t] : t \in Topics}]
      /\ UNCHANGED <<log, passed, cur, marked, told, failed, crashes>>
  BY DEF Ack, Consumer!Ack
<1>2. acked' \in [Topics -> 0 .. MaxRecords]
  <2>1. \A t \in Topics : acked'[t] \in 0 .. MaxRecords
    <3> TAKE t \in Topics
    <3>1. passed[t] \in Nat /\ passed[t] <= MaxRecords
      BY BoundsAssumption DEF Inv, Shapes
    <3>2. PICK s \in Topics : acked'[t] \in 0 .. passed[s]
      BY <1>1
    <3>3. acked'[t] \in Nat
      BY <3>2
    <3> QED BY <1>1, <3>1, <3>3, BoundsAssumption
  <2> QED BY <1>1, <2>1
<1>3. Shapes'
  BY <1>1, <1>2 DEF Inv, Shapes
<1>4. Positions' /\ Busy' /\ NoneMissed' /\ ToldByPosition' /\ InTopics'
  BY <1>1 DEF Inv, Positions, Busy, NoneMissed, ToldByPosition, InTopics, Published
<1> QED BY <1>3, <1>4 DEF Inv

\* A restart goes back to the offset, and counts.
LEMMA RestartInv == ASSUME Inv, Restart PROVE Inv'
<1>1. /\ passed' = acked /\ acked' = acked
      /\ crashes' = crashes + 1 /\ crashes < MaxCrashes
      /\ cur' = NoTopic
      /\ UNCHANGED <<log, marked, told, failed>>
  BY DEF Restart, Consumer!Restart, Consumer!StartsAt, Inv, Shapes
<1>2. \A t \in Topics : /\ acked[t] \in Nat /\ passed[t] \in Nat /\ Len(log[t]) \in Nat
                        /\ acked[t] <= passed[t]
  BY Numbers DEF Inv, Positions
<1>3. Shapes'
  BY <1>1, BoundsAssumption DEF Inv, Shapes
<1>4. Positions' /\ Busy'
  BY <1>1, <1>2, TopicsAssumption DEF Inv, Positions, Busy
<1>5. NoneMissed'
  <2>1. \A t \in Topics : \A i \in 1 .. acked[t] : i \in 1 .. passed[t]
    BY <1>2
  <2> QED BY <1>1, <2>1 DEF Inv, NoneMissed
<1>6. ToldByPosition'
  <2>1. \A t \in Topics : \A i \in 1 .. MaxRecords :
          told[<<t, i>>] \in Nat /\ told[<<t, i>>] <= 1 + crashes
    BY Numbers DEF Inv, ToldByPosition
  <2>2. \A t \in Topics : \A i \in 1 .. MaxRecords :
          told[<<t, i>>] <= crashes + 1 /\ told[<<t, i>>] <= 1 + (crashes + 1)
    <3>1. crashes \in Nat
      BY Numbers DEF Inv
    <3>2. \A n, c \in Nat : n <= 1 + c => n <= c + 1 /\ n <= 1 + (c + 1)
      OBVIOUS
    <3> TAKE t \in Topics
    <3> TAKE i \in 1 .. MaxRecords
    <3>3. told[<<t, i>>] \in Nat /\ told[<<t, i>>] <= 1 + crashes
      BY <2>1
    <3> QED BY <3>1, <3>2, <3>3
  <2> QED BY <1>1, <2>2 DEF ToldByPosition
<1>7. InTopics'
  BY <1>1 DEF Inv, InTopics, Published
<1> QED BY <1>3, <1>4, <1>5, <1>6, <1>7 DEF Inv

------------------------------------------------------------------------------
(* The theorems.                                                           *)

\* Inv holds of every reachable state.
LEMMA Invariance == Spec => []Inv
<1>1. Init => Inv
  <2> SUFFICES ASSUME Init PROVE Inv
    OBVIOUS
  <2>1. Shapes
    BY BoundsAssumption DEF Init, Shapes
  <2>2. Positions /\ Busy /\ NoneMissed
    BY BoundsAssumption, TopicsAssumption DEF Init, Positions, Busy, NoneMissed
  <2>3. ToldByPosition
    BY DEF Init, ToldByPosition, Places
  <2>4. InTopics
    BY DEF Init, InTopics, Places
  <2> QED BY <2>1, <2>2, <2>3, <2>4 DEF Inv
<1>2. Inv /\ [Next]_vars => Inv'
  <2> SUFFICES ASSUME Inv, [Next]_vars PROVE Inv'
    OBVIOUS
  <2>1. ASSUME NEW t \in Topics, NEW u \in Users \cup {NoUser}, Publish(t, u) PROVE Inv'
    BY <2>1, PublishInv
  <2>2. ASSUME NEW t \in Topics, Mark(t) PROVE Inv'
    BY <2>2, MarkInv
  <2>3. ASSUME NEW t \in Topics, GiveUp(t) PROVE Inv'
    BY <2>3, PassInv DEF GiveUp, Failed
  <2>4. CASE Broadcast
    BY <2>4, PassInv DEF Broadcast, Told
  <2>5. CASE Ack
    BY <2>5, AckInv
  <2>6. CASE Restart
    BY <2>6, RestartInv
  <2>7. CASE UNCHANGED vars
    BY <2>7 DEF vars, Inv, Shapes, Positions, Busy, NoneMissed, ToldByPosition, InTopics,
                Published
  <2> QED BY <2>1, <2>2, <2>3, <2>4, <2>5, <2>6, <2>7 DEF Next
<1> QED BY <1>1, <1>2, PTL DEF Spec

\* The type invariant of the notification consumer.
THEOREM TypeCorrect == Spec => []TypeOK
<1>1. Inv => TypeOK
  BY DEF Inv, Positions, InTopics, TypeOK
<1> QED BY <1>1, Invariance, PTL

\* Wherever and however often the process stops, every record that the runner
\* is behind was broadcast or given up.
THEOREM NothingMissed == Spec => []NoneMissed
<1>1. Inv => NoneMissed
  BY DEF Inv
<1> QED BY <1>1, Invariance, PTL

\* A record is broadcast at most once in each run of the process.
THEOREM ToldOnce == Spec => []ToldOncePerRun
<1>1. Inv => ToldOncePerRun
  BY DEF Inv, ToldByPosition, ToldOncePerRun, Places
<1> QED BY <1>1, Invariance, PTL

\* The notification consumer is one of AtLeastOnce, with a group that starts at
\* the first record of its topics.
THEOREM ConsumesAtLeastOnce == Spec => Consumer!Spec
<1>1. Init => Consumer!Init
  BY DEF Init, Consumer!Init
<1>2. Inv /\ [Next]_vars => [Consumer!Next]_Consumer!vars
  <2> SUFFICES ASSUME Inv, [Next]_vars PROVE [Consumer!Next]_Consumer!vars
    OBVIOUS
  <2>1. ASSUME NEW t \in Topics, NEW u \in Users \cup {NoUser}, Publish(t, u) PROVE Consumer!Next
    <3>1. log \in [Topics -> Seq(Users \cup {NoUser})]
      BY DEF Inv, Shapes
    <3>2. \A s \in Topics : Len(log'[s]) = IF s \in {t} THEN Len(log[s]) + 1 ELSE Len(log[s])
      BY <2>1, <3>1 DEF Publish
    <3>3. Consumer!Produce({t})
      BY <2>1, <3>2 DEF Publish, Consumer!Produce
    <3> QED BY <3>3 DEF Consumer!Next
  <2>2. ASSUME NEW t \in Topics, Mark(t) PROVE UNCHANGED <<log, passed, acked>>
    BY <2>2 DEF Mark
  <2>3. ASSUME NEW t \in Topics, GiveUp(t) PROVE Consumer!Next
    BY <2>3 DEF GiveUp, Consumer!Next
  <2>4. CASE Broadcast
    BY <2>4 DEF Broadcast, Consumer!Next
  <2>5. CASE Ack \/ Restart
    BY <2>5 DEF Ack, Restart, Consumer!Next
  <2>6. CASE UNCHANGED <<log, passed, acked>>
    BY <2>6 DEF Consumer!vars
  <2>7. CASE UNCHANGED vars
    BY <2>6, <2>7 DEF vars
  <2> QED BY <2>1, <2>2, <2>3, <2>4, <2>5, <2>6, <2>7 DEF Next
<1> QED BY <1>1, <1>2, Invariance, PTL DEF Spec, Consumer!Spec
=============================================================================
