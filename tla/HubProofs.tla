------------------------------ MODULE HubProofs ------------------------------
(***************************************************************************)
(* Proofs about Hub, for any number of connections, users, rooms and       *)
(* broadcasts, and for any connection IDs of which no two users share one: *)
(* router.go's, which the tabs of a user share, and uuids.                 *)
(*                                                                         *)
(* The maps and locks keep their shape, the locks cannot deadlock, and     *)
(* broadcasts wear off; the hub's maps agree with each other, broadcasts   *)
(* reach whom the hub knows and nobody else, and the gauge is bounded by   *)
(* the open connections from below.  Only the last theorem assumes that    *)
(* IDs are unique.                                                         *)
(***************************************************************************)
EXTENDS Hub, FiniteSetTheorems, TLAPS

------------------------------------------------------------------------------
(* Shapes and locks.                                                       *)

\* Every step keeps the types of the locks.
LEMMA NextLocks ==
  ASSUME HubTypes, LockTypes, [Next]_vars
  PROVE  LockTypes'
<1>1. CASE UNCHANGED lockVars
  BY <1>1 DEF lockVars, LockTypes
<1>2. ASSUME NEW t \in Tabs, Stall(t) \/ Resume(t)
      PROVE  LockTypes'
  BY <1>2 DEF Stall, Resume, LockTypes
<1>3. ASSUME NEW t \in Tabs, NEW r \in Rooms, TakeHub("join", t, r) \/ TakeHub("leave", t, r)
      PROVE  LockTypes'
  BY <1>3 DEF TakeHub, Request, Requests, LockTypes
<1>4. ASSUME NEW t \in Tabs, NEW r \in Rooms, FinishRoom(t, r)
      PROVE  LockTypes'
  BY <1>4 DEF FinishRoom, LockTypes
<1>5. ASSUME NEW b \in Casts, Broadcasting(b)
      PROVE  LockTypes'
  <2>1. CASE StartSend(b)
    <3>1. cast[b].targets \subseteq Tabs
      BY DEF HubTypes, CastRecords
    <3> QED
      BY <2>1, <3>1 DEF StartSend, LockTypes
  <2>2. CASE FinishSend(b)
    BY <2>2 DEF FinishSend, LockTypes
  <2> QED
    BY <1>5, <2>1, <2>2, <1>1 DEF Broadcasting, UnderHub
<1> QED
  BY <1>1, <1>2, <1>3, <1>4, <1>5 DEF Next, UnderHub, vars, lockVars

\* The maps have their types, and a user has finitely many connections.
Shape == HubTypes /\ \A u \in Users : IsFiniteSet(presence[u])

\* The connections of the hub under one ID, added or taken away, keep its shape.
LEMMA PutDelete ==
  ASSUME NEW f, DOMAIN f \subseteq ConnIDs, f \in [DOMAIN f -> Tabs],
         NEW c \in ConnIDs, NEW t \in Tabs
  PROVE  /\ DOMAIN Put(f, c, t) \subseteq ConnIDs /\ Put(f, c, t) \in [DOMAIN Put(f, c, t) -> Tabs]
         /\ DOMAIN Delete(f, c) \subseteq ConnIDs
         /\ Delete(f, c) \in [DOMAIN Delete(f, c) -> Tabs]
<1>1. /\ DOMAIN Put(f, c, t) = DOMAIN f \cup {c} /\ DOMAIN Delete(f, c) = DOMAIN f \ {c}
      /\ \A k \in DOMAIN f : f[k] \in Tabs
  BY DEF Put, Delete
<1>2. Put(f, c, t) \in [DOMAIN f \cup {c} -> Tabs]
  BY <1>1 DEF Put
<1>3. Delete(f, c) \in [DOMAIN f \ {c} -> Tabs]
  BY <1>1 DEF Delete
<1> QED BY <1>1, <1>2, <1>3

\* A handshake keeps the shape, also when it takes the place of another
\* connection with the same ID.
LEMMA ShapeConnect ==
  ASSUME Shape, NEW t \in Tabs, Connect(t)
  PROVE  Shape'
<1>1. /\ tab' = [tab EXCEPT ![t] = "open"] /\ up' = [up EXCEPT ![t] = TRUE]
      /\ clients' = Put(clients, ConnIDOf[t], t)
      /\ presence' = [presence EXCEPT ![UserOf[t]] = @ \cup {ConnIDOf[t]}]
      /\ gauge' = gauge + 1
      /\ UNCHANGED <<rooms, joined, cast, got>>
  BY DEF Connect, Register
<1>2. ConnIDOf[t] \in ConnIDs /\ UserOf[t] \in Users
  BY UserOfAssumption, ConnIDOfAssumption
<1>3. DOMAIN clients' \subseteq ConnIDs /\ clients' \in [DOMAIN clients' -> Tabs]
  BY <1>1, <1>2, PutDelete DEF Shape, HubTypes
<1>4. \A u \in Users : IsFiniteSet(presence'[u])
  <2> SUFFICES ASSUME NEW u \in Users PROVE IsFiniteSet(presence'[u])
    OBVIOUS
  <2>1. presence'[u] = presence[u] \/ presence'[u] = presence[u] \cup {ConnIDOf[t]}
    BY <1>1 DEF Shape, HubTypes
  <2>2. IsFiniteSet(presence[u])
    BY DEF Shape
  <2>3. IsFiniteSet(presence[u] \cup {ConnIDOf[t]})
    BY <2>2, FS_AddElement
  <2> QED BY <2>1, <2>2, <2>3
<1>5. HubTypes'
  BY <1>1, <1>2, <1>3 DEF Shape, HubTypes
<1> QED BY <1>4, <1>5 DEF Shape

\* The end of a connection keeps the shape, whoever is in the map under its ID.
LEMMA ShapeReadError ==
  ASSUME Shape, NEW t \in Tabs, ReadError(t)
  PROVE  Shape'
<1> DEFINE id == ConnIDOf[t]
           c == clients[id]
<1>1. /\ tab' = [tab EXCEPT ![t] = "closed"] /\ up' = [up EXCEPT ![t] = FALSE]
      /\ UNCHANGED <<joined, cast, got>>
      /\ Unregister(id)
  BY DEF ReadError
<1>2. id \in ConnIDs /\ (id \in DOMAIN clients => c \in Tabs /\ UserOf[c] \in Users)
  BY UserOfAssumption, ConnIDOfAssumption DEF Shape, HubTypes
<1>3. /\ tab' \in [Tabs -> {"new", "open", "closed"}] /\ up' \in [Tabs -> BOOLEAN]
  BY <1>1 DEF Shape, HubTypes
<1>4. CASE id \in DOMAIN clients
  <2>1. /\ rooms' = [r \in Rooms |-> IF r \in joined[c] THEN Delete(rooms[r], id) ELSE rooms[r]]
        /\ presence' = [presence EXCEPT ![UserOf[c]] = @ \ {ConnIDOf[c]}]
        /\ clients' = Delete(clients, id) /\ gauge' = gauge - 1
    BY <1>1, <1>4 DEF Unregister, UnregisterPresence
  <2>2. DOMAIN clients' \subseteq ConnIDs /\ clients' \in [DOMAIN clients' -> Tabs]
    BY <1>2, <1>4, <2>1, PutDelete DEF Shape, HubTypes
  <2>3. ASSUME NEW r \in Rooms
        PROVE  DOMAIN rooms'[r] \subseteq ConnIDs /\ rooms'[r] \in [DOMAIN rooms'[r] -> Tabs]
    <3>1. rooms'[r] = Delete(rooms[r], id) \/ rooms'[r] = rooms[r]
      BY <2>1
    <3> QED BY <1>2, <3>1, PutDelete DEF Shape, HubTypes
  <2>4. presence' \in [Users -> SUBSET ConnIDs]
    BY <1>2, <1>4, <2>1 DEF Shape, HubTypes
  <2>5. \A u \in Users : IsFiniteSet(presence'[u])
    <3> SUFFICES ASSUME NEW u \in Users PROVE IsFiniteSet(presence'[u])
      OBVIOUS
    <3>1. presence'[u] \in SUBSET presence[u]
      BY <1>2, <1>4, <2>1 DEF Shape, HubTypes
    <3> QED BY <3>1, FS_Subset DEF Shape
  <2>6. HubTypes'
    BY <1>1, <1>3, <2>1, <2>2, <2>3, <2>4 DEF Shape, HubTypes
  <2> QED BY <2>5, <2>6 DEF Shape
<1>5. CASE id \notin DOMAIN clients
  <2>1. UNCHANGED <<rooms, presence, clients, gauge>>
    BY <1>1, <1>5 DEF Unregister
  <2> QED BY <1>1, <1>3, <2>1 DEF Shape, HubTypes
<1> QED BY <1>4, <1>5

\* Joining and leaving a room keep the shape.
LEMMA ShapeRoom ==
  ASSUME Shape, NEW t \in Tabs, NEW r \in Rooms, Join(t, r) \/ Leave(t, r)
  PROVE  Shape'
<1> DEFINE id == ConnIDOf[t]
           c == clients[id]
<1>1. UNCHANGED <<clients, presence, tab, up, gauge, cast, got>>
  BY DEF Join, Leave
<1>2. id \in ConnIDs /\ (id \in DOMAIN clients => c \in Tabs)
  BY ConnIDOfAssumption DEF Shape, HubTypes
<1>3. CASE id \notin DOMAIN clients
  BY <1>1, <1>3 DEF Join, Leave, Shape, HubTypes
<1>4. CASE id \in DOMAIN clients
  <2>1. /\ joined' \in [Tabs -> SUBSET Rooms] /\ DOMAIN rooms' = Rooms
    BY <1>2, <1>4 DEF Join, Leave, LeaveRoom, Shape, HubTypes
  <2>2. ASSUME NEW s \in Rooms
        PROVE  rooms'[s] = rooms[s] \/ rooms'[s] = Put(rooms[s], id, c)
               \/ rooms'[s] = Delete(rooms[s], id)
    BY <1>4 DEF Join, Leave, LeaveRoom, Shape, HubTypes
  <2>3. ASSUME NEW s \in Rooms
        PROVE  DOMAIN rooms'[s] \subseteq ConnIDs /\ rooms'[s] \in [DOMAIN rooms'[s] -> Tabs]
    <3>1. DOMAIN rooms[s] \subseteq ConnIDs /\ rooms[s] \in [DOMAIN rooms[s] -> Tabs]
      BY DEF Shape, HubTypes
    <3>2. c \in Tabs /\ id \in ConnIDs
      BY <1>2, <1>4
    <3> HIDE DEF id, c
    <3> QED BY <2>2, <3>1, <3>2, PutDelete
  <2> QED BY <1>1, <2>1, <2>3 DEF Shape, HubTypes
<1> QED BY <1>3, <1>4

\* The steps of a broadcast keep the shape.
LEMMA ShapeCast ==
  ASSUME Shape, NEW b \in Casts, UNCHANGED <<hubVars, up>>,
         \/ \E u \in Users : BroadcastUser(b, u)
         \/ \E r \in Rooms : BroadcastRoom(b, r)
         \/ LookUp(b) \/ Return(b) \/ (\E t \in Tabs : Send(b, t))
  PROVE  Shape'
<1>1. UNCHANGED <<clients, rooms, presence, joined, tab, gauge, up>>
  BY DEF hubVars
<1>2. Open \subseteq Tabs /\ cast[b] \in CastRecords
  BY DEF Open, Shape, HubTypes
<1>3. cast' \in [Casts -> CastRecords] /\ got' \subseteq Casts \X Tabs
  <2>1. CASE \E u \in Users : BroadcastUser(b, u)
    BY <1>2, <2>1 DEF BroadcastUser, Shape, HubTypes, CastRecords
  <2>2. CASE \E r \in Rooms : BroadcastRoom(b, r)
    <3>1. PICK r \in Rooms : BroadcastRoom(b, r)
      BY <2>2
    <3>2. Range(rooms[r]) \subseteq Tabs
      BY DEF Range, Shape, HubTypes
    <3>3. Members(r) \subseteq Tabs
      BY DEF Members, Open
    <3> QED BY <1>2, <3>1, <3>2, <3>3 DEF BroadcastRoom, Shape, HubTypes, CastRecords
  <2>3. CASE LookUp(b)
    <3>1. PICK id \in cast[b].ids :
            cast' = [cast EXCEPT ![b].ids = @ \ {id},
                                 ![b].targets = IF id \in DOMAIN clients THEN {clients[id]} ELSE {}]
      BY <2>3 DEF LookUp
    <3>2. (IF id \in DOMAIN clients THEN {clients[id]} ELSE {}) \subseteq Tabs
      BY DEF Shape, HubTypes
    <3> QED BY <1>2, <2>3, <3>1, <3>2 DEF LookUp, Shape, HubTypes, CastRecords
  <2>4. CASE Return(b)
    BY <1>2, <2>4 DEF Return, Shape, HubTypes, CastRecords
  <2>5. CASE \E t \in Tabs : Send(b, t)
    <3>1. PICK t \in Tabs : Send(b, t)
      BY <2>5
    <3>2. cast' = [cast EXCEPT ![b].targets = @ \ {t}] /\ cast[b].targets \subseteq Tabs
      BY <1>2, <3>1 DEF Send, CastRecords
    <3>3. cast' \in [Casts -> CastRecords]
      BY <1>2, <3>2 DEF Shape, HubTypes, CastRecords
    <3>4. got' \subseteq Casts \X Tabs
      BY <3>1 DEF Send, Shape, HubTypes
    <3> QED BY <3>3, <3>4
  <2> QED BY <2>1, <2>2, <2>3, <2>4, <2>5
<1> QED BY <1>1, <1>3 DEF Shape, HubTypes

\* One goroutine at most holds h.mu and waits, and its connection is open;
\* a broadcast that holds a c.mu is at its write; and no two hold the same.
LockSound ==
  /\ hmu = {} \/ \E q \in Requests : hmu = {q} /\ tab[q.tab] = "open"
  /\ \A b \in Casts : sending[b] # {} => \E t \in cast[b].targets : sending[b] = {t}
  /\ \A b \in Casts : cast[b].pc \in {"new", "done"} => cast[b].ids = {} /\ cast[b].targets = {}
  /\ \A b \in Casts : IsFiniteSet(cast[b].ids)
  /\ \A a, b \in Casts : sending[a] \cap sending[b] # {} => a = b
  /\ stalled \subseteq Slow

LockInv == Shape /\ LockTypes /\ LockSound

\* Every step keeps the shape.
LEMMA ShapeNext ==
  ASSUME Shape, LockTypes, [Next]_vars
  PROVE  Shape'
<1>1. CASE UNCHANGED <<hubVars, up, cast, got>>
  BY <1>1 DEF hubVars, Shape, HubTypes
<1>2. ASSUME NEW t \in Tabs, Connect(t) \/ ReadError(t) PROVE Shape'
  BY <1>2, ShapeConnect, ShapeReadError
<1>3. ASSUME NEW t \in Tabs, Drop(t) PROVE Shape'
  BY <1>3 DEF Drop, hubVars, Shape, HubTypes
<1>4. ASSUME NEW t \in Tabs, NEW r \in Rooms, FinishRoom(t, r) PROVE Shape'
  BY <1>4, ShapeRoom DEF FinishRoom
<1>5. ASSUME NEW b \in Casts, (\E u \in Users : BroadcastUser(b, u)) \/ (\E r \in Rooms : BroadcastRoom(b, r))
      PROVE  Shape'
  BY <1>5, ShapeCast DEF BroadcastUser, BroadcastRoom
<1>6. ASSUME NEW b \in Casts, Broadcasting(b) PROVE Shape'
  <2>1. CASE LookUp(b) \/ Return(b)
    BY <2>1, ShapeCast DEF LookUp, Return
  <2>2. CASE StartSend(b)
    BY <2>2, <1>1 DEF StartSend
  <2>3. CASE FinishSend(b)
    <3>1. PICK t \in sending[b] : Send(b, t)
      BY <2>3 DEF FinishSend
    <3>2. t \in Tabs
      BY DEF LockTypes
    <3> QED BY <3>1, <3>2, ShapeCast DEF Send
  <2> QED BY <1>6, <2>1, <2>2, <2>3 DEF Broadcasting, UnderHub
<1>7. ASSUME NEW t \in Tabs,
             \/ Stall(t) \/ Resume(t)
             \/ \E r \in Rooms : TakeHub("join", t, r) \/ TakeHub("leave", t, r)
      PROVE  Shape'
  BY <1>7, <1>1 DEF Stall, Resume, TakeHub
<1>8. CASE UNCHANGED vars
  BY <1>8, <1>1 DEF vars, hubVars
<1> QED BY <1>2, <1>3, <1>4, <1>5, <1>6, <1>7, <1>8 DEF Next, UnderHub

\* Only the next step of broadcast b, and steps that spare the others, change
\* what the locks say of broadcasts.
LEMMA LockCast ==
  ASSUME LockInv, NEW b \in Casts, UNCHANGED <<tab, hmu, stalled>>,
         cast' = [cast EXCEPT ![b] = cast'[b]], sending' = [sending EXCEPT ![b] = sending'[b]],
         sending'[b] # {} => \E t \in cast'[b].targets : sending'[b] = {t},
         cast'[b].pc \in {"new", "done"} => cast'[b].ids = {} /\ cast'[b].targets = {},
         IsFiniteSet(cast'[b].ids),
         \A a \in Casts : a # b => sending[a] \cap sending'[b] = {}
  PROVE  LockSound'
<1>1. \A a \in Casts : a # b => cast'[a] = cast[a] /\ sending'[a] = sending[a]
  BY DEF LockInv, Shape, HubTypes, LockTypes
<1>2. hmu' = {} \/ \E q \in Requests : hmu' = {q} /\ tab'[q.tab] = "open"
  BY DEF LockInv, LockSound
<1>3. ASSUME NEW a \in Casts
      PROVE  /\ sending'[a] # {} => \E t \in cast'[a].targets : sending'[a] = {t}
             /\ cast'[a].pc \in {"new", "done"} => cast'[a].ids = {} /\ cast'[a].targets = {}
             /\ IsFiniteSet(cast'[a].ids)
  BY <1>1 DEF LockInv, LockSound
<1>4. \A a, c \in Casts : sending'[a] \cap sending'[c] # {} => a = c
  BY <1>1 DEF LockInv, LockSound
<1> QED BY <1>2, <1>3, <1>4 DEF LockInv, LockSound

\* Every step of a broadcast keeps what is said of the locks.
LEMMA LockBroadcast ==
  ASSUME LockInv, NEW b \in Casts,
         \/ (\E u \in Users : BroadcastUser(b, u)) /\ UNCHANGED lockVars
         \/ (\E r \in Rooms : BroadcastRoom(b, r)) /\ UNCHANGED lockVars
         \/ Broadcasting(b)
  PROVE  LockSound'
<1>0. /\ cast \in [Casts -> CastRecords] /\ sending \in [Casts -> SUBSET Tabs]
      /\ cast[b] \in CastRecords
  BY DEF LockInv, Shape, HubTypes, LockTypes
<1>1. \A a \in Casts : a # b => sending[a] \cap sending[b] = {}
  BY DEF LockInv, LockSound
<1>2. ASSUME NEW u \in Users, BroadcastUser(b, u), UNCHANGED lockVars PROVE LockSound'
  <2>1. /\ cast' = [cast EXCEPT ![b] = cast'[b]] /\ cast'[b].pc = "user"
        /\ cast'[b].ids = presence[u]
    BY <1>0, <1>2 DEF BroadcastUser
  <2>2. sending[b] = {}
    BY <1>2 DEF BroadcastUser, LockInv, LockSound
  <2>3. IsFiniteSet(presence[u])
    BY DEF LockInv, Shape
  <2> QED BY <1>0, <1>1, <1>2, <2>1, <2>2, <2>3, LockCast DEF BroadcastUser, hubVars, lockVars
<1>3. ASSUME NEW r \in Rooms, BroadcastRoom(b, r), UNCHANGED lockVars PROVE LockSound'
  <2>1. /\ cast' = [cast EXCEPT ![b] = cast'[b]] /\ cast'[b].pc = "room"
        /\ cast'[b].ids = {}
    BY <1>0, <1>3 DEF BroadcastRoom
  <2>2. sending[b] = {}
    BY <1>3 DEF BroadcastRoom, LockInv, LockSound
  <2>3. UNCHANGED <<tab, hmu, sending, stalled>>
    BY <1>3 DEF BroadcastRoom, hubVars, lockVars
  <2>4. sending' = [sending EXCEPT ![b] = sending'[b]] /\ sending'[b] = {}
    BY <1>0, <2>2, <2>3
  <2> QED BY <2>1, <2>3, <2>4, FS_EmptySet, LockCast
<1>4. ASSUME UnderHub(LookUp(b)) PROVE LockSound'
  <2>1. PICK id \in cast[b].ids :
          cast' = [cast EXCEPT ![b].ids = @ \ {id},
                               ![b].targets = IF id \in DOMAIN clients THEN {clients[id]} ELSE {}]
    BY <1>4 DEF UnderHub, LookUp
  <2>2. cast[b].pc = "user" /\ cast[b].targets = {} /\ UNCHANGED <<tab, lockVars>>
    BY <1>4 DEF UnderHub, LookUp, hubVars
  <2>3. /\ cast' = [cast EXCEPT ![b] = cast'[b]] /\ cast'[b].pc = "user"
        /\ cast'[b].ids = cast[b].ids \ {id}
    BY <1>0, <2>1, <2>2 DEF CastRecords
  <2>4. sending[b] = {} /\ IsFiniteSet(cast'[b].ids)
    BY <2>2, <2>3, FS_RemoveElement DEF LockInv, LockSound
  <2>5. sending' = [sending EXCEPT ![b] = sending'[b]] /\ sending'[b] = {}
    BY <1>0, <2>2, <2>4 DEF lockVars
  <2>6. UNCHANGED <<tab, hmu, stalled>>
    BY <2>2 DEF lockVars
  <2> QED BY <2>3, <2>4, <2>5, <2>6, LockCast
<1>5. ASSUME StartSend(b) PROVE LockSound'
  <2>1. PICK t \in cast[b].targets : ~Locked(t) /\ sending' = [sending EXCEPT ![b] = {t}]
    BY <1>5 DEF StartSend
  <2>2. UNCHANGED <<tab, cast, hmu, stalled>>
    BY <1>5 DEF StartSend, hubVars
  <2>3. sending'[b] = {t} /\ \A a \in Casts : t \notin sending[a]
    BY <1>0, <2>1 DEF Locked
  <2>4. /\ cast' = [cast EXCEPT ![b] = cast'[b]]
        /\ cast'[b].pc \in {"new", "done"} => cast'[b].ids = {} /\ cast'[b].targets = {}
        /\ IsFiniteSet(cast'[b].ids)
    BY <1>0, <2>2 DEF LockInv, LockSound
  <2> QED BY <2>1, <2>2, <2>3, <2>4, LockCast
<1>6. ASSUME FinishSend(b) PROVE LockSound'
  <2>1. PICK t \in sending[b] : cast' = [cast EXCEPT ![b].targets = @ \ {t}]
    BY <1>6 DEF FinishSend, Send
  <2>2. UNCHANGED <<tab, hmu, stalled>> /\ sending' = [sending EXCEPT ![b] = {}]
    BY <1>6 DEF FinishSend, Send, hubVars
  <2>3. /\ cast' = [cast EXCEPT ![b] = cast'[b]] /\ cast'[b].pc = cast[b].pc
        /\ cast'[b].ids = cast[b].ids /\ cast'[b].targets = cast[b].targets \ {t}
    BY <1>0, <2>1 DEF CastRecords
  <2>4. /\ cast'[b].pc \in {"new", "done"} => cast'[b].ids = {} /\ cast'[b].targets = {}
        /\ IsFiniteSet(cast'[b].ids)
    BY <2>3 DEF LockInv, LockSound
  <2>5. sending' = [sending EXCEPT ![b] = sending'[b]] /\ sending'[b] = {}
    BY <1>0, <2>2
  <2> QED BY <2>2, <2>3, <2>4, <2>5, LockCast
<1>7. ASSUME Return(b), UNCHANGED lockVars PROVE LockSound'
  <2>1. /\ cast[b].ids = {} /\ cast[b].targets = {} /\ cast' = [cast EXCEPT ![b].pc = "done"]
        /\ UNCHANGED <<tab, hmu, sending, stalled>>
    BY <1>7 DEF Return, hubVars, lockVars
  <2>2. /\ cast' = [cast EXCEPT ![b] = cast'[b]]
        /\ cast'[b].ids = {} /\ cast'[b].targets = {}
    BY <1>0, <2>1 DEF CastRecords
  <2>3. sending[b] = {}
    BY <2>1 DEF LockInv, LockSound
  <2>4. sending' = [sending EXCEPT ![b] = sending'[b]] /\ sending'[b] = {}
    BY <1>0, <2>1, <2>3
  <2> QED BY <2>1, <2>2, <2>4, FS_EmptySet, LockCast
<1> QED BY <1>2, <1>3, <1>4, <1>5, <1>6, <1>7 DEF Broadcasting

\* Every step keeps the shape and the bookkeeping of the locks.
LEMMA LockNext ==
  ASSUME LockInv, [Next]_vars
  PROVE  LockInv'
<1>1. Shape'
  BY ShapeNext DEF LockInv
<1>2. LockTypes'
  BY NextLocks DEF LockInv, Shape
<1>3. ASSUME UNCHANGED <<tab, cast, hmu, sending, stalled>> PROVE LockSound'
  BY <1>3 DEF LockInv, LockSound
<1>4. ASSUME NEW t \in Tabs, UnderHub(Connect(t)) \/ UnderHub(ReadError(t)) PROVE LockSound'
  <2>1. hmu' = {} /\ UNCHANGED <<cast, sending, stalled>>
    BY <1>4 DEF UnderHub, Connect, ReadError, lockVars
  <2> QED BY <2>1 DEF LockInv, LockSound
<1>5. ASSUME NEW t \in Tabs, Drop(t), UNCHANGED lockVars PROVE LockSound'
  BY <1>3, <1>5 DEF Drop, hubVars, lockVars
<1>6. ASSUME NEW t \in Tabs, Stall(t) \/ Resume(t) PROVE LockSound'
  <2>1. UNCHANGED <<tab, cast, hmu, sending>> /\ stalled' \subseteq Slow
    BY <1>6 DEF Stall, Resume, hubVars, LockInv, LockSound
  <2> QED BY <2>1 DEF LockInv, LockSound
<1>7. ASSUME NEW t \in Tabs, NEW r \in Rooms, TakeHub("join", t, r) \/ TakeHub("leave", t, r)
      PROVE  LockSound'
  <2>1. PICK op \in {"join", "leave"} : TakeHub(op, t, r)
    BY <1>7
  <2>2. /\ hmu' = {Request(op, t, r)} /\ Request(op, t, r).tab = t /\ Request(op, t, r) \in Requests
        /\ tab[t] = "open" /\ UNCHANGED <<tab, cast, sending, stalled>>
    BY <2>1 DEF TakeHub, Request, Requests, hubVars
  <2> QED BY <2>2 DEF LockInv, LockSound
<1>8. ASSUME NEW t \in Tabs, NEW r \in Rooms, FinishRoom(t, r) PROVE LockSound'
  <2>1. hmu' = {} /\ UNCHANGED <<cast, sending, stalled>>
    BY <1>8 DEF FinishRoom, Join, Leave
  <2> QED BY <2>1 DEF LockInv, LockSound
<1>9. ASSUME NEW b \in Casts,
             \/ \E u \in Users : UnderHub(BroadcastUser(b, u))
             \/ \E r \in Rooms : UnderHub(BroadcastRoom(b, r))
             \/ Broadcasting(b)
      PROVE  LockSound'
  BY <1>9, LockBroadcast DEF UnderHub
<1>10. LockSound'
  BY <1>3, <1>4, <1>5, <1>6, <1>7, <1>8, <1>9 DEF Next, vars
<1> QED BY <1>1, <1>2, <1>10 DEF LockInv

\* The inductive invariant of shapes and locks.
THEOREM LockInvariance == Spec => []LockInv
<1>1. Init => LockInv
  <2> SUFFICES ASSUME Init PROVE LockInv
    OBVIOUS
  <2>1. HubTypes
    <3>1. DOMAIN NoClients = {}
      BY DEF NoClients
    <3> QED BY <3>1 DEF Init, HubTypes, CastRecords
  <2>2. Shape
    BY <2>1, FS_EmptySet DEF Init, Shape
  <2> QED BY <2>2, FS_EmptySet DEF Init, LockInv, LockTypes, LockSound
<1>2. LockInv /\ [Next]_vars => LockInv'
  BY LockNext
<1> QED BY <1>1, <1>2, PTL DEF Spec


\* What Join or Leave, holding h.mu, waits for: nothing, or the c.mu of the
\* client it found.
CanFinishRoom(q) ==
  /\ tab[q.tab] = "open"
  /\ ConnIDOf[q.tab] \in DOMAIN clients => ~Locked(clients[ConnIDOf[q.tab]])

\* The write of b to t is under way, and needs no lock: only the peer of t can
\* hold it up.
Writing(b, t) == sending[b] = {t} /\ t \in cast[b].targets
HeldUp(t) == t \in Slow \cap stalled /\ up[t]

\* No two broadcasts write on one connection at a time.  Whoever waits for a
\* c.mu, with h.mu or without it, waits for one write, and that write comes
\* back unless its peer, one that may stop reading, has stopped and is still
\* there.
LocksComeBack ==
  /\ \A a, b \in Casts : sending[a] \cap sending[b] # {} => a = b
  /\ \A q \in hmu :
       /\ hmu = {q}
       /\ \/ CanFinishRoom(q)
          \/ \E b \in Casts : Writing(b, clients[ConnIDOf[q.tab]])
  /\ \A t \in Tabs : Locked(t) =>
       \E b \in Casts : Writing(b, t) /\ (HeldUp(t) \/ (t \in stalled => ~up[t]))

\* h.mu is taken before c.mu and never the other way round, and a write takes
\* no lock: so the hub cannot lock itself up, whatever the IDs of its
\* connections, and only a peer that does not read can hold it up.
THEOREM LocksAreSafe == Spec => []LocksComeBack
<1>1. LockInv => LocksComeBack
  <2> SUFFICES ASSUME LockInv PROVE LocksComeBack
    OBVIOUS
  <2>1. ASSUME NEW b \in Casts, NEW t \in sending[b] PROVE Writing(b, t)
    BY DEF LockInv, LockSound, Writing
  <2>2. ASSUME NEW q \in hmu
        PROVE  /\ hmu = {q}
               /\ \/ CanFinishRoom(q)
                  \/ \E b \in Casts : Writing(b, clients[ConnIDOf[q.tab]])
    <3>1. hmu = {q} /\ tab[q.tab] = "open"
      BY DEF LockInv, LockSound
    <3> QED BY <2>1, <3>1 DEF CanFinishRoom, Locked
  <2>3. ASSUME NEW t \in Tabs, Locked(t)
        PROVE  \E b \in Casts : Writing(b, t) /\ (HeldUp(t) \/ (t \in stalled => ~up[t]))
    <3>1. PICK b \in Casts : t \in sending[b]
      BY <2>3 DEF Locked
    <3>2. HeldUp(t) \/ (t \in stalled => ~up[t])
      BY DEF HeldUp, LockInv, LockSound
    <3> QED BY <2>1, <3>1, <3>2
  <2> QED BY <2>2, <2>3 DEF LocksComeBack, LockInv, LockSound
<1> QED BY <1>1, LockInvariance, PTL
------------------------------------------------------------------------------
(* Broadcasts wear off.                                                    *)

\* What a broadcast still has to do: look up its IDs, write to its targets,
\* return.
CastRank(b) ==
  3 * Cardinality(cast[b].ids) + 2 * Cardinality(cast[b].targets)
    + (IF sending[b] = {} THEN 1 ELSE 0) + (IF cast[b].pc = "done" THEN 0 ELSE 1)

\* Whatever happens to a running broadcast brings it nearer to its return.
CastsWearOff ==
  \A b \in Casts :
    /\ cast[b].pc \in {"user", "room"}
    /\ <<cast'[b], sending'[b]>> # <<cast[b], sending[b]>>
    => CastRank(b)' < CastRank(b)

\* The sizes of what a broadcast has before it are numbers.
LEMMA CastSizes ==
  ASSUME LockInv, NEW b \in Casts
  PROVE  /\ IsFiniteSet(cast[b].ids) /\ Cardinality(cast[b].ids) \in Nat
         /\ IsFiniteSet(cast[b].targets) /\ Cardinality(cast[b].targets) \in Nat
<1>1. IsFiniteSet(cast[b].ids)
  BY DEF LockInv, LockSound
<1>2. cast[b].targets \in SUBSET Tabs
  BY DEF LockInv, Shape, HubTypes, CastRecords
<1>3. IsFiniteSet(cast[b].targets)
  BY <1>2, TabsAssumption, FS_Subset
<1> QED BY <1>1, <1>3, FS_CardinalityType

\* A step of a broadcast lowers its rank and leaves the other broadcasts alone.
LEMMA CastWears ==
  ASSUME LockInv, NEW b \in Casts, Broadcasting(b)
  PROVE  /\ CastRank(b)' < CastRank(b)
         /\ \A a \in Casts : a # b => cast'[a] = cast[a] /\ sending'[a] = sending[a]
<1> DEFINE ids == cast[b].ids
           targets == cast[b].targets
<1>0. /\ cast \in [Casts -> CastRecords] /\ sending \in [Casts -> SUBSET Tabs]
      /\ cast[b] \in CastRecords
  BY DEF LockInv, Shape, HubTypes, LockTypes
<1>1. /\ IsFiniteSet(ids) /\ Cardinality(ids) \in Nat
      /\ IsFiniteSet(targets) /\ Cardinality(targets) \in Nat
  BY CastSizes
<1>2. CASE UnderHub(LookUp(b))
  <2>1. PICK id \in ids :
          cast' = [cast EXCEPT ![b].ids = @ \ {id},
                               ![b].targets = IF id \in DOMAIN clients THEN {clients[id]} ELSE {}]
    BY <1>2 DEF UnderHub, LookUp
  <2>2. cast[b].pc = "user" /\ targets = {} /\ UNCHANGED sending
    BY <1>2 DEF UnderHub, LookUp, lockVars
  <2>3. /\ cast'[b].pc = "user" /\ cast'[b].ids = ids \ {id}
        /\ cast'[b].targets = {} \/ cast'[b].targets = {clients[id]}
        /\ \A a \in Casts : a # b => cast'[a] = cast[a]
    BY <1>0, <2>1, <2>2 DEF CastRecords
  <2>4. Cardinality(cast'[b].ids) = Cardinality(ids) - 1
    BY <1>1, <2>1, <2>3, FS_RemoveElement
  <2>5. Cardinality(cast'[b].targets) \in {0, 1} /\ Cardinality(targets) = 0
    BY <2>2, <2>3, FS_EmptySet, FS_Singleton
  <2>6. CastRank(b)' < CastRank(b)
    BY <1>1, <2>2, <2>3, <2>4, <2>5 DEF CastRank
  <2> QED BY <2>2, <2>3, <2>6
<1>3. CASE StartSend(b)
  <2>1. /\ sending[b] = {} /\ UNCHANGED cast
        /\ \E t \in targets : sending' = [sending EXCEPT ![b] = {t}]
    BY <1>3 DEF StartSend
  <2>2. sending'[b] # {} /\ \A a \in Casts : a # b => sending'[a] = sending[a]
    BY <1>0, <2>1
  <2>3. /\ CastRank(b) = 3 * Cardinality(ids) + 2 * Cardinality(targets) + 1
                            + (IF cast[b].pc = "done" THEN 0 ELSE 1)
        /\ CastRank(b)' = 3 * Cardinality(ids) + 2 * Cardinality(targets) + 0
                            + (IF cast[b].pc = "done" THEN 0 ELSE 1)
    BY <2>1, <2>2 DEF CastRank
  <2>4. CastRank(b)' < CastRank(b)
    BY <1>1, <2>3
  <2> QED BY <2>1, <2>2, <2>4
<1>4. CASE FinishSend(b)
  <2>1. PICK t \in sending[b] : t \in targets /\ cast' = [cast EXCEPT ![b].targets = @ \ {t}]
    BY <1>4 DEF FinishSend, Send
  <2>2. sending' = [sending EXCEPT ![b] = {}]
    BY <1>4 DEF FinishSend
  <2>3. /\ cast'[b].pc = cast[b].pc /\ cast'[b].ids = ids /\ cast'[b].targets = targets \ {t}
        /\ sending[b] # {} /\ sending'[b] = {}
        /\ \A a \in Casts : a # b => cast'[a] = cast[a] /\ sending'[a] = sending[a]
    BY <1>0, <2>1, <2>2 DEF CastRecords
  <2>4. Cardinality(cast'[b].targets) = Cardinality(targets) - 1
    BY <1>1, <2>1, <2>3, FS_RemoveElement
  <2>5. CastRank(b)' < CastRank(b)
    BY <1>1, <2>3, <2>4 DEF CastRank
  <2> QED BY <2>3, <2>5
<1>5. CASE Return(b) /\ UNCHANGED lockVars
  <2>1. /\ cast[b].pc # "done" /\ cast' = [cast EXCEPT ![b].pc = "done"] /\ UNCHANGED sending
    BY <1>5 DEF Return, lockVars
  <2>2. /\ cast'[b].pc = "done" /\ cast'[b].ids = ids /\ cast'[b].targets = targets
        /\ \A a \in Casts : a # b => cast'[a] = cast[a]
    BY <1>0, <2>1 DEF CastRecords
  <2>3. CastRank(b)' < CastRank(b)
    BY <1>1, <2>1, <2>2 DEF CastRank
  <2> QED BY <2>1, <2>2, <2>3
<1> QED BY <1>2, <1>3, <1>4, <1>5 DEF Broadcasting

\* A broadcast never goes round in circles: each of its steps lowers a natural
\* number that no other step raises, however connections come and go and share
\* IDs.  With the fairness of its goroutine and peers that react this is why
\* CastEnds holds.
THEOREM BroadcastsWearOff ==
  Spec => [](\A b \in Casts : CastRank(b) \in Nat) /\ [][CastsWearOff]_vars
<1>1. LockInv => \A b \in Casts : CastRank(b) \in Nat
  BY CastSizes DEF CastRank
<1>2. LockInv /\ [Next]_vars => [CastsWearOff]_vars
  <2> SUFFICES ASSUME LockInv, Next PROVE CastsWearOff
    OBVIOUS
  <2>1. ASSUME UNCHANGED <<cast, sending>> PROVE CastsWearOff
    BY <2>1 DEF CastsWearOff
  <2>2. ASSUME NEW t \in Tabs,
               \/ UnderHub(Connect(t)) \/ UnderHub(ReadError(t)) \/ (Drop(t) /\ UNCHANGED lockVars)
               \/ Stall(t) \/ Resume(t)
        PROVE  CastsWearOff
    <3>1. UNCHANGED <<cast, sending>>
      BY <2>2 DEF UnderHub, Connect, ReadError, Drop, Stall, Resume, lockVars
    <3> QED BY <2>1, <3>1
  <2>3. ASSUME NEW t \in Tabs, NEW r \in Rooms,
               TakeHub("join", t, r) \/ TakeHub("leave", t, r) \/ FinishRoom(t, r)
        PROVE  CastsWearOff
    <3>1. UNCHANGED <<cast, sending>>
      BY <2>3 DEF TakeHub, FinishRoom, Join, Leave
    <3> QED BY <2>1, <3>1
  <2>4. ASSUME NEW b \in Casts,
               \/ \E u \in Users : UnderHub(BroadcastUser(b, u))
               \/ \E r \in Rooms : UnderHub(BroadcastRoom(b, r))
        PROVE  CastsWearOff
    <3>1. /\ cast[b].pc = "new" /\ UNCHANGED sending
          /\ \A a \in Casts : a # b => cast'[a] = cast[a]
      BY <2>4 DEF UnderHub, BroadcastUser, BroadcastRoom, lockVars, LockInv, Shape, HubTypes
    <3> QED BY <3>1 DEF CastsWearOff
  <2>5. ASSUME NEW b \in Casts, Broadcasting(b) PROVE CastsWearOff
    BY <2>5, CastWears DEF CastsWearOff
  <2> QED BY <2>2, <2>3, <2>4, <2>5 DEF Next, UnderHub
<1> QED BY <1>1, <1>2, LockInvariance, PTL DEF Spec
------------------------------------------------------------------------------
(* The maps and the broadcasts, whatever IDs the tabs of one user have.    *)

\* The hub has this connection under its ID.
Registered(t) == ConnIDOf[t] \in DOMAIN clients /\ clients[ConnIDOf[t]] = t

\* A connection that has not been accepted has joined nothing, and only an
\* open one can be written to.
TabSound ==
  \A t \in Tabs : /\ tab[t] = "new" => joined[t] = {}
                  /\ up[t] => tab[t] = "open"

\* A running broadcast still has before it everybody it owes the message to.
\* Whoever its IDs and targets can lead to may hear it, or is gone.
CastSound ==
  \A b \in Casts :
    /\ \A t \in cast[b].present :
         /\ tab[t] # "new"
         /\ Registered(t) /\ up[t] =>
              <<b, t>> \in got \/ t \in cast[b].targets \/ ConnIDOf[t] \in cast[b].ids
    /\ \A t \in cast[b].targets : tab[t] # "new" /\ (up[t] => t \in cast[b].audience)
    /\ \A t \in Tabs : ConnIDOf[t] \in cast[b].ids => t \in cast[b].audience
    /\ cast[b].pc = "done" => cast[b].ids = {} /\ cast[b].targets = {}
    /\ cast[b].pc = "new" => cast[b].audience = {} /\ cast[b].targets = {}

\* The inductive invariant, beside the shapes.
Inv == MapsAgree /\ TabSound /\ CastSound /\ OnlyAudience

\* An empty hub is sound.
LEMMA InitInv ==
  ASSUME Init
  PROVE  Inv
<1>1. DOMAIN NoClients = {}
  BY DEF NoClients
<1>2. MapsAgree
  BY <1>1 DEF Init, MapsAgree
<1>3. TabSound /\ CastSound /\ OnlyAudience
  BY DEF Init, TabSound, CastSound, OnlyAudience
<1> QED BY <1>2, <1>3 DEF Inv

\* Who is registered is found in the map.
LEMMA RegisteredIsInRange ==
  ASSUME HubTypes, MapsAgree, NEW t \in Range(clients)
  PROVE  Registered(t)
BY DEF Range, MapsAgree, Registered

\* A step of a read loop leaves the broadcasts alone.  None of those steps
\* brings back, or registers again, a connection that a broadcast knows of.
LEMMA CastsKept ==
  ASSUME HubTypes, Inv, UNCHANGED <<cast, got>>,
         \A t \in Tabs : tab[t] # "new" =>
           /\ tab'[t] # "new"
           /\ Registered(t)' => Registered(t)
           /\ up'[t] => up[t]
  PROVE  CastSound' /\ OnlyAudience'
<1>1. \A b \in Casts : cast[b].present \subseteq Tabs /\ cast[b].targets \subseteq Tabs
  BY DEF HubTypes, CastRecords
<1>2. OnlyAudience'
  BY DEF Inv, OnlyAudience
<1>3. ASSUME NEW b \in Casts, NEW t \in cast[b].present
      PROVE  /\ tab'[t] # "new"
             /\ Registered(t)' /\ up'[t] =>
                  <<b, t>> \in got \/ t \in cast[b].targets \/ ConnIDOf[t] \in cast[b].ids
  <2>1. t \in Tabs /\ tab[t] # "new"
    BY <1>1 DEF Inv, CastSound
  <2>2. Registered(t)' /\ up'[t] => Registered(t) /\ up[t]
    BY <2>1
  <2> QED BY <2>1, <2>2 DEF Inv, CastSound
<1>4. ASSUME NEW b \in Casts, NEW t \in cast[b].targets
      PROVE  tab'[t] # "new" /\ (up'[t] => t \in cast[b].audience)
  BY <1>1 DEF Inv, CastSound
<1>5. \A b \in Casts : /\ \A t \in Tabs : ConnIDOf[t] \in cast[b].ids => t \in cast[b].audience
                       /\ cast[b].pc = "done" => cast[b].ids = {} /\ cast[b].targets = {}
                       /\ cast[b].pc = "new" => cast[b].audience = {} /\ cast[b].targets = {}
  BY DEF Inv, CastSound
<1>6. CastSound'
  BY <1>3, <1>4, <1>5 DEF CastSound
<1> QED BY <1>2, <1>6

\* A new connection enters clients and presence under its ID; who had it
\* before is no longer registered.
LEMMA StepConnect ==
  ASSUME HubTypes, Inv, NEW t \in Tabs, Connect(t)
  PROVE  Inv'
<1> DEFINE id == ConnIDOf[t]
           u == UserOf[t]
<1>1. /\ tab[t] = "new" /\ tab' = [tab EXCEPT ![t] = "open"]
      /\ up' = [up EXCEPT ![t] = TRUE]
      /\ clients' = Put(clients, id, t)
      /\ presence' = [presence EXCEPT ![u] = @ \cup {id}]
      /\ UNCHANGED <<rooms, joined, cast, got>>
  BY DEF Connect, Register
<1>2. id \in ConnIDs /\ u \in Users /\ joined[t] = {} /\ Open' = Open \cup {t}
  BY <1>1, UserOfAssumption, ConnIDOfAssumption DEF Inv, TabSound, Open, HubTypes
<1>3. /\ DOMAIN clients' = DOMAIN clients \cup {id}
      /\ clients'[id] = t
      /\ \A k \in DOMAIN clients : k # id => clients'[k] = clients[k]
  BY <1>1 DEF Put
<1>4. MapsAgree'
  <2>1. \A k \in DOMAIN clients' : clients'[k] \in Open' /\ ConnIDOf[clients'[k]] = k
    BY <1>2, <1>3 DEF Inv, MapsAgree
  <2>2. ASSUME NEW v \in Users
        PROVE  presence'[v] = {k \in DOMAIN clients' : UserOf[clients'[k]] = v}
    <3>1. presence[v] = {k \in DOMAIN clients : UserOf[clients[k]] = v}
      BY DEF Inv, MapsAgree
    <3>2. presence'[v] = IF v = u THEN presence[v] \cup {id} ELSE presence[v]
      BY <1>1, <1>2 DEF HubTypes
    <3>3. id \in DOMAIN clients => UserOf[clients[id]] = u
      BY OneOwnerAssumption DEF Inv, MapsAgree, Open
    <3>4. ASSUME NEW k
          PROVE  k \in presence'[v] <=> k \in DOMAIN clients' /\ UserOf[clients'[k]] = v
      BY <3>1, <3>2, <3>3, <1>3
    <3> QED BY <3>4
  <2>3. \A k \in DOMAIN clients' : \A r \in joined'[clients'[k]] :
          k \in DOMAIN rooms'[r] /\ rooms'[r][k] = clients'[k]
    BY <1>1, <1>2, <1>3 DEF Inv, MapsAgree
  <2>4. \A r \in Rooms : \A k \in DOMAIN rooms'[r] :
          ConnIDOf[rooms'[r][k]] = k /\ r \in joined'[rooms'[r][k]]
    BY <1>1 DEF Inv, MapsAgree
  <2> QED BY <2>1, <2>2, <2>3, <2>4 DEF MapsAgree
<1>5. TabSound'
  BY <1>1 DEF Inv, TabSound, HubTypes
<1>6. ASSUME NEW s \in Tabs, tab[s] # "new"
      PROVE  tab'[s] # "new" /\ (Registered(s)' => Registered(s)) /\ (up'[s] => up[s])
  <2>1. s # t /\ tab'[s] = tab[s] /\ up'[s] = up[s]
    BY <1>1, <1>6 DEF HubTypes
  <2>2. Registered(s)' => Registered(s)
    BY <2>1, <1>3 DEF Registered
  <2> QED BY <2>1, <2>2, <1>6
<1>7. CastSound' /\ OnlyAudience'
  BY <1>1, <1>6, CastsKept
<1> QED BY <1>4, <1>5, <1>7 DEF Inv

\* A peer that goes away changes no map of the hub.
LEMMA StepDrop ==
  ASSUME HubTypes, Inv, NEW t \in Tabs, Drop(t)
  PROVE  Inv'
<1>1. /\ up' = [up EXCEPT ![t] = FALSE]
      /\ UNCHANGED <<clients, rooms, presence, joined, tab, gauge, cast, got>>
  BY DEF Drop, hubVars
<1>2. MapsAgree'
  BY <1>1 DEF Inv, MapsAgree, Open
<1>3. \A s \in Tabs : up'[s] => up[s]
  BY <1>1 DEF HubTypes
<1>4. TabSound'
  BY <1>1, <1>3 DEF Inv, TabSound
<1>5. CastSound' /\ OnlyAudience'
  BY <1>1, <1>3, CastsKept DEF Registered
<1> QED BY <1>2, <1>4, <1>5 DEF Inv

\* A loop that ends takes whoever is registered under its ID out of the maps,
\* itself or the tab that replaced it, and nobody with another ID.
LEMMA StepReadError ==
  ASSUME HubTypes, Inv, NEW t \in Tabs, ReadError(t)
  PROVE  Inv'
<1> DEFINE id == ConnIDOf[t]
<1>1. /\ tab[t] = "open" /\ Unregister(id)
      /\ tab' = [tab EXCEPT ![t] = "closed"] /\ up' = [up EXCEPT ![t] = FALSE]
      /\ UNCHANGED <<joined, cast, got>>
  BY DEF ReadError
<1>2. Open' = Open \ {t}
  BY <1>1 DEF HubTypes, Open
<1>3. /\ DOMAIN clients' = DOMAIN clients \ {id}
      /\ \A k \in DOMAIN clients' : clients'[k] = clients[k]
  <2>1. CASE id \in DOMAIN clients
    BY <2>1, <1>1 DEF Unregister, Delete
  <2>2. CASE id \notin DOMAIN clients
    BY <2>2, <1>1 DEF Unregister
  <2> QED BY <2>1, <2>2
<1>4. ASSUME NEW v \in Users PROVE presence'[v] = presence[v] \ {id}
  <2>1. CASE id \in DOMAIN clients
    <3>1. presence' = [presence EXCEPT ![UserOf[clients[id]]] = @ \ {ConnIDOf[clients[id]]}]
      BY <2>1, <1>1 DEF Unregister, UnregisterPresence
    <3>2. ConnIDOf[clients[id]] = id /\ UserOf[clients[id]] \in Users
      BY <2>1, UserOfAssumption DEF Inv, MapsAgree, Open
    <3>3. v # UserOf[clients[id]] => id \notin presence[v]
      BY DEF Inv, MapsAgree
    <3> QED BY <3>1, <3>2, <3>3 DEF HubTypes
  <2>2. CASE id \notin DOMAIN clients
    <3>1. presence' = presence
      BY <2>2, <1>1 DEF Unregister
    <3> QED BY <3>1, <2>2 DEF Inv, MapsAgree
  <2> QED BY <2>1, <2>2
<1>5. ASSUME NEW r \in Rooms
      PROVE  /\ \A k \in DOMAIN rooms'[r] : k \in DOMAIN rooms[r] /\ rooms'[r][k] = rooms[r][k]
             /\ \A k \in DOMAIN rooms[r] : k # id => k \in DOMAIN rooms'[r]
  <2>1. CASE id \in DOMAIN clients /\ r \in joined[clients[id]]
    <3>1. rooms'[r] = Delete(rooms[r], id)
      BY <2>1, <1>1 DEF Unregister
    <3> QED BY <3>1 DEF Delete
  <2>2. CASE ~(id \in DOMAIN clients /\ r \in joined[clients[id]])
    <3>1. rooms'[r] = rooms[r]
      BY <2>2, <1>1 DEF Unregister
    <3> QED BY <3>1
  <2> QED BY <2>1, <2>2
<1>6. MapsAgree'
  <2>1. \A k \in DOMAIN clients' : clients'[k] \in Open' /\ ConnIDOf[clients'[k]] = k
    BY <1>2, <1>3 DEF Inv, MapsAgree
  <2>2. \A v \in Users : presence'[v] = {k \in DOMAIN clients' : UserOf[clients'[k]] = v}
    BY <1>3, <1>4 DEF Inv, MapsAgree
  <2>3. ASSUME NEW k \in DOMAIN clients', NEW r \in joined'[clients'[k]]
        PROVE  k \in DOMAIN rooms'[r] /\ rooms'[r][k] = clients'[k]
    <3>1. k \in DOMAIN clients /\ k # id /\ clients'[k] = clients[k] /\ r \in joined[clients[k]]
      BY <1>1, <1>3
    <3>2. r \in Rooms
      BY <3>1 DEF HubTypes
    <3>3. k \in DOMAIN rooms[r] /\ rooms[r][k] = clients[k]
      BY <3>1 DEF Inv, MapsAgree
    <3> QED BY <3>1, <3>2, <3>3, <1>5
  <2>4. \A r \in Rooms : \A k \in DOMAIN rooms'[r] :
          ConnIDOf[rooms'[r][k]] = k /\ r \in joined'[rooms'[r][k]]
    BY <1>1, <1>5 DEF Inv, MapsAgree
  <2> QED BY <2>1, <2>2, <2>3, <2>4 DEF MapsAgree
<1>7. TabSound'
  BY <1>1 DEF Inv, TabSound, HubTypes
<1>8. \A s \in Tabs : tab[s] # "new" =>
        tab'[s] # "new" /\ (Registered(s)' => Registered(s)) /\ (up'[s] => up[s])
  BY <1>1, <1>3 DEF HubTypes, Registered
<1>9. CastSound' /\ OnlyAudience'
  BY <1>1, <1>8, CastsKept
<1> QED BY <1>6, <1>7, <1>9 DEF Inv

\* Join and Leave change one room under the ID of the connection that asks, and
\* the set of the client registered under it in the same way.
LEMMA StepRoom ==
  ASSUME HubTypes, Inv, NEW t \in Tabs, NEW r \in Rooms, Join(t, r) \/ Leave(t, r)
  PROVE  Inv'
<1> DEFINE id == ConnIDOf[t]
           c == clients[id]
<1>1. UNCHANGED <<clients, presence, tab, up, cast, got>> /\ Open' = Open
  BY DEF Join, Leave, Open
<1>2. CASE id \notin DOMAIN clients
  <2>1. UNCHANGED <<rooms, joined>>
    BY <1>2 DEF Join, Leave
  <2> QED
    BY <1>1, <2>1 DEF Inv, MapsAgree, TabSound, CastSound, OnlyAudience, Registered
<1>3. CASE id \in DOMAIN clients
  <2>1. c \in Open /\ c \in Tabs /\ ConnIDOf[c] = id
    BY <1>3 DEF Inv, MapsAgree, Open
  <2>2. /\ \A s \in Tabs : s # c => joined'[s] = joined[s]
        /\ \A q \in Rooms : q # r => (q \in joined'[c] <=> q \in joined[c])
        /\ joined'[c] \subseteq Rooms
        /\ \A q \in Rooms : q # r => rooms'[q] = rooms[q]
        /\ \A k \in ConnIDs : k # id => (k \in DOMAIN rooms'[r] <=> k \in DOMAIN rooms[r])
        /\ \A k \in DOMAIN rooms[r] : k # id => rooms'[r][k] = rooms[r][k]
        /\ DOMAIN rooms'[r] \subseteq ConnIDs
        /\ r \in joined'[c] <=> id \in DOMAIN rooms'[r]
        /\ id \in DOMAIN rooms'[r] => rooms'[r][id] = c
    <3>0. /\ DOMAIN rooms = Rooms /\ joined \in [Tabs -> SUBSET Rooms] /\ id \in ConnIDs
          /\ DOMAIN rooms[r] \subseteq ConnIDs
      BY ConnIDOfAssumption DEF HubTypes
    <3>1. CASE Join(t, r)
      <4>1. /\ rooms' = [rooms EXCEPT ![r] = Put(rooms[r], id, c)]
            /\ joined' = [joined EXCEPT ![c] = joined[c] \cup {r}]
        BY <3>1, <1>3 DEF Join
      <4>2. rooms'[r] = Put(rooms[r], id, c) /\ joined'[c] = joined[c] \cup {r}
        BY <4>1, <3>0, <2>1
      <4>3. DOMAIN rooms'[r] = DOMAIN rooms[r] \cup {id}
        BY <4>2 DEF Put
      <4>4. /\ rooms'[r][id] = c
            /\ \A k \in DOMAIN rooms[r] : k # id => rooms'[r][k] = rooms[r][k]
        BY <4>2 DEF Put
      <4> HIDE DEF id, c
      <4> QED BY <4>1, <4>2, <4>3, <4>4, <3>0, <2>1
    <3>2. CASE Leave(t, r)
      <4>1. /\ rooms' = [rooms EXCEPT ![r] = Delete(rooms[r], id)]
            /\ joined' = [joined EXCEPT ![c] = joined[c] \ {r}]
        BY <3>2, <1>3 DEF Leave, LeaveRoom
      <4>2. rooms'[r] = Delete(rooms[r], id) /\ joined'[c] = joined[c] \ {r}
        BY <4>1, <3>0, <2>1
      <4>3. DOMAIN rooms'[r] = DOMAIN rooms[r] \ {id}
        BY <4>2 DEF Delete
      <4>4. \A k \in DOMAIN rooms[r] : k # id => rooms'[r][k] = rooms[r][k]
        BY <4>2 DEF Delete
      <4> HIDE DEF id, c
      <4> QED BY <4>1, <4>2, <4>3, <4>4, <3>0, <2>1
    <3> QED BY <3>1, <3>2
  <2> HIDE DEF c
  <2>3. ASSUME NEW k \in DOMAIN clients', NEW q \in joined'[clients'[k]]
        PROVE  k \in DOMAIN rooms'[q] /\ rooms'[q][k] = clients'[k]
    <3>1. k \in DOMAIN clients /\ clients'[k] = clients[k] /\ clients[k] \in Tabs /\ k \in ConnIDs
      BY <1>1 DEF HubTypes
    <3>2. CASE k = id
      <4>1. clients[k] = c /\ q \in joined'[c]
        BY <3>1, <3>2 DEF c
      <4>2. q \in Rooms
        BY <4>1, <2>2
      <4>3. CASE q = r
        BY <4>1, <4>3, <3>1, <3>2, <2>2
      <4>4. CASE q # r
        <5>1. q \in joined[c] /\ rooms'[q] = rooms[q]
          BY <4>1, <4>2, <4>4, <2>2
        <5> QED BY <5>1, <4>1, <3>1 DEF Inv, MapsAgree
      <4> QED BY <4>3, <4>4
    <3>3. CASE k # id
      <4>1. clients[k] # c
        BY <3>1, <3>3, <2>1 DEF Inv, MapsAgree
      <4>2. q \in joined[clients[k]] /\ q \in Rooms
        BY <4>1, <3>1, <2>2 DEF HubTypes
      <4>3. k \in DOMAIN rooms[q] /\ rooms[q][k] = clients[k]
        BY <4>2, <3>1 DEF Inv, MapsAgree
      <4> QED BY <4>2, <4>3, <3>1, <3>3, <2>2
    <3> QED BY <3>2, <3>3
  <2>4. ASSUME NEW q \in Rooms, NEW k \in DOMAIN rooms'[q]
        PROVE  ConnIDOf[rooms'[q][k]] = k /\ q \in joined'[rooms'[q][k]]
    <3>1. CASE q = r /\ k = id
      BY <3>1, <2>1, <2>2
    <3>2. CASE q = r /\ k # id
      <4>1. k \in DOMAIN rooms[r] /\ rooms'[r][k] = rooms[r][k]
        BY <3>2, <2>2
      <4>2. rooms[r][k] \in Tabs /\ ConnIDOf[rooms[r][k]] = k /\ r \in joined[rooms[r][k]]
        BY <4>1 DEF Inv, MapsAgree, HubTypes
      <4>3. rooms[r][k] # c
        BY <4>2, <3>2, <2>1
      <4> QED BY <4>1, <4>2, <4>3, <3>2, <2>2
    <3>3. CASE q # r
      <4>1. k \in DOMAIN rooms[q] /\ rooms'[q][k] = rooms[q][k]
        BY <3>3, <2>2
      <4>2. rooms[q][k] \in Tabs /\ ConnIDOf[rooms[q][k]] = k /\ q \in joined[rooms[q][k]]
        BY <4>1 DEF Inv, MapsAgree, HubTypes
      <4> QED BY <4>1, <4>2, <3>3, <2>2
    <3> QED BY <3>1, <3>2, <3>3
  <2>5. MapsAgree'
    <3>1. /\ \A k \in DOMAIN clients' : clients'[k] \in Open' /\ ConnIDOf[clients'[k]] = k
          /\ \A v \in Users : presence'[v] = {k \in DOMAIN clients' : UserOf[clients'[k]] = v}
      BY <1>1 DEF Inv, MapsAgree
    <3> QED BY <3>1, <2>3, <2>4 DEF MapsAgree
  <2>6. TabSound'
    BY <1>1, <2>1, <2>2 DEF Inv, TabSound, Open
  <2>7. CastSound' /\ OnlyAudience'
    BY <1>1, CastsKept DEF Registered
  <2> QED BY <2>5, <2>6, <2>7 DEF Inv
<1> QED BY <1>2, <1>3

\* A step of one broadcast leaves the hub and the other broadcasts alone.
LEMMA OneCast ==
  ASSUME HubTypes, Inv, UNCHANGED <<hubVars, up>>, NEW b \in Casts,
         cast' = [cast EXCEPT ![b] = cast'[b]],
         \A a \in Casts, t \in Tabs : a # b => (<<a, t>> \in got' <=> <<a, t>> \in got),
         \A t \in Tabs : <<b, t>> \in got' => t \in cast'[b].audience,
         \A t \in cast'[b].present :
           /\ tab[t] # "new"
           /\ Registered(t) /\ up[t] =>
                <<b, t>> \in got' \/ t \in cast'[b].targets \/ ConnIDOf[t] \in cast'[b].ids,
         \A t \in cast'[b].targets : tab[t] # "new" /\ (up[t] => t \in cast'[b].audience),
         \A t \in Tabs : ConnIDOf[t] \in cast'[b].ids => t \in cast'[b].audience,
         cast'[b].pc = "done" => cast'[b].ids = {} /\ cast'[b].targets = {},
         cast'[b].pc # "new"
  PROVE  Inv'
<1>1. UNCHANGED <<clients, rooms, presence, joined, tab, up>> /\ Open' = Open
  BY DEF hubVars, Open
<1>2. \A a \in Casts : a # b => cast'[a] = cast[a]
  BY DEF HubTypes
<1>3. MapsAgree' /\ TabSound'
  BY <1>1 DEF Inv, MapsAgree, TabSound
<1>4. OnlyAudience'
  BY <1>2 DEF Inv, OnlyAudience
<1>5. \A t : Registered(t)' <=> Registered(t)
  BY <1>1 DEF Registered
<1>6. \A a \in Casts : cast[a].present \subseteq Tabs
  BY DEF HubTypes, CastRecords
<1>7. ASSUME NEW a \in Casts, a # b
      PROVE  /\ \A t \in cast[a].present :
                  /\ tab[t] # "new"
                  /\ Registered(t) /\ up[t] =>
                       <<a, t>> \in got' \/ t \in cast[a].targets \/ ConnIDOf[t] \in cast[a].ids
             /\ \A t \in cast[a].targets : tab[t] # "new" /\ (up[t] => t \in cast[a].audience)
             /\ \A t \in Tabs : ConnIDOf[t] \in cast[a].ids => t \in cast[a].audience
             /\ cast[a].pc = "done" => cast[a].ids = {} /\ cast[a].targets = {}
             /\ cast[a].pc = "new" => cast[a].audience = {} /\ cast[a].targets = {}
  BY <1>6, <1>7 DEF Inv, CastSound
<1>8. ASSUME NEW a \in Casts
      PROVE  /\ \A t \in cast'[a].present :
                  /\ tab'[t] # "new"
                  /\ Registered(t)' /\ up'[t] =>
                       <<a, t>> \in got' \/ t \in cast'[a].targets \/ ConnIDOf[t] \in cast'[a].ids
             /\ \A t \in cast'[a].targets : tab'[t] # "new" /\ (up'[t] => t \in cast'[a].audience)
             /\ \A t \in Tabs : ConnIDOf[t] \in cast'[a].ids => t \in cast'[a].audience
             /\ cast'[a].pc = "done" => cast'[a].ids = {} /\ cast'[a].targets = {}
             /\ cast'[a].pc = "new" => cast'[a].audience = {} /\ cast'[a].targets = {}
  <2>1. CASE a = b
    BY <2>1, <1>1, <1>5
  <2>2. CASE a # b
    BY <2>2, <1>1, <1>2, <1>5, <1>7
  <2> QED BY <2>1, <2>2
<1>9. CastSound'
  BY <1>8 DEF CastSound
<1> QED BY <1>3, <1>4, <1>9 DEF Inv

\* The snapshot of the user's connIDs leads to nobody else, because an ID is
\* one user's, and to every tab of the user that is registered.
LEMMA StepBroadcastUser ==
  ASSUME HubTypes, Inv, NEW b \in Casts, NEW u \in Users, BroadcastUser(b, u)
  PROVE  Inv'
<1> DEFINE all == {t \in Tabs : UserOf[t] = u}
           here == {t \in Open : UserOf[t] = u}
<1>1. /\ cast[b].pc = "new" /\ got' = got /\ UNCHANGED <<hubVars, up>>
      /\ cast' = [cast EXCEPT ![b] = cast'[b]]
      /\ cast'[b] = [pc |-> "user", ids |-> presence[u], targets |-> {},
                     audience |-> all, present |-> here]
  BY DEF BroadcastUser, HubTypes
<1>2. \A t \in Tabs : <<b, t>> \notin got
  BY <1>1 DEF Inv, OnlyAudience, CastSound
<1>3. presence[u] = {k \in DOMAIN clients : UserOf[clients[k]] = u}
  BY DEF Inv, MapsAgree
<1>4. \A t \in here : tab[t] # "new" /\ (Registered(t) => ConnIDOf[t] \in presence[u])
  BY <1>3 DEF Open, Registered
<1>5. ASSUME NEW t \in Tabs, ConnIDOf[t] \in presence[u] PROVE t \in all
  <2> DEFINE c == clients[ConnIDOf[t]]
  <2>1. c \in Tabs /\ ConnIDOf[c] = ConnIDOf[t] /\ UserOf[c] = u
    BY <1>3, <1>5 DEF Inv, MapsAgree, Open
  <2> QED BY <2>1, OneOwnerAssumption
<1> HIDE DEF all, here
<1>6. /\ cast'[b].pc = "user" /\ cast'[b].ids = presence[u] /\ cast'[b].targets = {}
      /\ cast'[b].audience = all /\ cast'[b].present = here
  BY <1>1
<1> QED BY <1>1, <1>2, <1>4, <1>5, <1>6, OneCast

\* The snapshot of the room holds the registered members, and beside them only
\* open members that were replaced and connections that are gone.
LEMMA StepBroadcastRoom ==
  ASSUME HubTypes, Inv, NEW b \in Casts, NEW r \in Rooms, BroadcastRoom(b, r)
  PROVE  Inv'
<1> DEFINE in == Members(r)
<1>1. /\ cast[b].pc = "new" /\ got' = got /\ UNCHANGED <<hubVars, up>>
      /\ cast' = [cast EXCEPT ![b] = cast'[b]]
      /\ cast'[b] = [pc |-> "room", ids |-> {}, targets |-> Range(rooms[r]),
                     audience |-> in, present |-> in]
  BY DEF BroadcastRoom, HubTypes
<1>2. \A t \in Tabs : <<b, t>> \notin got
  BY <1>1 DEF Inv, OnlyAudience, CastSound
<1>3. ASSUME NEW t \in Range(rooms[r]) PROVE tab[t] # "new" /\ (up[t] => t \in in)
  <2>1. PICK k \in DOMAIN rooms[r] : t = rooms[r][k]
    BY DEF Range
  <2>2. t \in Tabs /\ r \in joined[t]
    BY <2>1 DEF HubTypes, Inv, MapsAgree
  <2> QED BY <2>2 DEF Inv, TabSound, Members, Open
<1>4. ASSUME NEW t \in in PROVE tab[t] # "new" /\ (Registered(t) => t \in Range(rooms[r]))
  <2>1. t \in Tabs /\ tab[t] = "open" /\ r \in joined[t]
    BY DEF Members, Open
  <2>2. Registered(t) => ConnIDOf[t] \in DOMAIN rooms[r] /\ rooms[r][ConnIDOf[t]] = t
    BY <2>1 DEF Registered, Inv, MapsAgree
  <2> QED BY <2>1, <2>2 DEF Range
<1> HIDE DEF in
<1>5. /\ cast'[b].pc = "room" /\ cast'[b].ids = {} /\ cast'[b].targets = Range(rooms[r])
      /\ cast'[b].audience = in /\ cast'[b].present = in
  BY <1>1
<1> QED BY <1>1, <1>2, <1>3, <1>4, <1>5, OneCast

\* The second lookup finds who is registered under the ID by now: a tab of the
\* same user, and the one the message is owed to if that is still registered.
LEMMA StepLookUp ==
  ASSUME HubTypes, Inv, NEW b \in Casts, LookUp(b)
  PROVE  Inv'
<1>1. PICK id \in cast[b].ids :
        cast' = [cast EXCEPT ![b].ids = @ \ {id},
                             ![b].targets = IF id \in DOMAIN clients
                                            THEN {clients[id]} ELSE {}]
  BY DEF LookUp
<1>2. cast[b].pc = "user" /\ cast[b].targets = {} /\ got' = got /\ UNCHANGED <<hubVars, up>>
  BY DEF LookUp
<1> DEFINE found == IF id \in DOMAIN clients THEN {clients[id]} ELSE {}
           c == cast[b]
<1>3. c \in CastRecords /\ cast \in [Casts -> CastRecords]
  BY DEF HubTypes
<1>4. /\ cast' = [cast EXCEPT ![b] = cast'[b]]
      /\ cast'[b] = [c EXCEPT !.ids = c.ids \ {id}, !.targets = found]
  BY <1>1, <1>3
<1>5. \A t \in found : t \in Tabs /\ tab[t] = "open" /\ ConnIDOf[t] = id
  BY DEF Inv, MapsAgree, Open
<1>6. \A t \in Tabs : Registered(t) /\ ConnIDOf[t] = id => t \in found
  BY DEF Registered
<1> HIDE DEF found, c
<1>7. /\ cast'[b].pc = c.pc /\ cast'[b].ids = c.ids \ {id} /\ cast'[b].targets = found
      /\ cast'[b].audience = c.audience /\ cast'[b].present = c.present
      /\ c.present \subseteq Tabs /\ c.pc = "user"
  BY <1>2, <1>3, <1>4 DEF CastRecords, c
<1>8. /\ \A t \in Tabs : <<b, t>> \in got => t \in c.audience
      /\ \A t \in c.present :
           /\ tab[t] # "new"
           /\ Registered(t) /\ up[t] => <<b, t>> \in got \/ ConnIDOf[t] \in c.ids
      /\ \A t \in Tabs : ConnIDOf[t] \in c.ids => t \in c.audience
      /\ id \in c.ids
  BY <1>2 DEF Inv, OnlyAudience, CastSound, c
<1>9. \A t \in c.present :
        Registered(t) /\ up[t] => <<b, t>> \in got \/ t \in found \/ ConnIDOf[t] \in c.ids \ {id}
  BY <1>6, <1>7, <1>8
<1>10. \A t \in found : tab[t] # "new" /\ t \in c.audience
  BY <1>5, <1>8
<1> QED BY <1>2, <1>4, <1>7, <1>8, <1>9, <1>10, OneCast

\* One write: the target has the message, or its peer is gone.
LEMMA StepSend ==
  ASSUME HubTypes, Inv, NEW b \in Casts, NEW t0, Send(b, t0)
  PROVE  Inv'
<1>1. /\ t0 \in cast[b].targets
      /\ cast' = [cast EXCEPT ![b].targets = @ \ {t0}]
      /\ got' = IF up[t0] THEN got \cup {<<b, t0>>} ELSE got
  BY DEF Send
<1>2. UNCHANGED <<hubVars, up>>
  BY DEF Send
<1> DEFINE c == cast[b]
<1>3. c \in CastRecords /\ cast \in [Casts -> CastRecords]
  BY DEF HubTypes
<1>4. /\ cast' = [cast EXCEPT ![b] = cast'[b]]
      /\ cast'[b] = [c EXCEPT !.targets = c.targets \ {t0}]
  BY <1>1, <1>3
<1>5. t0 \in c.targets /\ t0 \in Tabs
  BY <1>1, <1>3 DEF CastRecords
<1> HIDE DEF c
<1>6. /\ cast'[b].pc = c.pc /\ cast'[b].ids = c.ids /\ cast'[b].targets = c.targets \ {t0}
      /\ cast'[b].audience = c.audience /\ cast'[b].present = c.present
  BY <1>3, <1>4 DEF CastRecords
<1>7. /\ \A t \in Tabs : <<b, t>> \in got => t \in c.audience
      /\ \A t \in c.present :
           /\ tab[t] # "new"
           /\ Registered(t) /\ up[t] => <<b, t>> \in got \/ t \in c.targets \/ ConnIDOf[t] \in c.ids
      /\ \A t \in c.targets : tab[t] # "new" /\ (up[t] => t \in c.audience)
      /\ \A t \in Tabs : ConnIDOf[t] \in c.ids => t \in c.audience
      /\ c.pc \in {"new", "done"} => c.targets = {}
  BY DEF Inv, OnlyAudience, CastSound, c
<1>8. \A a \in Casts, t \in Tabs : a # b => (<<a, t>> \in got' <=> <<a, t>> \in got)
  BY <1>1
<1>9. \A t \in Tabs : <<b, t>> \in got' => t \in c.audience
  BY <1>1, <1>5, <1>7
<1>10. ASSUME NEW t \in c.present, Registered(t), up[t]
       PROVE  <<b, t>> \in got' \/ t \in c.targets \ {t0} \/ ConnIDOf[t] \in c.ids
  BY <1>1, <1>7, <1>10
<1>11. c.pc # "done" /\ c.pc # "new"
  BY <1>5, <1>7
<1> QED
  BY <1>2, <1>4, <1>6, <1>7, <1>8, <1>9, <1>10, <1>11, OneCast

\* A broadcast returns only when nothing is left before it.
LEMMA StepReturn ==
  ASSUME HubTypes, Inv, NEW b \in Casts, Return(b)
  PROVE  Inv'
<1> DEFINE c == cast[b]
<1>1. /\ cast' = [cast EXCEPT ![b].pc = "done"] /\ got' = got /\ UNCHANGED <<hubVars, up>>
      /\ c.ids = {} /\ c.targets = {}
  BY DEF Return
<1>2. c \in CastRecords /\ cast \in [Casts -> CastRecords]
  BY DEF HubTypes
<1>3. cast' = [cast EXCEPT ![b] = cast'[b]] /\ cast'[b] = [c EXCEPT !.pc = "done"]
  BY <1>1, <1>2
<1> HIDE DEF c
<1>4. /\ cast'[b].pc = "done" /\ cast'[b].ids = {} /\ cast'[b].targets = {}
      /\ cast'[b].audience = c.audience /\ cast'[b].present = c.present
  BY <1>1, <1>2, <1>3 DEF CastRecords
<1>5. /\ \A t \in Tabs : <<b, t>> \in got => t \in c.audience
      /\ \A t \in c.present :
           tab[t] # "new" /\ (Registered(t) /\ up[t] => <<b, t>> \in got)
  BY <1>1 DEF Inv, OnlyAudience, CastSound, c
<1> QED
  BY <1>1, <1>3, <1>4, <1>5, OneCast

\* A step that only takes or gives back a lock keeps the invariant.
LEMMA Untouched ==
  ASSUME Inv, UNCHANGED <<hubVars, up, cast, got>>
  PROVE  Inv'
BY DEF hubVars, Inv, MapsAgree, TabSound, CastSound, OnlyAudience, Open, Registered

\* Every step keeps the invariant.
LEMMA NextInv ==
  ASSUME HubTypes, Inv, [Next]_vars
  PROVE  Inv'
<1>1. CASE UNCHANGED vars
  BY <1>1, Untouched DEF vars, hubVars
<1>2. ASSUME NEW t \in Tabs, UnderHub(Connect(t)) \/ UnderHub(ReadError(t)) \/ Drop(t)
      PROVE  Inv'
  BY <1>2, StepConnect, StepReadError, StepDrop DEF UnderHub
<1>3. ASSUME NEW t \in Tabs, Stall(t) \/ Resume(t)
      PROVE  Inv'
  BY <1>3, Untouched DEF Stall, Resume
<1>4. ASSUME NEW t \in Tabs, NEW r \in Rooms, TakeHub("join", t, r) \/ TakeHub("leave", t, r)
      PROVE  Inv'
  BY <1>4, Untouched DEF TakeHub
<1>5. ASSUME NEW t \in Tabs, NEW r \in Rooms, FinishRoom(t, r)
      PROVE  Inv'
  BY <1>5, StepRoom DEF FinishRoom
<1>6. ASSUME NEW b \in Casts,
             \/ \E u \in Users : UnderHub(BroadcastUser(b, u))
             \/ \E r \in Rooms : UnderHub(BroadcastRoom(b, r))
      PROVE  Inv'
  BY <1>6, StepBroadcastUser, StepBroadcastRoom DEF UnderHub
<1>7. ASSUME NEW b \in Casts, Broadcasting(b)
      PROVE  Inv'
  <2>1. CASE UnderHub(LookUp(b))
    BY <2>1, StepLookUp DEF UnderHub
  <2>2. CASE StartSend(b)
    BY <2>2, Untouched DEF StartSend
  <2>3. CASE FinishSend(b)
    BY <2>3, StepSend DEF FinishSend
  <2>4. CASE Return(b)
    BY <2>4, StepReturn
  <2> QED
    BY <1>7, <2>1, <2>2, <2>3, <2>4 DEF Broadcasting
<1> QED
  BY <1>1, <1>2, <1>3, <1>4, <1>5, <1>6, <1>7 DEF Next

\* The inductive invariant holds in every reachable state.
THEOREM Invariance == Spec => [](HubTypes /\ Inv)
<1>1. Init => Inv
  BY InitInv
<1>2. HubTypes /\ Inv /\ [Next]_vars => Inv'
  BY NextInv
<1>3. LockInv => HubTypes
  BY DEF LockInv, Shape
<1> QED
  BY <1>1, <1>2, <1>3, LockInvariance, PTL DEF Spec

\* Register, Unregister, Join and Leave keep clients, rooms and presence in
\* agreement, also when the tabs of a user share an ID, as router.go has them,
\* and replace and unregister each other.
THEOREM MapsCorrect == Spec => []MapsAgree
<1>1. Inv => MapsAgree
  BY DEF Inv
<1> QED BY <1>1, Invariance, PTL

\* BroadcastUser and BroadcastRoom reach every connection that was there at
\* their snapshot and is registered at their return, whatever comes, goes and
\* is replaced meanwhile.
THEOREM BroadcastsReach == Spec => []BroadcastReaches
<1>1. HubTypes /\ Inv => BroadcastReaches
  BY RegisteredIsInRange DEF Inv, CastSound, BroadcastReaches
<1> QED BY <1>1, Invariance, PTL

\* They reach no other user's connection and none outside the room, although
\* they look up by ID and write outside the lock.
THEOREM BroadcastsPrivate == Spec => []OnlyAudience
<1>1. Inv => OnlyAudience
  BY DEF Inv
<1> QED BY <1>1, Invariance, PTL
------------------------------------------------------------------------------
(* The gauge.                                                              *)

\* The open connections are a finite set.
LEMMA OpenIsFinite == IsFiniteSet(Open) /\ Cardinality(Open) \in Nat
<1>1. Open \in SUBSET Tabs
  BY DEF Open
<1>2. IsFiniteSet(Open)
  BY <1>1, TabsAssumption, FS_Subset
<1> QED BY <1>2, FS_CardinalityType

\* An Inc comes with every connection that opens, and a Dec only with one that
\* closes.
LEMMA GaugeStep ==
  ASSUME HubTypes, Cardinality(Open) <= gauge, [Next]_vars
  PROVE  Cardinality(Open') <= gauge'
<1>0. IsFiniteSet(Open) /\ Cardinality(Open) \in Nat /\ gauge \in Int
  BY OpenIsFinite DEF HubTypes
<1>1. CASE UNCHANGED <<tab, gauge>>
  BY <1>1 DEF Open
<1>2. ASSUME NEW t \in Tabs, Connect(t) PROVE Cardinality(Open') <= gauge'
  <2>1. tab[t] = "new" /\ tab' = [tab EXCEPT ![t] = "open"] /\ gauge' = gauge + 1
    BY <1>2 DEF Connect, Register
  <2>2. Open' = Open \cup {t} /\ t \notin Open
    BY <2>1 DEF Open, HubTypes
  <2>3. Cardinality(Open \cup {t}) = Cardinality(Open) + 1
    BY <2>2, <1>0, FS_AddElement
  <2> QED BY <1>0, <2>1, <2>2, <2>3
<1>3. ASSUME NEW t \in Tabs, ReadError(t) PROVE Cardinality(Open') <= gauge'
  <2>1. tab[t] = "open" /\ t \in Open /\ tab' = [tab EXCEPT ![t] = "closed"]
    BY <1>3 DEF ReadError, Open
  <2>2. gauge' = gauge - 1 \/ gauge' = gauge
    BY <1>3 DEF ReadError, Unregister
  <2>3. Open' = Open \ {t}
    BY <2>1 DEF Open, HubTypes
  <2>4. Cardinality(Open \ {t}) = Cardinality(Open) - 1
    BY <2>1, <1>0, FS_RemoveElement
  <2> QED BY <1>0, <2>2, <2>3, <2>4
<1>4. ASSUME NEW t \in Tabs, NEW r \in Rooms, FinishRoom(t, r) PROVE UNCHANGED <<tab, gauge>>
  BY <1>4 DEF FinishRoom, Join, Leave
<1>5. ASSUME NEW b \in Casts, Broadcasting(b) PROVE UNCHANGED <<tab, gauge>>
  BY <1>5 DEF Broadcasting, UnderHub, LookUp, StartSend, FinishSend, Send, Return, hubVars
<1>6. CASE UNCHANGED vars
  BY <1>6, <1>1 DEF vars
<1>7. ASSUME NEW t \in Tabs,
             \/ Drop(t) \/ Stall(t) \/ Resume(t)
             \/ \E r \in Rooms : TakeHub("join", t, r) \/ TakeHub("leave", t, r)
      PROVE  UNCHANGED <<tab, gauge>>
  BY <1>7 DEF Drop, Stall, Resume, TakeHub, hubVars
<1>8. ASSUME NEW b \in Casts,
             (\E u \in Users : BroadcastUser(b, u)) \/ (\E r \in Rooms : BroadcastRoom(b, r))
      PROVE  UNCHANGED <<tab, gauge>>
  BY <1>8 DEF BroadcastUser, BroadcastRoom, hubVars
<1> QED
  BY <1>1, <1>2, <1>3, <1>4, <1>5, <1>6, <1>7, <1>8 DEF Next, UnderHub

\* The gauge misses no open connection, so it is never negative.
LEMMA GaugeInvariance == Spec => [](Cardinality(Open) <= gauge)
<1>1. Init => Cardinality(Open) <= gauge
  <2> SUFFICES ASSUME Init PROVE Cardinality(Open) <= gauge
    OBVIOUS
  <2>1. Open = {} /\ gauge = 0
    BY DEF Init, Open
  <2> QED BY <2>1, FS_EmptySet
<1>2. HubTypes /\ Cardinality(Open) <= gauge /\ [Next]_vars => (Cardinality(Open) <= gauge)'
  BY GaugeStep
<1> QED BY <1>1, <1>2, Invariance, PTL DEF Spec

\* No connection is registered twice, and none that is not open.
LEMMA RegisteredAreOpen ==
  ASSUME HubTypes, MapsAgree
  PROVE  Cardinality(DOMAIN clients) <= Cardinality(Open)
<1>1. clients \in [DOMAIN clients -> Open]
  BY DEF HubTypes, MapsAgree
<1>2. \A j, k \in DOMAIN clients : clients[j] = clients[k] => j = k
  BY DEF MapsAgree
<1>3. clients \in Injection(DOMAIN clients, Open)
  BY <1>1, <1>2 DEF Injection, IsInjective
<1> QED BY <1>3, OpenIsFinite, FS_Injection

\* Stats counts open connections only and the gauge misses none, whatever the
\* order in which Register and Unregister run and whoever replaces whom.
THEOREM GaugeCorrect == Spec => []GaugeCounts
<1>1. HubTypes /\ Inv /\ Cardinality(Open) <= gauge => GaugeCounts
  BY RegisteredAreOpen DEF Inv, GaugeCounts, Stats
<1> QED BY <1>1, GaugeInvariance, Invariance, PTL

\* The hub's maps, the broadcasts and the locks keep their shape, and the gauge
\* is never negative, also when connections share an ID.
THEOREM TypeCorrect == Spec => []TypeOK
<1>1. LockInv /\ Cardinality(Open) <= gauge => TypeOK
  BY OpenIsFinite DEF LockInv, Shape, HubTypes, TypeOK
<1> QED BY <1>1, LockInvariance, GaugeInvariance, PTL

\* Where IDs are unique per connection, as the comment on Client.ID has them,
\* everybody who is open is registered.
LEMMA UniqueAreRegistered ==
  ASSUME UniqueConnIDs, HubTypes, [Next]_vars, \A t \in Open : Registered(t)
  PROVE  \A t \in Open' : Registered(t)'
<1>1. CASE UNCHANGED <<tab, clients>>
  BY <1>1 DEF Open, Registered
<1>2. ASSUME NEW t \in Tabs, Connect(t) PROVE \A s \in Open' : Registered(s)'
  <2>1. tab' = [tab EXCEPT ![t] = "open"] /\ clients' = Put(clients, ConnIDOf[t], t)
    BY <1>2 DEF Connect, Register
  <2>2. \A s \in Open' : s \in Tabs /\ (s = t \/ s \in Open)
    BY <2>1 DEF Open, HubTypes
  <2>3. /\ DOMAIN clients' = DOMAIN clients \cup {ConnIDOf[t]}
        /\ clients'[ConnIDOf[t]] = t
        /\ \A k \in DOMAIN clients : k # ConnIDOf[t] => clients'[k] = clients[k]
    BY <2>1 DEF Put
  <2> QED BY <2>2, <2>3 DEF Registered, UniqueConnIDs
<1>3. ASSUME NEW t \in Tabs, ReadError(t) PROVE \A s \in Open' : Registered(s)'
  <2>1. tab[t] = "open" /\ tab' = [tab EXCEPT ![t] = "closed"] /\ t \in Open
    BY <1>3 DEF ReadError, Open
  <2>2. clients' = Delete(clients, ConnIDOf[t])
    BY <1>3, <2>1 DEF ReadError, Unregister, Registered
  <2>3. \A s \in Open' : s \in Tabs /\ s # t /\ s \in Open
    BY <2>1 DEF Open, HubTypes
  <2>4. /\ DOMAIN clients' = DOMAIN clients \ {ConnIDOf[t]}
        /\ \A k \in DOMAIN clients' : clients'[k] = clients[k]
    BY <2>2 DEF Delete
  <2> QED BY <2>3, <2>4 DEF Registered, UniqueConnIDs
<1>4. ASSUME NEW t \in Tabs, NEW r \in Rooms, FinishRoom(t, r) PROVE UNCHANGED <<tab, clients>>
  BY <1>4 DEF FinishRoom, Join, Leave
<1>5. ASSUME NEW b \in Casts, Broadcasting(b) PROVE UNCHANGED <<tab, clients>>
  BY <1>5 DEF Broadcasting, UnderHub, LookUp, StartSend, FinishSend, Send, Return, hubVars
<1>6. CASE UNCHANGED vars
  BY <1>6, <1>1 DEF vars
<1>7. ASSUME NEW t \in Tabs,
             \/ Drop(t) \/ Stall(t) \/ Resume(t)
             \/ \E r \in Rooms : TakeHub("join", t, r) \/ TakeHub("leave", t, r)
      PROVE  UNCHANGED <<tab, clients>>
  BY <1>7 DEF Drop, Stall, Resume, TakeHub, hubVars
<1>8. ASSUME NEW b \in Casts,
             (\E u \in Users : BroadcastUser(b, u)) \/ (\E r \in Rooms : BroadcastRoom(b, r))
      PROVE  UNCHANGED <<tab, clients>>
  BY <1>8 DEF BroadcastUser, BroadcastRoom, hubVars
<1> QED
  BY <1>1, <1>2, <1>3, <1>4, <1>5, <1>6, <1>7, <1>8 DEF Next, UnderHub

\* What BroadcastUser's comment says is true of the hub as its comment on
\* Client.ID says it is to be used: with unique IDs every connection that is
\* there from the snapshot to the return hears it.  router.go's IDs are not.
THEOREM UniqueIDsSuffice ==
  ASSUME UniqueConnIDs
  PROVE  Spec => []AllConnectionsHear
<1> DEFINE J == \A t \in Open : Registered(t)
<1>1. Init => J
  BY DEF Init, Open
<1>2. HubTypes /\ J /\ [Next]_vars => J'
  BY UniqueAreRegistered
<1>3. HubTypes /\ Inv /\ J => AllConnectionsHear
  BY DEF Inv, CastSound, AllConnectionsHear
<1> HIDE DEF J
<1> QED BY <1>1, <1>2, <1>3, Invariance, PTL DEF Spec
==============================================================================
