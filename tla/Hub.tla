--------------------------------- MODULE Hub ---------------------------------
(***************************************************************************)
(* The WebSocket hub: internal/adapter/handler/websockets/hub.go, with the *)
(* read loop that drives it (notification/server.go, notification/         *)
(* helper.go).                                                             *)
(*                                                                         *)
(* Every Hub method that changes the maps holds h.mu for its whole body    *)
(* and is one step, taken when h.mu is free.  Join and Leave also take the *)
(* lock of a client, c.mu, inside h.mu, and may have to wait for it: they  *)
(* are two steps, and the first only takes h.mu.  The two broadcasts take  *)
(* a snapshot under h.mu and send outside it, so they are processes of     *)
(* their own: between the snapshot, the second lookup and each write,      *)
(* connections come and go.  A write holds c.mu until the peer reads.      *)
(*                                                                         *)
(* A tab is one *Client, that is one accepted connection; it is used once. *)
(* The hub's maps are keyed by Client.ID, ConnIDOf.  The comment on it says *)
(* "unique per connection", and its only caller, router.go, passes the     *)
(* user's ID: the tabs of a user share one, each takes the place of the    *)
(* one before it in clients, and the first that closes takes the entry     *)
(* away.  Nothing below assumes the comment.                               *)
(*                                                                         *)
(* What the read loop itself writes on its connection (answers to joins,   *)
(* pings and bad frames) is left out: when the peer does not read, it      *)
(* holds up that loop and the broadcasts to that peer, as the peer itself  *)
(* does.                                                                   *)
(***************************************************************************)
EXTENDS Integers, FiniteSets, Functions

CONSTANTS
  Tabs,      \* the connections that are made: *Client pointers
  Users,     \* authenticated users
  ConnIDs,   \* values of Client.ID
  Rooms,     \* room names
  Casts,     \* bound: the broadcasts that are made
  Slow,      \* the tabs whose peer may stop reading for a while
  UserOf,    \* UserOf[t]: Client.UserID
  ConnIDOf   \* ConnIDOf[t]: Client.ID

ASSUME TabsAssumption == IsFiniteSet(Tabs)
ASSUME UserOfAssumption == UserOf \in [Tabs -> Users]
ASSUME ConnIDOfAssumption == ConnIDOf \in [Tabs -> ConnIDs]
\* router.go:94 makes the ID of the user; a uuid would do as well.
ASSUME OneOwnerAssumption ==
  \A s, t \in Tabs : ConnIDOf[s] = ConnIDOf[t] => UserOf[s] = UserOf[t]

VARIABLES
  clients,   \* h.clients: connID -> tab
  rooms,     \* h.rooms: room -> connID -> tab; a pruned room has no connID
  presence,  \* h.presence: user -> set of connIDs; {} when deleted
  joined,    \* joined[t]: c.rooms
  tab,       \* tab[t]: its read loop is "new", "open" or "closed"
  up,        \* up[t]: the peer of t can still be written to
  gauge,     \* metrics.WebSocketConnectionsActive
  cast,      \* cast[b]: where broadcast b is
  got,       \* <<b, t>>: the message of broadcast b was written to t
  hmu,       \* the Join or Leave that holds h.mu and waits for c.mu, if any
  sending,   \* sending[b]: the tab whose c.mu broadcast b holds, if any
  stalled    \* the tabs whose peer does not read now

hubVars == <<clients, rooms, presence, joined, tab, gauge>>
lockVars == <<hmu, sending, stalled>>
vars == <<clients, rooms, presence, joined, tab, up, gauge, cast, got, hmu, sending, stalled>>

------------------------------------------------------------------------------
NoClients == [c \in {} |-> {}]

Put(f, c, t) == [k \in DOMAIN f \cup {c} |-> IF k = c THEN t ELSE f[k]]
Delete(f, c) == [k \in DOMAIN f \ {c} |-> f[k]]

Open == {t \in Tabs : tab[t] = "open"}

IsOnline(u) == presence[u] # {}

Stats == [connections |-> Cardinality(DOMAIN clients),
          rooms |-> Cardinality({r \in Rooms : rooms[r] # NoClients}),
          online_users |-> Cardinality({u \in Users : IsOnline(u)})]

Init ==
  /\ clients = NoClients
  /\ rooms = [r \in Rooms |-> NoClients]
  /\ presence = [u \in Users |-> {}]
  /\ joined = [t \in Tabs |-> {}]
  /\ tab = [t \in Tabs |-> "new"]
  /\ up = [t \in Tabs |-> FALSE]
  /\ gauge = 0
  /\ cast = [b \in Casts |-> [pc |-> "new", ids |-> {}, targets |-> {},
                              audience |-> {}, present |-> {}]]
  /\ got = {}
  /\ hmu = {} /\ sending = [b \in Casts |-> {}] /\ stalled = {}

------------------------------------------------------------------------------
(* The read loop of a connection.                                          *)

\* Mutant of Register: without the Inc.
RegisterUncounted(t) ==
  /\ clients' = Put(clients, ConnIDOf[t], t)
  /\ presence' = [presence EXCEPT ![UserOf[t]] = @ \cup {ConnIDOf[t]}]
  /\ UNCHANGED gauge

\* Register.  Who had the ID before is no longer in clients.
Register(t) ==
  /\ clients' = Put(clients, ConnIDOf[t], t)
  /\ presence' = [presence EXCEPT ![UserOf[t]] = @ \cup {ConnIDOf[t]}]
  /\ gauge' = gauge + 1

\* The connection is accepted, and its loop starts by registering it.
Connect(t) ==
  /\ tab[t] = "new"
  /\ Register(t)
  /\ tab' = [tab EXCEPT ![t] = "open"]
  /\ up' = [up EXCEPT ![t] = TRUE]
  /\ UNCHANGED <<rooms, joined, cast, got>>

\* Unregister, its presence part: the user keeps the other connections.
UnregisterPresence(c) == [presence EXCEPT ![UserOf[c]] = @ \ {ConnIDOf[c]}]

\* Unregister.  The client that leaves is the one the map has under the ID,
\* which need not be the one whose loop ends.
Unregister(id) ==
  IF id \in DOMAIN clients
  THEN LET c == clients[id]
       IN  /\ rooms' = [r \in Rooms |-> IF r \in joined[c] THEN Delete(rooms[r], id)
                                                           ELSE rooms[r]]
           /\ presence' = UnregisterPresence(c)
           /\ clients' = Delete(clients, id)
           /\ gauge' = gauge - 1
  ELSE UNCHANGED <<rooms, presence, clients, gauge>>

\* The peer goes away, or is closed.  The loop has not noticed yet.
Drop(t) ==
  /\ tab[t] = "open" /\ up[t]
  /\ up' = [up EXCEPT ![t] = FALSE]
  /\ UNCHANGED <<hubVars, cast, got>>

\* Mutant of ReadError: `continue` instead of the return.
ReadErrorContinues(t) ==
  /\ tab[t] = "open"
  /\ up' = [up EXCEPT ![t] = FALSE]
  /\ UNCHANGED <<hubVars, cast, got>>

\* wsjson.Read fails: the peer is gone, or READ_TIME_OUT passed, which closes
\* the connection.  The loop returns and the deferred Unregister runs.
ReadError(t) ==
  /\ tab[t] = "open"
  /\ Unregister(ConnIDOf[t])
  /\ tab' = [tab EXCEPT ![t] = "closed"]
  /\ up' = [up EXCEPT ![t] = FALSE]
  /\ UNCHANGED <<joined, cast, got>>

\* A join frame: Join, under h.mu.  It is the client under the ID that joins.
Join(t, r) ==
  LET id == ConnIDOf[t]
  IN  /\ tab[t] = "open"
      /\ IF id \in DOMAIN clients
         THEN /\ rooms' = [rooms EXCEPT ![r] = Put(@, id, clients[id])]
              /\ joined' = [joined EXCEPT ![clients[id]] = @ \cup {r}]
         ELSE UNCHANGED <<rooms, joined>>
      /\ UNCHANGED <<clients, presence, tab, up, gauge, cast, got>>

\* Mutants of LeaveRoom: only the client's own set is changed, and the room is
\* pruned though others are in it.
LeaveRoomKeeps(r, id) == rooms
LeaveRoomPrunes(r, id) == [rooms EXCEPT ![r] = NoClients]

LeaveRoom(r, id) == [rooms EXCEPT ![r] = Delete(@, id)]

\* A leave frame: Leave, under h.mu.
Leave(t, r) ==
  LET id == ConnIDOf[t]
  IN  /\ tab[t] = "open"
      /\ IF id \in DOMAIN clients
         THEN /\ rooms' = LeaveRoom(r, id)
              /\ joined' = [joined EXCEPT ![clients[id]] = @ \ {r}]
         ELSE UNCHANGED <<rooms, joined>>
      /\ UNCHANGED <<clients, presence, tab, up, gauge, cast, got>>

Request(op, t, r) == [op |-> op, tab |-> t, room |-> r]

\* Join or Leave takes h.mu.
TakeHub(op, t, r) ==
  /\ tab[t] = "open"
  /\ hmu = {}
  /\ hmu' = {Request(op, t, r)}
  /\ UNCHANGED <<hubVars, up, cast, got, sending, stalled>>

\* A broadcast holds c.mu of t.
Locked(t) == \E b \in Casts : t \in sending[b]

\* It has c.mu of the client it found too, does its work and releases both.
FinishRoom(t, r) ==
  /\ ConnIDOf[t] \in DOMAIN clients => ~Locked(clients[ConnIDOf[t]])
  /\ \/ Request("join", t, r) \in hmu /\ Join(t, r)
     \/ Request("leave", t, r) \in hmu /\ Leave(t, r)
  /\ hmu' = {}
  /\ UNCHANGED <<sending, stalled>>

\* The peer stops reading and the buffers are full; it may go on sending.
Stall(t) ==
  /\ t \in Slow \ stalled /\ up[t]
  /\ stalled' = stalled \cup {t}
  /\ UNCHANGED <<hubVars, up, cast, got, hmu, sending>>

Resume(t) ==
  /\ t \in stalled
  /\ stalled' = stalled \ {t}
  /\ UNCHANGED <<hubVars, up, cast, got, hmu, sending>>

------------------------------------------------------------------------------
(* Broadcasts.                                                             *)

\* Mutant of BroadcastUser: the snapshot is of everybody's connIDs.
BroadcastUserAll(b, u) ==
  /\ cast[b].pc = "new"
  /\ cast' = [cast EXCEPT ![b] =
       [pc |-> "user", ids |-> DOMAIN clients, targets |-> {},
        audience |-> {t \in Tabs : UserOf[t] = u},
        present |-> {t \in Open : UserOf[t] = u}]]
  /\ UNCHANGED <<hubVars, up, got>>

\* BroadcastUser, the snapshot of the user's connIDs.  The audience is who may
\* hear it, the user's connections; the present ones are open already.
BroadcastUser(b, u) ==
  /\ cast[b].pc = "new"
  /\ cast' = [cast EXCEPT ![b] =
       [pc |-> "user", ids |-> presence[u], targets |-> {},
        audience |-> {t \in Tabs : UserOf[t] = u},
        present |-> {t \in Open : UserOf[t] = u}]]
  /\ UNCHANGED <<hubVars, up, got>>

\* Mutant of LookUp: an ID that has gone is never passed over.
LookUpWaits(b) ==
  /\ cast[b].pc = "user" /\ cast[b].targets = {}
  /\ \E id \in cast[b].ids \cap DOMAIN clients :
       cast' = [cast EXCEPT ![b].ids = @ \ {id}, ![b].targets = {clients[id]}]
  /\ UNCHANGED <<hubVars, up, got>>

\* BroadcastUser, the second RLock: the next ID of the snapshot is looked up
\* again, and may have gone.
LookUp(b) ==
  /\ cast[b].pc = "user" /\ cast[b].targets = {}
  /\ \E id \in cast[b].ids :
       cast' = [cast EXCEPT ![b].ids = @ \ {id},
                            ![b].targets = IF id \in DOMAIN clients
                                           THEN {clients[id]} ELSE {}]
  /\ UNCHANGED <<hubVars, up, got>>

\* The open connections that have r among their rooms.
Members(r) == {t \in Open : r \in joined[t]}

\* BroadcastRoom, the snapshot of the room's clients.  The audience: those that
\* are open and have joined it.
BroadcastRoom(b, r) ==
  /\ cast[b].pc = "new"
  /\ cast' = [cast EXCEPT ![b] =
       [pc |-> "room", ids |-> {}, targets |-> Range(rooms[r]),
        audience |-> Members(r), present |-> Members(r)]]
  /\ UNCHANGED <<hubVars, up, got>>

\* Client.Send, outside h.mu: it takes c.mu.
StartSend(b) ==
  /\ sending[b] = {}
  /\ \E t \in cast[b].targets : ~Locked(t) /\ sending' = [sending EXCEPT ![b] = {t}]
  /\ UNCHANGED <<hubVars, up, cast, got, hmu, stalled>>

\* Client.Send: the message is written, or dropped because the write failed.
Send(b, t) ==
  /\ t \in cast[b].targets
  /\ cast' = [cast EXCEPT ![b].targets = @ \ {t}]
  /\ got' = IF up[t] THEN got \cup {<<b, t>>} ELSE got
  /\ UNCHANGED <<hubVars, up>>

\* The write comes back when the peer reads or is gone, and c.mu is released.
FinishSend(b) ==
  /\ \E t \in sending[b] : (t \in stalled => ~up[t]) /\ Send(b, t)
  /\ sending' = [sending EXCEPT ![b] = {}]
  /\ UNCHANGED <<hmu, stalled>>

\* Both loops are over.
Return(b) ==
  /\ cast[b].pc \in {"user", "room"}
  /\ cast[b].ids = {} /\ cast[b].targets = {}
  /\ cast' = [cast EXCEPT ![b].pc = "done"]
  /\ UNCHANGED <<hubVars, up, got>>

\* A that needs h.mu, when it is free.
UnderHub(A) == hmu = {} /\ A /\ UNCHANGED lockVars

Broadcasting(b) ==
  \/ UnderHub(LookUp(b))
  \/ StartSend(b)
  \/ FinishSend(b)
  \/ Return(b) /\ UNCHANGED lockVars

Next ==
  \/ \E t \in Tabs : \/ UnderHub(Connect(t))
                     \/ UnderHub(ReadError(t))
                     \/ Drop(t) /\ UNCHANGED lockVars
                     \/ Stall(t)
                     \/ Resume(t)
                     \/ \E r \in Rooms : \/ TakeHub("join", t, r)
                                         \/ TakeHub("leave", t, r)
                                         \/ FinishRoom(t, r)
  \/ \E b \in Casts : \/ \E u \in Users : UnderHub(BroadcastUser(b, u))
                      \/ \E r \in Rooms : UnderHub(BroadcastRoom(b, r))
                      \/ Broadcasting(b)

\* A read on a dead connection returns an error, and goroutines run on.  Go's
\* mutexes let nobody starve, so a step that takes a lock is strongly fair.
Fairness ==
  /\ \A t \in Tabs : SF_vars(~up[t] /\ UnderHub(ReadError(t)))
  /\ \A t \in Tabs, r \in Rooms : SF_vars(FinishRoom(t, r))
  /\ \A b \in Casts : SF_vars(Broadcasting(b))

Spec == Init /\ [][Next]_vars /\ Fairness

Goes(t) == t \in stalled /\ Drop(t) /\ UNCHANGED lockVars

\* The environment in which the hub is live: a peer that has stopped reading
\* reads again or goes.  Nothing in the code makes it: a write has no timeout,
\* and READ_TIME_OUT does not pass while the peer sends or the loop waits.
PeersReact == \A t \in Slow : WF_vars(Resume(t) \/ Goes(t))

ResponsiveSpec == Spec /\ PeersReact

------------------------------------------------------------------------------
(* What the hub promises, whether or not connections share an ID.          *)

CastRecords == [pc : {"new", "user", "room", "done"}, ids : SUBSET ConnIDs,
                targets : SUBSET Tabs, audience : SUBSET Tabs, present : SUBSET Tabs]

HubTypes ==
  /\ DOMAIN clients \subseteq ConnIDs
  /\ clients \in [DOMAIN clients -> Tabs]
  /\ DOMAIN rooms = Rooms
  /\ \A r \in Rooms : /\ DOMAIN rooms[r] \subseteq ConnIDs
                      /\ rooms[r] \in [DOMAIN rooms[r] -> Tabs]
  /\ presence \in [Users -> SUBSET ConnIDs]
  /\ joined \in [Tabs -> SUBSET Rooms]
  /\ tab \in [Tabs -> {"new", "open", "closed"}]
  /\ up \in [Tabs -> BOOLEAN]
  /\ gauge \in Int
  /\ cast \in [Casts -> CastRecords]
  /\ got \subseteq Casts \X Tabs

Requests == [op : {"join", "leave"}, tab : Tabs, room : Rooms]

LockTypes ==
  /\ hmu \in SUBSET Requests
  /\ sending \in [Casts -> SUBSET Tabs]
  /\ stalled \in SUBSET Tabs

\* Type invariant: the shape of the hub's maps, of the broadcasts and of the
\* locks; and the gauge is never negative.
TypeOK == HubTypes /\ LockTypes /\ gauge \in Nat

\* The maps tell one story, also when a connection took the place of another:
\* who is registered is open, under their own ID; a user is present under
\* exactly the registered IDs of theirs, so IsOnline is right about them; and
\* a registered client is in exactly the rooms it has in c.rooms.  What stays
\* in a room after it was replaced has that room in c.rooms too.
MapsAgree ==
  /\ \A id \in DOMAIN clients : clients[id] \in Open /\ ConnIDOf[clients[id]] = id
  /\ \A u \in Users : presence[u] = {id \in DOMAIN clients : UserOf[clients[id]] = u}
  /\ \A id \in DOMAIN clients : \A r \in joined[clients[id]] :
       id \in DOMAIN rooms[r] /\ rooms[r][id] = clients[id]
  /\ \A r \in Rooms : \A id \in DOMAIN rooms[r] :
       ConnIDOf[rooms[r][id]] = id /\ r \in joined[rooms[r][id]]

\* Stats never counts a connection that is not open, and the gauge misses none
\* that is: there is no Dec without its Inc, whatever the order in which
\* connections come, replace each other and go.  (A replaced connection is
\* counted by the gauge and not by Stats.)
GaugeCounts == Stats.connections <= Cardinality(Open) /\ Cardinality(Open) <= gauge

\* Who was connected when a broadcast to their user or room started, and is
\* registered and reachable when it returns, has the message, whatever came
\* and went between the snapshot, the second lookup and the writes.
BroadcastReaches ==
  \A b \in Casts : cast[b].pc = "done" =>
    \A t \in cast[b].present : t \in Range(clients) /\ up[t] => <<b, t>> \in got

\* A message for a user is written to no other user's connection, although the
\* second lookup goes by ID and finds whoever has it by then; one for a room to
\* none that had not joined it, although the snapshot may hold dead clients.
OnlyAudience == \A b \in Casts, t \in Tabs : <<b, t>> \in got => t \in cast[b].audience

\* A broadcast ends, also when the connections in its snapshot go.
CastEnds == \A b \in Casts : cast[b].pc # "new" ~> cast[b].pc = "done"

\* A dead connection is eventually taken off the hub.
DeadGone ==
  \A t \in Tabs : tab[t] = "open" /\ ~up[t] ~> tab[t] = "closed" /\ t \notin Range(clients)

------------------------------------------------------------------------------
(* What comments say, and the hub does not do.                             *)

\* The comment on Client.ID: "unique per connection (e.g. uuid)".
UniqueConnIDs == \A s, t \in Tabs : ConnIDOf[s] = ConnIDOf[t] => s = t

\* BroadcastUser "sends to all active connections of a specific user", and the
\* comment on presence says "one user, many tabs".  True where UniqueConnIDs is;
\* with the IDs router.go makes, only the tab that connected last is reached.
AllConnectionsHear ==
  \A b \in Casts : cast[b].pc = "done" =>
    \A t \in cast[b].present : t \in Open /\ up[t] => <<b, t>> \in got

\* BroadcastRoom: "send outside the lock so slow clients don't block the hub".
\* A peer that does not read keeps c.mu with the broadcast that writes to it;
\* when it sends a join or leave frame, its read loop waits for c.mu holding
\* h.mu, and nobody can register, leave or be notified.
SlowClientsDontBlock == []<>(hmu = {})
==============================================================================
