# A TLA+ model of CoinHub

CoinHub is a spot exchange: an HTTP API accepts orders, an in-memory engine
matches them, Kafka carries what happened to a consumer that updates the
database and to one that notifies users over WebSockets, and a worker and a
chain watcher follow withdrawals and deposits. This directory models the parts
where the order of steps matters, checks them with TLC on small instances, and
proves the most important invariants with TLAPS for every instance.

## The system

| Component | State | Operations | Talks to |
| --- | --- | --- | --- |
| Order book (`internal/engine/orderbook.go`, `side.go`, `price_level.go`, `order.go`) | two b-trees of price levels, each a slice of orders; one mutex | `MatchLimit`, `MatchMarket`, `Cancel`, `RemoveOrderByOrderID`, `OrderExist`, `Side.Add` | publishes order and trade events |
| Engine process (`engine.go`, `expiry.go`) | a channel and a worker per pair, the expiry heap | submission consumer, router, workers, reaper | Kafka, the books |
| Events (`internal/adapter/messaging/kafka`) | none | `NewOrderEvent`, `PublishOrderEvent(Batch)`, topic dispatcher | Kafka |
| Runner and projection consumer (`infrastructure/kafka/consumer`, `cmd/order_projection_consumer.go`, `order_event_usecases`) | batch, attempt, offsets to commit; `orders` and `processed_order_events` tables | `Run`, `processRecord`, `sendToDLQ`, `MarkEvent`, `UpdateOrderStatus` | Kafka, PostgreSQL |
| WebSocket hub (`internal/adapter/handler/websockets`) | `clients`, `rooms`, `presence`, a mutex; per client its rooms and a mutex | `Register`, `Unregister`, `Join`, `Leave`, `BroadcastRoom`, `BroadcastUser`, read loop | peers, the notification consumer |
| Notification consumer (`cmd/notification_consumer.go`) | as the runner | `HandleNotificationForOrders`, `...ForTrades` | hub |
| Order API (`usecases/order`, `handler/http/order.go`) | a database transaction per request | submit, cancel | PostgreSQL, Kafka |
| Withdrawals (`http/transaction.go`, `wallet_usecases/transfer.go`, `tasks/check_transaction_status.go`) | transaction rows, pending cache with a TTL, asynq tasks | send, record, cache, enqueue; follow | EVM node, Redis, PostgreSQL |
| Deposits (`websockets/blockchain`, `tasks/update_onchain_balance.go`) | subscription, pending cache, transfer events | hunt, task | EVM node, Redis, PostgreSQL |
| Accounts (`http/auth.go`, `user_usecases`, `wallet_repo.go`, `send_email_verification.go`) | user and wallet rows, an index sequence, codes with a TTL, asynq tasks | register, mock login, send, verify, resend | PostgreSQL, Redis, mail |
| Rate limiter (`cache/rate_limiter.go`) | a counter per window | `Allow` | Redis |

What is hard here, and what would make each part correct:

- **Order book.** Two loops change the slices they walk, in four branches that
  differ; publishes fail and are only logged. Correct means: nothing is filled
  beyond its quantity or its price, levels stay in time order, nobody is passed
  over without a reason, the events that go out agree with the orders, loops end.
- **Projection.** A handler call is two statements, offsets are committed by two
  mechanisms, topics are not ordered among themselves, and the process can stop
  anywhere. Correct means: no record is passed unless it was dealt with, replays
  are idempotent, a record that always fails does not stop the others.
- **Hub.** Broadcasts work on snapshots while connections come and go; a client's
  mutex is taken inside the hub's, and tabs of a user share an ID. Correct means:
  the maps agree, a broadcast reaches whom the hub knows of its audience and nobody
  else, everyone makes progress.
- **Engine and order API.** One consumer feeds bounded channels and waits when
  one is full; handlers are retried, offsets lag, and channels and books are lost
  in a restart. Correct means: per pair nothing is dropped, repeated or
  reordered, what was handled and committed stays over, the backlog drains.
- **Notifications.** The mark is committed before the broadcast. Correct means:
  nothing is lost in a crash between them, and retries do not repeat messages.
- **Withdrawals and transfers.** Four systems are written one after the other,
  transactions of a wallet exclude each other, logs repeat and are removed.
  Tasks run again after they did their work. Correct means: who was told PENDING
  is followed, rows say what a block said, transfers are stored once and are our
  own, tasks end.
- **Accounts.** Registrations race, sequences do not roll back, mail tasks run in
  any order. Correct means: one account per user, no shared addresses, nobody
  is verified without a code that was mailed.

`PROJECT.json` lists every component with its status and every hazard with its
line and the properties that cover it.

## Modules

| Module | What it is |
| --- | --- |
| `Orderbook` | one book: state, one action per operation or loop iteration, properties |
| `Exchange` | what a book promises those who place orders, without levels, loops and events: an abstract specification that `Orderbook` implements |
| `MCOrderbook` | its instances; users are symmetric |
| `OrderbookProofs`, `MatchingProofs` | the proofs: the book's invariants; its events, turns and places, the refinement of `Exchange`, the end of matches |
| `Hub`, `MCHub`, `HubProofs` | the hub with its two kinds of mutex, its instances and proofs |
| `AtLeastOnce` | what the Kafka runner promises its handlers: an abstract specification |
| `Projection`, `MCProjection`, `ProjectionProofs` | the runner in detail with the projection handler; it implements `AtLeastOnce` |
| `Engine`, `MCEngine`, `EngineProofs` | order API, submission consumer, router, channels and workers; uses `AtLeastOnce` |
| `Notify`, `MCNotify`, `NotifyProofs` | the notification consumer; uses `AtLeastOnce` |
| `Withdraw`, `MCWithdraw`, `WithdrawProofs` | withdrawals, the chain, both asynq tasks and the watcher |
| `Accounts`, `MCAccounts`, `AccountsProofs` | registration, wallets, codes and the mail task |

The composition goes through abstractions. The runner appears in three
processes: `Projection` has its batches, attempts and commits and is shown to
implement `AtLeastOnce`; `Engine` and `Notify` then take each of its steps from
`AtLeastOnce` (`INSTANCE ... WITH`), with their own handler around it. A book
appears in `Engine` as a worker's call that answers, because a book which starts
empty stays so: from `Orderbook`'s initial state, `Seed` apart, only `EmptyBook`
and `Cancel` are possible, and neither adds an order. A broadcast appears
in `Notify` as one step; whom it reaches is `Hub`.

In each module, definitions called "Mutant of X" are plausible bugs; no action
uses them. Replacing X by its mutant breaks the property `PROJECT.json` names.

### Orderbook

`book[side][price]` is the `Orders` slice of a level; a level without orders is
not in the tree. `orders` holds the records. `MatchLimit` starts with
`EmptyBook`, `LimitNoMatch` or `LimitBegin`, and then goes through
`LimitSkip`/`LimitFill`, one per element of the slice that `range` copied
(`todo`), to `LimitRest`. `MatchMarket` is `MarketBegin`, then
`MarketNextLevel`, `MarketSkip`, `MarketFill` with the index `idx`, then
`MarketEnd`, which publishes the batch. `pc` says who holds `ob.mu`; `Unlock`
is the deferred unlock. `Cancel` is `RemoveOrderByOrderID` as well. The two
sides of each function are one action; where the branches differ (an event on a
missed sell only, the self-trade check, an empty order), the action says so.

Decimals are naturals (the library is exact). Prices are ticks. Order IDs are
numbers that grow, so that "older" is "smaller"; in the program the order of a
slice carries that. `Seed` is `Side.Add` on its own. It is needed: `MatchLimit`
drops an order that meets an empty side and rests only the remainder of a
partial fill, so a book that starts empty stays empty. The tests fill books
this way (`seedAsks`, `seedBids`).

`Publish` is `PublishOrderEventBatch`: events go out up to the first failure.
Trades are published on their own: one by one in `MatchLimit` (`PublishTrade`), and
in a batch that stops at its first failure at the end of `MatchMarket`
(`PublishTradeBatch`; `tape` is the batch). Every failure is only logged. `told`
and `traded` are what a reader of the topics knows of an order, `lost` and
`missed` the orders about which an order event or a trade was not published.

### Exchange

The orders that are known (`open`, each with what is left of it), those that
rest, the taker and the last trade. `Place` is the start of an operation,
`Trade` one fill, `Finish` the end of a match, `Withdraw` a cancel and `Forget`
the unlock. `Orderbook` maps `open` to `Offers` (side, limit, user and
`Remaining` of each order), `resting` to the orders that are on some level
(`Booked`), and `taker` to `incoming`. A loop iteration that fills is a `Trade`;
one that only moves on, and a publish, is a stutter.

### Hub

A tab is one `*Client`. Methods that hold `h.mu` throughout are one step, under
`UnderHub`. `Join` and `Leave` take `c.mu` inside `h.mu`: `TakeHub`, then
`FinishRoom` when `c.mu` is free. A broadcast is a snapshot, a second lookup per
ID (`LookUp`), and per target `StartSend` (takes `c.mu`) and `FinishSend` (the
write comes back). A peer drops at any time, and those in `Slow` may stop
reading. `ConnIDOf` is the `Client.ID` that the caller of `NewClient` chose. The
only caller, `router.go:94`, passes the user's ID, so that tabs of a user share
one; this is `RouterIDs`, which all hub runs use. What the module assumes of IDs is
weaker (`OneOwnerAssumption`): no two users share one. The comment on the field
demands that they are unique per connection (`UniqueConnIDs`).

With shared IDs a second tab takes the first one's place in `clients`, while the
first stays open and in its rooms. So the properties speak of what the hub knows:
`MapsAgree` of registered clients, `BroadcastReaches` of connections that are
registered when the broadcast returns, and `GaugeCounts` bounds the open
connections by `Stats` from below and by the gauge from above.

### Projection

A topic is one log. The engine side only produces: a fill is an order event and
perhaps a trade event, and the events of one `MatchLimit` taker share an ID.
`Poll`, `Take`, `Mark`, `Update`, `HandlerFails` (a retry or `sendToDLQ`) and
`Commit` are the runner and the handler; `AutoCommit` is the client's own
commit, which the command leaves on; `Restart` is a crash or a shutdown. Every
database statement and every commit may fail. Trade records always fail: the
runner decodes them as order events, which then lack an order ID. `Stored` are
the orders that have a row.

### AtLeastOnce

Per topic the number of records (`produced`), how many of them the handler is
done with (`passed`) and the group's offset (`acked`). `Pass` is the return of
`processRecord`, `Ack` is any commit, `Restart` goes back to the offset, or to
the end of a topic without one where the client is configured so. In
`Projection`, `passed` is the position of the record the handler is at.

### Engine

A request goes through `phase`: the handler (`Place`, `PlaceMarket`, `Refuse`),
the transaction (`Insert`), the event (`PublishSubmitted`, `PublishFails`) and
`PushExpiry`, in which `heap.Push` and `BookReaper.Push` call each other until
the API process dies; every open transaction is rolled back. `Cancel` is one
publish. In the engine, `Mark` is `MarkEvent`, `Route` the blocking send of
`addOrder`, `Work` one turn of a worker's loop, `GiveUp` the dead letter after
all attempts. `routed`, `worked` and `before` remember what was routed and
handled since the start, and what was handled and committed before the last one.
A record is known by its topic and offset: the IDs of orders are no help, since
the engine draws new ones.

### Notify

`Mark`, `Broadcast` and `GiveUp` around `AtLeastOnce`. Records without a user
(trades, decoded as order events) never pass validation. `TypeOK` keeps positions
and offsets within their topic's log, and marks and broadcasts to records that
have been published.

### Withdraw

`step` is how far `WithdrawAsset` has come; `Abandon` is a failing call or the
end of the process between two of them. `chain` is the node: it takes a
transaction only while no other one of the wallet is mined, and drops a pending
one, since all are built with nonce 15; `Reorg` takes one out of its block. The
status task is `Look` (`TransactionByHash`) and then `Settle` (receipt and
`UPDATE`) or `StillPending`; after its `UPDATE` the task is done, or runs again
because the worker stopped or the answer was lost, and then settles anew; the
watcher is `Hunt` and `EnqueueTransfer`; the transfer task is `GetReceipt`,
`StoreTransfer`, `ClearMark`. `Retry` and `RetryTransfer` are asynq. A row has
the statuses the code writes: `FAILED` is both a send that answered an error
(`SendFails`, without a hash, and the node may have taken the transaction) and a
transaction that failed in its block; `hash` has the rows with a hash, and tells
the two apart. `wasMined` and `wasMarked` remember the past. Since every
withdrawal is signed with the key at index 0 (see Accounts), the instance has
one wallet.

### Accounts

A call has a state per statement of its transaction; `CreateUser` waits for a
rival transaction as a unique index makes it. `path` is the index the address is
derived with. The row does not get it: `NewWalletAccount` drops it, the field is
read-only, and a default for the column exists only in a comment, for a table of
another name; `WalletAddressIndex` therefore reads 0, and so does every withdrawal
that signs with it. A verification reads the code's TTL (`FindCode`) and the code
(`MatchCode`) in two calls. `Die` is the end of the API process
(an error of ipinfo is fatal in two handlers). A code is named after the call
and the attempt that made it, so that codes are never confused by chance.

## Runs

| Run | Checks | Bounds, and why they are enough |
| --- | --- | --- |
| `orderbook` | types, `Exchange` is implemented (hence no overfill), prices, self-trades, events against orders, every match ends | 3 orders (2 may be seeded), 2 users, 2 prices, quantities 1 and 2, one failed publish of each kind: partial fills, two levels and both sides |
| `orderbook_queues` | levels are queues, who is passed over and when, no third party's order is dropped | 4 orders, 3 of them seeded: a taker can skip one order, fill the next and meet a third; symmetric users, safety only |
| `hub` | the maps agree, the gauge misses nobody, broadcasts reach whom the hub knows and no one else | 3 tabs of 2 users, 1 room, 1 broadcast, 1 peer that may stall: two tabs of one user, with one ID, and a stranger |
| `hub_live` | broadcasts end, dead connections go | 2 tabs, both may stall |
| `projection` | commits and restarts skip nothing, replays are idempotent, everything is dealt with, `AtLeastOnce` is implemented | 1 order of quantity 3 (up to 3 events in 2 topics, one shared ID), 1 trade, 1 retry, 1 restart |
| `engine` | channels are queues, routing in order, committed orders stay over, the backlog drains | 3 requests, 2 for one pair and 1 for another that may have no book; capacity 1, so that a channel fills while another pair waits behind it; 1 restart |
| `withdraw` | answered withdrawals are followed, rows with a hash and transfers tell the chain, what is final changes only with the chain, tasks end | 2 requests of one wallet (a replacement), 2 logs (a repeated or a removed one), 3 inputs in all, 1 retry per task, 1 reorganisation |
| `accounts` | one registration, addresses apart and none signed for, no verification without mail | 2 registrations of one user, a mock login of the same or of another, a resend and a verification, 1 retry: rivals, rollbacks that use up indexes, two mail tasks |
| `notify` | nothing missed, told once per run | 2 topics, 2 records each, 2 restarts; symmetric users |
| `orderbook_priority` | expected violation of `PriceTimePriority` | the instance of `orderbook_queues`: a market order gives up a level at a used up or own order and fills a worse price |
| `hub_slow` | expected violation of `SlowClientsDontBlock` | a peer that stops reading and sends a join |
| `hub_tabs` | expected violation of `AllConnectionsHear` | the instance of `hub`: a second tab of a user replaces the first |

Bounds that are not in the code are constants of their module (`MaxCrashes`,
`MaxLogs`, `MaxInputs`, `MaxReorgs`, `MaxRecords`); retry limits and capacities
are the code's (50, 2, 1 and the channel's buffer), made small.

The expected violations are disagreements between the code and its README and
comments; `findings` in `PROJECT.json` quotes them. Most findings have no run,
because they are visible in a line or two once somebody has pointed them out;
the model then does what the code does (the nonce, the lost index, limit orders
that do not come to rest, the decoding of trades, the dying API).

The Hub, Projection, Withdraw and Accounts instances may stop: all tabs closed
and all broadcasts made, all events dealt with, all calls over. So they do not
check deadlock; the liveness properties say that the first three do not stop too
early. In the others something can always happen, and the check is on.

### Fairness

- `Orderbook`: weak fairness of the loop steps and the unlock. The goroutine
  that holds the mutex runs on; publishing is synchronous and returns.
- `Hub`: strong fairness of taking a lock, because Go's mutexes hand over to a
  waiter that has waited long enough; a read on a dead connection returns.
  Nothing makes a peer read, so `CastEnds` and `DeadGone` are checked under
  `PeersReact` (a stalled peer reads again or goes), and `hub_slow` shows what
  happens without it.
- `Projection`: weak fairness of the runner as a whole. Failures are bounded by
  the code's own retries, and not by an assumption.
- `Engine`: weak fairness of the consumer (it is never required to succeed:
  `GiveUp` counts) and of each worker. Nothing is assumed of clients, commits or
  the database.
- `Withdraw`: weak fairness of each asynq task; each step may be the failing one,
  so that nothing is assumed to succeed, and the chain may hold a transaction for
  ever.
- `Accounts`, `Notify`: none, only safety is checked.

## Proofs

All proofs are checked to the last leaf, and hold for every value of the
constants that satisfies the `ASSUME`s.

**OrderbookProofs** proves `TypeOK`, `NeverOverfilled`, `LevelsAreQueues`,
`TradesWithinLimits` and `SelfTradeSkipped`. The inductive invariant `Inv` adds
`LoopSound` (the taker is newer than everything on the book, is not on it, and
what `range` has yet to visit is on the reached level of the other side) and
`TradeSound`. Without the first, a remainder that comes to rest might not be the
newest of its level, and a fill might be at an unreachable price. The lemmas on
`Thinned` say that `PopFront`, `RemoveAt` and `Tail` only leave elements out, so
that order and membership survive whichever element they drop: this is why
`LevelsAreQueues` holds although `PopFront` may drop the wrong order.

**MatchingProofs** goes on from there and proves `EventsTellTheBook`,
`FillsInTurn` and `OthersKeepTheirPlace`. `EventsSound` says that the batch of
order events a market order holds back has for each order it filled one event with
the order as it is now, and that only the latest fill leaves a filled order on the
book. `TradesSound` is the same of trades: what was published of an order's trades,
and what is on the tape of it, adds up to its `Filled` unless a publish has failed,
and to no more if one has; no maker is on the tape twice. `FrontSound`
is about where a loop stands. The limit loop is on the best level, has what is
left of it before it in order, and the rest of the level is dead (nothing left,
or the taker's own). In the levels the market loop has passed a live order
stands behind a dead one, and the orders it has passed on its level are dead.
So the next fill is of the first live order of the best level, and `PopFront`
takes off the filled order or a dead one.

`BookIsAnExchange` proves that `Spec` implements `Exchange`, one step at a time:
a fill is a `Trade` by `TradesWithinLimits` and `FillQtyBounds`, and what leaves
the book in it is used up or the taker's own, which is `OthersKeepTheirPlace`
again; everything else leaves the offers alone. `MatchesEnd` proves that, while
an operation holds the mutex, every step lowers `MatchRank`: what `range` has
left for a limit order; for a market order the orders before the index, those on
the levels behind, counted once more for the step to their level. All of them
are sets of order IDs, so the number is finite however many prices there are.

**HubProofs** holds for all connection IDs of which no two users share one, the
router's among them. `Shape` is what the maps have in common, and `LockSound` says
who holds which mutex: `h.mu` has one holder, and a `c.mu` is held by one write
that a running broadcast is in. From them follow `LocksAreSafe` (whoever waits for
a `c.mu`, with `h.mu` or without it, waits for one write, which comes back unless
its peer has stopped reading) and `BroadcastsWearOff` (each step of a broadcast
lowers a number, and no step of anybody else raises it).

`MapsAgree`, `BroadcastReaches` and `OnlyAudience` need `CastSound`: a running
broadcast still has before it, by ID or as a target, everybody who is registered
and owed the message, and nobody outside its audience. It holds with shared IDs
because the second lookup finds a connection of the same user, whichever it is.
For `GaugeCounts` the open connections are at most the gauge (every `Inc` opens
one, every `Dec` closes one, and a replaced tab's `Inc` may stay), and registered
ones are open and have one ID each (`Tabs` is finite); `TypeOK`, with a gauge that
is never negative, follows.

`UniqueIDsSuffice` alone assumes `UniqueConnIDs`, and shows that this is all that
`AllConnectionsHear` lacks: with unique IDs everybody who is open is registered.
The assumption cannot be dropped, as `hub_tabs` shows.

**ProjectionProofs** proves `TypeOK`, `NothingSkipped` and `NoGaps`. The
strengthening orders the positions of a topic (`committed`, `head` and
`toCommit` are at most `next`) and says that everything before `next` has been
dealt with. On top of it, `Refinement` proves that `Spec` implements
`AtLeastOnce`: the initial states map to initial states, and every step maps to
one of `AtLeastOnce` or to a stutter. The invariant is needed there, because a
commit may write only positions that the handler has passed. `RowIsALastEvent`
needs `RowsFollow`: a row is an event that no later one of its topic has passed,
or none of the order's events has been passed since the last restart.
`BacklogWearsOff`: each step of the runner lowers the records behind, the tries
left and the stage, in this order; with no record behind, all is dealt with.

**EngineProofs** proves `TypeOK`, `ChannelsKeepOrder`, `RoutedInOrder` and
`CommittedOnce`. The strengthening orders the positions of a topic (`acked` at
most `passed`, `passed` at most the length of the log) and says that what was
routed is behind `passed`, and what was handled and committed before a restart
is behind `acked`: the next record to be routed is ahead of both. This is about
records. `OrderInv` takes it to requests: no request is in two places of the
topics, one that the API has not published yet is in none, and what is routed to
a book is of its pair. `ConsumesAtLeastOnce`: the consumer implements
`AtLeastOnce` with `ResetToEnd`. `BacklogWearsOff`: the consumer waits only for a
worker that has something to do, and each step of either lowers a number that is
0 exactly when all is drained. A record counts three for the consumer and one in
a channel; that no record is in two places of the channels makes the channels'
part a set, finite for any number of pairs.

**NotifyProofs** proves `TypeOK`, `NoneMissed` and `ToldOncePerRun`. The
strengthening orders the positions likewise, and says on which side of the
position a record was broadcast how often: at most once per restart ahead of it,
and once more behind it. `ConsumesAtLeastOnce` is proved here too.

**WithdrawProofs** proves `TypeOK`, `AnsweredIsFollowed`, `RowTellsChain`,
`TransfersAreOurs` and `FinalStays`. It needs to know that a mined transaction
is in `wasMined`, that a row with a hash is there from `Record` on, that a task
exists only behind an answer and for a row with a hash, and that a log that was
followed is about a marked transaction that was in a block. `FinalStays`
follows: a row that is settled again has been settled by what a block said
before. `OnePerWallet` assumes that there are no reorganisations and shows what
the one nonce means: of a wallet's withdrawals that were recorded one at most
gets a final status. `TasksWearOff`: every step of a task lowers a number made
of its retries and its stage.

**AccountsProofs** proves `TypeOK`, `RegisteredOnce`, `KeysAreApart` and
`VerifiedByMail`, each with its own strengthening: at most one call per user is
in or past the transaction; indexes drawn are between 1 and `seq` and pairwise
apart, also those of transactions still open, so that none is the 0 that rows
read; every cached code was mailed for the user it is cached for, and every call
that matched one was given such a code. `AccountsAreKept`: no step takes away an
account's wallet or verification.

Only model-checked: the liveness properties (`MatchEnds`, `CastEnds`, `DeadGone`,
`EventsSettled`, `BacklogDrains`, `TasksEnd`), because what follows from fairness
is out of the prover's reach. For all but `DeadGone` the argument's other half is
proved for every value of the constants: the number or numbers that each step
lowers (`MatchesEnd`, `BroadcastsWearOff`, both `BacklogWearsOff`, `TasksWearOff`).
What is left to TLC is that a step remains possible until the end and that
fairness makes it happen.

## Not modelled

- The reaper and the expiry heap: only `SubmitOrder` pushes, and it runs in the
  API process, so that the heap the engine's reaper looks at is always empty.
- The order's row: the transaction that inserts it never commits, because the
  process dies in `PushExpiry`. `Projection` has rows for the orders in `Stored`
  and treats all others as updates that match nothing.
- The rate limiter: one atomic `INCR` per request; nothing interleaves.
- The watcher's reconnection: it decides which logs arrive, and the model lets
  any log be missed.
- Rebalances between several consumers of a group; each process runs one.
- What request bodies must say (one nondeterministic refusal), event validation
  that the engine's own events pass, JSON, amounts, gas and signatures.
- Handlers that only read, logins, the admin panel, configuration, metrics,
  logging, hashing and tokens, market prices, topic administration, generated
  code: no state of their own, or pure input and output.

## What is left

- Matching as atomic operations on two priority queues, implemented by
  `Orderbook`: today the code differs from it wherever a limit order should come
  to rest, and `PopFront` after a skipped order.
- When expiry is repaired: the order's row in `Engine`, the reaper with its two
  lock sections, and the agreement of rows with the engine's orders.
