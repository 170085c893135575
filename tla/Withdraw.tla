------------------------------- MODULE Withdraw -------------------------------
(***************************************************************************)
(* A withdrawal: usecases/wallet_usecases/transfer.go in the API process,  *)
(* the chain, the task that follows the transaction                        *)
(* (tasks/check_transaction_status.go), the watcher                        *)
(* (websockets/blockchain/token_listener.go) and the task that records the *)
(* transfers which it sees (tasks/update_onchain_balance.go).              *)
(*                                                                         *)
(* WithdrawAsset sends the transaction first, and then stores a row, marks *)
(* the hash in Redis and enqueues the status task: four systems, one after *)
(* the other, and each call can fail.  A transaction is known by its       *)
(* request.  Every one is built with the same nonce, so that those of one  *)
(* wallet exclude each other.                                              *)
(*                                                                         *)
(* The chain is external: a node may refuse a transaction, may hold it for *)
(* ever, may mine it with success or failure, and a reorganisation may     *)
(* take it out of its block.                                               *)
(***************************************************************************)
EXTENDS Integers, FiniteSets

CONSTANTS
  Requests,          \* withdrawals that reach WithdrawAsset
  WalletOf,          \* the wallet each one is made from
  Emitting,          \* those whose transaction emits a Transfer of a listed asset
  MaxLogs,           \* bound: how many logs the watcher is sent
  MaxInputs,         \* bound: requests and logs together
  MaxStatusRetry,    \* MaxRetry of the status task
  MaxTransferRetry,  \* MaxRetry of the transfer task
  MaxReorgs          \* bound: how often a transaction is taken out of its block

ASSUME RequestsAssumption == Emitting \subseteq Requests
ASSUME BoundsAssumption ==
  {MaxLogs, MaxInputs, MaxStatusRetry, MaxTransferRetry, MaxReorgs} \subseteq Nat

VARIABLES
  step,       \* step[r]: how far the API has come with r
  chain,      \* chain[r]: the transaction at the node
  row,        \* row[r]: the status of its row in evm_transactions
  hash,       \* the requests whose row has the hash of the transaction
  mark,       \* the hashes in the cache of pending transactions
  task,       \* task[r]: its status task
  tries,      \* tries[r]: the retries of that task so far
  log,        \* log[l]: what became of the l-th log
  about,      \* about[l]: the request it is about, and whether it was removed
  again,      \* again[l]: the retries of the transfer task of that log
  transfer,   \* transfer[r]: the status of the row in transfer_events
  wasMined,   \* <<r, outcome>>: r has been in a block with this outcome
  wasMarked   \* the hashes that were put into the cache

apiVars == <<step, row, hash, wasMarked>>
chainVars == <<chain, wasMined>>
taskVars == <<task, tries>>
logVars == <<log, about, again, transfer>>
vars == <<apiVars, chainVars, mark, taskVars, logVars>>

Logs == 1 .. MaxLogs
Steps == {"new", "sent", "recorded", "marked", "answered", "over"}
Mined == {"success", "failure"}
Chain == {"none", "pending", "dropped"} \cup Mined
Rows == {"none", "PENDING", "CONFIRMED", "FAILED"}
Tasks == {"none", "queued", "pending", "mined", "done", "archived"}
LogStates == {"new", "ignored", "found", "queued", "CONFIRMED", "REVERTED", "stored",
              "done", "archived"}
TransferEvents == {"none", "CONFIRMED", "REVERTED"}
NoLog == [of |-> "none", removed |-> FALSE]

\* Another request or log may come.
MoreInput == Cardinality({r \in Requests : step[r] # "new"})
               + Cardinality({l \in Logs : log[l] # "new"}) < MaxInputs

Init ==
  /\ step = [r \in Requests |-> "new"]
  /\ chain = [r \in Requests |-> "none"]
  /\ row = [r \in Requests |-> "none"]
  /\ hash = {}
  /\ mark = {}
  /\ task = [r \in Requests |-> "none"]
  /\ tries = [r \in Requests |-> 0]
  /\ log = [l \in Logs |-> "new"]
  /\ about = [l \in Logs |-> NoLog]
  /\ again = [l \in Logs |-> 0]
  /\ transfer = [r \in Requests |-> "none"]
  /\ wasMined = {}
  /\ wasMarked = {}

------------------------------------------------------------------------------
(* The chain.                                                              *)

Rivals(r) == {q \in Requests \ {r} : WalletOf[q] = WalletOf[r]}

\* The node takes the transaction.  Its nonce is that of every other one of the
\* wallet: none of them can be mined, and a pending one is replaced.
Accepted(r) ==
  /\ \A q \in Rivals(r) : chain[q] \notin Mined
  /\ chain' = [q \in Requests |-> IF q = r THEN "pending"
                                  ELSE IF q \in Rivals(r) /\ chain[q] = "pending" THEN "dropped"
                                  ELSE chain[q]]

Mine(r) ==
  /\ chain[r] = "pending"
  /\ \E outcome \in Mined :
       /\ chain' = [chain EXCEPT ![r] = outcome]
       /\ wasMined' = wasMined \cup {<<r, outcome>>}
  /\ UNCHANGED <<apiVars, mark, taskVars, logVars>>

\* The block of the transaction is no longer in the chain.
Reorg(r) ==
  /\ chain[r] \in Mined
  /\ Cardinality(wasMined) <= MaxReorgs
  /\ chain' = [chain EXCEPT ![r] = "pending"]
  /\ UNCHANGED <<apiVars, wasMined, mark, taskVars, logVars>>

------------------------------------------------------------------------------
(* WithdrawAsset.                                                          *)

NewEVMTransaction(r, status, hashes) ==
  /\ row' = [row EXCEPT ![r] = status]
  /\ hash' = hash \cup hashes

\* The body or the wallet is refused, or the transaction cannot be built and
\* signed: nothing is sent, and no row is written.
Refuse(r) ==
  /\ step[r] = "new" /\ MoreInput
  /\ step' = [step EXCEPT ![r] = "over"]
  /\ UNCHANGED <<row, hash, wasMarked, chainVars, mark, taskVars, logVars>>

\* SendSignedTransaction.
Send(r) ==
  /\ step[r] = "new" /\ MoreInput
  /\ Accepted(r)
  /\ step' = [step EXCEPT ![r] = "sent"]
  /\ UNCHANGED <<row, hash, wasMarked, wasMined, mark, taskVars, logVars>>

\* It answers an error: a row is stored, FAILED at once and without a hash, or
\* that insert fails too.  The node may have taken the transaction all the same.
SendFails(r) ==
  /\ step[r] = "new" /\ MoreInput
  /\ Accepted(r) \/ UNCHANGED chain
  /\ step' = [step EXCEPT ![r] = "over"]
  /\ NewEVMTransaction(r, "FAILED", {}) \/ UNCHANGED <<row, hash>>
  /\ UNCHANGED <<wasMarked, wasMined, mark, taskVars, logVars>>

\* CreateTransaction.
Record(r) ==
  /\ step[r] = "sent"
  /\ NewEVMTransaction(r, "PENDING", {r})
  /\ step' = [step EXCEPT ![r] = "recorded"]
  /\ UNCHANGED <<wasMarked, chainVars, mark, taskVars, logVars>>

\* SetPendingTransaction.
SetMark(r) ==
  /\ step[r] = "recorded"
  /\ mark' = mark \cup {r}
  /\ wasMarked' = wasMarked \cup {r}
  /\ step' = [step EXCEPT ![r] = "marked"]
  /\ UNCHANGED <<row, hash, chainVars, taskVars, logVars>>

\* Mutant of Enqueue: its error is logged, and the client is told all is well.
EnqueueOrNot(r) ==
  /\ step[r] = "marked"
  /\ task' = [task EXCEPT ![r] = "queued"] \/ UNCHANGED task
  /\ step' = [step EXCEPT ![r] = "answered"]
  /\ UNCHANGED <<row, hash, wasMarked, chainVars, mark, tries, logVars>>

\* EnqueuPendingTransactions; the client is told that the withdrawal is PENDING.
Enqueue(r) ==
  /\ step[r] = "marked"
  /\ task' = [task EXCEPT ![r] = "queued"]
  /\ step' = [step EXCEPT ![r] = "answered"]
  /\ UNCHANGED <<row, hash, wasMarked, chainVars, mark, tries, logVars>>

\* One of the three calls fails and the client is told so, or the process
\* ends.  Nothing that has been done is undone.
Abandon(r) ==
  /\ step[r] \in {"sent", "recorded", "marked"}
  /\ step' = [step EXCEPT ![r] = "over"]
  /\ UNCHANGED <<row, hash, wasMarked, chainVars, mark, taskVars, logVars>>

\* The mark's TTL, 24 hours, is over.
Expire(r) ==
  /\ r \in mark
  /\ mark' = mark \ {r}
  /\ UNCHANGED <<apiVars, chainVars, taskVars, logVars>>

------------------------------------------------------------------------------
(* HandleTransactionStatus, on a worker.                                   *)

\* Mutant of Retry: the limit is one too high.
RetryOneMore(r) ==
  /\ task' = [task EXCEPT ![r] = IF tries[r] <= MaxStatusRetry THEN "queued" ELSE "archived"]
  /\ tries' = [tries EXCEPT ![r] = IF tries[r] <= MaxStatusRetry THEN @ + 1 ELSE @]

\* Mutant of Retry: the task enqueues itself anew, as the code means to do for
\* a pending transaction, and no limit applies.
RetryForever(r) ==
  /\ task' = [task EXCEPT ![r] = "queued"]
  /\ UNCHANGED tries

\* The handler returned an error or panicked: asynq runs the task again, and
\* archives it after the last retry.
Retry(r) ==
  /\ task' = [task EXCEPT ![r] = IF tries[r] < MaxStatusRetry THEN "queued" ELSE "archived"]
  /\ tries' = [tries EXCEPT ![r] = IF tries[r] < MaxStatusRetry THEN @ + 1 ELSE @]

\* The database or the node answers an error, or the worker stops.
StatusFails(r) ==
  /\ task[r] \in {"queued", "pending", "mined"}
  /\ Retry(r)
  /\ UNCHANGED <<apiVars, chainVars, mark, logVars>>

\* The row is there; TransactionByHash finds the transaction.
Look(r) ==
  /\ task[r] = "queued"
  /\ \/ chain[r] = "pending" /\ task' = [task EXCEPT ![r] = "pending"]
     \/ chain[r] \in Mined /\ task' = [task EXCEPT ![r] = "mined"]
  /\ UNCHANGED <<apiVars, chainVars, mark, tries, logVars>>

\* A transaction that was pending when Look found it is not settled: its
\* receipt is missing, which is an error, or it has come since, and the branch
\* for pending transactions reads a field of evmTx, a nil pointer.
StillPending(r) ==
  /\ task[r] = "pending"
  /\ Retry(r)
  /\ UNCHANGED <<apiVars, chainVars, mark, logVars>>

\* The handler has returned nil, and asynq knows.
Completed(r) ==
  /\ task' = [task EXCEPT ![r] = "done"]
  /\ UNCHANGED tries

Settled(outcome) == IF outcome = "success" THEN "CONFIRMED" ELSE "FAILED"

\* Mutant of Settle: a receipt that is missing is taken for a failure.
SettleWithoutReceipt(r) ==
  /\ task[r] = "mined"
  /\ row' = [row EXCEPT ![r] = Settled(chain[r])]
  /\ Completed(r) \/ Retry(r)
  /\ UNCHANGED <<step, hash, wasMarked, chainVars, mark, logVars>>

\* The receipt, and UpdateTransactionStatus with what it says, whatever the row
\* said before.  The worker may stop before asynq knows that the task is done,
\* and an update that was made may be answered with an error: it runs again.
Settle(r) ==
  /\ task[r] = "mined"
  /\ chain[r] \in Mined
  /\ row' = [row EXCEPT ![r] = Settled(chain[r])]
  /\ Completed(r) \/ Retry(r)
  /\ UNCHANGED <<step, hash, wasMarked, chainVars, mark, logVars>>

------------------------------------------------------------------------------
(* The watcher, one goroutine, and HandleTransferEventTask, on a worker.   *)

Of(l) == about[l].of

\* The watcher subscribes to the contracts of the assets that were available
\* when it was started.
Listed(r) == r \in Emitting

\* A log comes in: of a transaction in a block, or of one that was taken out.
LogOf(l, r) ==
  /\ log[l] = "new" /\ MoreInput
  /\ \A k \in Logs : /\ log[k] # "found"
                     /\ k < l => log[k] # "new"
  /\ Listed(r)
  /\ \E removed \in BOOLEAN :
       /\ IF removed THEN <<r, "success">> \in wasMined /\ chain[r] = "pending"
                     ELSE chain[r] = "success"
       /\ about' = [about EXCEPT ![l] = [of |-> r, removed |-> removed]]

\* Mutant of Hunt: every transfer of a listed asset is followed.
HuntAll(l, r) ==
  /\ LogOf(l, r)
  /\ log' = [log EXCEPT ![l] = "found"]
  /\ UNCHANGED <<apiVars, chainVars, mark, taskVars, again, transfer>>

\* handleTransferHunt looks the hash up in the cache.
Hunt(l, r) ==
  /\ LogOf(l, r)
  /\ log' = [log EXCEPT ![l] = IF r \in mark THEN "found" ELSE "ignored"]
  /\ UNCHANGED <<apiVars, chainVars, mark, taskVars, again, transfer>>

\* EnqueueTransferEventTask; an error is logged and the log forgotten.
EnqueueTransfer(l) ==
  /\ log[l] = "found"
  /\ \E s \in {"queued", "ignored"} : log' = [log EXCEPT ![l] = s]
  /\ UNCHANGED <<apiVars, chainVars, mark, taskVars, about, again, transfer>>

\* An error of the handler: run again, or archived.
RetryTransfer(l) ==
  /\ log' = [log EXCEPT ![l] = IF again[l] < MaxTransferRetry THEN "queued" ELSE "archived"]
  /\ again' = [again EXCEPT ![l] = IF again[l] < MaxTransferRetry THEN @ + 1 ELSE @]

\* The database, the node or Redis answers an error (the node also when the
\* transaction is in no block), both parties are users of the exchange, or the
\* worker stops.
TransferFails(l) ==
  /\ log[l] \in {"queued", "CONFIRMED", "REVERTED", "stored"}
  /\ RetryTransfer(l)
  /\ UNCHANGED <<apiVars, chainVars, mark, taskVars, about, transfer>>

\* The balance tag, which matches no wallet, and the receipt.
GetReceipt(l) ==
  /\ log[l] = "queued"
  /\ chain[Of(l)] \in Mined
  /\ log' = [log EXCEPT ![l] = IF about[l].removed \/ chain[Of(l)] = "failure"
                               THEN "REVERTED" ELSE "CONFIRMED"]
  /\ UNCHANGED <<apiVars, chainVars, mark, taskVars, about, again, transfer>>

\* Mutant of StoreTransfer: the last one wins.
StoreTransferAnew(l) ==
  /\ log[l] \in {"CONFIRMED", "REVERTED"}
  /\ transfer' = [transfer EXCEPT ![Of(l)] = log[l]]
  /\ log' = [log EXCEPT ![l] = "stored"]
  /\ UNCHANGED <<apiVars, chainVars, mark, taskVars, about, again>>

\* Create; the hash is unique in transfer_events.
StoreTransfer(l) ==
  /\ log[l] \in {"CONFIRMED", "REVERTED"}
  /\ transfer[Of(l)] = "none"
  /\ transfer' = [transfer EXCEPT ![Of(l)] = log[l]]
  /\ log' = [log EXCEPT ![l] = "stored"]
  /\ UNCHANGED <<apiVars, chainVars, mark, taskVars, about, again>>

\* DeletePendingTransaction; the task is done, or runs again.
ClearMark(l) ==
  /\ log[l] = "stored"
  /\ mark' = mark \ {Of(l)}
  /\ \/ log' = [log EXCEPT ![l] = "done"] /\ UNCHANGED again
     \/ RetryTransfer(l)
  /\ UNCHANGED <<apiVars, chainVars, taskVars, about, transfer>>

------------------------------------------------------------------------------
Api(r) == \/ Refuse(r) \/ Send(r) \/ SendFails(r) \/ Record(r) \/ SetMark(r)
          \/ Enqueue(r) \/ Abandon(r)
Status(r) == StatusFails(r) \/ Look(r) \/ StillPending(r) \/ Settle(r)
Transfer(l) == TransferFails(l) \/ GetReceipt(l) \/ StoreTransfer(l) \/ ClearMark(l)

Watch(l) == (\E r \in Requests : Hunt(l, r)) \/ EnqueueTransfer(l)

Next == \/ \E r \in Requests : Api(r) \/ Mine(r) \/ Reorg(r) \/ Expire(r) \/ Status(r)
        \/ \E l \in Logs : Watch(l) \/ Transfer(l)

\* The worker process runs its tasks.  Nothing is assumed of clients, of the
\* chain, of the watcher or of expiry.
Spec == /\ Init /\ [][Next]_vars
        /\ \A r \in Requests : WF_vars(Status(r))
        /\ \A l \in Logs : WF_vars(Transfer(l))

------------------------------------------------------------------------------
(* What a withdrawal promises.                                             *)

\* Type invariant: every part of a withdrawal is in one of its states, and no
\* task is retried more often than its limit.
TypeOK ==
  /\ step \in [Requests -> Steps]
  /\ chain \in [Requests -> Chain]
  /\ row \in [Requests -> Rows]
  /\ hash \subseteq Requests
  /\ mark \subseteq Requests
  /\ task \in [Requests -> Tasks]
  /\ tries \in [Requests -> 0 .. MaxStatusRetry]
  /\ log \in [Logs -> LogStates]
  /\ about \in [Logs -> {NoLog} \cup [of : Requests, removed : BOOLEAN]]
  /\ again \in [Logs -> 0 .. MaxTransferRetry]
  /\ transfer \in [Requests -> TransferEvents]
  /\ wasMined \subseteq Requests \X Mined
  /\ wasMarked \subseteq Requests

\* A withdrawal that the client was told is PENDING is followed: its row has its
\* final status, or it is PENDING with a task at work or archived.  Every call
\* between the send and the answer can fail, and none of them is undone.
AnsweredIsFollowed ==
  \A r \in Requests : step[r] = "answered" =>
    \/ row[r] \in {"CONFIRMED", "FAILED"}
    \/ row[r] = "PENDING" /\ task[r] \notin {"none", "done"}

\* A row is CONFIRMED, or FAILED with a hash, only when its transaction has been
\* in a block with that outcome: a transaction that was found and then lost again
\* in a reorganisation, or that a later withdrawal replaced, is not settled.  A
\* row that is FAILED without a hash says that the send answered an error, and
\* nothing of the chain.
RowTellsChain ==
  \A r \in Requests :
    /\ row[r] = "CONFIRMED" => r \in hash /\ <<r, "success">> \in wasMined
    /\ row[r] = "FAILED" /\ r \in hash => <<r, "failure">> \in wasMined

\* The watcher is sent the transfers of everybody; only those of transactions
\* that this exchange marked get a row, and only after they were in a block.
TransfersAreOurs ==
  \A r \in Requests : transfer[r] # "none" =>
    r \in wasMarked /\ <<r, "success">> \in wasMined

\* What is final stays, as far as the chain does.  A transfer is stored once: a
\* second log of its transaction, a removed log and a task that is run again
\* leave the stored row alone.  A status task that is run again after its update
\* may write a final row anew, and writes the other status only when the
\* transaction has been in blocks with both outcomes; never does a final row
\* become PENDING again.
FinalStays ==
  [][\A r \in Requests :
       /\ transfer[r] # "none" => transfer'[r] = transfer[r]
       /\ row[r] \in {"CONFIRMED", "FAILED"} /\ row'[r] # row[r] =>
            /\ row'[r] \in {"CONFIRMED", "FAILED"}
            /\ {<<r, "success">>, <<r, "failure">>} \subseteq wasMined]_vars

\* A status task comes to an end, by itself or in the archive, also when its
\* transaction stays pending for ever or was replaced; so does a transfer task,
\* also when its row is there already.
TasksEnd ==
  /\ \A r \in Requests : task[r] = "queued" ~> task[r] \in {"done", "archived"}
  /\ \A l \in Logs : log[l] = "queued" ~> log[l] \in {"done", "archived"}
===============================================================================
