--------------------------- MODULE WithdrawProofs ---------------------------
(***************************************************************************)
(* Proofs about Withdraw, for every set of withdrawals and wallets and     *)
(* every limit: an answered withdrawal is followed, its tasks wear off, a  *)
(* final status is the chain's and changes only if the chain did, and the  *)
(* transfers recorded are the exchange's own and stay.                     *)
(*                                                                         *)
(* The properties speak of the ends of chains of steps.  The strengthening *)
(* has what holds on the way: before the answer the row is PENDING and no  *)
(* task is there; what is in a block is remembered as mined; and a log     *)
(* that the watcher did not ignore is of a transaction that was marked and *)
(* was mined with success, however long ago.                               *)
(***************************************************************************)
EXTENDS Withdraw, FiniteSetTheorems, TLAPS

Before == {"new", "sent", "recorded", "marked"}
Final == {"CONFIRMED", "FAILED"}

\* How far a request has come, and what it has left behind.
Followed ==
  \A r \in Requests :
    /\ step[r] \in Before => task[r] = "none"
    /\ step[r] \in {"new", "sent"} => row[r] = "none"
    /\ step[r] \in {"recorded", "marked"} => row[r] = "PENDING" /\ r \in hash
    /\ step[r] = "answered" => \/ row[r] \in Final
                               \/ row[r] = "PENDING" /\ task[r] \notin {"none", "done"}
    /\ task[r] # "none" => step[r] = "answered" /\ r \in hash

\* What is in a block has been in one.
ChainRemembered == \A r \in Requests : chain[r] \in Mined => <<r, chain[r]>> \in wasMined

\* Only a row has a hash.
HashOfRow == \A r \in hash : row[r] # "none"

\* A transaction of the exchange whose transfer was in a block.
Ours(r) == r \in wasMarked /\ <<r, "success">> \in wasMined

\* A log that was not ignored is about such a transaction.
LogsFollowed ==
  /\ mark \subseteq wasMarked
  /\ \A l \in Logs : log[l] \notin {"new", "ignored"} => Of(l) \in Requests /\ Ours(Of(l))

Inv == /\ TypeOK /\ Followed /\ ChainRemembered /\ HashOfRow /\ RowTellsChain
       /\ LogsFollowed /\ TransfersAreOurs

------------------------------------------------------------------------------
(* Types.                                                                  *)

\* The limits, one by one.
LEMMA Bounds == MaxStatusRetry \in Nat /\ MaxTransferRetry \in Nat
BY BoundsAssumption

\* A status task that has failed.
LEMMA RetryType ==
  ASSUME TypeOK, NEW r \in Requests, Retry(r)
  PROVE  /\ task' \in [Requests -> Tasks]
         /\ tries' \in [Requests -> 0 .. MaxStatusRetry]
         /\ task'[r] \in {"queued", "archived"}
         /\ \A q \in Requests : q # r => task'[q] = task[q]
<1>1. task \in [Requests -> Tasks] /\ tries \in [Requests -> 0 .. MaxStatusRetry]
  BY DEF TypeOK
<1>2. tries[r] < MaxStatusRetry => tries[r] + 1 \in 0 .. MaxStatusRetry
  BY <1>1, Bounds
<1>3. tries' \in [Requests -> 0 .. MaxStatusRetry]
  BY <1>1, <1>2 DEF Retry
<1>4. task' \in [Requests -> Tasks] /\ task'[r] \in {"queued", "archived"}
  BY <1>1 DEF Retry, Tasks
<1>5. \A q \in Requests : q # r => task'[q] = task[q]
  BY <1>1 DEF Retry
<1> QED BY <1>3, <1>4, <1>5

\* A transfer task that has failed.
LEMMA RetryTransferType ==
  ASSUME TypeOK, NEW l \in Logs, RetryTransfer(l)
  PROVE  log' \in [Logs -> LogStates] /\ again' \in [Logs -> 0 .. MaxTransferRetry]
<1>1. log \in [Logs -> LogStates] /\ again \in [Logs -> 0 .. MaxTransferRetry]
  BY DEF TypeOK
<1>2. again[l] < MaxTransferRetry => again[l] + 1 \in 0 .. MaxTransferRetry
  BY <1>1, Bounds
<1>3. again' \in [Logs -> 0 .. MaxTransferRetry]
  BY <1>1, <1>2 DEF RetryTransfer
<1>4. log' \in [Logs -> LogStates]
  BY <1>1 DEF RetryTransfer, LogStates
<1> QED BY <1>3, <1>4

\* What the node accepts.
LEMMA AcceptedType ==
  ASSUME TypeOK, NEW r \in Requests, Accepted(r)
  PROVE  /\ chain' \in [Requests -> Chain]
         /\ \A q \in Requests : chain'[q] \in Mined => chain'[q] = chain[q]
<1>1. chain \in [Requests -> Chain] /\ "pending" \in Chain /\ "dropped" \in Chain
  BY DEF TypeOK, Chain
<1> QED BY <1>1 DEF Accepted, Mined

\* The API's steps keep the types.
LEMMA ApiType == ASSUME TypeOK, NEW r \in Requests, Api(r) PROVE TypeOK'
<1>1. CASE Refuse(r)
  BY <1>1 DEF Refuse, TypeOK, Steps, apiVars, chainVars, taskVars, logVars
<1>2. CASE Send(r)
  BY <1>2, AcceptedType DEF Send, TypeOK, Steps, taskVars, logVars
<1>3. CASE SendFails(r)
  <2>1. chain' \in [Requests -> Chain]
    BY <1>3, AcceptedType DEF SendFails, TypeOK
  <2>2. row' \in [Requests -> Rows] /\ hash' \subseteq Requests
    BY <1>3 DEF SendFails, NewEVMTransaction, TypeOK, Rows
  <2> QED BY <1>3, <2>1, <2>2 DEF SendFails, TypeOK, Steps, taskVars, logVars
<1>4. CASE Record(r)
  BY <1>4 DEF Record, NewEVMTransaction, TypeOK, Steps, Rows, chainVars, taskVars, logVars
<1>5. CASE SetMark(r)
  BY <1>5 DEF SetMark, TypeOK, Steps, chainVars, taskVars, logVars
<1>6. CASE Enqueue(r)
  BY <1>6 DEF Enqueue, TypeOK, Steps, Tasks, chainVars, logVars
<1>7. CASE Abandon(r)
  BY <1>7 DEF Abandon, TypeOK, Steps, chainVars, taskVars, logVars
<1> QED BY <1>1, <1>2, <1>3, <1>4, <1>5, <1>6, <1>7 DEF Api

\* So do the chain, and the TTL of a mark.
LEMMA ChainType ==
  ASSUME TypeOK, NEW r \in Requests, Mine(r) \/ Reorg(r) \/ Expire(r)
  PROVE  TypeOK'
<1>1. CASE Mine(r)
  <2>1. PICK outcome \in Mined : /\ chain' = [chain EXCEPT ![r] = outcome]
                                 /\ wasMined' = wasMined \cup {<<r, outcome>>}
    BY <1>1 DEF Mine
  <2> QED BY <1>1, <2>1 DEF Mine, TypeOK, Chain, apiVars, taskVars, logVars
<1>2. CASE Reorg(r)
  BY <1>2 DEF Reorg, TypeOK, Chain, apiVars, taskVars, logVars
<1>3. CASE Expire(r)
  BY <1>3 DEF Expire, TypeOK, apiVars, chainVars, taskVars, logVars
<1> QED BY <1>1, <1>2, <1>3

\* So does the status task.
LEMMA StatusType == ASSUME TypeOK, NEW r \in Requests, Status(r) PROVE TypeOK'
<1>1. CASE StatusFails(r) \/ StillPending(r)
  BY <1>1, RetryType DEF StatusFails, StillPending, TypeOK, apiVars, chainVars, logVars
<1>2. CASE Look(r)
  <2>1. task' \in [Requests -> Tasks]
    BY <1>2 DEF Look, TypeOK, Tasks
  <2> QED BY <1>2, <2>1 DEF Look, TypeOK, apiVars, chainVars, logVars
<1>3. CASE Settle(r)
  <2>1. task' \in [Requests -> Tasks] /\ tries' \in [Requests -> 0 .. MaxStatusRetry]
    BY <1>3, RetryType DEF Settle, Completed, TypeOK, Tasks
  <2> QED BY <1>3, <2>1 DEF Settle, Settled, TypeOK, Rows, chainVars, logVars
<1> QED BY <1>1, <1>2, <1>3 DEF Status

\* So do the watcher and the transfer task.
LEMMA TransferType ==
  ASSUME TypeOK, NEW l \in Logs, Watch(l) \/ Transfer(l)
  PROVE  TypeOK'
<1>1. ASSUME NEW r \in Requests, Hunt(l, r) PROVE TypeOK'
  <2>1. log' \in [Logs -> LogStates]
    BY <1>1 DEF Hunt, TypeOK, LogStates
  <2>2. about' \in [Logs -> {NoLog} \cup [of : Requests, removed : BOOLEAN]]
    BY <1>1 DEF Hunt, LogOf, TypeOK
  <2> QED BY <1>1, <2>1, <2>2 DEF Hunt, TypeOK, apiVars, chainVars, taskVars
<1>2. CASE EnqueueTransfer(l)
  BY <1>2 DEF EnqueueTransfer, TypeOK, LogStates, apiVars, chainVars, taskVars
<1>3. CASE TransferFails(l)
  BY <1>3, RetryTransferType DEF TransferFails, TypeOK, apiVars, chainVars, taskVars
<1>4. CASE GetReceipt(l)
  BY <1>4 DEF GetReceipt, TypeOK, LogStates, apiVars, chainVars, taskVars
<1>5. CASE StoreTransfer(l)
  <2>1. transfer' \in [Requests -> TransferEvents]
    BY <1>5 DEF StoreTransfer, TypeOK, TransferEvents
  <2> QED BY <1>5, <2>1 DEF StoreTransfer, TypeOK, LogStates, apiVars, chainVars, taskVars
<1>6. CASE ClearMark(l)
  <2>1. log' \in [Logs -> LogStates] /\ again' \in [Logs -> 0 .. MaxTransferRetry]
    BY <1>6, RetryTransferType DEF ClearMark, TypeOK, LogStates
  <2> QED BY <1>6, <2>1 DEF ClearMark, TypeOK, apiVars, chainVars, taskVars
<1> QED BY <1>1, <1>2, <1>3, <1>4, <1>5, <1>6 DEF Watch, Transfer

------------------------------------------------------------------------------
(* The invariant.                                                          *)

\* A step of the API.  Only Record and SendFails write a row: the one is PENDING,
\* the other has no hash.
LEMMA ApiInv == ASSUME Inv, NEW r \in Requests, Api(r) PROVE Inv'
<1>1. TypeOK'
  BY ApiType DEF Inv
<1>2. /\ \A q \in Requests : q # r => /\ step'[q] = step[q] /\ row'[q] = row[q]
                                      /\ task'[q] = task[q]
      /\ UNCHANGED <<tries, log, about, again, transfer, wasMined>>
      /\ hash \subseteq hash' /\ hash' \subseteq hash \cup {r}
      /\ mark' \subseteq mark \cup (wasMarked' \ wasMarked) \cup wasMarked
      /\ wasMarked \subseteq wasMarked'
  <2>1. step \in [Requests -> Steps] /\ row \in [Requests -> Rows] /\ task \in [Requests -> Tasks]
    BY DEF Inv, TypeOK
  <2>2. mark \subseteq wasMarked
    BY DEF Inv, LogsFollowed
  <2> QED BY <2>1, <2>2 DEF Api, Refuse, Send, SendFails, Record, SetMark, Enqueue, Abandon,
             NewEVMTransaction, chainVars, taskVars, logVars
<1>3. Followed'
  <2>1. /\ step[r] \in Before => task[r] = "none"
        /\ step[r] \in {"new", "sent"} => row[r] = "none"
        /\ step[r] \in {"recorded", "marked"} => row[r] = "PENDING" /\ r \in hash
    BY DEF Inv, Followed
  <2>2. /\ step'[r] \in Before => task'[r] = "none"
        /\ step'[r] \in {"new", "sent"} => row'[r] = "none"
        /\ step'[r] \in {"recorded", "marked"} => row'[r] = "PENDING" /\ r \in hash'
        /\ step'[r] = "answered" => row'[r] = "PENDING" /\ task'[r] = "queued"
        /\ task'[r] # "none" => step'[r] = "answered" /\ r \in hash'
    <3>1. step \in [Requests -> Steps] /\ row \in [Requests -> Rows] /\ task \in [Requests -> Tasks]
      BY DEF Inv, TypeOK
    <3>2. CASE Refuse(r) \/ Send(r) \/ SendFails(r)
      BY <2>1, <3>1, <3>2 DEF Refuse, Send, SendFails, Before, taskVars
    <3>3. CASE Record(r) \/ SetMark(r)
      BY <2>1, <3>1, <3>3 DEF Record, SetMark, NewEVMTransaction, Before, taskVars
    <3>4. CASE Enqueue(r) \/ Abandon(r)
      BY <2>1, <3>1, <3>4 DEF Enqueue, Abandon, Before, taskVars
    <3> QED BY <3>2, <3>3, <3>4 DEF Api
  <2> QED BY <1>2, <2>2 DEF Inv, Followed
<1>4. ChainRemembered'
  <2>1. \A q \in Requests : chain'[q] \in Mined => chain'[q] = chain[q]
    BY AcceptedType DEF Inv, Api, Refuse, Send, SendFails, Record, SetMark, Enqueue, Abandon,
       chainVars
  <2> QED BY <1>2, <2>1 DEF Inv, ChainRemembered
<1>5. RowTellsChain'
  <2>1. \/ row'[r] = row[r] /\ (r \in hash' <=> r \in hash)
        \/ row'[r] = "PENDING"
        \/ row'[r] = "FAILED" /\ (r \in hash' <=> r \in hash) /\ row[r] = "none"
    BY DEF Inv, TypeOK, Followed, Api, Refuse, Send, SendFails, Record, SetMark, Enqueue, Abandon,
       NewEVMTransaction
  <2>2. r \in hash => row[r] # "none"
    BY DEF Inv, HashOfRow
  <2>3. \A q \in Requests : q # r => row'[q] = row[q] /\ (q \in hash' <=> q \in hash)
    BY <1>2
  <2> QED BY <1>2, <2>1, <2>2, <2>3 DEF Inv, RowTellsChain
<1>6. HashOfRow'
  <2>1. r \in hash' => row'[r] # "none"
    BY DEF Inv, TypeOK, HashOfRow, Api, Refuse, Send, SendFails, Record, SetMark, Enqueue, Abandon,
       NewEVMTransaction
  <2> QED BY <1>2, <2>1 DEF Inv, TypeOK, HashOfRow
<1>7. LogsFollowed' /\ TransfersAreOurs'
  <2>1. mark' \subseteq wasMarked'
    BY <1>2 DEF Inv, LogsFollowed
  <2>2. \A q : Ours(q) => Ours(q)'
    BY <1>2 DEF Ours
  <2>3. \A l \in Logs : Of(l)' = Of(l)
    BY <1>2 DEF Of
  <2>4. LogsFollowed'
    BY <1>2, <2>1, <2>2, <2>3 DEF Inv, LogsFollowed
  <2> QED BY <1>2, <2>4 DEF Inv, TransfersAreOurs
<1> QED BY <1>1, <1>3, <1>4, <1>5, <1>6, <1>7 DEF Inv

\* A step of the chain, which never forgets what was mined.
LEMMA ChainInv ==
  ASSUME Inv, NEW r \in Requests, Mine(r) \/ Reorg(r) \/ Expire(r)
  PROVE  Inv'
<1>1. TypeOK'
  BY ChainType DEF Inv
<1>2. /\ UNCHANGED <<step, row, hash, wasMarked, task, log, about, transfer>>
      /\ wasMined \subseteq wasMined' /\ mark' \subseteq mark
  BY DEF Mine, Reorg, Expire, apiVars, chainVars, taskVars, logVars
<1>3. Followed' /\ HashOfRow' /\ RowTellsChain'
  BY <1>2 DEF Inv, Followed, HashOfRow, RowTellsChain
<1>4. ChainRemembered'
  <2>1. chain \in [Requests -> Chain]
    BY DEF Inv, TypeOK
  <2>2. CASE Mine(r)
    <3>1. PICK outcome \in Mined : /\ chain' = [chain EXCEPT ![r] = outcome]
                                   /\ wasMined' = wasMined \cup {<<r, outcome>>}
      BY <2>2 DEF Mine
    <3> QED BY <2>1, <3>1 DEF Inv, ChainRemembered
  <2>3. CASE Reorg(r)
    <3>1. "pending" \notin Mined
      BY DEF Mined
    <3> QED BY <2>1, <2>3, <3>1 DEF Inv, ChainRemembered, Reorg
  <2>4. CASE Expire(r)
    BY <2>4 DEF Inv, ChainRemembered, Expire, chainVars
  <2> QED BY <2>2, <2>3, <2>4
<1>5. LogsFollowed' /\ TransfersAreOurs'
  BY <1>2 DEF Inv, LogsFollowed, Ours, Of, TransfersAreOurs
<1> QED BY <1>1, <1>3, <1>4, <1>5 DEF Inv

\* A step of the status task: only Settle writes a row, and it writes what the
\* chain says at that moment.
LEMMA StatusInv == ASSUME Inv, NEW r \in Requests, Status(r) PROVE Inv'
<1>1. TypeOK'
  BY StatusType DEF Inv
<1>2. UNCHANGED <<step, hash, wasMarked, chain, wasMined, mark, log, about, transfer>>
  BY DEF Status, StatusFails, Look, StillPending, Settle, apiVars, chainVars, logVars
<1>3. /\ task[r] \notin {"none", "done"} /\ task'[r] # "none"
      /\ \A q \in Requests : q # r => task'[q] = task[q] /\ row'[q] = row[q]
      /\ \/ row' = row /\ task'[r] # "done"
         \/ chain[r] \in Mined /\ row'[r] = Settled(chain[r])
  <2>1. task \in [Requests -> Tasks] /\ row \in [Requests -> Rows]
    BY DEF Inv, TypeOK
  <2>2. CASE StatusFails(r) \/ StillPending(r)
    BY <2>2, RetryType DEF Inv, StatusFails, StillPending, apiVars
  <2>3. CASE Look(r)
    BY <2>1, <2>3 DEF Look, apiVars
  <2>4. CASE Settle(r)
    <3>1. CASE Completed(r)
      BY <2>1, <2>4, <3>1 DEF Settle, Completed
    <3>2. CASE Retry(r)
      BY <2>1, <2>4, <3>2, RetryType DEF Settle, Inv
    <3> QED BY <2>4, <3>1, <3>2 DEF Settle
  <2> QED BY <2>2, <2>3, <2>4 DEF Status
<1>4. \A q \in Requests : row'[q] # row[q] => q = r /\ chain[r] \in Mined
                                              /\ row'[r] = Settled(chain[r])
  BY <1>3
<1>5. Followed'
  <2>1. step[r] = "answered" /\ r \in hash
    BY <1>3 DEF Inv, Followed
  <2>2. row'[r] = row[r] \/ row'[r] \in Final
    BY <1>3 DEF Settled, Final
  <2>3. /\ step[r] = "answered" => \/ row[r] \in Final
                                   \/ row[r] = "PENDING" /\ task[r] \notin {"none", "done"}
    BY DEF Inv, Followed
  <2>4. /\ step'[r] = "answered" /\ r \in hash'
        /\ step'[r] = "answered" => \/ row'[r] \in Final
                                    \/ row'[r] = "PENDING" /\ task'[r] \notin {"none", "done"}
    BY <1>2, <1>3, <2>1, <2>2, <2>3 DEF Settled, Final
  <2> QED BY <1>2, <1>3, <2>4 DEF Inv, Followed, Before
<1>6. RowTellsChain'
  <2>1. chain[r] \in Mined => <<r, chain[r]>> \in wasMined
    BY DEF Inv, ChainRemembered
  <2>2. chain[r] \in Mined => \/ chain[r] = "success" /\ Settled(chain[r]) = "CONFIRMED"
                              \/ chain[r] = "failure" /\ Settled(chain[r]) = "FAILED"
    BY DEF Mined, Settled
  <2>3. r \in hash
    BY <1>3 DEF Inv, Followed
  <2> QED BY <1>2, <1>4, <2>1, <2>2, <2>3 DEF Inv, RowTellsChain
<1>7. HashOfRow'
  BY <1>2, <1>4 DEF Inv, HashOfRow, TypeOK, Settled
<1>8. ChainRemembered' /\ LogsFollowed' /\ TransfersAreOurs'
  BY <1>2 DEF Inv, ChainRemembered, LogsFollowed, Ours, Of, TransfersAreOurs
<1> QED BY <1>1, <1>5, <1>6, <1>7, <1>8 DEF Inv

\* A step of the watcher or of the transfer task.
LEMMA TransferInv == ASSUME Inv, NEW l \in Logs, Watch(l) \/ Transfer(l) PROVE Inv'
<1>1. TypeOK'
  BY TransferType DEF Inv
<1>2. /\ UNCHANGED <<step, row, hash, wasMarked, chain, wasMined, task>>
      /\ mark' \subseteq mark
  BY DEF Watch, Transfer, Hunt, EnqueueTransfer, TransferFails, GetReceipt, StoreTransfer,
     ClearMark, apiVars, chainVars, taskVars
<1>3. Followed' /\ ChainRemembered' /\ HashOfRow' /\ RowTellsChain'
  BY <1>2 DEF Inv, Followed, ChainRemembered, HashOfRow, RowTellsChain
<1>4. \A q : Ours(q)' = Ours(q)
  BY <1>2 DEF Ours
<1>5. log \in [Logs -> LogStates] /\ transfer \in [Requests -> TransferEvents]
  BY DEF Inv, TypeOK
<1>6. ASSUME NEW r \in Requests, Hunt(l, r) PROVE LogsFollowed' /\ TransfersAreOurs'
  <2>1. /\ about' = [about EXCEPT ![l] = about'[l]] /\ Of(l)' = r
        /\ <<r, "success">> \in wasMined
    <3>1. PICK removed \in BOOLEAN :
            /\ IF removed THEN <<r, "success">> \in wasMined /\ chain[r] = "pending"
                          ELSE chain[r] = "success"
            /\ about' = [about EXCEPT ![l] = [of |-> r, removed |-> removed]]
      BY <1>6 DEF Hunt, LogOf
    <3>2. about' = [about EXCEPT ![l] = about'[l]] /\ Of(l)' = r
      BY <3>1 DEF Inv, TypeOK, Of
    <3>3. chain[r] = "success" => <<r, "success">> \in wasMined
      BY DEF Inv, ChainRemembered, Mined
    <3> QED BY <3>1, <3>2, <3>3
  <2>2. log'[l] # "ignored" => r \in wasMarked
    BY <1>5, <1>6 DEF Hunt, Inv, LogsFollowed
  <2>3. \A k \in Logs : k # l => log'[k] = log[k] /\ Of(k)' = Of(k)
    BY <1>5, <1>6, <2>1 DEF Hunt, Of, Inv, TypeOK
  <2>4. LogsFollowed'
    BY <1>2, <1>4, <2>1, <2>2, <2>3 DEF Inv, LogsFollowed, Ours
  <2>5. UNCHANGED transfer
    BY <1>6 DEF Hunt
  <2> QED BY <1>2, <2>4, <2>5 DEF Inv, TransfersAreOurs
<1>7. ASSUME EnqueueTransfer(l) \/ Transfer(l) PROVE LogsFollowed' /\ TransfersAreOurs'
  <2>1. /\ UNCHANGED about
        /\ log[l] \notin {"new", "ignored"}
        /\ \A k \in Logs : k # l => log'[k] = log[k]
    BY <1>5, <1>7 DEF EnqueueTransfer, Transfer, TransferFails, RetryTransfer, GetReceipt,
       StoreTransfer, ClearMark
  <2>2. Of(l) \in Requests /\ Ours(Of(l))
    BY <2>1 DEF Inv, LogsFollowed
  <2>3. LogsFollowed'
    <3>1. \A k \in Logs : Of(k)' = Of(k)
      BY <2>1 DEF Of
    <3> QED BY <1>2, <1>4, <2>1, <2>2, <3>1 DEF Inv, LogsFollowed
  <2>4. \A q \in Requests : transfer'[q] # transfer[q] => q = Of(l)
    BY <1>5, <1>7 DEF EnqueueTransfer, Transfer, TransferFails, GetReceipt, StoreTransfer, ClearMark
  <2> QED BY <1>2, <2>2, <2>3, <2>4 DEF Inv, TransfersAreOurs, Ours
<1>8. LogsFollowed' /\ TransfersAreOurs'
  BY <1>6, <1>7 DEF Watch
<1> QED BY <1>1, <1>3, <1>8 DEF Inv

------------------------------------------------------------------------------
(* The theorems.                                                           *)

\* Inv holds in every reachable state.
LEMMA Invariance == Spec => []Inv
<1>1. Init => Inv
  <2> SUFFICES ASSUME Init PROVE Inv
    OBVIOUS
  <2>1. TypeOK
    BY Bounds DEF Init, TypeOK, Steps, Chain, Rows, Tasks, LogStates, TransferEvents
  <2>2. Followed /\ ChainRemembered /\ HashOfRow /\ RowTellsChain
    BY DEF Init, Followed, ChainRemembered, HashOfRow, RowTellsChain, Mined
  <2>3. LogsFollowed /\ TransfersAreOurs
    BY DEF Init, LogsFollowed, TransfersAreOurs
  <2> QED BY <2>1, <2>2, <2>3 DEF Inv
<1>2. Inv /\ [Next]_vars => Inv'
  <2> SUFFICES ASSUME Inv, [Next]_vars PROVE Inv'
    OBVIOUS
  <2>1. ASSUME NEW r \in Requests, Api(r) \/ Mine(r) \/ Reorg(r) \/ Expire(r) \/ Status(r)
        PROVE  Inv'
    BY <2>1, ApiInv, ChainInv, StatusInv
  <2>2. ASSUME NEW l \in Logs, Watch(l) \/ Transfer(l) PROVE Inv'
    BY <2>2, TransferInv
  <2>3. CASE UNCHANGED vars
    BY <2>3 DEF vars, apiVars, chainVars, taskVars, logVars, Inv, TypeOK, Followed,
       ChainRemembered, HashOfRow, RowTellsChain, LogsFollowed, Ours, Of, TransfersAreOurs
  <2> QED BY <2>1, <2>2, <2>3 DEF Next
<1> QED BY <1>1, <1>2, PTL DEF Spec

\* The type invariant of withdrawals.
THEOREM TypeCorrect == Spec => []TypeOK
<1>1. Inv => TypeOK
  BY DEF Inv
<1> QED BY <1>1, Invariance, PTL

\* A withdrawal that the client was told is PENDING has its final status, or a
\* task that was not lost.
THEOREM AnswersAreFollowed == Spec => []AnsweredIsFollowed
<1>1. Inv => AnsweredIsFollowed
  BY DEF Inv, Followed, Final, AnsweredIsFollowed
<1> QED BY <1>1, Invariance, PTL

\* A final status of a row with a hash is one that the chain has had.
THEOREM RowsTellChain == Spec => []RowTellsChain
<1>1. Inv => RowTellsChain
  BY DEF Inv
<1> QED BY <1>1, Invariance, PTL

\* Only transfers of marked transactions that were in a block are recorded.
THEOREM OwnTransfers == Spec => []TransfersAreOurs
<1>1. Inv => TransfersAreOurs
  BY DEF Inv
<1> QED BY <1>1, Invariance, PTL

\* A row that is settled again, with another status, tells of a transaction that
\* has been mined with both outcomes.
LEMMA SettledAgain ==
  ASSUME Inv, NEW q \in Requests, Settle(q), NEW r \in Requests, row'[r] # row[r],
         row[r] \in Final
  PROVE  row'[r] \in Final /\ {<<r, "success">>, <<r, "failure">>} \subseteq wasMined
<1>1. r = q /\ row'[r] = Settled(chain[r]) /\ chain[r] \in Mined
  BY DEF Settle, Inv, TypeOK
<1>2. r \in hash /\ <<r, chain[r]>> \in wasMined
  BY <1>1 DEF Settle, Inv, Followed, ChainRemembered
<1>3. CASE row[r] = "CONFIRMED"
  <2>1. chain[r] = "failure" /\ row'[r] = "FAILED"
    BY <1>1, <1>3 DEF Settled, Mined
  <2> QED BY <1>2, <1>3, <2>1 DEF Inv, RowTellsChain, Final
<1>4. CASE row[r] = "FAILED"
  <2>1. chain[r] = "success" /\ row'[r] = "CONFIRMED"
    BY <1>1, <1>4 DEF Settled, Mined
  <2> QED BY <1>2, <1>4, <2>1 DEF Inv, RowTellsChain, Final
<1> QED BY <1>3, <1>4 DEF Final

\* A stored transfer is never written again, and a final status only by a task
\* that runs again after the chain has changed its mind.
THEOREM FinalIsFinal == Spec => FinalStays
<1>1. Inv /\ [Next]_vars =>
        [\A r \in Requests :
           /\ transfer[r] # "none" => transfer'[r] = transfer[r]
           /\ row[r] \in {"CONFIRMED", "FAILED"} /\ row'[r] # row[r] =>
                /\ row'[r] \in {"CONFIRMED", "FAILED"}
                /\ {<<r, "success">>, <<r, "failure">>} \subseteq wasMined]_vars
  <2> SUFFICES ASSUME Inv, [Next]_vars, NEW r \in Requests
               PROVE  /\ transfer[r] # "none" => transfer'[r] = transfer[r]
                      /\ row[r] \in Final /\ row'[r] # row[r] =>
                           /\ row'[r] \in Final
                           /\ {<<r, "success">>, <<r, "failure">>} \subseteq wasMined
    BY DEF Final
  <2>1. row \in [Requests -> Rows] /\ transfer \in [Requests -> TransferEvents]
    BY DEF Inv, TypeOK
  <2>2. ASSUME NEW q \in Requests, Api(q)
        PROVE  UNCHANGED transfer /\ (row[r] \in Final => row'[r] = row[r])
    <3>1. CASE Refuse(q) \/ Send(q) \/ SetMark(q) \/ Enqueue(q) \/ Abandon(q)
      BY <3>1 DEF Refuse, Send, SetMark, Enqueue, Abandon, logVars
    <3>2. CASE SendFails(q) \/ Record(q)
      <4>1. row[q] = "none"
        BY <3>2 DEF SendFails, Record, Inv, Followed
      <4> QED BY <2>1, <3>2, <4>1 DEF SendFails, Record, NewEVMTransaction, logVars, Final
    <3> QED BY <2>2, <3>1, <3>2 DEF Api
  <2>3. ASSUME NEW q \in Requests, Mine(q) \/ Reorg(q) \/ Expire(q) PROVE UNCHANGED <<row, transfer>>
    BY <2>3 DEF Mine, Reorg, Expire, apiVars, logVars
  <2>4. ASSUME NEW q \in Requests, Status(q)
        PROVE  UNCHANGED transfer /\ (UNCHANGED row \/ Settle(q))
    BY <2>4 DEF Status, StatusFails, Look, StillPending, Settle, apiVars, logVars
  <2>5. ASSUME NEW l \in Logs, Watch(l) \/ Transfer(l)
        PROVE  UNCHANGED row /\ (transfer[r] # "none" => transfer'[r] = transfer[r])
    BY <2>1, <2>5 DEF Watch, Transfer, Hunt, EnqueueTransfer, TransferFails, GetReceipt,
       StoreTransfer, ClearMark, apiVars
  <2>6. CASE UNCHANGED vars
    BY <2>6 DEF vars, apiVars, logVars
  <2> QED BY <2>2, <2>3, <2>4, <2>5, <2>6, SettledAgain DEF Next
<1> QED BY <1>1, Invariance, PTL DEF Spec, FinalStays

------------------------------------------------------------------------------
(* Every withdrawal has the same nonce.                                    *)

Alive == {"pending"} \cup Mined

\* At most one transaction of a wallet is at the node; while no block is taken
\* out of the chain, what has been mined still is.
NonceSound ==
  /\ \A r \in Requests : step[r] = "new" => chain[r] = "none"
  /\ \A r \in Requests : \A q \in Rivals(r) : ~(chain[r] \in Alive /\ chain[q] \in Alive)
  /\ \A r \in Requests, outcome \in Mined : <<r, outcome>> \in wasMined => chain[r] \in Mined
  /\ IsFiniteSet(wasMined)

\* Of the withdrawals of one wallet that have a hash, one at most is ever settled.
OneIsSettled ==
  \A r \in hash : \A q \in Rivals(r) \cap hash : ~(row[r] \in Final /\ row[q] \in Final)

\* A node that takes a transaction has no other one of its wallet.
LEMMA AcceptedNonce ==
  ASSUME Inv, NonceSound, NEW r \in Requests, step[r] = "new", Accepted(r),
         step' = [step EXCEPT ![r] = step'[r]], step'[r] # "new", UNCHANGED wasMined
  PROVE  NonceSound'
<1>1. /\ chain \in [Requests -> Chain] /\ step \in [Requests -> Steps]
      /\ chain[r] = "none" /\ \A q \in Rivals(r) : chain[q] \notin Mined
  BY DEF Inv, TypeOK, NonceSound, Accepted
<1>2. /\ chain'[r] = "pending"
      /\ \A q \in Requests : q # r =>
           chain'[q] = IF q \in Rivals(r) /\ chain[q] = "pending" THEN "dropped" ELSE chain[q]
  BY DEF Accepted
<1>3. \A q \in Rivals(r) : q \in Requests /\ q # r /\ chain'[q] \notin Alive
  BY <1>1, <1>2 DEF Rivals, Alive, Mined
<1>4. \A q \in Requests : q # r /\ chain'[q] \in Alive => chain[q] \in Alive
  BY <1>2 DEF Alive, Mined
<1>5. \A x \in Requests : \A y \in Rivals(x) : ~(chain'[x] \in Alive /\ chain'[y] \in Alive)
  <2> SUFFICES ASSUME NEW x \in Requests, NEW y \in Rivals(x),
                      chain'[x] \in Alive, chain'[y] \in Alive
               PROVE  FALSE
    OBVIOUS
  <2>1. y \in Requests /\ y # x /\ WalletOf[y] = WalletOf[x]
    BY DEF Rivals
  <2>2. x # r /\ y # r
    BY <1>3, <2>1 DEF Rivals
  <2> QED BY <1>4, <2>1, <2>2 DEF NonceSound
<1>6. \A q \in Requests, outcome \in Mined : <<q, outcome>> \in wasMined => chain'[q] \in Mined
  <2> SUFFICES ASSUME NEW q \in Requests, NEW outcome \in Mined, <<q, outcome>> \in wasMined
               PROVE  chain'[q] \in Mined
    OBVIOUS
  <2>1. chain[q] \in Mined /\ q # r
    BY <1>1 DEF NonceSound, Mined
  <2> QED BY <1>2, <2>1 DEF Mined
<1>7. \A q \in Requests : step'[q] = "new" => chain'[q] = "none"
  <2> SUFFICES ASSUME NEW q \in Requests, step'[q] = "new" PROVE chain'[q] = "none"
    OBVIOUS
  <2>1. q # r /\ step[q] = "new"
    BY <1>1
  <2> QED BY <1>2, <2>1 DEF NonceSound
<1> QED BY <1>5, <1>6, <1>7 DEF NonceSound

\* NonceSound as long as there are no reorganisations.
LEMMA NonceInvariance ==
  ASSUME MaxReorgs = 0
  PROVE  Spec => []NonceSound
<1>1. Init => NonceSound
  BY FS_EmptySet DEF Init, NonceSound, Alive, Mined
<1>2. Inv /\ NonceSound /\ [Next]_vars => NonceSound'
  <2> SUFFICES ASSUME Inv, NonceSound, [Next]_vars PROVE NonceSound'
    OBVIOUS
  <2>1. step \in [Requests -> Steps] /\ chain \in [Requests -> Chain]
    BY DEF Inv, TypeOK
  <2>2. CASE UNCHANGED chainVars /\ \A r \in Requests : step'[r] = "new" => step[r] = "new"
    BY <2>2 DEF NonceSound, chainVars
  <2>3. ASSUME NEW r \in Requests, Api(r) PROVE NonceSound'
    <3>1. CASE Send(r)
      BY <2>1, <3>1, AcceptedNonce DEF Send
    <3>2. CASE SendFails(r)
      <4>1. CASE Accepted(r)
        BY <2>1, <3>2, <4>1, AcceptedNonce DEF SendFails
      <4>2. CASE UNCHANGED chain
        BY <2>1, <2>2, <3>2, <4>2 DEF SendFails, chainVars
      <4> QED BY <3>2, <4>1, <4>2 DEF SendFails
    <3>3. CASE Refuse(r) \/ Record(r) \/ SetMark(r) \/ Enqueue(r) \/ Abandon(r)
      BY <2>1, <2>2, <3>3 DEF Refuse, Record, SetMark, Enqueue, Abandon
    <3> QED BY <2>3, <3>1, <3>2, <3>3 DEF Api
  <2>4. ASSUME NEW r \in Requests, Mine(r) PROVE NonceSound'
    <3>1. PICK outcome \in Mined : /\ chain' = [chain EXCEPT ![r] = outcome]
                                   /\ wasMined' = wasMined \cup {<<r, outcome>>}
      BY <2>4 DEF Mine
    <3>2. chain[r] = "pending" /\ UNCHANGED step
      BY <2>4 DEF Mine, apiVars
    <3>3. /\ chain'[r] \in Mined /\ \A q \in Requests : q # r => chain'[q] = chain[q]
          /\ \A q \in Requests : chain'[q] \in Alive <=> chain[q] \in Alive
      BY <2>1, <3>1, <3>2 DEF Alive, Mined
    <3>4. IsFiniteSet(wasMined')
      BY <3>1, FS_AddElement DEF NonceSound
    <3>5. \A q \in Requests, o \in Mined : <<q, o>> \in wasMined' => chain'[q] \in Mined
      BY <3>1, <3>3 DEF NonceSound
    <3>6. \A x \in Requests : \A y \in Rivals(x) : ~(chain'[x] \in Alive /\ chain'[y] \in Alive)
      BY <3>3 DEF NonceSound, Rivals
    <3>7. \A q \in Requests : step'[q] = "new" => chain'[q] = "none"
      BY <3>2, <3>3 DEF NonceSound
    <3> QED BY <3>4, <3>5, <3>6, <3>7 DEF NonceSound
  <2>5. ASSUME NEW r \in Requests, Reorg(r) PROVE FALSE
    <3>1. <<r, chain[r]>> \in wasMined /\ IsFiniteSet(wasMined) /\ Cardinality(wasMined) <= 0
      BY <2>5 DEF Reorg, Inv, ChainRemembered, NonceSound
    <3>2. Cardinality(wasMined) \in Nat /\ Cardinality(wasMined) # 0
      BY <3>1, FS_CardinalityType, FS_EmptySet
    <3> QED BY <3>1, <3>2
  <2>6. ASSUME NEW r \in Requests, Expire(r) \/ Status(r) PROVE UNCHANGED <<step, chainVars>>
    BY <2>6 DEF Expire, Status, StatusFails, Look, StillPending, Settle, apiVars
  <2>7. ASSUME NEW l \in Logs, Watch(l) \/ Transfer(l) PROVE UNCHANGED <<step, chainVars>>
    BY <2>7 DEF Watch, Transfer, Hunt, EnqueueTransfer, TransferFails, GetReceipt, StoreTransfer,
       ClearMark, apiVars
  <2>8. CASE UNCHANGED vars
    BY <2>2, <2>8 DEF vars, apiVars
  <2> QED BY <2>2, <2>3, <2>4, <2>5, <2>6, <2>7, <2>8 DEF Next
<1> QED BY <1>1, <1>2, Invariance, PTL DEF Spec

\* CreateNativeTransferTx gives every transaction the nonce 15.  So, without a
\* reorganisation, one withdrawal of a wallet at most gets a final status: all
\* others that were answered PENDING stay so for ever.
THEOREM OnePerWallet ==
  ASSUME MaxReorgs = 0
  PROVE  Spec => []OneIsSettled
<1>1. Inv /\ NonceSound => OneIsSettled
  <2> SUFFICES ASSUME Inv, NonceSound, NEW r \in hash, NEW q \in Rivals(r) \cap hash,
                      row[r] \in Final, row[q] \in Final
               PROVE  FALSE
    BY DEF OneIsSettled
  <2>1. r \in Requests /\ q \in Requests
    BY DEF Rivals, Inv, TypeOK
  <2>2. chain[r] \in Mined /\ chain[q] \in Mined
    BY <2>1 DEF Inv, RowTellsChain, NonceSound, Final, Mined
  <2> QED BY <2>1, <2>2 DEF NonceSound, Alive
<1> QED BY <1>1, Invariance, NonceInvariance, PTL

------------------------------------------------------------------------------
(* Tasks wear off.                                                         *)

StatusStage(s) == IF s = "queued" THEN 2 ELSE IF s \in {"pending", "mined"} THEN 1 ELSE 0
StatusRank(r) == 3 * (MaxStatusRetry - tries[r]) + StatusStage(task[r])

TransferStage(s) ==
  IF s = "queued" THEN 3 ELSE IF s \in {"CONFIRMED", "REVERTED"} THEN 2
  ELSE IF s = "stored" THEN 1 ELSE 0
TransferRank(l) == 4 * (MaxTransferRetry - again[l]) + TransferStage(log[l])

RanksAreNaturals ==
  /\ \A r \in Requests : StatusRank(r) \in Nat
  /\ \A l \in Logs : TransferRank(l) \in Nat

\* Whatever happens to a task that is at work brings it nearer to its end.
WearOff ==
  /\ \A r \in Requests :
       task[r] \in {"queued", "pending", "mined"} /\ <<task'[r], tries'[r]>> # <<task[r], tries[r]>>
         => StatusRank(r)' < StatusRank(r)
  /\ \A l \in Logs :
       /\ log[l] \in {"queued", "CONFIRMED", "REVERTED", "stored"}
       /\ <<log'[l], again'[l]>> # <<log[l], again[l]>>
       => TransferRank(l)' < TransferRank(l)

\* A retry costs more than it gives back.
LEMMA RetryWears ==
  ASSUME TypeOK, NEW r \in Requests, Retry(r), task[r] \in {"queued", "pending", "mined"}
  PROVE  /\ StatusRank(r)' < StatusRank(r)
         /\ \A q \in Requests : q # r => task'[q] = task[q] /\ tries'[q] = tries[q]
<1>1. /\ task \in [Requests -> Tasks] /\ tries \in [Requests -> 0 .. MaxStatusRetry]
      /\ MaxStatusRetry \in Nat
  BY Bounds DEF TypeOK
<1>2. tries[r] \in Nat /\ tries[r] <= MaxStatusRetry
  BY <1>1
<1>3. StatusStage(task[r]) \in {1, 2}
  BY DEF StatusStage
<1>4. CASE tries[r] < MaxStatusRetry
  <2>1. task'[r] = "queued" /\ tries'[r] = tries[r] + 1
    BY <1>1, <1>4 DEF Retry
  <2>2. StatusStage(task'[r]) = 2
    BY <2>1 DEF StatusStage
  <2>3. StatusRank(r)' = 3 * (MaxStatusRetry - (tries[r] + 1)) + 2
    BY <2>1, <2>2 DEF StatusRank
  <2>4. StatusRank(r) = 3 * (MaxStatusRetry - tries[r]) + StatusStage(task[r])
    BY DEF StatusRank
  <2>5. ASSUME NEW m \in Nat, NEW t \in Nat, NEW s \in {1, 2}
        PROVE  3 * (m - (t + 1)) + 2 < 3 * (m - t) + s
    OBVIOUS
  <2>6. StatusRank(r)' < StatusRank(r)
    BY <1>1, <1>2, <1>3, <2>3, <2>4, <2>5
  <2> QED BY <1>1, <2>6 DEF Retry
<1>5. CASE ~(tries[r] < MaxStatusRetry)
  <2>1. task'[r] = "archived" /\ tries'[r] = tries[r]
    BY <1>1, <1>5 DEF Retry
  <2>2. StatusStage(task'[r]) = 0
    BY <2>1 DEF StatusStage
  <2>3. StatusRank(r)' < StatusRank(r)
    BY <1>1, <1>2, <1>3, <2>1, <2>2 DEF StatusRank
  <2> QED BY <1>1, <2>3 DEF Retry
<1> QED BY <1>4, <1>5

\* A failed transfer task is put back with one retry less, or is archived: its
\* rank falls either way.
LEMMA RetryTransferWears ==
  ASSUME TypeOK, NEW l \in Logs, RetryTransfer(l),
         log[l] \in {"queued", "CONFIRMED", "REVERTED", "stored"}
  PROVE  /\ TransferRank(l)' < TransferRank(l)
         /\ \A k \in Logs : k # l => log'[k] = log[k] /\ again'[k] = again[k]
<1>1. /\ log \in [Logs -> LogStates] /\ again \in [Logs -> 0 .. MaxTransferRetry]
      /\ MaxTransferRetry \in Nat
  BY Bounds DEF TypeOK
<1>2. again[l] \in Nat /\ again[l] <= MaxTransferRetry
  BY <1>1
<1>3. TransferStage(log[l]) \in {1, 2, 3}
  BY DEF TransferStage
<1>4. CASE again[l] < MaxTransferRetry
  <2>1. log'[l] = "queued" /\ again'[l] = again[l] + 1
    BY <1>1, <1>4 DEF RetryTransfer
  <2>2. TransferStage(log'[l]) = 3
    BY <2>1 DEF TransferStage
  <2>3. TransferRank(l)' = 4 * (MaxTransferRetry - (again[l] + 1)) + 3
    BY <2>1, <2>2 DEF TransferRank
  <2>4. TransferRank(l) = 4 * (MaxTransferRetry - again[l]) + TransferStage(log[l])
    BY DEF TransferRank
  <2>5. ASSUME NEW m \in Nat, NEW t \in Nat, NEW s \in {1, 2, 3}
        PROVE  4 * (m - (t + 1)) + 3 < 4 * (m - t) + s
    OBVIOUS
  <2>6. TransferRank(l)' < TransferRank(l)
    BY <1>1, <1>2, <1>3, <2>3, <2>4, <2>5
  <2> QED BY <1>1, <2>6 DEF RetryTransfer
<1>5. CASE ~(again[l] < MaxTransferRetry)
  <2>1. log'[l] = "archived" /\ again'[l] = again[l]
    BY <1>1, <1>5 DEF RetryTransfer
  <2>2. TransferStage(log'[l]) = 0
    BY <2>1 DEF TransferStage
  <2>3. TransferRank(l)' < TransferRank(l)
    BY <1>1, <1>2, <1>3, <2>1, <2>2 DEF TransferRank
  <2> QED BY <1>1, <2>3 DEF RetryTransfer
<1> QED BY <1>4, <1>5

\* A step of status task r wears it off, and leaves the others alone.
LEMMA StatusWears ==
  ASSUME TypeOK, NEW r \in Requests, Status(r)
  PROVE  /\ StatusRank(r)' < StatusRank(r)
         /\ \A q \in Requests : q # r => task'[q] = task[q] /\ tries'[q] = tries[q]
<1>1. /\ task \in [Requests -> Tasks] /\ tries \in [Requests -> 0 .. MaxStatusRetry]
      /\ MaxStatusRetry \in Nat
  BY Bounds DEF TypeOK
<1>2. tries[r] \in Nat
  BY <1>1
<1>3. CASE StatusFails(r) \/ StillPending(r)
  BY <1>3, RetryWears DEF StatusFails, StillPending
<1>4. CASE Settle(r) /\ Retry(r)
  BY <1>4, RetryWears DEF Settle
<1>5. CASE Look(r) \/ (Settle(r) /\ Completed(r))
  <2>1. UNCHANGED tries /\ \A q \in Requests : q # r => task'[q] = task[q]
    BY <1>1, <1>5 DEF Look, Settle, Completed
  <2>2. \/ task[r] = "queued" /\ task'[r] \in {"pending", "mined"}
        \/ task[r] = "mined" /\ task'[r] = "done"
    BY <1>1, <1>5 DEF Look, Settle, Completed
  <2>3. /\ StatusStage(task'[r]) \in Nat /\ StatusStage(task[r]) \in Nat
        /\ StatusStage(task'[r]) < StatusStage(task[r])
    BY <2>2 DEF StatusStage
  <2> QED BY <1>1, <1>2, <2>1, <2>3 DEF StatusRank
<1> QED BY <1>3, <1>5, <1>4 DEF Status, Settle

\* So does a step of a transfer task.
LEMMA TransferWears ==
  ASSUME TypeOK, NEW l \in Logs, Transfer(l)
  PROVE  /\ TransferRank(l)' < TransferRank(l)
         /\ \A k \in Logs : k # l => log'[k] = log[k] /\ again'[k] = again[k]
<1>1. /\ log \in [Logs -> LogStates] /\ again \in [Logs -> 0 .. MaxTransferRetry]
      /\ MaxTransferRetry \in Nat
  BY Bounds DEF TypeOK
<1>2. again[l] \in Nat
  BY <1>1
<1>3. CASE TransferFails(l)
  BY <1>3, RetryTransferWears DEF TransferFails
<1>4. CASE ClearMark(l) /\ RetryTransfer(l)
  BY <1>4, RetryTransferWears DEF ClearMark
<1>5. CASE \/ GetReceipt(l) \/ StoreTransfer(l)
           \/ ClearMark(l) /\ log' = [log EXCEPT ![l] = "done"] /\ UNCHANGED again
  <2>1. UNCHANGED again /\ \A k \in Logs : k # l => log'[k] = log[k]
    BY <1>1, <1>5 DEF GetReceipt, StoreTransfer, ClearMark
  <2>2. \/ log[l] = "queued" /\ log'[l] \in {"CONFIRMED", "REVERTED"}
        \/ log[l] \in {"CONFIRMED", "REVERTED"} /\ log'[l] = "stored"
        \/ log[l] = "stored" /\ log'[l] = "done"
    BY <1>1, <1>5 DEF GetReceipt, StoreTransfer, ClearMark
  <2>3. /\ TransferStage(log'[l]) \in Nat /\ TransferStage(log[l]) \in Nat
        /\ TransferStage(log'[l]) < TransferStage(log[l])
    BY <2>2 DEF TransferStage
  <2> QED BY <1>1, <1>2, <2>1, <2>3 DEF TransferRank
<1> QED BY <1>3, <1>5, <1>4 DEF Transfer, ClearMark

\* No status task and no transfer task goes round in circles: every step that
\* touches one, a retry too, lowers a natural number of its own.  With the
\* workers' fairness this is why TasksEnd holds.
THEOREM TasksWearOff == Spec => []RanksAreNaturals /\ [][WearOff]_vars
<1>1. TypeOK => RanksAreNaturals
  <2> SUFFICES ASSUME TypeOK PROVE RanksAreNaturals
    OBVIOUS
  <2>1. ASSUME NEW r \in Requests PROVE StatusRank(r) \in Nat
    <3>1. tries[r] \in 0 .. MaxStatusRetry /\ MaxStatusRetry \in Nat
      BY Bounds DEF TypeOK
    <3>2. StatusStage(task[r]) \in Nat
      BY DEF StatusStage
    <3> QED BY <3>1, <3>2 DEF StatusRank
  <2>2. ASSUME NEW l \in Logs PROVE TransferRank(l) \in Nat
    <3>1. again[l] \in 0 .. MaxTransferRetry /\ MaxTransferRetry \in Nat
      BY Bounds DEF TypeOK
    <3>2. TransferStage(log[l]) \in Nat
      BY DEF TransferStage
    <3> QED BY <3>1, <3>2 DEF TransferRank
  <2> QED BY <2>1, <2>2 DEF RanksAreNaturals
<1>2. Inv /\ [Next]_vars => [WearOff]_vars
  <2> SUFFICES ASSUME Inv, Next PROVE WearOff
    OBVIOUS
  <2>1. /\ task \in [Requests -> Tasks] /\ log \in [Logs -> LogStates] /\ TypeOK
    BY DEF Inv, TypeOK
  <2>2. CASE UNCHANGED <<taskVars, log, again>>
    BY <2>2 DEF WearOff, taskVars
  <2>3. ASSUME NEW r \in Requests, Api(r) PROVE WearOff
    <3>1. CASE Enqueue(r)
      <4>1. /\ task[r] = "none" /\ UNCHANGED <<tries, log, again>>
            /\ \A q \in Requests : q # r => task'[q] = task[q]
        BY <2>1, <3>1 DEF Enqueue, logVars, Inv, Followed, Before
      <4> QED BY <4>1 DEF WearOff
    <3>2. CASE Refuse(r) \/ Send(r) \/ SendFails(r) \/ Record(r) \/ SetMark(r) \/ Abandon(r)
      BY <2>2, <3>2 DEF Refuse, Send, SendFails, Record, SetMark, Abandon, logVars
    <3> QED BY <2>3, <3>1, <3>2 DEF Api
  <2>4. ASSUME NEW r \in Requests, Mine(r) \/ Reorg(r) \/ Expire(r)
        PROVE  UNCHANGED <<taskVars, log, again>>
    BY <2>4 DEF Mine, Reorg, Expire, logVars
  <2>5. ASSUME NEW r \in Requests, Status(r) PROVE WearOff
    <3>1. UNCHANGED <<log, again>>
      BY <2>5 DEF Status, StatusFails, Look, StillPending, Settle, logVars
    <3> QED BY <2>1, <2>5, <3>1, StatusWears DEF WearOff
  <2>6. ASSUME NEW l \in Logs, Watch(l) PROVE WearOff
    <3>1. UNCHANGED taskVars /\ UNCHANGED again /\ log[l] \in {"new", "found"}
          /\ \A k \in Logs : k # l => log'[k] = log[k]
      BY <2>1, <2>6 DEF Watch, Hunt, LogOf, EnqueueTransfer
    <3> QED BY <3>1 DEF WearOff, taskVars
  <2>7. ASSUME NEW l \in Logs, Transfer(l) PROVE WearOff
    <3>1. UNCHANGED taskVars
      BY <2>7 DEF Transfer, TransferFails, GetReceipt, StoreTransfer, ClearMark
    <3> QED BY <2>1, <2>7, <3>1, TransferWears DEF WearOff, taskVars
  <2> QED BY <2>2, <2>3, <2>4, <2>5, <2>6, <2>7 DEF Next
<1> QED BY <1>1, <1>2, Invariance, TypeCorrect, PTL DEF Spec
=============================================================================
