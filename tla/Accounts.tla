------------------------------- MODULE Accounts -------------------------------
(***************************************************************************)
(* Registration, wallets and e-mail verification: http/auth.go with        *)
(* usecases/user_usecases, the repositories of users and wallets, the      *)
(* cache of codes, and the task that mails a code                          *)
(* (tasks/send_email_verification.go).                                     *)
(*                                                                         *)
(* A registration is one database transaction: the user's row, an index    *)
(* from a Postgres sequence that the wallet's address is derived with, and *)
(* the wallet's row, without that index: NewWalletAccount drops it, and    *)
(* nothing that runs gives its column a default.  A rollback does not give *)
(* the values of a sequence back.                                          *)
(*                                                                         *)
(* A user stands for a username with its Gmail address.  A code is named   *)
(* after the call that had it mailed and the attempt of the task.  The     *)
(* logins, which look at the password only, change nothing.                *)
(***************************************************************************)
EXTENDS Integers, FiniteSets

CONSTANTS
  Users,
  Registers,  \* calls of RegisterUserHandler
  Mocks,      \* calls of MockLoginHandler, in development, that find no user
  Resends,    \* calls of ResendGmailVerificationCodeHandler
  Verifies,   \* calls of VerifyGmailVerificationCode
  Asking,     \* the users that the calls may be about: a set of functions
  MaxRetry    \* MaxRetry of the mail task

Creating == Registers \cup Mocks
Mailing == Registers \cup Resends
Calls == Creating \cup Resends \cup Verifies

ASSUME AskingAssumption == Asking \subseteq [Calls -> Users]
ASSUME RetryAssumption == MaxRetry \in Nat
ASSUME CallsAssumption == Creating \cap (Resends \cup Verifies) = {} /\ Resends \cap Verifies = {}

VARIABLES
  of,        \* of[c]: the user that call c is about
  call,      \* call[c]: how far the API has come with it
  seq,       \* wallet_address_index_seq
  path,      \* path[c]: the index that a registration derives the address with
  task,      \* task[c]: the mail task that call c enqueued
  tries,     \* tries[c]: the retries of that task so far
  mailed,    \* the codes that were mailed
  cached,    \* cached[u]: the code in Redis
  given,     \* given[c]: the code that verification c was given
  label,     \* label[u]: GmailVerificationStatus is "verified"
  verified   \* verified[u]: IsVerified

walletVars == <<seq, path>>
mailVars == <<task, tries, mailed>>
userVars == <<label, verified>>
vars == <<of, call, walletVars, mailVars, cached, given, userVars>>

Codes == Mailing \X (0 .. MaxRetry)
NoCode == <<"none", 0>>
ASSUME CodesAssumption == NoCode \notin Codes

InTransaction == {"user", "path", "wallet"}
CallStates == {"new", "committed", "allowed", "alive", "matched", "labelled", "done", "over"}
                \cup InTransaction
TaskStates == {"none", "queued", "mailed", "done", "archived"}

Registered(c) == c \in Creating /\ call[c] \in {"committed", "done"}
Exists(u) == \E c \in Creating : Registered(c) /\ of[c] = u
To(c, s) == call' = [call EXCEPT ![c] = s]

Init ==
  /\ of \in Asking
  /\ call = [c \in Calls |-> "new"]
  /\ seq = 0
  /\ path = [c \in Creating |-> 0]
  /\ task = [c \in Mailing |-> "none"]
  /\ tries = [c \in Mailing |-> 0]
  /\ mailed = {}
  /\ cached = [u \in Users |-> NoCode]
  /\ given = [c \in Verifies |-> NoCode]
  /\ label = [u \in Users |-> FALSE]
  /\ verified = [u \in Users |-> FALSE]

------------------------------------------------------------------------------
(* Register: one transaction.                                              *)

\* Mutant of CreateUser: no unique index on username and gmail.
CreateUserAgain(c) ==
  /\ call[c] = "new"
  /\ To(c, "user")
  /\ UNCHANGED <<of, walletVars, mailVars, cached, given, userVars>>

\* The user's row.  Username and gmail are unique: the insert waits for another
\* transaction that has inserted them, and fails when they are there.
CreateUser(c) ==
  /\ call[c] = "new"
  /\ ~Exists(of[c])
  /\ \A d \in Creating : of[d] = of[c] => call[d] \notin InTransaction
  /\ To(c, "user")
  /\ UNCHANGED <<of, walletVars, mailVars, cached, given, userVars>>

\* Mutant of NextAddressIndex: one more than the wallets there are.
CountWallets(c) ==
  /\ call[c] = "user"
  /\ path' = [path EXCEPT ![c] = 1 + Cardinality({d \in Creating : Registered(d)})]
  /\ To(c, "path")
  /\ UNCHANGED <<of, seq, mailVars, cached, given, userVars>>

\* GenerateWalletAddress: the address at the path that ends in this index.
GenerateWalletAddress(c, idx) == path' = [path EXCEPT ![c] = idx]

\* nextval, and the address.
NextAddressIndex(c) ==
  /\ call[c] = "user"
  /\ seq' = seq + 1
  /\ GenerateWalletAddress(c, seq')
  /\ To(c, "path")
  /\ UNCHANGED <<of, mailVars, cached, given, userVars>>

\* The wallet's row.
CreateNewWallet(c) ==
  /\ call[c] = "path"
  /\ To(c, "wallet")
  /\ UNCHANGED <<of, walletVars, mailVars, cached, given, userVars>>

\* The index that the row is read with, and that a withdrawal is signed with:
\* NewWalletAccount drops the one it is given, the field is never written, no
\* migration sets a default, and NULL is scanned as 0.
WalletAddressIndex(c) == 0

\* NewUser: the status is pending and IsVerified FALSE, unless the caller is
\* MockLoginHandler, which sets both.
NewUser(c) ==
  /\ label' = [label EXCEPT ![of[c]] = c \in Mocks]
  /\ verified' = [verified EXCEPT ![of[c]] = c \in Mocks]

\* The transaction is committed, and everyone sees the user.
Commit(c) ==
  /\ call[c] = "wallet"
  /\ To(c, "committed")
  /\ NewUser(c)
  /\ UNCHANGED <<of, walletVars, mailVars, cached, given>>

\* The body is refused, or the user is there already.
Refuse(c) ==
  /\ call[c] = "new"
  /\ To(c, "over")
  /\ UNCHANGED <<of, walletVars, mailVars, cached, given, userVars>>

\* A statement fails: everything is rolled back but the sequence.
Rollback(c) ==
  /\ call[c] \in InTransaction
  /\ To(c, "over")
  /\ UNCHANGED <<of, walletVars, mailVars, cached, given, userVars>>

------------------------------------------------------------------------------
(* The rest of the handlers.                                               *)

Queue(c) == task' = [task EXCEPT ![c] = "queued"]

\* ipinfo has answered, and EnqueueEmailVerificationCodeTask puts the task into
\* its queue, or fails.
AskForMail(c, from) ==
  /\ c \in Mailing
  /\ call[c] = from
  /\ Queue(c) \/ UNCHANGED task
  /\ To(c, "done")
  /\ UNCHANGED <<of, walletVars, tries, mailed, cached, given, userVars>>

\* The user is there and not verified, and no code is alive.
AllowResend(c) ==
  /\ c \in Resends
  /\ call[c] = "new"
  /\ Exists(of[c]) /\ ~verified[of[c]]
  /\ cached[of[c]] = NoCode
  /\ To(c, "allowed")
  /\ UNCHANGED <<of, walletVars, mailVars, cached, given, userVars>>

\* The user is there, and the code in Redis has time left.
FindCode(c) ==
  /\ c \in Verifies
  /\ call[c] = "new"
  /\ Exists(of[c])
  /\ cached[of[c]] # NoCode
  /\ To(c, "alive")
  /\ UNCHANGED <<of, walletVars, mailVars, cached, given, userVars>>

\* The code is read in a second call, by when it may be another one or none,
\* and is the one given.
MatchCode(c, code) ==
  /\ c \in Verifies
  /\ call[c] = "alive"
  /\ cached[of[c]] = code
  /\ given' = [given EXCEPT ![c] = code]
  /\ To(c, "matched")
  /\ UNCHANGED <<of, walletVars, mailVars, cached, userVars>>

\* UpdateGmailVerificationStatus is two statements.
Label(c) ==
  /\ call[c] = "matched"
  /\ label' = [label EXCEPT ![of[c]] = TRUE]
  /\ To(c, "labelled")
  /\ UNCHANGED <<of, walletVars, mailVars, cached, given, verified>>

SetVerified(c) ==
  /\ call[c] = "labelled"
  /\ verified' = [verified EXCEPT ![of[c]] = TRUE]
  /\ To(c, "done")
  /\ UNCHANGED <<of, walletVars, mailVars, cached, given, label>>

\* The API process ends: an error of ipinfo is fatal in two of the handlers.
\* Open transactions are rolled back.
Die ==
  /\ call' = [c \in Calls |-> IF call[c] = "committed" THEN "done"
                              ELSE IF call[c] \in {"new", "done"} THEN call[c]
                              ELSE "over"]
  /\ call' # call
  /\ UNCHANGED <<of, walletVars, mailVars, cached, given, userVars>>

------------------------------------------------------------------------------
(* HandleEmailVerificationCodeSendOp, on a worker, and Redis.              *)

Code(c) == <<c, tries[c]>>

\* Mutant of Retry: the limit is one too high.
RetryOneMore(c) ==
  /\ task' = [task EXCEPT ![c] = IF tries[c] <= MaxRetry THEN "queued" ELSE "archived"]
  /\ tries' = [tries EXCEPT ![c] = IF tries[c] <= MaxRetry THEN @ + 1 ELSE @]

Retry(c) ==
  /\ task' = [task EXCEPT ![c] = IF tries[c] < MaxRetry THEN "queued" ELSE "archived"]
  /\ tries' = [tries EXCEPT ![c] = IF tries[c] < MaxRetry THEN @ + 1 ELSE @]

\* Mutant of SendMail: the code is cached before the mail goes out.
SendMailLate(c) ==
  /\ task[c] = "queued"
  /\ cached' = [cached EXCEPT ![of[c]] = Code(c)]
  /\ task' = [task EXCEPT ![c] = "mailed"]
  /\ UNCHANGED <<of, call, walletVars, tries, mailed, given, userVars>>

\* A new code, and SendAuthVerificationCode.
SendMail(c) ==
  /\ task[c] = "queued"
  /\ mailed' = mailed \cup {Code(c)}
  /\ task' = [task EXCEPT ![c] = "mailed"]
  /\ UNCHANGED <<of, call, walletVars, tries, cached, given, userVars>>

\* The mail server answers an error, with the mail on its way or not; Redis
\* does; or the worker stops.
MailFails(c) ==
  /\ task[c] \in {"queued", "mailed"}
  /\ mailed' \in {mailed, mailed \cup {Code(c)}}
  /\ Retry(c)
  /\ UNCHANGED <<of, call, walletVars, cached, given, userVars>>

\* SetGmailVerificationCode, over any code that was there.  The worker may
\* stop, or be answered an error, before the task counts as done.
SetCode(c) ==
  /\ task[c] = "mailed"
  /\ cached' = [cached EXCEPT ![of[c]] = Code(c)]
  /\ \/ task' = [task EXCEPT ![c] = "done"] /\ UNCHANGED tries
     \/ Retry(c)
  /\ UNCHANGED <<of, call, walletVars, mailed, given, userVars>>

\* The TTL of the code, one minute, is over.
Expire(u) ==
  /\ cached[u] # NoCode
  /\ cached' = [cached EXCEPT ![u] = NoCode]
  /\ UNCHANGED <<of, call, walletVars, mailVars, given, userVars>>

------------------------------------------------------------------------------
Register(c) == \/ Refuse(c) \/ CreateUser(c) \/ NextAddressIndex(c)
               \/ CreateNewWallet(c) \/ Commit(c) \/ Rollback(c)
RegisterUser(c) == Register(c) \/ AskForMail(c, "committed")
MockLogin(c) == Register(c)
Resend(c) == AllowResend(c) \/ AskForMail(c, "allowed")
Verify(c) == \/ FindCode(c) \/ (\E code \in Codes : MatchCode(c, code))
             \/ Label(c) \/ SetVerified(c)
Mail(c) == SendMail(c) \/ MailFails(c) \/ SetCode(c)

Next == \/ \E c \in Registers : RegisterUser(c)
        \/ \E c \in Mocks : MockLogin(c)
        \/ \E c \in Resends : Resend(c)
        \/ \E c \in Verifies : Verify(c)
        \/ \E c \in Mailing : Mail(c)
        \/ \E u \in Users : Expire(u)
        \/ Die

Spec == Init /\ [][Next]_vars

------------------------------------------------------------------------------
(* What an account promises.                                               *)

\* Type invariant: calls, tasks, codes and flags; no task is retried more often
\* than its limit.
TypeOK ==
  /\ of \in [Calls -> Users]
  /\ call \in [Calls -> CallStates]
  /\ seq \in Nat
  /\ path \in [Creating -> Nat]
  /\ task \in [Mailing -> TaskStates]
  /\ tries \in [Mailing -> 0 .. MaxRetry]
  /\ mailed \subseteq Codes
  /\ cached \in [Users -> Codes \cup {NoCode}]
  /\ given \in [Verifies -> Codes \cup {NoCode}]
  /\ label \in [Users -> BOOLEAN]
  /\ verified \in [Users -> BOOLEAN]

\* Whatever registrations race, fail or are rolled back, a user is registered
\* by one of them only, and so has one wallet.
RegisteredOnce ==
  \A c, d \in Creating : Registered(c) /\ Registered(d) /\ of[c] = of[d] => c = d

\* No two wallets have the same address, whatever is rolled back or races, and
\* the one index that every withdrawal is signed with is that of nobody's
\* address: no transfer is signed with the key of a user's wallet.
KeysAreApart ==
  \A c, d \in Creating : Registered(c) /\ Registered(d) =>
    /\ c # d => path[c] # path[d]
    /\ WalletAddressIndex(c) # path[d]

ByMock(u) == \E c \in Mocks : Registered(c) /\ of[c] = u
ByMail(u) == \E c \in Verifies : /\ of[c] = u
                                 /\ given[c] \in mailed
                                 /\ of[given[c][1]] = u

\* A user is marked verified only after a code that was mailed to their address
\* was given for them (or by the mock login): whichever task ran last, and
\* whichever failed, no code is alive that was not mailed.  IsVerified, which
\* refuses another code, is never set without the status that goes with it.
VerifiedByMail ==
  \A u \in Users : /\ verified[u] => label[u]
                   /\ label[u] => ByMock(u) \/ ByMail(u)

===============================================================================
