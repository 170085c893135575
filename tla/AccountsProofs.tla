--------------------------- MODULE AccountsProofs ---------------------------
(***************************************************************************)
(* Proofs about Accounts, for every set of users and calls and every limit *)
(* of retries: a user is registered once, keys are apart, nobody is        *)
(* verified without a code that was mailed to them, and accounts keep what *)
(* they have.                                                              *)
(*                                                                         *)
(* RegisteredOnce needs the open transactions to exclude each other as     *)
(* well.  KeysAreApart needs the sequence: every index drawn so far, also  *)
(* by a registration that was rolled back, is at most its value, and no    *)
(* two are the same.  VerifiedByMail needs to follow a code from the mail  *)
(* through the cache to the call that gives it, and that the row it marks  *)
(* cannot be replaced by that of a new registration meanwhile.             *)
(***************************************************************************)
EXTENDS Accounts, TLAPS

\* A registration is in its transaction or has been committed.
Holds(c) == call[c] \in InTransaction \cup {"committed", "done"}

\* At most one of them holds a user.
OneHolder == \A c, d \in Creating : Holds(c) /\ Holds(d) /\ of[c] = of[d] => c = d

\* What was drawn from the sequence.
Drawn ==
  /\ \A c \in Creating : path[c] <= seq
  /\ \A c, d \in Creating : c # d /\ path[c] # 0 => path[c] # path[d]

\* A registration that has come so far has drawn.
HasDrawn ==
  \A c \in Creating : call[c] \in {"path", "wallet", "committed", "done"} => path[c] # 0

\* The code was mailed to this user.
MailedTo(code, u) == code \in mailed /\ of[code[1]] = u

\* Codes are mailed before they are cached, and cached before they are given.
CodesFollowed ==
  /\ \A c \in Mailing : task[c] = "mailed" => Code(c) \in mailed
  /\ \A u \in Users : cached[u] # NoCode => MailedTo(cached[u], u)

\* A verification under way is about a user who is there.
Verifying ==
  \A c \in Verifies :
    /\ call[c] = "alive" => Exists(of[c])
    /\ call[c] \in {"matched", "labelled"} => Exists(of[c]) /\ MailedTo(given[c], of[c])
    /\ call[c] = "labelled" => label[of[c]]

Inv == /\ TypeOK /\ OneHolder /\ Drawn /\ HasDrawn /\ CodesFollowed
       /\ Verifying /\ VerifiedByMail

------------------------------------------------------------------------------
(* The parts of a step.                                                    *)

\* Calls keep to their kinds.
LEMMA Kinds ==
  /\ \A c \in Creating : c \in Calls /\ c \notin Resends /\ c \notin Verifies
  /\ \A c \in Resends : c \in Calls /\ c \notin Creating /\ c \notin Verifies
  /\ \A c \in Verifies : c \in Calls /\ c \notin Creating /\ c \notin Resends
  /\ \A c \in Mailing : c \in Calls
BY CallsAssumption DEF Calls, Creating, Mailing

\* A call that goes on has the type of a call.
LEMMA ToType ==
  ASSUME TypeOK, NEW c \in Calls, NEW s \in CallStates, To(c, s)
  PROVE  /\ call' \in [Calls -> CallStates]
         /\ call'[c] = s
         /\ \A d \in Calls : d # c => call'[d] = call[d]
BY DEF TypeOK, To

\* What was mailed to a user stays so.
LEMMA MailStays ==
  ASSUME UNCHANGED of, mailed \subseteq mailed'
  PROVE  \A code, u : MailedTo(code, u) => MailedTo(code, u)'
BY DEF MailedTo

\* A user who exists stays.
LEMMA ExistsStays ==
  ASSUME UNCHANGED of, \A c \in Creating : Registered(c) => Registered(c)'
  PROVE  /\ \A u : Exists(u) => Exists(u)'
         /\ \A u : ByMock(u) => ByMock(u)'
BY DEF Exists, ByMock, Creating

\* No registration begins or is committed, no index is drawn, no flag set and
\* no code given: what is left can only end calls, mail codes or drop them.
LEMMA QuietInv ==
  ASSUME Inv, TypeOK', CodesFollowed',
         UNCHANGED <<of, walletVars, given, userVars>>, mailed \subseteq mailed',
         \A c \in Creating : \/ call'[c] = call[c]
                             \/ call'[c] = "over" /\ ~Registered(c)
                             \/ call[c] = "committed" /\ call'[c] = "done",
         \A c \in Verifies : \/ call'[c] = call[c] \/ call'[c] \in {"done", "over"}
                             \/ call'[c] = "alive" /\ Exists(of[c])
  PROVE  Inv'
<1>1. \A c \in Creating : Registered(c) => Registered(c)'
  BY DEF Registered
<1>2. OneHolder' /\ Drawn' /\ HasDrawn'
  <2>1. \A c \in Creating : Holds(c)' => Holds(c)
    BY DEF Holds, InTransaction
  <2>2. OneHolder' /\ Drawn'
    BY <2>1 DEF Inv, OneHolder, Drawn, walletVars
  <2>3. HasDrawn'
    BY DEF Inv, HasDrawn, walletVars
  <2> QED BY <2>2, <2>3
<1>3. Verifying'
  <2> SUFFICES ASSUME NEW c \in Verifies
               PROVE  /\ call'[c] = "alive" => Exists(of[c])'
                      /\ call'[c] \in {"matched", "labelled"} =>
                           Exists(of[c])' /\ MailedTo(given[c], of[c])'
                      /\ call'[c] = "labelled" => label'[of'[c]]
    BY DEF Verifying
  <2>1. /\ call'[c] \in {"matched", "labelled"} => call'[c] = call[c]
        /\ call'[c] = "alive" => call'[c] = call[c] \/ Exists(of[c])
    OBVIOUS
  <2>2. /\ call[c] = "alive" => Exists(of[c])
        /\ call[c] \in {"matched", "labelled"} => Exists(of[c]) /\ MailedTo(given[c], of[c])
        /\ call[c] = "labelled" => label[of[c]]
    BY DEF Inv, Verifying
  <2>3. Exists(of[c]) => Exists(of[c])'
    BY <1>1, ExistsStays
  <2>4. MailedTo(given[c], of[c]) => MailedTo(given[c], of[c])'
    BY DEF MailedTo
  <2> QED BY <2>1, <2>2, <2>3, <2>4 DEF userVars
<1>4. VerifiedByMail'
  <2>1. \A u \in Users : ByMock(u) => ByMock(u)'
    BY <1>1, ExistsStays
  <2>2. \A u \in Users : ByMail(u) => ByMail(u)'
    BY DEF ByMail
  <2> QED BY <2>1, <2>2 DEF Inv, VerifiedByMail, userVars
<1> QED BY <1>2, <1>3, <1>4 DEF Inv

------------------------------------------------------------------------------
(* Registration.                                                           *)

\* The insert excludes every other holder of the user.
LEMMA CreateUserInv == ASSUME Inv, NEW c \in Creating, CreateUser(c) PROVE Inv'
<1>1. c \in Calls /\ "user" \in CallStates
  BY Kinds DEF CallStates, InTransaction
<1>2. /\ call' \in [Calls -> CallStates] /\ call'[c] = "user"
      /\ \A d \in Calls : d # c => call'[d] = call[d]
  BY <1>1, ToType DEF CreateUser, Inv
<1>3. TypeOK'
  BY <1>2 DEF CreateUser, Inv, TypeOK, walletVars, mailVars, userVars
<1>4. OneHolder'
  <2>1. \A d \in Creating : d # c /\ Holds(d)' => Holds(d) /\ of[d] # of[c]
    BY <1>2, Kinds DEF CreateUser, Holds, Exists, Registered
  <2>2. \A d, e \in Creating : d # c /\ e # c /\ Holds(d)' /\ Holds(e)' /\ of[d] = of[e] => d = e
    BY <2>1 DEF Inv, OneHolder
  <2> QED BY <2>1, <2>2 DEF OneHolder, CreateUser
<1>5. Drawn' /\ HasDrawn'
  <2>1. UNCHANGED <<path, seq>>
    BY DEF CreateUser, walletVars
  <2> QED BY <1>2, <2>1, Kinds DEF Inv, Drawn, HasDrawn
<1>6. CodesFollowed'
  BY DEF CreateUser, Inv, CodesFollowed, MailedTo, Code, mailVars
<1>7. \A d \in Creating : Registered(d) => Registered(d)'
  BY <1>2, Kinds DEF CreateUser, Registered
<1>8. Verifying' /\ VerifiedByMail'
  <2>1. UNCHANGED <<of, given, mailed, label, verified>>
    BY DEF CreateUser, userVars, mailVars
  <2>2. \A u : (Exists(u) => Exists(u)') /\ (ByMock(u) => ByMock(u)')
    BY <1>7, <2>1, ExistsStays
  <2>3. \A d \in Verifies : call'[d] = call[d]
    BY <1>2, Kinds
  <2>4. Verifying'
    BY <2>1, <2>2, <2>3 DEF Inv, Verifying, MailedTo
  <2>5. VerifiedByMail'
    BY <2>1, <2>2 DEF Inv, VerifiedByMail, ByMail
  <2> QED BY <2>4, <2>5
<1> QED BY <1>3, <1>4, <1>5, <1>6, <1>8 DEF Inv

\* The steps of the transaction between the insert of the user and the commit.
LEMMA DrawInv ==
  ASSUME Inv, NEW c \in Creating, NextAddressIndex(c) \/ CreateNewWallet(c)
  PROVE  Inv'
<1>1. /\ call' \in [Calls -> CallStates] /\ call[c] \in {"user", "path"}
      /\ call'[c] = IF call[c] = "user" THEN "path" ELSE "wallet"
      /\ \A d \in Calls : d # c => call'[d] = call[d]
  <2>1. c \in Calls /\ "path" \in CallStates /\ "wallet" \in CallStates
    BY Kinds DEF CallStates, InTransaction
  <2> QED BY <2>1, ToType DEF NextAddressIndex, CreateNewWallet, Inv
<1>2. /\ seq \in Nat /\ path \in [Creating -> Nat]
      /\ \/ call[c] = "user" /\ seq' = seq + 1 /\ path' = [path EXCEPT ![c] = seq + 1]
         \/ call[c] = "path" /\ seq' = seq /\ path' = path
  BY DEF NextAddressIndex, CreateNewWallet, GenerateWalletAddress, walletVars, Inv, TypeOK
<1>3. UNCHANGED <<of, task, tries, mailed, cached, given, label, verified>>
  BY DEF NextAddressIndex, CreateNewWallet, mailVars, userVars
<1>4. TypeOK'
  <2>1. seq' \in Nat /\ path' \in [Creating -> Nat]
    BY <1>2
  <2> QED BY <1>1, <1>3, <2>1 DEF Inv, TypeOK
<1>5. OneHolder'
  <2>1. \A d \in Creating : Holds(d)' => Holds(d)
    BY <1>1, Kinds DEF Holds, InTransaction
  <2> QED BY <1>3, <2>1 DEF Inv, OneHolder
<1>6. Drawn'
  <2>1. /\ \A d \in Creating : path[d] \in Nat /\ path[d] <= seq
        /\ \A d, e \in Creating : d # e /\ path[d] # 0 => path[d] # path[e]
    BY <1>2 DEF Inv, Drawn
  <2>2. CASE call[c] = "user"
    BY <1>2, <2>1, <2>2 DEF Drawn
  <2>3. CASE call[c] = "path"
    BY <1>2, <2>1, <2>3 DEF Drawn
  <2> QED BY <1>1, <2>2, <2>3
<1>7. HasDrawn'
  <2> SUFFICES ASSUME NEW d \in Creating
               PROVE  call'[d] \in {"path", "wallet", "committed", "done"} => path'[d] # 0
    BY DEF HasDrawn
  <2>1. call[d] \in {"path", "wallet", "committed", "done"} => path[d] # 0
    BY DEF Inv, HasDrawn
  <2>2. CASE d = c
    BY <1>1, <1>2, <2>1, <2>2
  <2>3. CASE d # c
    BY <1>1, <1>2, <2>1, <2>3, Kinds
  <2> QED BY <2>2, <2>3
<1>8. CodesFollowed'
  BY <1>3 DEF Inv, CodesFollowed, MailedTo, Code
<1>9. Verifying' /\ VerifiedByMail'
  <2>1. \A d \in Creating : Registered(d) => Registered(d)'
    BY <1>1, Kinds DEF Registered
  <2>2. \A u : (Exists(u) => Exists(u)') /\ (ByMock(u) => ByMock(u)')
    BY <1>3, <2>1, ExistsStays
  <2>3. \A d \in Verifies : call'[d] = call[d]
    BY <1>1, Kinds
  <2>4. Verifying'
    BY <1>3, <2>2, <2>3 DEF Inv, Verifying, MailedTo
  <2>5. VerifiedByMail'
    BY <1>3, <2>2 DEF Inv, VerifiedByMail, ByMail
  <2> QED BY <2>4, <2>5
<1> QED BY <1>4, <1>5, <1>6, <1>7, <1>8, <1>9 DEF Inv

\* The commit: no verification is under way for a user that is not there yet,
\* so that setting the flags of the new row resets nobody.
LEMMA CommitInv == ASSUME Inv, NEW c \in Creating, Commit(c) PROVE Inv'
<1>1. /\ call' \in [Calls -> CallStates]
      /\ call[c] = "wallet" /\ call'[c] = "committed"
      /\ \A d \in Calls : d # c => call'[d] = call[d]
  <2>1. c \in Calls /\ "committed" \in CallStates
    BY Kinds DEF CallStates
  <2> QED BY <2>1, ToType DEF Commit, Inv
<1>2. UNCHANGED <<of, seq, path, task, tries, mailed, cached, given>>
  BY DEF Commit, walletVars, mailVars
<1>3. /\ label' = [label EXCEPT ![of[c]] = c \in Mocks]
      /\ verified' = [verified EXCEPT ![of[c]] = c \in Mocks]
  BY DEF Commit, NewUser
<1>4. /\ label \in [Users -> BOOLEAN] /\ verified \in [Users -> BOOLEAN]
      /\ of[c] \in Users
  BY Kinds DEF Inv, TypeOK
<1>5. TypeOK'
  <2>1. label' \in [Users -> BOOLEAN] /\ verified' \in [Users -> BOOLEAN]
    BY <1>3, <1>4
  <2> QED BY <1>1, <1>2, <2>1 DEF Inv, TypeOK
<1>6. OneHolder'
  <2>1. \A d \in Creating : Holds(d)' => Holds(d)
    BY <1>1, Kinds DEF Holds, InTransaction
  <2> QED BY <1>2, <2>1 DEF Inv, OneHolder
<1>7. Drawn' /\ HasDrawn' /\ CodesFollowed'
  <2>1. Drawn' /\ CodesFollowed'
    BY <1>2 DEF Inv, Drawn, CodesFollowed, MailedTo, Code
  <2>2. HasDrawn'
    BY <1>1, <1>2, Kinds DEF Inv, HasDrawn
  <2> QED BY <2>1, <2>2
<1>8. \A d \in Creating : Registered(d) => Registered(d)'
  BY <1>1, Kinds DEF Registered
<1>9. \A u : (Exists(u) => Exists(u)') /\ (ByMock(u) => ByMock(u)')
  BY <1>2, <1>8, ExistsStays
<1>10. ~Exists(of[c])
  BY <1>1 DEF Inv, OneHolder, Holds, InTransaction, Exists, Registered
<1>11. Verifying'
  <2> SUFFICES ASSUME NEW d \in Verifies
               PROVE  /\ call'[d] = "alive" => Exists(of[d])'
                      /\ call'[d] \in {"matched", "labelled"} =>
                           Exists(of[d])' /\ MailedTo(given[d], of[d])'
                      /\ call'[d] = "labelled" => label'[of'[d]]
    BY DEF Verifying
  <2>1. call'[d] = call[d]
    BY <1>1, Kinds
  <2>2. /\ call[d] = "alive" => Exists(of[d])
        /\ call[d] \in {"matched", "labelled"} => Exists(of[d]) /\ MailedTo(given[d], of[d])
        /\ call[d] = "labelled" => label[of[d]]
    BY DEF Inv, Verifying
  <2>3. call[d] = "labelled" => of[d] # of[c]
    BY <1>10, <2>2
  <2>4. Exists(of[d]) => Exists(of[d])'
    BY <1>2, <1>9
  <2>5. MailedTo(given[d], of[d]) => MailedTo(given[d], of[d])'
    BY <1>2 DEF MailedTo
  <2>6. of[d] \in Users
    BY Kinds DEF Inv, TypeOK
  <2> QED BY <1>2, <1>3, <1>4, <2>1, <2>2, <2>3, <2>4, <2>5, <2>6
<1>12. VerifiedByMail'
  <2> SUFFICES ASSUME NEW u \in Users
               PROVE  /\ verified'[u] => label'[u]
                      /\ label'[u] => ByMock(u)' \/ ByMail(u)'
    BY DEF VerifiedByMail
  <2>1. (verified[u] => label[u]) /\ (label[u] => ByMock(u) \/ ByMail(u))
    BY DEF Inv, VerifiedByMail
  <2>2. CASE u = of[c]
    <3>1. c \in Mocks => ByMock(u)'
      BY <1>1, <1>2, <2>2 DEF ByMock, Registered
    <3>2. (label'[u] <=> c \in Mocks) /\ (verified'[u] <=> c \in Mocks)
      BY <1>3, <1>4, <2>2
    <3> QED BY <3>1, <3>2
  <2>3. CASE u # of[c]
    <3>1. label'[u] = label[u] /\ verified'[u] = verified[u]
      BY <1>3, <1>4, <2>3
    <3>2. ByMail(u) => ByMail(u)'
      BY <1>2 DEF ByMail
    <3> QED BY <1>9, <2>1, <3>1, <3>2
  <2> QED BY <2>2, <2>3
<1> QED BY <1>5, <1>6, <1>7, <1>11, <1>12 DEF Inv

------------------------------------------------------------------------------
(* Verification.                                                           *)

\* A code is matched with the cached one, which was mailed to the user.
LEMMA MatchInv ==
  ASSUME Inv, NEW c \in Verifies, NEW code \in Codes, MatchCode(c, code)
  PROVE  Inv'
<1>1. /\ call' \in [Calls -> CallStates] /\ call'[c] = "matched"
      /\ \A d \in Calls : d # c => call'[d] = call[d]
  <2>1. c \in Calls /\ "matched" \in CallStates
    BY Kinds DEF CallStates
  <2> QED BY <2>1, ToType DEF MatchCode, Inv
<1>2. /\ UNCHANGED <<of, seq, path, task, tries, mailed, cached, label, verified>>
      /\ given' = [given EXCEPT ![c] = code]
      /\ given \in [Verifies -> Codes \cup {NoCode}]
      /\ Exists(of[c])
  BY DEF MatchCode, walletVars, mailVars, userVars, Inv, TypeOK, Verifying
<1>3. TypeOK'
  <2>1. given' \in [Verifies -> Codes \cup {NoCode}]
    BY <1>2
  <2> QED BY <1>1, <1>2, <2>1 DEF Inv, TypeOK
<1>4. \A d \in Creating : call'[d] = call[d]
  BY <1>1, Kinds
<1>5. OneHolder' /\ Drawn' /\ HasDrawn' /\ CodesFollowed'
  <2>1. OneHolder'
    BY <1>2, <1>4 DEF Inv, OneHolder, Holds
  <2>2. Drawn' /\ HasDrawn'
    BY <1>2, <1>4 DEF Inv, Drawn, HasDrawn
  <2>3. CodesFollowed'
    BY <1>2 DEF Inv, CodesFollowed, MailedTo, Code
  <2> QED BY <2>1, <2>2, <2>3
<1>6. \A u : (Exists(u) => Exists(u)') /\ (ByMock(u) => ByMock(u)')
  <2>1. \A d \in Creating : Registered(d) => Registered(d)'
    BY <1>4 DEF Registered
  <2> QED BY <1>2, <2>1, ExistsStays
<1>7. MailedTo(code, of[c])
  <2>1. of[c] \in Users
    BY Kinds DEF Inv, TypeOK
  <2>2. cached[of[c]] = code /\ code # NoCode
    BY CodesAssumption DEF MatchCode
  <2> QED BY <2>1, <2>2 DEF Inv, CodesFollowed
<1>8. Verifying'
  <2> SUFFICES ASSUME NEW d \in Verifies
               PROVE  /\ call'[d] = "alive" => Exists(of[d])'
                      /\ call'[d] \in {"matched", "labelled"} =>
                           Exists(of[d])' /\ MailedTo(given[d], of[d])'
                      /\ call'[d] = "labelled" => label'[of'[d]]
    BY DEF Verifying
  <2>1. CASE d = c
    <3>1. MailedTo(given[d], of[d])'
      BY <1>2, <1>7, <2>1 DEF MailedTo
    <3>2. Exists(of[d])'
      BY <1>2, <1>6, <2>1
    <3> QED BY <1>1, <2>1, <3>1, <3>2
  <2>2. CASE d # c
    <3>1. call'[d] = call[d] /\ given'[d] = given[d]
      BY <1>1, <1>2, <2>2, Kinds
    <3>2. /\ call[d] = "alive" => Exists(of[d])
          /\ call[d] \in {"matched", "labelled"} => Exists(of[d]) /\ MailedTo(given[d], of[d])
          /\ call[d] = "labelled" => label[of[d]]
      BY DEF Inv, Verifying
    <3>3. MailedTo(given[d], of[d]) => MailedTo(given[d], of[d])'
      BY <1>2, <3>1 DEF MailedTo
    <3>4. Exists(of[d]) => Exists(of[d])'
      BY <1>2, <1>6
    <3> QED BY <1>2, <3>1, <3>2, <3>3, <3>4
  <2> QED BY <2>1, <2>2
<1>9. VerifiedByMail'
  <2>1. \A u \in Users : ByMail(u) => ByMail(u)'
    <3> SUFFICES ASSUME NEW u \in Users, NEW d \in Verifies,
                        of[d] = u, given[d] \in mailed, of[given[d][1]] = u
                 PROVE  ByMail(u)'
      BY DEF ByMail
    <3>1. given'[d] \in mailed /\ of[given'[d][1]] = u
      BY <1>2, <1>7 DEF MailedTo
    <3> QED BY <1>2, <3>1 DEF ByMail
  <2> QED BY <1>2, <1>6, <2>1 DEF Inv, VerifiedByMail
<1> QED BY <1>3, <1>5, <1>8, <1>9 DEF Inv

\* The two updates of the row, the status first.
LEMMA FlagsInv ==
  ASSUME Inv, NEW c \in Verifies, Label(c) \/ SetVerified(c)
  PROVE  Inv'
<1>1. /\ call' \in [Calls -> CallStates] /\ call[c] \in {"matched", "labelled"}
      /\ call'[c] = IF call[c] = "matched" THEN "labelled" ELSE "done"
      /\ \A d \in Calls : d # c => call'[d] = call[d]
  <2>1. c \in Calls /\ "labelled" \in CallStates /\ "done" \in CallStates
    BY Kinds DEF CallStates
  <2> QED BY <2>1, ToType DEF Label, SetVerified, Inv
<1>2. /\ UNCHANGED <<of, seq, path, task, tries, mailed, cached, given>>
      /\ \/ call[c] = "matched" /\ label' = [label EXCEPT ![of[c]] = TRUE]
            /\ verified' = verified
         \/ call[c] = "labelled" /\ verified' = [verified EXCEPT ![of[c]] = TRUE]
            /\ label' = label
  BY DEF Label, SetVerified, walletVars, mailVars
<1>3. /\ label \in [Users -> BOOLEAN] /\ verified \in [Users -> BOOLEAN]
      /\ of \in [Calls -> Users] /\ of[c] \in Users
  BY Kinds DEF Inv, TypeOK
<1>4. TypeOK'
  <2>1. label' \in [Users -> BOOLEAN] /\ verified' \in [Users -> BOOLEAN]
    BY <1>2, <1>3
  <2> QED BY <1>1, <1>2, <2>1 DEF Inv, TypeOK
<1>5. \A d \in Creating : call'[d] = call[d]
  BY <1>1, Kinds
<1>6. OneHolder' /\ Drawn' /\ HasDrawn' /\ CodesFollowed'
  <2>1. OneHolder'
    BY <1>2, <1>5 DEF Inv, OneHolder, Holds
  <2>2. Drawn' /\ HasDrawn'
    BY <1>2, <1>5 DEF Inv, Drawn, HasDrawn
  <2>3. CodesFollowed'
    BY <1>2 DEF Inv, CodesFollowed, MailedTo, Code
  <2> QED BY <2>1, <2>2, <2>3
<1>7. \A u : (Exists(u) => Exists(u)') /\ (ByMock(u) => ByMock(u)')
  <2>1. \A d \in Creating : Registered(d) => Registered(d)'
    BY <1>5 DEF Registered
  <2> QED BY <1>2, <2>1, ExistsStays
<1>8. Exists(of[c]) /\ MailedTo(given[c], of[c]) /\ (call[c] = "labelled" => label[of[c]])
  BY <1>1 DEF Inv, Verifying
<1>9. \A u \in Users : label[u] => label'[u]
  BY <1>2, <1>3
<1>10. Verifying'
  <2> SUFFICES ASSUME NEW d \in Verifies
               PROVE  /\ call'[d] = "alive" => Exists(of[d])'
                      /\ call'[d] \in {"matched", "labelled"} =>
                           Exists(of[d])' /\ MailedTo(given[d], of[d])'
                      /\ call'[d] = "labelled" => label'[of'[d]]
    BY DEF Verifying
  <2>1. /\ call[d] = "alive" => Exists(of[d])
        /\ call[d] \in {"matched", "labelled"} => Exists(of[d]) /\ MailedTo(given[d], of[d])
        /\ call[d] = "labelled" => label[of[d]]
    BY DEF Inv, Verifying
  <2>2. /\ call'[d] \in {"matched", "labelled"} => call[d] \in {"matched", "labelled"}
        /\ call'[d] = "alive" => call[d] = "alive"
    BY <1>1, Kinds
  <2>3. MailedTo(given[d], of[d]) => MailedTo(given[d], of[d])'
    BY <1>2 DEF MailedTo
  <2>4. Exists(of[d]) => Exists(of[d])'
    BY <1>2, <1>7
  <2>5. call'[d] = "labelled" => label'[of[d]]
    <3>1. CASE d = c
      BY <1>1, <1>2, <1>3, <3>1
    <3>2. CASE d # c
      BY <1>1, <1>3, <1>9, <2>1, <3>2, Kinds
    <3> QED BY <3>1, <3>2
  <2> QED BY <1>2, <2>1, <2>2, <2>3, <2>4, <2>5
<1>11. VerifiedByMail'
  <2> SUFFICES ASSUME NEW u \in Users
               PROVE  /\ verified'[u] => label'[u]
                      /\ label'[u] => ByMock(u)' \/ ByMail(u)'
    BY DEF VerifiedByMail
  <2>1. (verified[u] => label[u]) /\ (label[u] => ByMock(u) \/ ByMail(u))
    BY DEF Inv, VerifiedByMail
  <2>2. ByMail(u) => ByMail(u)'
    BY <1>2 DEF ByMail
  <2>3. ByMail(of[c])
    BY <1>8 DEF MailedTo, ByMail
  <2>4. verified'[u] => label'[u]
    BY <1>2, <1>3, <1>8, <1>9, <2>1
  <2>5. label'[u] => label[u] \/ u = of[c]
    BY <1>2, <1>3
  <2> QED BY <1>7, <2>1, <2>2, <2>3, <2>4, <2>5
<1> QED BY <1>4, <1>6, <1>10, <1>11 DEF Inv

\* The first read of the code.
LEMMA FindInv == ASSUME Inv, NEW c \in Verifies, FindCode(c) PROVE Inv'
<1>1. /\ call' \in [Calls -> CallStates] /\ call'[c] = "alive"
      /\ \A d \in Calls : d # c => call'[d] = call[d]
  <2>1. c \in Calls /\ "alive" \in CallStates
    BY Kinds DEF CallStates
  <2> QED BY <2>1, ToType DEF FindCode, Inv
<1>2. TypeOK' /\ CodesFollowed'
  BY <1>1 DEF FindCode, Inv, TypeOK, CodesFollowed, MailedTo, Code, walletVars, mailVars, userVars
<1>3. \A d \in Creating : call'[d] = call[d]
  BY <1>1, Kinds
<1>4. \A d \in Verifies : call'[d] = call[d] \/ (call'[d] = "alive" /\ Exists(of[d]))
  BY <1>1, Kinds DEF FindCode
<1> QED BY <1>2, <1>3, <1>4, QuietInv DEF FindCode, mailVars

------------------------------------------------------------------------------
(* Mail, and the ends of calls.                                            *)

\* A task that goes on has the type of a task.
LEMMA RetryType ==
  ASSUME TypeOK, NEW c \in Mailing, Retry(c)
  PROVE  /\ task' \in [Mailing -> TaskStates]
         /\ tries' \in [Mailing -> 0 .. MaxRetry]
         /\ task'[c] # "mailed"
         /\ \A d \in Mailing : d # c => task'[d] = task[d] /\ tries'[d] = tries[d]
<1>1. task \in [Mailing -> TaskStates] /\ tries \in [Mailing -> 0 .. MaxRetry]
  BY DEF TypeOK
<1>2. tries[c] \in 0 .. MaxRetry /\ (tries[c] < MaxRetry => tries[c] + 1 \in 0 .. MaxRetry)
  BY <1>1, RetryAssumption
<1>3. tries' \in [Mailing -> 0 .. MaxRetry]
  BY <1>1, <1>2 DEF Retry
<1>4. task' \in [Mailing -> TaskStates] /\ task'[c] # "mailed"
  BY <1>1 DEF Retry, TaskStates
<1>5. \A d \in Mailing : d # c => task'[d] = task[d] /\ tries'[d] = tries[d]
  BY <1>1 DEF Retry
<1> QED BY <1>3, <1>4, <1>5

\* The code of a task has the type of a code.
LEMMA CodeType == ASSUME TypeOK, NEW c \in Mailing PROVE Code(c) \in Codes
BY DEF TypeOK, Code, Codes

\* The worker mails before it caches, and an attempt that fails makes a new code.
LEMMA MailInv == ASSUME Inv, NEW c \in Mailing, Mail(c) PROVE Inv'
<1>1. UNCHANGED <<of, call, walletVars, given, userVars>>
  BY DEF Mail, SendMail, MailFails, SetCode
<1>2. Code(c) \in Codes /\ of[c] \in Users /\ c \in Calls
  BY CodeType, Kinds DEF Inv, TypeOK
<1>3. mailed \subseteq mailed' /\ mailed' \subseteq mailed \cup {Code(c)}
  BY DEF Mail, SendMail, MailFails, SetCode
<1>4. /\ task' \in [Mailing -> TaskStates] /\ tries' \in [Mailing -> 0 .. MaxRetry]
      /\ \A d \in Mailing : d # c => task'[d] = task[d] /\ tries'[d] = tries[d]
      /\ task'[c] = "mailed" => Code(c) \in mailed' /\ tries'[c] = tries[c]
  <2>1. CASE SendMail(c)
    BY <2>1 DEF SendMail, Inv, TypeOK, TaskStates
  <2>2. CASE MailFails(c)
    BY <2>2, RetryType DEF MailFails, Inv
  <2>3. CASE SetCode(c)
    <3>1. CASE Retry(c)
      BY <2>3, <3>1, RetryType DEF SetCode, Inv
    <3>2. CASE task' = [task EXCEPT ![c] = "done"] /\ UNCHANGED tries
      BY <2>3, <3>2 DEF SetCode, Inv, TypeOK, TaskStates
    <3> QED BY <2>3, <3>1, <3>2 DEF SetCode
  <2> QED BY <2>1, <2>2, <2>3 DEF Mail
<1>5. \/ UNCHANGED cached
      \/ cached' = [cached EXCEPT ![of[c]] = Code(c)] /\ Code(c) \in mailed
  BY DEF Mail, SendMail, MailFails, SetCode, Inv, CodesFollowed
<1>6. TypeOK'
  <2>1. cached' \in [Users -> Codes \cup {NoCode}]
    BY <1>2, <1>5 DEF Inv, TypeOK
  <2>2. mailed' \subseteq Codes
    BY <1>2, <1>3 DEF Inv, TypeOK
  <2> QED BY <1>1, <1>4, <2>1, <2>2 DEF Inv, TypeOK, walletVars, userVars
<1>7. CodesFollowed'
  <2>1. \A d \in Mailing : task'[d] = "mailed" => Code(d)' \in mailed'
    BY <1>3, <1>4 DEF Inv, CodesFollowed, Code
  <2>2. \A u \in Users : cached'[u] # NoCode => MailedTo(cached[u], u)'
    <3> SUFFICES ASSUME NEW u \in Users, cached'[u] # NoCode
                 PROVE  cached'[u] \in mailed' /\ of[cached'[u][1]] = u
      BY <1>1 DEF MailedTo
    <3>1. cached[u] # NoCode => cached[u] \in mailed /\ of[cached[u][1]] = u
      BY DEF Inv, CodesFollowed, MailedTo
    <3>2. CASE cached'[u] = cached[u]
      BY <1>3, <3>1, <3>2
    <3>3. CASE cached'[u] # cached[u]
      <4>1. u = of[c] /\ cached'[u] = Code(c) /\ Code(c) \in mailed
        BY <1>5, <3>3 DEF Inv, TypeOK
      <4> QED BY <1>3, <4>1 DEF Code
    <3> QED BY <3>2, <3>3
  <2> QED BY <2>1, <2>2 DEF CodesFollowed
<1> QED BY <1>1, <1>3, <1>6, <1>7, QuietInv

\* A code expires.
LEMMA ExpireInv == ASSUME Inv, NEW u \in Users, Expire(u) PROVE Inv'
<1>1. TypeOK'
  <2>1. cached' \in [Users -> Codes \cup {NoCode}]
    BY DEF Expire, Inv, TypeOK
  <2> QED BY <2>1 DEF Expire, Inv, TypeOK, walletVars, mailVars, userVars
<1>2. CodesFollowed'
  <2>1. \A v \in Users : cached'[v] # NoCode => cached'[v] = cached[v]
    BY DEF Expire, Inv, TypeOK
  <2> QED BY <2>1 DEF Expire, Inv, CodesFollowed, MailedTo, Code, mailVars
<1> QED BY <1>1, <1>2, QuietInv DEF Expire, mailVars

\* A call is refused or rolled back, asks for a mail, or may ask for one.
LEMMA EndInv ==
  ASSUME Inv, NEW c \in Calls,
         \/ c \in Creating /\ (Refuse(c) \/ Rollback(c))
         \/ c \in Registers /\ AskForMail(c, "committed")
         \/ c \in Resends /\ (AllowResend(c) \/ AskForMail(c, "allowed"))
  PROVE  Inv'
<1>1. "over" \in CallStates /\ "done" \in CallStates /\ "allowed" \in CallStates
  BY DEF CallStates
<1>2. PICK s \in CallStates : To(c, s)
  BY <1>1 DEF Refuse, Rollback, AskForMail, AllowResend
<1>3. /\ call' \in [Calls -> CallStates]
      /\ \A d \in Calls : d # c => call'[d] = call[d]
  BY <1>2, ToType DEF Inv
<1>4. /\ UNCHANGED <<of, walletVars, tries, mailed, cached, given, userVars>>
      /\ \/ c \in Creating /\ ~Registered(c) /\ call'[c] = "over"
         \/ c \in Creating /\ call[c] = "committed" /\ call'[c] = "done"
         \/ c \in Resends
  <2>1. CASE c \in Creating /\ (Refuse(c) \/ Rollback(c))
    <3>1. call'[c] = "over"
      BY <1>1, <2>1, ToType DEF Refuse, Rollback, Inv
    <3> QED BY <2>1, <3>1 DEF Refuse, Rollback, Registered, InTransaction, mailVars
  <2>2. CASE c \in Registers /\ AskForMail(c, "committed")
    <3>1. call'[c] = "done"
      BY <1>1, <2>2, ToType DEF AskForMail, Inv
    <3> QED BY <2>2, <3>1 DEF AskForMail, Creating
  <2>3. CASE c \in Resends /\ (AllowResend(c) \/ AskForMail(c, "allowed"))
    BY <2>3 DEF AskForMail, AllowResend, mailVars
  <2> QED BY <2>1, <2>2, <2>3
<1>5. \/ UNCHANGED task
      \/ c \in Mailing /\ task' = [task EXCEPT ![c] = "queued"]
  BY DEF Refuse, Rollback, AskForMail, AllowResend, Queue, mailVars
<1>6. TypeOK'
  <2>1. task' \in [Mailing -> TaskStates]
    BY <1>5 DEF Inv, TypeOK, TaskStates
  <2> QED BY <1>3, <1>4, <2>1 DEF Inv, TypeOK, walletVars, userVars
<1>7. CodesFollowed'
  <2>1. \A d \in Mailing : task'[d] = "mailed" => task[d] = "mailed"
    BY <1>5 DEF Inv, TypeOK
  <2> QED BY <1>4, <2>1 DEF Inv, CodesFollowed, MailedTo, Code
<1>8. \A d \in Creating : \/ call'[d] = call[d]
                          \/ call'[d] = "over" /\ ~Registered(d)
                          \/ call[d] = "committed" /\ call'[d] = "done"
  BY <1>3, <1>4, Kinds
<1>9. \A d \in Verifies : call'[d] = call[d]
  BY <1>3, <1>4, Kinds
<1> QED BY <1>4, <1>6, <1>7, <1>8, <1>9, QuietInv

\* The end of the process rolls transactions back.
LEMMA DieInv == ASSUME Inv, Die PROVE Inv'
<1>1. \A c \in Calls : call'[c] = IF call[c] = "committed" THEN "done"
                                  ELSE IF call[c] \in {"new", "done"} THEN call[c] ELSE "over"
  BY DEF Die
<1>2. call' \in [Calls -> CallStates]
  BY DEF Die, Inv, TypeOK, CallStates
<1>3. TypeOK' /\ CodesFollowed'
  BY <1>2 DEF Die, Inv, TypeOK, CodesFollowed, MailedTo, Code, walletVars, mailVars, userVars
<1>4. \A c \in Creating : \/ call'[c] = call[c]
                          \/ call'[c] = "over" /\ ~Registered(c)
                          \/ call[c] = "committed" /\ call'[c] = "done"
  BY <1>1, Kinds DEF Registered
<1>5. \A c \in Verifies : call'[c] = call[c] \/ call'[c] \in {"done", "over"}
  BY <1>1, Kinds
<1> QED BY <1>3, <1>4, <1>5, QuietInv DEF Die, mailVars

------------------------------------------------------------------------------
(* The theorems.                                                           *)

\* Inv holds in every reachable state.
LEMMA Invariance == Spec => []Inv
<1>1. Init => Inv
  <2> SUFFICES ASSUME Init PROVE Inv
    OBVIOUS
  <2>1. TypeOK
    BY AskingAssumption, RetryAssumption DEF Init, TypeOK, CallStates, TaskStates
  <2>2. \A c \in Calls : call[c] = "new"
    BY DEF Init
  <2>3. OneHolder /\ Drawn /\ HasDrawn
    BY <2>2, Kinds DEF Init, OneHolder, Holds, InTransaction, Drawn, HasDrawn
  <2>4. CodesFollowed /\ Verifying /\ VerifiedByMail
    BY <2>2, Kinds DEF Init, CodesFollowed, Verifying, VerifiedByMail
  <2> QED BY <2>1, <2>3, <2>4 DEF Inv
<1>2. Inv /\ [Next]_vars => Inv'
  <2> SUFFICES ASSUME Inv, [Next]_vars PROVE Inv'
    OBVIOUS
  <2>1. ASSUME NEW c \in Creating, Register(c) PROVE Inv'
    BY <2>1, Kinds, CreateUserInv, DrawInv, CommitInv, EndInv DEF Register
  <2>2. ASSUME NEW c \in Registers, AskForMail(c, "committed") PROVE Inv'
    BY <2>2, Kinds, EndInv DEF Creating
  <2>3. ASSUME NEW c \in Resends, Resend(c) PROVE Inv'
    BY <2>3, Kinds, EndInv DEF Resend
  <2>4. ASSUME NEW c \in Verifies, Verify(c) PROVE Inv'
    BY <2>4, FindInv, MatchInv, FlagsInv DEF Verify
  <2>5. ASSUME NEW c \in Mailing, Mail(c) PROVE Inv'
    BY <2>5, MailInv
  <2>6. ASSUME NEW u \in Users, Expire(u) PROVE Inv'
    BY <2>6, ExpireInv
  <2>7. CASE Die
    BY <2>7, DieInv
  <2>8. CASE UNCHANGED vars
    <3>1. UNCHANGED <<of, call, walletVars, mailVars, cached, given, userVars>>
      BY <2>8 DEF vars
    <3>2. TypeOK' /\ CodesFollowed'
      BY <3>1 DEF Inv, TypeOK, CodesFollowed, MailedTo, Code, walletVars, mailVars, userVars
    <3> QED BY <3>1, <3>2, QuietInv DEF mailVars
  <2> QED BY <2>1, <2>2, <2>3, <2>4, <2>5, <2>6, <2>7, <2>8
          DEF Next, RegisterUser, MockLogin, Creating
<1> QED BY <1>1, <1>2, PTL DEF Spec

\* The type invariant of accounts.
THEOREM TypeCorrect == Spec => []TypeOK
<1>1. Inv => TypeOK
  BY DEF Inv
<1> QED BY <1>1, Invariance, PTL

\* However many registrations race, a user is registered by one of them.
THEOREM OneRegistration == Spec => []RegisteredOnce
<1>1. Inv => RegisteredOnce
  BY DEF Inv, OneHolder, Holds, RegisteredOnce, Registered
<1> QED BY <1>1, Invariance, PTL

\* No two wallets have the same address, and the index that every withdrawal is
\* signed with is nobody's.
THEOREM ApartKeys == Spec => []KeysAreApart
<1>1. Inv => KeysAreApart
  BY DEF Inv, Drawn, HasDrawn, KeysAreApart, Registered, WalletAddressIndex
<1> QED BY <1>1, Invariance, PTL

\* Nobody is verified without a code that was mailed to them.
THEOREM VerificationNeedsMail == Spec => []VerifiedByMail
<1>1. Inv => VerifiedByMail
  BY DEF Inv
<1> QED BY <1>1, Invariance, PTL
------------------------------------------------------------------------------
(* What an account keeps.                                                  *)

\* A code is only given for a user who is there.
GivenExists == \A c \in Verifies : given[c] # NoCode => Exists(of[c])

\* A registration that was committed stays, with the path of its address, and
\* its user never loses the verification: no other
\* registration writes the row again.
AccountsStay ==
  /\ \A c \in Creating : Registered(c) =>
       Registered(c)' /\ of'[c] = of[c] /\ path'[c] = path[c]
  /\ \A u \in Users : (label[u] => label'[u]) /\ (verified[u] => verified'[u])

\* Who is verified is there.
LEMMA LabelledExists ==
  ASSUME Inv, GivenExists, NEW u \in Users, label[u]
  PROVE  Exists(u)
<1>1. CASE ByMock(u)
  BY <1>1 DEF ByMock, Exists, Creating
<1>2. CASE ByMail(u)
  <2>1. PICK c \in Verifies : of[c] = u /\ given[c] \in mailed
    BY <1>2 DEF ByMail
  <2>2. given[c] # NoCode
    BY <2>1, CodesAssumption DEF Inv, TypeOK
  <2> QED BY <2>1, <2>2 DEF GivenExists
<1> QED BY <1>1, <1>2 DEF Inv, VerifiedByMail

\* No step of a call takes a registration back, and each call draws its index
\* before it is committed.
LEMMA RegistrationStays ==
  ASSUME Inv, [Next]_vars
  PROVE  /\ UNCHANGED of
         /\ \A c \in Creating : Registered(c) =>
              Registered(c)' /\ path'[c] = path[c]
<1>0. /\ call \in [Calls -> CallStates] /\ path \in [Creating -> Nat]
  BY DEF Inv, TypeOK
<1>1. ASSUME NEW c \in Creating, Register(c)
      PROVE  /\ UNCHANGED of /\ ~Registered(c)
             /\ \A d \in Creating : d # c =>
                  call'[d] = call[d] /\ path'[d] = path[d]
  <2>1. \A d \in Creating : d # c => call'[d] = call[d]
    BY <1>0, <1>1, Kinds DEF Register, Refuse, CreateUser, NextAddressIndex, CreateNewWallet,
       Commit, Rollback, To
  <2>2. \A d \in Creating : d # c => path'[d] = path[d]
    BY <1>0, <1>1 DEF Register, Refuse, CreateUser, NextAddressIndex, GenerateWalletAddress,
       CreateNewWallet, Commit, Rollback, walletVars
  <2>3. UNCHANGED of /\ ~Registered(c)
    BY <1>1 DEF Register, Refuse, CreateUser, NextAddressIndex, CreateNewWallet, Commit,
       Rollback, InTransaction, Registered
  <2> QED BY <2>1, <2>2, <2>3
<1>2. ASSUME NEW c \in Registers, AskForMail(c, "committed")
      PROVE  /\ UNCHANGED <<of, walletVars>>
             /\ \A d \in Creating : Registered(d) => Registered(d)'
  BY <1>0, <1>2, Kinds DEF AskForMail, To, Registered
<1>3. ASSUME NEW c \in Resends \cup Verifies, Resend(c) \/ Verify(c)
      PROVE  UNCHANGED <<of, walletVars>> /\ \A d \in Creating : call'[d] = call[d]
  BY <1>0, <1>3, Kinds DEF Resend, AllowResend, AskForMail, Verify, FindCode, MatchCode, Label,
     SetVerified, To
<1>4. ASSUME NEW c \in Mailing, Mail(c) PROVE UNCHANGED <<of, call, walletVars>>
  BY <1>4 DEF Mail, SendMail, MailFails, SetCode
<1>5. ASSUME NEW u \in Users, Expire(u) PROVE UNCHANGED <<of, call, walletVars>>
  BY <1>5 DEF Expire
<1>6. ASSUME Die
      PROVE  /\ UNCHANGED <<of, walletVars>>
             /\ \A d \in Creating : Registered(d) => Registered(d)'
  BY <1>6, Kinds DEF Die, Registered
<1>7. CASE \E c \in Creating : Register(c)
  BY <1>1, <1>7 DEF Registered
<1>8. CASE \/ \E c \in Registers : AskForMail(c, "committed")
           \/ \E c \in Resends : Resend(c)
           \/ \E c \in Verifies : Verify(c)
           \/ \E c \in Mailing : Mail(c)
           \/ \E u \in Users : Expire(u)
           \/ Die
           \/ UNCHANGED vars
  BY <1>2, <1>3, <1>4, <1>5, <1>6, <1>8 DEF Registered, walletVars, vars
<1> QED BY <1>7, <1>8 DEF Next, RegisterUser, MockLogin, Creating

\* Users are given codes only once they are there.
LEMMA GivenInvariance == Spec => []GivenExists
<1>1. Init => GivenExists
  BY DEF Init, GivenExists
<1>2. Inv /\ GivenExists /\ [Next]_vars => GivenExists'
  <2> SUFFICES ASSUME Inv, GivenExists, [Next]_vars PROVE GivenExists'
    OBVIOUS
  <2>1. UNCHANGED of /\ \A c \in Creating : Registered(c) => Registered(c)'
    BY RegistrationStays
  <2>2. ASSUME NEW c \in Verifies PROVE Exists(of[c]) => Exists(of[c])'
    BY <2>1, ExistsStays
  <2>3. ASSUME NEW c \in Verifies, given'[c] # NoCode PROVE Exists(of[c])'
    <3>1. given'[c] = given[c] \/ Exists(of[c])
      <4>1. CASE UNCHANGED given
        BY <4>1
      <4>2. ASSUME NEW d \in Verifies, NEW code \in Codes, MatchCode(d, code)
            PROVE  given'[c] = given[c] \/ Exists(of[c])
        BY <4>2 DEF MatchCode, Inv, TypeOK, Verifying
      <4>3. CASE \/ \E d \in Creating : Register(d)
                 \/ \E d \in Registers : AskForMail(d, "committed")
                 \/ \E d \in Resends : Resend(d)
                 \/ \E d \in Verifies : FindCode(d) \/ Label(d) \/ SetVerified(d)
                 \/ \E d \in Mailing : Mail(d)
                 \/ \E u \in Users : Expire(u)
                 \/ Die
                 \/ UNCHANGED vars
        BY <4>1, <4>3 DEF Register, Refuse, CreateUser, NextAddressIndex, CreateNewWallet, Commit,
           Rollback, Resend, AllowResend, AskForMail, FindCode, Label, SetVerified, Mail, SendMail,
           MailFails, SetCode, Expire, Die, vars
      <4> QED BY <4>2, <4>3 DEF Next, RegisterUser, MockLogin, Verify, Creating
    <3> QED BY <2>2, <2>3, <3>1 DEF GivenExists
  <2> QED BY <2>3 DEF GivenExists
<1> QED BY <1>1, <1>2, Invariance, PTL DEF Spec

\* An account, once there, keeps its wallet and its verification, whatever
\* registrations, mails and verifications race, fail or are repeated.
THEOREM AccountsAreKept == Spec => [][AccountsStay]_vars
<1>1. Inv /\ GivenExists /\ [Next]_vars => [AccountsStay]_vars
  <2> SUFFICES ASSUME Inv, GivenExists, Next PROVE AccountsStay
    OBVIOUS
  <2>0. label \in [Users -> BOOLEAN] /\ verified \in [Users -> BOOLEAN] /\ of \in [Calls -> Users]
    BY DEF Inv, TypeOK
  <2>1. ASSUME NEW u \in Users PROVE (label[u] => label'[u]) /\ (verified[u] => verified'[u])
    <3>1. CASE UNCHANGED userVars
      BY <3>1 DEF userVars
    <3>2. ASSUME NEW c \in Creating, Commit(c)
          PROVE  (label[u] => label'[u]) /\ (verified[u] => verified'[u])
      <4>1. call[c] = "wallet"
        BY <3>2 DEF Commit
      <4>2. ~Exists(of[c])
        BY <4>1 DEF Inv, OneHolder, Holds, InTransaction, Exists, Registered
      <4>3. of[c] \in Users
        BY <2>0, Kinds
      <4>4. ~label[of[c]]
        BY <4>2, <4>3, LabelledExists
      <4>5. ~verified[of[c]]
        BY <4>3, <4>4 DEF Inv, VerifiedByMail
      <4> QED BY <2>0, <3>2, <4>4, <4>5 DEF Commit, NewUser
    <3>3. ASSUME NEW c \in Verifies, Label(c) \/ SetVerified(c)
          PROVE  (label[u] => label'[u]) /\ (verified[u] => verified'[u])
      BY <2>0, <3>3 DEF Label, SetVerified
    <3>4. CASE \/ \E d \in Creating : \/ Refuse(d) \/ CreateUser(d) \/ NextAddressIndex(d)
                                      \/ CreateNewWallet(d) \/ Rollback(d)
               \/ \E d \in Registers : AskForMail(d, "committed")
               \/ \E d \in Resends : Resend(d)
               \/ \E d \in Verifies : FindCode(d)
               \/ \E d \in Verifies, code \in Codes : MatchCode(d, code)
               \/ \E d \in Mailing : Mail(d)
               \/ \E v \in Users : Expire(v)
               \/ Die
      BY <3>1, <3>4 DEF Refuse, CreateUser, NextAddressIndex, CreateNewWallet, Rollback, Resend,
         AllowResend, AskForMail, FindCode, MatchCode, Mail, SendMail, MailFails, SetCode, Expire, Die
    <3> QED BY <3>2, <3>3, <3>4 DEF Next, RegisterUser, MockLogin, Register, Verify, Creating
  <2> QED BY <2>1, RegistrationStays DEF AccountsStay
<1> QED BY <1>1, Invariance, GivenInvariance, PTL DEF Spec
=============================================================================
