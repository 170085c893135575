------------------------------ MODULE MCAccounts ------------------------------
(* Instances of Accounts for TLC. *)
EXTENDS Accounts

CONSTANTS u1, u2, m1

\* The mail and verification calls are about u1; the mock login may be about
\* the same user or about another.
OneOrTwo == {[c \in Calls |-> IF c = m1 THEN u ELSE u1] : u \in Users}
===============================================================================
