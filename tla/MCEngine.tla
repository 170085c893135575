------------------------------- MODULE MCEngine -------------------------------
(* Instances of Engine for TLC. *)
EXTENDS Engine, TLC

CONSTANTS p1, p2, p3, r1, r2, r3

\* Two requests for one pair, and one for another, which may have no book.
TwoAndOne == {r1 :> p1 @@ r2 :> p1 @@ r3 :> p : p \in {p2, p3}}
===============================================================================
