----------------------------- MODULE MCOrderbook -----------------------------
(* Instances of Orderbook for TLC. *)
EXTENDS Orderbook, TLC

\* Users are interchangeable: no operation compares them but for equality.
UserSymmetry == Permutations(Users)
==============================================================================
