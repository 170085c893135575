------------------------------- MODULE MCNotify -------------------------------
(* Instances of Notify for TLC. *)
EXTENDS Notify, TLC

\* Users are interchangeable: no operation compares them but with NoUser.
UserSymmetry == Permutations(Users)
===============================================================================
