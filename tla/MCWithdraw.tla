------------------------------ MODULE MCWithdraw ------------------------------
(* Instances of Withdraw for TLC. *)
EXTENDS Withdraw

\* Every withdrawal is made from the same wallet.
OneWallet == [r \in Requests |-> "w"]
===============================================================================
