-------------------------- MODULE MCServiceOrders ---------------------------
(* Small instances of ServiceOrders for TLC.                               *)
EXTENDS ServiceOrders, TLC

(* Users, row identities and connections are interchangeable.              *)
Symmetric == Permutations(Users) \cup Permutations(Orders)
               \cup Permutations(Reviews) \cup Permutations(Tx)
=============================================================================
