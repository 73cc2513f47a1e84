------------------------------ MODULE MCLedger ------------------------------
(* Small instances of Ledger for TLC.                                      *)
EXTENDS Ledger, TLC

CONSTANTS escrow, seller

Paisa == {-1, 1}

(* Transaction ids, connections and accounts are interchangeable.          *)
Symmetric == Permutations(Txns) \cup Permutations(Connections) \cup Permutations(Accounts)
=============================================================================
