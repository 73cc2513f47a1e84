---------------------------- MODULE MCItemClaims ----------------------------
(* Small instances of ItemClaims for TLC.                                  *)
EXTENDS ItemClaims, TLC

Symmetric == Permutations(Claimants) \cup Permutations(Tx)
=============================================================================
