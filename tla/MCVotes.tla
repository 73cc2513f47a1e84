------------------------------ MODULE MCVotes ------------------------------
(* Small instances of Votes for TLC.                                       *)
EXTENDS Votes, TLC

CONSTANTS ann, bob, cat, signed, hidden

(* Ann wrote a signed item and an anonymous one.  Bob votes on both, and   *)
(* Cat joins him on the signed one the next day.                           *)
AnnWrote == [i \in {signed, hidden} |-> ann]
Voters == [d \in {0, 1} |-> IF d = 0 THEN {<<bob, signed>>, <<bob, hidden>>}
                           ELSE {<<ann, signed>>, <<bob, signed>>, <<cat, signed>>}]

Symmetric == Permutations(Options) \cup Permutations(Tx)
=============================================================================
