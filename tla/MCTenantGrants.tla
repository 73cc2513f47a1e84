---------------------------- MODULE MCTenantGrants --------------------------
(* Small instances of TenantGrants for TLC.                                *)
EXTENDS TenantGrants, TLC

CONSTANTS root, ann, n1

OneOwner == [s \in Sessions |-> root]

AnnAndRoot == {n1} \X {ann, root}
AllOfThem == Tenants \X Members

Symmetric == Permutations(Sessions)
               \cup Permutations(Grants) \cup Permutations(Tx)
=============================================================================
