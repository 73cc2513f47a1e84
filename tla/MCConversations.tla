--------------------------- MODULE MCConversations ---------------------------
(* Small instances of Conversations for TLC.                               *)
EXTENDS Conversations, TLC

Symmetric == Permutations(Users) \cup Permutations(Tx)
=============================================================================
