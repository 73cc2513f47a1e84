---------------------------- MODULE LedgerBooks -----------------------------
(***************************************************************************)
(* What the money ledger promises: a transaction id is posted at most      *)
(* once, and a posting only moves money between accounts.                  *)
(* packages/modules/money/drizzle/0000_money.sql.                          *)
(***************************************************************************)
EXTENDS Integers, Functions

CONSTANTS Accounts, Txns

VARIABLES balance,   \* per account, in paisa
          posted,    \* the transactions that have been posted
          disputed   \* the ids two callers were about to post at the same time

vars == <<balance, posted, disputed>>

Init ==
  /\ balance = [a \in Accounts |-> 0]
  /\ posted = {}
  /\ disputed = {}

Post(txn) ==
  /\ txn \notin posted \/ txn \in disputed
  /\ posted' = posted \cup {txn}
  /\ balance' \in [Accounts -> Int]
  /\ SumFunctionOnSet(balance', Accounts) = SumFunctionOnSet(balance, Accounts)
  /\ UNCHANGED disputed

(* What is posted can no longer be disputed: a retry that comes later than *)
(* the posting is refused for ever.                                        *)
Dispute(txn) ==
  /\ txn \notin posted
  /\ disputed' = disputed \cup {txn}
  /\ UNCHANGED <<balance, posted>>

Next == \E txn \in Txns : Post(txn) \/ Dispute(txn)

Spec == Init /\ [][Next]_vars
=============================================================================
