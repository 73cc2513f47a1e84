------------------------------- MODULE Ledger -------------------------------
(***************************************************************************)
(* The money ledger (packages/modules/money): the table ledger_entries and *)
(* money_post_txn, the one function that writes it.  A call first looks for*)
(* its txn_id, then judges the entries it was given, then inserts them; no *)
(* constraint of the table repeats the first check.  Who calls it is not   *)
(* written yet: a finance action that may retry, also after its process    *)
(* died before or after the commit, is every order of the calls below.     *)
(***************************************************************************)
EXTENDS Integers, FiniteSets, Sequences, SequencesExt

CONSTANTS Accounts,     \* account and subject of an entry, together
          Txns,         \* the transaction ids of the callers
          Connections,  \* database connections
          Null,         \* SQL null, or a missing field
          Amounts,      \* bound: the amounts callers send
          MaxLines,     \* bound: entries of a call
          MaxRows,      \* bound: rows of the table
          InFlight      \* bound: calls in progress at once

ASSUME AccountsAssumption == IsFiniteSet(Accounts)
ASSUME AmountsAssumption == Amounts \subseteq Int \cup {Null}
ASSUME CallsAssumption == MaxLines \in Nat /\ MaxRows \in Nat /\ InFlight \in Nat

VARIABLES entries,   \* the committed rows of ledger_entries
          calls,     \* per connection: its call of money_post_txn
          retried    \* history: the ids two calls had found unposted at once

ledgerVars == <<entries, calls, retried>>

Line == [account : Accounts \cup {Null}, amount : Amounts]
Entry == [txn : Txns, account : Accounts, amount : Int \ {0}]

NoCall == [pc |-> "idle", txn |-> Null, lines |-> <<>>]
Call == [pc : {"exists", "insert", "commit"}, txn : Txns, lines : BoundedSeq(Line, MaxLines)]

LedgerInit ==
  /\ entries = <<>>
  /\ calls = [t \in Connections |-> NoCall]
  /\ retried = {}

(* sum(amount) over the rows S of a table.                                 *)
SumOf(rows, S) == SumFunctionOnSet([i \in S |-> rows[i].amount], S)

(* SQL's sum() passes over nulls.                                          *)
Total(lines) == SumOf(lines, {i \in 1..Len(lines) : lines[i].amount # Null})

(* Mutant of Balanced: money may be left over.                             *)
Balanced_Surplus(lines) == Total(lines) >= 0

Balanced(lines) == Total(lines) = 0

WellFormed(lines) ==
  \A i \in 1..Len(lines) : lines[i].account # Null /\ lines[i].amount \notin {Null, 0}

Rows(txn, lines) ==
  [i \in 1..Len(lines) |->
     [txn |-> txn, account |-> lines[i].account, amount |-> lines[i].amount]]

Posted(txn) == \E i \in 1..Len(entries) : entries[i].txn = txn

Done(t) == calls' = [calls EXCEPT ![t] = NoCall]

(* An empty array of entries is refused at once.                           *)
Post_Begin(t) ==
  \E txn \in Txns, lines \in BoundedSeq(Line, MaxLines) :
    /\ calls[t] = NoCall
    /\ lines # <<>>
    /\ Cardinality({s \in Connections : calls[s] # NoCall}) < InFlight
    /\ Len(entries) + Len(lines) <= MaxRows
    /\ calls' = [calls EXCEPT ![t] = [pc |-> "exists", txn |-> txn, lines |-> lines]]
    /\ UNCHANGED <<entries, retried>>

(* Mutant of Post_Exists: nothing is looked up.                            *)
Post_Exists_Blind(t) ==
  /\ calls[t].pc = "exists"
  /\ calls' = [calls EXCEPT ![t].pc = "insert"]
  /\ UNCHANGED <<entries, retried>>

(* A call that has looked up txn and not found it will insert it.          *)
Inserting(t, txn) == calls[t].pc \in {"insert", "commit"} /\ calls[t].txn = txn

Post_Exists(t) ==
  LET txn == calls[t].txn
  IN /\ calls[t].pc = "exists"
     /\ \/ Posted(txn) /\ Done(t) /\ UNCHANGED retried
        \/ /\ ~Posted(txn)
           /\ calls' = [calls EXCEPT ![t].pc = "insert"]
           /\ retried' = IF \E s \in Connections : Inserting(s, txn)
                           THEN retried \cup {txn} ELSE retried
     /\ UNCHANGED entries

Post_Insert(t) ==
  LET lines == calls[t].lines
  IN /\ calls[t].pc = "insert"
     /\ IF Balanced(lines) /\ WellFormed(lines)
          THEN calls' = [calls EXCEPT ![t].pc = "commit"] ELSE Done(t)
     /\ UNCHANGED <<entries, retried>>

(* All rows of the INSERT ... SELECT become visible together.              *)
Post_Commit(t) ==
  /\ calls[t].pc = "commit"
  /\ entries' = entries \o Rows(calls[t].txn, calls[t].lines)
  /\ Done(t)
  /\ UNCHANGED retried

Post_Abort(t) ==
  /\ calls[t] # NoCall
  /\ Done(t)
  /\ UNCHANGED <<entries, retried>>

LedgerNext ==
  \E t \in Connections :
    Post_Begin(t) \/ Post_Exists(t) \/ Post_Insert(t) \/ Post_Commit(t) \/ Post_Abort(t)

LedgerSpec == LedgerInit /\ [][LedgerNext]_ledgerVars

-----------------------------------------------------------------------------
(* What the ledger promises.                                               *)

(* Rows name an account and move money; calls are between two statements.  *)
LedgerTypes ==
  /\ entries \in Seq(Entry)
  /\ calls \in [Connections -> Call \cup {NoCall}]
  /\ retried \in SUBSET Txns

(* No set of postings creates or destroys money: each transaction's rows,  *)
(* however often it was posted, add up to nothing.                         *)
DoubleEntry ==
  \A txn \in Txns : SumOf(entries, {i \in 1..Len(entries) : entries[i].txn = txn}) = 0

(* The rows have their types and every set of them balances (DoubleEntry). *)
LedgerInv == LedgerTypes /\ DoubleEntry

(* "A txn_id is posted at most once (idempotency for a retried finance     *)
(* action)" (0000_money.sql): what is posted gets no further rows.         *)
PostedAtMostOnce ==
  [][\A txn \in Txns :
       LET rows == {i \in 1..Len(entries) : entries[i].txn = txn}
       IN Posted(txn) => rows' = rows]_ledgerVars

BalanceOf(rows, a) == SumOf(rows, {i \in 1..Len(rows) : rows[i].account = a})

(* The balances read from the rows are those of the books, in which an id  *)
(* counts once, whatever is retried, unless two calls of it overlapped.    *)
Books == INSTANCE LedgerBooks WITH
  balance <- [a \in Accounts |-> BalanceOf(entries, a)],
  posted <- {txn \in Txns : Posted(txn)},
  disputed <- retried

BooksSpec == Books!Spec
=============================================================================
