------------------------------ MODULE RowStore ------------------------------
(***************************************************************************)
(* A PostgreSQL row under READ COMMITTED, the isolation level of every     *)
(* transaction the services open (packages/db/src/tenant-context.ts sets   *)
(* none).  A row keeps the version everybody reads, the version its        *)
(* in-flight writer has written, and that writer, which holds the row lock *)
(* until its transaction ends.                                             *)
(*                                                                         *)
(* A statement of transaction t sees View(row, t).  An UPDATE whose        *)
(* predicate the view does not satisfy leaves the row alone at once; one   *)
(* whose predicate it satisfies waits until the row is Free and then looks *)
(* at the newest version again, which is again View(row, t).               *)
(***************************************************************************)
CONSTANTS Tx,    \* the database connections that run transactions
          NoTx   \* the holder of a row nobody is writing

ASSUME NoTxAssumption == NoTx \notin Tx

(* The row every transaction agrees on.                                    *)
Stored(v) == [committed |-> v, written |-> v, holder |-> NoTx]

RowsOf(V) == [committed : V, written : V, holder : Tx \cup {NoTx}]

View(row, t) == IF row.holder = t THEN row.written ELSE row.committed

Free(row, t) == row.holder \in {NoTx, t}

Put(row, t, v) == [committed |-> row.committed, written |-> v, holder |-> t]

(* COMMIT and ROLLBACK of t, row by row.                                   *)
Published(row, t) == IF row.holder = t THEN Stored(row.written) ELSE row

Restored(row, t) == IF row.holder = t THEN Stored(row.committed) ELSE row

PublishedAll(table, t) == [k \in DOMAIN table |-> Published(table[k], t)]
RestoredAll(table, t) == [k \in DOMAIN table |-> Restored(table[k], t)]
=============================================================================
