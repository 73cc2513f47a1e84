--------------------------- MODULE RowStoreProofs ---------------------------
(***************************************************************************)
(* What every transaction does to a row, stated once.  V is the set of     *)
(* values an inserted row may have, E the pairs <<old, new>> a transaction *)
(* may commit.                                                             *)
(***************************************************************************)
EXTENDS RowStore, FiniteSetsExt, WellFoundedInduction, TLAPS

(* The three ways a step of transaction t may change a row: a statement    *)
(* writes a value of V it may reach from what t sees, or t ends.           *)
RowChange(row, new, t, V, E) ==
  \/ new = row
  \/ /\ Free(row, t)
     /\ \E v \in V : /\ new = Put(row, t, v)
                     /\ View(row, t) \in V => <<View(row, t), v>> \in E
  \/ new = Published(row, t)
  \/ new = Restored(row, t)

(* A row nobody writes has one version; a written version is a value, and  *)
(* a legal successor of the committed one.                                 *)
RowInv(row, V, E, Absent) ==
  /\ row \in RowsOf(V \cup {Absent})
  /\ row.holder = NoTx => row.written = row.committed
  /\ row.holder # NoTx => row.written \in V
  /\ row.committed \in V => row.written \in V /\ <<row.committed, row.written>> \in E

(* The row discipline survives every change a transaction can make.        *)
LEMMA RowPreserved ==
  ASSUME NEW row, NEW new, NEW t \in Tx, NEW V, NEW E, NEW Absent,
         \A v \in V : <<v, v>> \in E,
         \A u, v, w \in V : <<u, v>> \in E /\ <<v, w>> \in E => <<u, w>> \in E,
         RowInv(row, V, E, Absent), RowChange(row, new, t, V, E)
  PROVE  RowInv(new, V, E, Absent)
<1> USE NoTxAssumption DEF RowInv, RowsOf
<1>1. CASE new = row
  BY <1>1
<1>2. CASE Free(row, t) /\ \E v \in V : /\ new = Put(row, t, v)
                                        /\ View(row, t) \in V => <<View(row, t), v>> \in E
  <2>1. PICK v \in V : /\ new = Put(row, t, v)
                       /\ View(row, t) \in V => <<View(row, t), v>> \in E
    BY <1>2
  <2>2. /\ new.committed = row.committed /\ new.written = v /\ new.holder = t
        /\ new \in [committed : V \cup {Absent}, written : V \cup {Absent},
                    holder : Tx \cup {NoTx}]
    BY <2>1 DEF Put
  <2>3. row.committed \in V => <<row.committed, v>> \in E
    <3>1. CASE row.holder = t
      BY <2>1, <3>1 DEF View
    <3>2. CASE row.holder = NoTx
      BY <2>1, <3>2 DEF View
    <3> QED
      BY <1>2, <3>1, <3>2 DEF Free
  <2> QED
    BY <2>2, <2>3
<1>3. CASE new = Published(row, t)
  BY <1>3 DEF Published, Stored
<1>4. CASE new = Restored(row, t)
  BY <1>4 DEF Restored, Stored
<1> QED
  BY <1>1, <1>2, <1>3, <1>4 DEF RowChange

(* The same four ways, field by field.                                     *)
LEMMA ChangeCases ==
  ASSUME NEW row, NEW new, NEW t \in Tx, NEW V, NEW E, RowChange(row, new, t, V, E)
  PROVE  \/ new = row
         \/ /\ Free(row, t) /\ new.holder = t /\ new.committed = row.committed
            /\ new.written \in V
         \/ /\ row.holder = t /\ new.holder = NoTx /\ new.committed = row.written
         \/ /\ row.holder = t /\ new.holder = NoTx /\ new.committed = row.committed
<1>1. CASE \E v \in V : new = Put(row, t, v) /\ Free(row, t)
  BY <1>1 DEF Put
<1>2. CASE new = Published(row, t)
  BY <1>2 DEF Published, Stored
<1>3. CASE new = Restored(row, t)
  BY <1>3 DEF Restored, Stored
<1> QED
  BY <1>1, <1>2, <1>3 DEF RowChange

(* A committed row never goes back to being absent.                        *)
LEMMA CommittedKept ==
  ASSUME NEW row, NEW new, NEW t \in Tx, NEW V, NEW E, NEW Absent,
         RowInv(row, V, E, Absent), RowChange(row, new, t, V, E),
         row.committed \in V
  PROVE  new.committed \in V
  BY ChangeCases DEF RowInv

(* What one transaction sees of a row does not vanish under another one.   *)
LEMMA ViewKept ==
  ASSUME NEW row, NEW new, NEW t \in Tx, NEW s \in Tx, s # t, NEW V, NEW E, NEW Absent,
         RowInv(row, V, E, Absent), RowChange(row, new, t, V, E),
         View(row, s) \in V
  PROVE  View(new, s) \in V
<1>1. CASE new = row
  BY <1>1
<1>2. CASE Free(row, t) /\ new.holder = t /\ new.committed = row.committed
  BY <1>2, NoTxAssumption DEF View, Free
<1>3. CASE row.holder = t /\ new.holder = NoTx /\ new.committed = row.written
  BY <1>3, NoTxAssumption DEF View, RowInv
<1>4. CASE row.holder = t /\ new.holder = NoTx /\ new.committed = row.committed
  BY <1>4, NoTxAssumption DEF View
<1> QED
  BY <1>1, <1>2, <1>3, <1>4, ChangeCases

(* A row is only committed along E.                                        *)
LEMMA CommitMoves ==
  ASSUME NEW row, NEW new, NEW t \in Tx, NEW V, NEW E, NEW Absent,
         \A v \in V : <<v, v>> \in E,
         RowInv(row, V, E, Absent), RowChange(row, new, t, V, E),
         row.committed \in V
  PROVE  <<row.committed, new.committed>> \in E
  BY ChangeCases DEF RowInv

(* Rows of a table without inserts keep their type.                        *)
LEMMA RowTyped ==
  ASSUME NEW row, NEW new, NEW t \in Tx, NEW V, NEW E, row \in RowsOf(V),
         RowChange(row, new, t, V, E)
  PROVE  new \in RowsOf(V)
<1>1. ASSUME NEW v \in V, new = Put(row, t, v) PROVE new \in RowsOf(V)
  BY <1>1 DEF Put, RowsOf
<1>2. CASE new = Published(row, t) \/ new = Restored(row, t)
  BY <1>2 DEF Published, Restored, Stored, RowsOf
<1> QED
  BY <1>1, <1>2 DEF RowChange

(* What a statement or an end makes of a row is a row.                     *)
LEMMA PutTyped ==
  ASSUME NEW row, NEW t \in Tx, NEW V, NEW v \in V, row \in RowsOf(V)
  PROVE  Put(row, t, v) \in RowsOf(V)
  BY DEF Put, RowsOf

LEMMA EndTyped ==
  ASSUME NEW row, NEW t \in Tx, NEW V, row \in RowsOf(V)
  PROVE  Published(row, t) \in RowsOf(V) /\ Restored(row, t) \in RowsOf(V)
<1>1. Published(row, t) \in RowsOf(V)
  BY DEF Published, Stored, RowsOf
<1>2. Restored(row, t) \in RowsOf(V)
  BY DEF Restored, Stored, RowsOf
<1> QED
  BY <1>1, <1>2

LEMMA StoredTyped ==
  ASSUME NEW V, NEW v \in V PROVE Stored(v) \in RowsOf(V)
  BY DEF Stored, RowsOf

(* A transaction does not touch what another one holds, nor lock for it.   *)
LEMMA OthersRow ==
  ASSUME NEW row, NEW new, NEW t \in Tx, NEW s \in Tx, s # t, NEW V, NEW E,
         RowChange(row, new, t, V, E)
  PROVE  /\ new.holder = s <=> row.holder = s
         /\ row.holder = s => new = row
<1>1. CASE new = row
  BY <1>1
<1>2. CASE Free(row, t) /\ new.holder = t
  BY <1>2, NoTxAssumption DEF Free
<1>3. CASE row.holder = t /\ new.holder = NoTx
  BY <1>3, NoTxAssumption
<1> QED
  BY <1>1, <1>2, <1>3, ChangeCases

-----------------------------------------------------------------------------
(* Unique indexes.  K is the set of values with one key: of two rows, at   *)
(* most one is committed with it and at most one written with it, and what *)
(* one transaction takes out of K and puts back in another row waits in    *)
(* both rows for the same commit.                                          *)
OneEntry(x, y, K) ==
  /\ ~(x.committed \in K /\ y.committed \in K)
  /\ ~(x.written \in K /\ y.written \in K)
  /\ x.committed \in K /\ y.written \in K => x.holder = y.holder
  /\ x.written \in K /\ y.committed \in K => x.holder = y.holder

Quiet(row) == row.holder = NoTx => row.written = row.committed

(* A statement of t, or a transaction of that one statement, that brings   *)
(* no row into K.                                                          *)
Touches(row, new, t, K) ==
  \/ new = row
  \/ Free(row, t) /\ \E v : /\ new = Put(row, t, v)
                            /\ v \in K => View(row, t) \in K
  \/ row.holder = NoTx /\ \E v : /\ new = Stored(v)
                                 /\ v \in K => row.committed \in K

LEMMA TouchCases ==
  ASSUME NEW row, NEW new, NEW t \in Tx, NEW K, Touches(row, new, t, K), Quiet(row)
  PROVE  \/ new = row
         \/ /\ Free(row, t) /\ new.holder = t /\ new.committed = row.committed
            /\ new.written \in K => row.written \in K
         \/ /\ row.holder = NoTx /\ new.holder = NoTx /\ new.written = new.committed
            /\ new.committed \in K => row.committed \in K
<1>1. ASSUME NEW v, new = Put(row, t, v), v \in K => View(row, t) \in K, Free(row, t)
      PROVE  /\ Free(row, t) /\ new.holder = t /\ new.committed = row.committed
             /\ new.written \in K => row.written \in K
  BY <1>1 DEF Put, View, Free, Quiet
<1>2. ASSUME NEW v, new = Stored(v), v \in K => row.committed \in K, row.holder = NoTx
      PROVE  /\ row.holder = NoTx /\ new.holder = NoTx /\ new.written = new.committed
             /\ new.committed \in K => row.committed \in K
  BY <1>2 DEF Stored
<1> QED
  BY <1>1, <1>2 DEF Touches

(* The index survives every statement that inserts nothing ...             *)
LEMMA EntryTouched ==
  ASSUME NEW x, NEW y, NEW x1, NEW y1, NEW t \in Tx, NEW K, Quiet(x), Quiet(y),
         OneEntry(x, y, K), Touches(x, x1, t, K), Touches(y, y1, t, K)
  PROVE  OneEntry(x1, y1, K)
<1> DEFINE Cases(row, new) ==
      \/ new = row
      \/ /\ Free(row, t) /\ new.holder = t /\ new.committed = row.committed
         /\ new.written \in K => row.written \in K
      \/ /\ row.holder = NoTx /\ new.holder = NoTx /\ new.written = new.committed
         /\ new.committed \in K => row.committed \in K
<1>1. Cases(x, x1) /\ Cases(y, y1)
  BY TouchCases
<1> QED
  BY <1>1, NoTxAssumption DEF OneEntry, Quiet, Free

(* ... and the end of the transaction, which ends all its writes at once.  *)
LEMMA EntryEnds ==
  ASSUME NEW x, NEW y, NEW t \in Tx, NEW K, Quiet(x), Quiet(y), OneEntry(x, y, K)
  PROVE  /\ OneEntry(Published(x, t), Published(y, t), K)
         /\ OneEntry(Restored(x, t), Restored(y, t), K)
  BY NoTxAssumption DEF OneEntry, Quiet, Published, Restored, Stored

(* An insert takes a key of which it sees no row, once nobody else is      *)
(* making or ending one.                                                   *)
LEMMA EntryMade ==
  ASSUME NEW x, NEW y, NEW t \in Tx, NEW K, NEW v, Quiet(x), Quiet(y),
         x.committed \notin K, View(y, t) \notin K,
         y.committed \in K \/ y.written \in K => y.holder \in {NoTx, t}
  PROVE  OneEntry(Put(x, t, v), y, K)
  BY NoTxAssumption DEF OneEntry, Quiet, Put, View

(* No transaction sees two rows of one key.                                *)
LEMMA EntrySeen ==
  ASSUME NEW x, NEW y, NEW t \in Tx, NEW K, OneEntry(x, y, K)
  PROVE  ~(View(x, t) \in K /\ View(y, t) \in K)
  BY DEF OneEntry, View

LEMMA EntrySymmetry ==
  ASSUME NEW x, NEW y, NEW K, OneEntry(x, y, K) PROVE OneEntry(y, x, K)
  BY DEF OneEntry

(* The identity the next row gets is a free one.                           *)
LEMMA LeastFree == ASSUME NEW S \in SUBSET Nat, S # {} PROVE Min(S) \in S
<1> DEFINE Less == {ss \in Nat \X Nat : ss[1] < ss[2]}
<1>1. IsWellFoundedOn(Less, Nat)
  BY NatLessThanWellFounded DEF OpToRel
<1>2. \A a \in Nat, b \in Nat : a < b => <<a, b>> \in Less
  OBVIOUS
<1> HIDE DEF Less
<1>3. PICK x \in S : \A y \in S : ~ <<y, x>> \in Less
  BY <1>1, WFMin
<1>4. \A y \in S : x <= y
  <2> SUFFICES ASSUME NEW y \in S PROVE x <= y
    OBVIOUS
  <2>1. x \in Nat /\ y \in Nat /\ ~(y < x)
    BY <1>2, <1>3
  <2> QED
    BY <2>1
<1> QED
  BY <1>4 DEF Min
=============================================================================
