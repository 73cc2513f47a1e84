------------------------ MODULE ServiceOrdersProofs -------------------------
(***************************************************************************)
(* Proofs about ServiceOrders for every number of members, orders, reviews,*)
(* connections, revisions and days.  A transaction writes a row and its    *)
(* event in different statements, and both count only once they are        *)
(* committed: the invariant says of every uncommitted version which event  *)
(* in the writer's hands tells it, and that the writer still has the row.  *)
(***************************************************************************)
EXTENDS ServiceOrders, RowStoreProofs, FiniteSetTheorems

(* Where an order may go next, whoever moves it.                           *)
Trade(v, w) ==
  \/ <<v.status, w.status>> \in {<<"awaiting_payment", "paid">>, <<"paid", "in_progress">>,
                                 <<"in_progress", "delivered">>, <<"delivered", "completed">>}
  \/ /\ w.status = "cancelled"
     /\ v.status \in {"requested", "awaiting_payment", "paid", "in_progress"}
  \/ w.status = "disputed" /\ v.status \in {"paid", "in_progress", "delivered"}
  \/ v.status = "requested" /\ v.mode = "online" /\ w.status = "awaiting_payment"
  \/ v.status = "requested" /\ v.mode # "online" /\ w.status = "in_progress"
  \/ v.status = "delivered" /\ w.status = "in_progress" /\ v.used < v.allowed

(* e tells how the order came to be w, from nothing or from v.             *)
Opens(v, w, e) ==
  /\ v = Absent /\ w \in Order /\ e \in Event
  /\ w.status = "requested" /\ w.used = 0 /\ w.allowed \in 0..MaxRevisions
  /\ e.from = Nothing /\ e.to = "requested" /\ ~e.revision
Follows(v, w, e) ==
  /\ v \in Order /\ w \in Order /\ e \in Event
  /\ Trade(v, w)
  /\ w.mode = v.mode /\ w.buyer = v.buyer /\ w.allowed = v.allowed
  /\ e.from = v.status /\ e.to = w.status
  /\ e.revision <=> (v.status = "delivered" /\ w.status = "in_progress")
  /\ w.used = IF e.revision THEN v.used + 1 ELSE v.used
  /\ w.status = "delivered" => w.delivered = e.at
  /\ w.status = "completed"
       => e.by = v.buyer \/ (v.delivered \in Nat /\ v.delivered + Window < e.at)

(* h is the history of v, and none of it is work nobody had paid for.      *)
History(v, h) ==
  IF v = Absent THEN h = <<>>
  ELSE /\ h # <<>> /\ h[1].from = Nothing /\ h[Len(h)].to = v.status
       /\ \A i \in 1..(Len(h) - 1) : h[i + 1].from = h[i].to
       /\ Cardinality({i \in 1..Len(h) : h[i].revision}) = v.used
       /\ v.status = "delivered" => h[Len(h)].at = v.delivered
PaidFirst(v, h) ==
  v # Absent /\ v.mode = "online"
    => /\ \A i \in 1..Len(h) :
            h[i].to = "in_progress" => \E j \in 1..(i - 1) : h[j].to = "paid"
       /\ v.status \in {"in_progress", "delivered"} => \E j \in 1..Len(h) : h[j].to = "paid"

-----------------------------------------------------------------------------
(* Histories.                                                              *)

LEMMA Appended ==
  ASSUME NEW h \in Seq(Event), NEW e \in Event
  PROVE  /\ Append(h, e) \in Seq(Event) /\ Len(h) \in Nat
         /\ Len(Append(h, e)) = Len(h) + 1 /\ Append(h, e) # <<>>
         /\ \A i \in 1..Len(h) : Append(h, e)[i] = h[i]
         /\ Append(h, e)[Len(h) + 1] = e
  OBVIOUS

LEMMA RevisionsCounted ==
  ASSUME NEW h \in Seq(Event), NEW e \in Event
  PROVE  LET n == Cardinality({i \in 1..Len(h) : h[i].revision})
         IN /\ n \in Nat
            /\ Cardinality({i \in 1..Len(Append(h, e)) : Append(h, e)[i].revision})
                 = IF e.revision THEN n + 1 ELSE n
<1> DEFINE S == {i \in 1..Len(h) : h[i].revision}
           g == Append(h, e)
           R == {i \in 1..Len(g) : g[i].revision}
           m == Len(h) + 1
<1>1. IsFiniteSet(S) /\ Cardinality(S) \in Nat
  <2>1. IsFiniteSet(1..Len(h))
    BY Appended, FS_Interval
  <2> QED
    BY <2>1, FS_Subset, FS_CardinalityType
<1>2. m \notin S
  BY Appended
<1>3. R = IF e.revision THEN S \cup {m} ELSE S
  <2>1. /\ Len(g) = m /\ Len(h) \in Nat /\ g[m] = e
        /\ \A i \in 1..Len(h) : g[i] = h[i]
    BY Appended
  <2> HIDE DEF g
  <2>2. 1..Len(g) = (1..Len(h)) \cup {m}
    BY <2>1
  <2>3. \A i \in 1..Len(h) : i \in R <=> i \in S
    BY <2>1, <2>2
  <2>4. m \in R <=> e.revision
    BY <2>1, <2>2
  <2> QED
    BY <2>2, <2>3, <2>4, <1>2
<1>4. CASE e.revision
  BY <1>1, <1>2, <1>3, <1>4, FS_AddElement
<1>5. CASE ~e.revision
  BY <1>1, <1>3, <1>5
<1> QED
  BY <1>1, <1>4, <1>5

LEMMA HistoryOpens ==
  ASSUME NEW v, NEW w, NEW e, NEW h \in Seq(Event), Opens(v, w, e), History(v, h)
  PROVE  History(w, Append(h, e)) /\ PaidFirst(w, Append(h, e))
<1>1. h = <<>> /\ w # Absent /\ e \in Event
  BY AbsentAssumption DEF Opens, History
<1>2. /\ Len(Append(h, e)) = 1 /\ Append(h, e)[1] = e /\ Append(h, e) # <<>>
  BY <1>1
<1>3. Cardinality({i \in 1..Len(h) : h[i].revision}) = 0
  <2>1. {i \in 1..Len(h) : h[i].revision} = {}
    BY <1>1
  <2> QED
    BY <2>1, FS_EmptySet
<1>4. Cardinality({i \in 1..Len(Append(h, e)) : Append(h, e)[i].revision}) = 0
  BY <1>1, <1>3, RevisionsCounted DEF Opens
<1> HIDE DEF History
<1>5. History(w, Append(h, e))
  BY <1>1, <1>2, <1>4 DEF History, Opens
<1>6. PaidFirst(w, Append(h, e))
  BY <1>1, <1>2 DEF PaidFirst, Opens
<1> QED
  BY <1>5, <1>6

LEMMA HistoryFollows ==
  ASSUME NEW v, NEW w, NEW e, NEW h \in Seq(Event), Follows(v, w, e),
         History(v, h), PaidFirst(v, h)
  PROVE  History(w, Append(h, e)) /\ PaidFirst(w, Append(h, e))
<1> DEFINE g == Append(h, e)
           n == Len(h)
<1>1. v # Absent /\ w # Absent /\ e \in Event /\ v.used \in Nat
  BY AbsentAssumption DEF Follows, Order
<1>2. /\ h # <<>> /\ h[1].from = Nothing /\ h[n].to = v.status
      /\ \A i \in 1..(n - 1) : h[i + 1].from = h[i].to
      /\ Cardinality({i \in 1..n : h[i].revision}) = v.used
  BY <1>1 DEF History
<1>3. /\ n \in Nat /\ n # 0 /\ Len(g) = n + 1 /\ g # <<>> /\ g[n + 1] = e
      /\ \A i \in 1..n : g[i] = h[i]
  BY <1>1, <1>2, Appended
<1>4. Cardinality({i \in 1..Len(g) : g[i].revision}) = w.used
  BY <1>1, <1>2, RevisionsCounted DEF Follows
<1> HIDE DEF g
<1>5. \A i \in 1..(Len(g) - 1) : g[i + 1].from = g[i].to
  <2> SUFFICES ASSUME NEW i \in 1..n PROVE g[i + 1].from = g[i].to
    BY <1>3
  <2>1. CASE i = n
    BY <1>2, <1>3, <2>1 DEF Follows
  <2>2. CASE i # n
    BY <1>2, <1>3, <2>2
  <2> QED
    BY <2>1, <2>2
<1>6. /\ g[1].from = Nothing /\ g[Len(g)].to = w.status
      /\ w.status = "delivered" => g[Len(g)].at = w.delivered
  BY <1>2, <1>3 DEF Follows
<1>7. History(w, g)
  BY <1>1, <1>3, <1>4, <1>5, <1>6 DEF History
<1>8. PaidFirst(w, g)
  <2> SUFFICES ASSUME w.mode = "online"
               PROVE  /\ \A i \in 1..(n + 1) :
                           g[i].to = "in_progress" => \E j \in 1..(i - 1) : g[j].to = "paid"
                      /\ w.status \in {"in_progress", "delivered"}
                           => \E j \in 1..(n + 1) : g[j].to = "paid"
    BY <1>3 DEF PaidFirst
  <2>1. /\ v.mode = "online"
        /\ \A i \in 1..n :
             h[i].to = "in_progress" => \E j \in 1..(i - 1) : h[j].to = "paid"
        /\ v.status \in {"in_progress", "delivered"} => \E j \in 1..n : h[j].to = "paid"
    BY <1>1 DEF PaidFirst, Follows
  <2>2. w.status \in {"in_progress", "delivered"} => \E j \in 1..n : h[j].to = "paid"
    <3>1. w.status \in {"in_progress", "delivered"}
            => v.status \in {"paid", "in_progress", "delivered"}
      BY <2>1 DEF Follows, Trade
    <3>2. CASE v.status = "paid"
      BY <1>2, <1>3, <3>2
    <3> QED
      BY <2>1, <3>1, <3>2
  <2>3. ASSUME NEW i \in 1..n, g[i].to = "in_progress"
        PROVE  \E j \in 1..(i - 1) : g[j].to = "paid"
    <3>1. PICK j \in 1..(i - 1) : h[j].to = "paid"
      BY <1>3, <2>1, <2>3
    <3> QED
      BY <1>3, <3>1
  <2>4. g[n + 1].to = w.status
    BY <1>3 DEF Follows
  <2>5. w.status \in {"in_progress", "delivered"} => \E j \in 1..n : g[j].to = "paid"
    BY <1>3, <2>2
  <2>6. \A i \in 1..(n + 1) : i \in 1..n \/ i = n + 1
    BY <1>3
  <2> QED
    BY <1>3, <2>3, <2>4, <2>5, <2>6
<1> QED
  BY <1>7, <1>8 DEF g


-----------------------------------------------------------------------------
(* The invariant.                                                          *)

(* The uncommitted version of a row: only locked, or told by an event that *)
(* its writer has inserted.                                                *)
Writing(t, o) ==
  LET x == tx[t]
      v == orders[o].committed
      w == orders[o].written
  IN \/ x.pc = "move.apply" /\ o = x.order /\ v \in Order /\ w = v /\ x.seen = v
     \/ \E e \in x.out :
          /\ e.order = o /\ e.event.at = x.at
          /\ \/ x.pc = "commit" /\ (Opens(v, w, e.event) \/ Follows(v, w, e.event))
             \/ x.pc = "auto.rows" /\ Follows(v, w, e.event) /\ w.status = "completed"

OrderPCs == {"move.lock", "move.apply", "review.existing", "review.insert"}
HoldingPCs == {"move.apply", "commit", "auto.rows"}

TxInv(t) ==
  LET x == tx[t]
  IN /\ x.at <= clock
     /\ x.pc \in OrderPCs => /\ x.user \in Users /\ x.order \in Orders
                             /\ orders[x.order].committed \in Order
     /\ x.pc \in {"move.lock", "move.apply"} => x.to \in Status
     /\ x.pc = "move.apply" => orders[x.order].holder = t
     /\ \A o \in Orders : orders[o].holder = t => Writing(t, o)
     /\ \A e \in x.out : orders[e.order].holder = t
     /\ \A e, f \in x.out : e.order = f.order \/ x.pc = "commit" => e = f

OrderMoves == Order \X Order
ReviewMoves == Review \X Review
RowsInv ==
  /\ orders = [o \in Orders |-> orders[o]]
  /\ \A o \in Orders : RowInv(orders[o], Order, OrderMoves, Absent)
  /\ reviews = [v \in Reviews |-> reviews[v]]
  /\ \A v \in Reviews : RowInv(reviews[v], Review, ReviewMoves, Absent)

LogInv ==
  /\ log \in [Orders -> Seq(Event)]
  /\ \A o \in Orders : /\ History(orders[o].committed, log[o])
                       /\ PaidFirst(orders[o].committed, log[o])

(* Every review, committed or not, is earned, and has its order to itself. *)
Earned(w) ==
  w \in Review => /\ orders[w.order].committed \in Order
                  /\ Reviewable(orders[w.order].committed, w.reviewer)
ReviewsOf(o) == {w \in Review : w.order = o}
ReviewsInv ==
  /\ \A v \in Reviews : Earned(reviews[v].committed) /\ Earned(reviews[v].written)
  /\ \A p, q \in Reviews, o \in Orders :
       p # q => OneEntry(reviews[p], reviews[q], ReviewsOf(o))

Inv ==
  /\ RowsInv /\ LogInv /\ ReviewsInv
  /\ tx \in [Tx -> Transaction] /\ clock \in Nat
  /\ \A t \in Tx : TxInv(t)

-----------------------------------------------------------------------------
(* What a step of one transaction leaves alone.                            *)

StepOK(t) ==
  /\ orders' = [o \in Orders |-> orders'[o]]
  /\ \A o \in Orders : RowChange(orders[o], orders'[o], t, Order, OrderMoves)
  /\ reviews' = [v \in Reviews |-> reviews'[v]]
  /\ \A v \in Reviews : RowChange(reviews[v], reviews'[v], t, Review, ReviewMoves)
  /\ tx' \in [Tx -> Transaction] /\ \A s \in Tx \ {t} : tx'[s] = tx[s]
  /\ clock' = clock

(* Nothing is committed.                                                   *)
Calm == log' = log /\ \A o \in Orders : orders'[o].committed = orders[o].committed

LEMMA RowsKept == ASSUME Inv, NEW t \in Tx, StepOK(t) PROVE RowsInv'
<1>1. \A o \in Orders : RowInv(orders'[o], Order, OrderMoves, Absent)
  <2> SUFFICES ASSUME NEW o \in Orders PROVE RowInv(orders'[o], Order, OrderMoves, Absent)
    OBVIOUS
  <2>1. /\ RowInv(orders[o], Order, OrderMoves, Absent)
        /\ RowChange(orders[o], orders'[o], t, Order, OrderMoves)
    BY DEF Inv, RowsInv, StepOK
  <2>2. /\ \A v \in Order : <<v, v>> \in OrderMoves
        /\ \A u, v, w \in Order :
             <<u, v>> \in OrderMoves /\ <<v, w>> \in OrderMoves => <<u, w>> \in OrderMoves
    BY DEF OrderMoves
  <2> QED
    BY <2>1, <2>2, RowPreserved
<1>2. \A v \in Reviews : RowInv(reviews'[v], Review, ReviewMoves, Absent)
  <2> SUFFICES ASSUME NEW v \in Reviews
               PROVE  RowInv(reviews'[v], Review, ReviewMoves, Absent)
    OBVIOUS
  <2>1. /\ RowInv(reviews[v], Review, ReviewMoves, Absent)
        /\ RowChange(reviews[v], reviews'[v], t, Review, ReviewMoves)
    BY DEF Inv, RowsInv, StepOK
  <2>2. /\ \A u \in Review : <<u, u>> \in ReviewMoves
        /\ \A x, y, z \in Review :
             <<x, y>> \in ReviewMoves /\ <<y, z>> \in ReviewMoves => <<x, z>> \in ReviewMoves
    BY DEF ReviewMoves
  <2> QED
    BY <2>1, <2>2, RowPreserved
<1> QED
  BY <1>1, <1>2 DEF RowsInv, StepOK

LEMMA OrderRow ==
  ASSUME Inv, NEW o \in Orders
  PROVE  /\ RowInv(orders[o], Order, OrderMoves, Absent)
         /\ orders[o].committed \in Order \cup {Absent}
         /\ orders[o].holder \in Tx \cup {NoTx}
         /\ \A t \in Tx : /\ orders[o].holder # t => OrderSeen(t, o) = orders[o].committed
                          /\ orders[o].holder = t => OrderSeen(t, o) = orders[o].written
<1>1. RowInv(orders[o], Order, OrderMoves, Absent)
  BY DEF Inv, RowsInv
<1> QED
  BY <1>1 DEF RowInv, RowsOf, OrderSeen, View

LEMMA OrdersStay ==
  ASSUME Inv, NEW t \in Tx, StepOK(t), NEW o \in Orders, orders[o].committed \in Order
  PROVE  orders'[o].committed \in Order
<1>1. RowChange(orders[o], orders'[o], t, Order, OrderMoves)
  BY DEF StepOK
<1> QED
  BY <1>1, OrderRow, CommittedKept

LEMMA OthersKept ==
  ASSUME Inv, NEW t \in Tx, StepOK(t), NEW s \in Tx, s # t PROVE TxInv(s)'
<1>1. TxInv(s) /\ tx'[s] = tx[s] /\ tx[s] \in Transaction /\ clock' = clock
  BY DEF Inv, StepOK
<1>2. \A o \in Orders : /\ orders'[o].holder = s <=> orders[o].holder = s
                        /\ orders[o].holder = s => orders'[o] = orders[o]
  <2> SUFFICES ASSUME NEW o \in Orders
               PROVE  /\ orders'[o].holder = s <=> orders[o].holder = s
                      /\ orders[o].holder = s => orders'[o] = orders[o]
    OBVIOUS
  <2>1. RowChange(orders[o], orders'[o], t, Order, OrderMoves)
    BY DEF StepOK
  <2> QED
    BY <2>1, OthersRow
<1>3. ASSUME NEW o \in Orders, orders'[o].holder = s PROVE Writing(s, o)'
  <2>1. Writing(s, o) /\ orders'[o] = orders[o]
    BY <1>1, <1>2, <1>3 DEF TxInv
  <2> QED
    BY <1>1, <2>1 DEF Writing
<1>4. \A e \in tx[s].out : e.order \in Orders
  BY <1>1 DEF Transaction
<1>5. tx[s].pc \in OrderPCs => orders'[tx[s].order].committed \in Order
  BY <1>1, OrdersStay DEF TxInv
<1>6. tx[s].pc = "move.apply" => orders'[tx[s].order].holder = s
  BY <1>1, <1>2 DEF TxInv, OrderPCs
<1> QED
  BY <1>1, <1>2, <1>3, <1>4, <1>5, <1>6 DEF TxInv

LEMMA Stepped ==
  ASSUME Inv, NEW t \in Tx, StepOK(t), TxInv(t)', LogInv', ReviewsInv' PROVE Inv'
<1>1. \A s \in Tx : TxInv(s)'
  BY OthersKept
<1> QED
  BY <1>1, RowsKept DEF Inv, StepOK

LEMMA CalmLog == ASSUME Inv, Calm PROVE LogInv'
  BY DEF Inv, LogInv, Calm

LEMMA CalmReviews == ASSUME Inv, Calm, reviews' = reviews PROVE ReviewsInv'
<1>1. ASSUME NEW w, Earned(w) PROVE Earned(w)'
  <2>1. CASE w \in Review
    BY <1>1, <2>1 DEF Earned, Calm, Review
  <2> QED
    BY <2>1 DEF Earned
<1> QED
  BY <1>1 DEF Inv, ReviewsInv

(* A transaction that is not writing holds no row.                         *)
LEMMA HoldsNothing ==
  ASSUME Inv, NEW t \in Tx, tx[t].pc \notin HoldingPCs
  PROVE  (\A o \in Orders : orders[o].holder # t) /\ tx[t].out = {}
<1>1. \A o \in Orders : orders[o].holder # t
  BY DEF Inv, TxInv, Writing, HoldingPCs
<1>2. tx[t].out = {}
  BY <1>1 DEF Inv, TxInv, Transaction
<1> QED
  BY <1>1, <1>2

(* Nothing happens to the tables.                                          *)
LEMMA LocalStep ==
  ASSUME Inv, NEW t \in Tx, UNCHANGED <<orders, log, reviews, clock>>,
         NEW x \in Transaction, tx' = [tx EXCEPT ![t] = x], TxInv(t)'
  PROVE  Inv' /\ Calm
<1>1. StepOK(t)
  BY DEF StepOK, Inv, RowsInv, RowChange
<1>2. Calm
  BY DEF Calm
<1> QED
  BY <1>1, <1>2, CalmLog, CalmReviews, Stepped

(* One order is written.                                                   *)
Wrote(t, o, w, x) ==
  /\ WriteOrder(t, o, w) /\ Free(orders[o], t) /\ UNCHANGED <<log, reviews, clock>>
  /\ tx' = [tx EXCEPT ![t] = x]

OneWritten(t, o, w, x) ==
  /\ orders'[o].holder = t /\ orders'[o].written = w
  /\ orders'[o].committed = orders[o].committed
  /\ \A p \in Orders \ {o} : orders'[p] = orders[p]
  /\ tx'[t] = x

LEMMA WriteStep ==
  ASSUME Inv, NEW t \in Tx, NEW o \in Orders, NEW w \in Order, NEW x \in Transaction,
         Wrote(t, o, w, x)
  PROVE  StepOK(t) /\ Calm /\ OneWritten(t, o, w, x)
<1>1. /\ orders' = [p \in Orders |-> orders'[p]]
      /\ orders'[o] = Put(orders[o], t, w)
      /\ \A p \in Orders \ {o} : orders'[p] = orders[p]
  BY DEF Inv, RowsInv, WriteOrder, Wrote
<1>2. RowChange(orders[o], orders'[o], t, Order, OrderMoves)
  <2>1. View(orders[o], t) \in Order => <<View(orders[o], t), w>> \in OrderMoves
    BY DEF OrderMoves
  <2> QED
    BY <1>1, <2>1 DEF RowChange, Wrote
<1>3. \A p \in Orders : RowChange(orders[p], orders'[p], t, Order, OrderMoves)
  BY <1>1, <1>2 DEF RowChange
<1>4. /\ orders'[o].committed = orders[o].committed /\ orders'[o].holder = t
      /\ orders'[o].written = w
  BY <1>1 DEF Put
<1>5. /\ tx' \in [Tx -> Transaction] /\ \A s \in Tx \ {t} : tx'[s] = tx[s]
      /\ tx'[t] = x
  BY DEF Inv, Wrote
<1>6. StepOK(t)
  <2>1. \A v \in Reviews : RowChange(reviews[v], reviews'[v], t, Review, ReviewMoves)
    BY DEF RowChange, Wrote
  <2> QED
    BY <1>1, <1>3, <1>5, <2>1 DEF StepOK, Inv, RowsInv, Wrote
<1>7. Calm
  BY <1>1, <1>4 DEF Calm, Wrote
<1> QED
  BY <1>1, <1>4, <1>5, <1>6, <1>7 DEF OneWritten

LEMMA WroteInv ==
  ASSUME Inv, NEW t \in Tx, NEW o \in Orders, NEW w \in Order, NEW x \in Transaction,
         Wrote(t, o, w, x), TxInv(t)'
  PROVE  Inv'
<1>1. reviews' = reviews
  BY DEF Wrote
<1> QED
  BY <1>1, WriteStep, CalmLog, CalmReviews, Stepped


-----------------------------------------------------------------------------
(* The statements.                                                         *)

LEMMA IdleTx ==
  /\ Idle \in Transaction /\ Idle.pc = "idle" /\ Idle.out = {} /\ Idle.at = 0
  BY DEF Idle, Transaction

(* A transaction that ends, or that has not written anything.              *)
LEMMA PlainTx ==
  ASSUME Inv, NEW t \in Tx, orders' = orders, clock' = clock, tx[t].pc \notin HoldingPCs,
         NEW x, tx'[t] = x, x.out = {}, x.at <= clock, x.pc # "move.apply",
         x.pc \in OrderPCs => /\ x.user \in Users /\ x.order \in Orders
                              /\ orders[x.order].committed \in Order,
         x.pc = "move.lock" => x.to \in Status
  PROVE  TxInv(t)'
<1>1. \A o \in Orders : orders[o].holder # t
  BY HoldsNothing
<1> QED
  BY <1>1 DEF TxInv

Becomes(t, x) == tx' = [tx EXCEPT ![t] = x] /\ tx'[t] = x

Begun(t, x, pc, u, o, to) ==
  /\ Becomes(t, x) /\ tx[t].pc = "idle"
  /\ x.pc = pc /\ x.user = u /\ x.order = o /\ x.to = to /\ x.out = {} /\ x.at = clock

LEMMA BeginTx ==
  ASSUME Inv, NEW t \in Tx, NEW pc \in Statements, NEW u \in Users \cup {Nothing},
         NEW o \in Orders \cup {Nothing}, NEW to \in Status \cup {Nothing},
         Begin(t, pc, u, o, to)
  PROVE  \E x \in Transaction : Begun(t, x, pc, u, o, to)
<1> DEFINE x == [Idle EXCEPT !.pc = pc, !.user = u, !.order = o, !.to = to, !.at = clock]
<1>1. /\ x \in Transaction /\ x.pc = pc /\ x.user = u /\ x.order = o /\ x.to = to
      /\ x.out = {} /\ x.at = clock
  BY DEF Idle, Transaction, Inv
<1>2. tx' = [tx EXCEPT ![t] = x] /\ tx[t].pc = "idle"
  BY DEF Begin
<1>3. t \in DOMAIN tx
  BY DEF Inv
<1> HIDE DEF x
<1>4. tx'[t] = x
  BY <1>2, <1>3
<1>5. Begun(t, x, pc, u, o, to)
  BY <1>1, <1>2, <1>4 DEF Begun, Becomes
<1> QED
  BY <1>1, <1>5

LEMMA BegunStep ==
  ASSUME Inv, NEW t \in Tx, NEW pc \in Statements \ HoldingPCs,
         NEW u \in Users \cup {Nothing}, NEW o \in Orders \cup {Nothing},
         NEW to \in Status \cup {Nothing}, Begin(t, pc, u, o, to),
         pc \in OrderPCs => /\ u \in Users /\ o \in Orders
                            /\ orders[o].committed \in Order,
         pc = "move.lock" => to \in Status,
         UNCHANGED <<orders, log, reviews, clock>>
  PROVE  Inv'
<1>0. PICK x \in Transaction : Begun(t, x, pc, u, o, to)
  <2>1. pc \in Statements
    OBVIOUS
  <2> QED
    BY <2>1, BeginTx
<1>1. /\ tx' = [tx EXCEPT ![t] = x] /\ tx'[t] = x /\ tx[t].pc = "idle"
      /\ x.pc = pc /\ x.user = u /\ x.order = o /\ x.to = to
      /\ x.out = {} /\ x.at = clock
  BY <1>0 DEF Begun, Becomes
<1>2. tx[t].pc \notin HoldingPCs /\ pc # "move.apply"
  BY <1>1 DEF HoldingPCs
<1>3. x.at <= clock
  BY <1>1 DEF Inv
<1>4. TxInv(t)'
  BY <1>1, <1>2, <1>3, PlainTx
<1> QED
  BY <1>1, <1>4, LocalStep

LEMMA MoveBeginStep == ASSUME Inv, NEW t \in Tx, Move_Begin(t) PROVE Inv'
<1>1. PICK u \in Users, o \in Placed, to \in Status \ {"requested"} :
        Begin(t, "move.lock", u, o, to)
  BY DEF Move_Begin
<1>2. o \in Orders /\ orders[o].committed \in Order
  BY OrderRow DEF Placed
<1>3. "move.lock" \in Statements \ HoldingPCs
  BY DEF Statements, HoldingPCs
<1> QED
  BY <1>1, <1>2, <1>3, BegunStep DEF Move_Begin

LEMMA ReviewOrderStep == ASSUME Inv, NEW t \in Tx, Review_Order(t) PROVE Inv'
<1>1. PICK u \in Users, o \in Placed : Begin(t, "review.existing", u, o, Nothing)
  BY DEF Review_Order
<1>2. o \in Orders /\ orders[o].committed \in Order
  BY OrderRow DEF Placed
<1>3. "review.existing" \in Statements \ HoldingPCs
  BY DEF Statements, HoldingPCs
<1> QED
  BY <1>1, <1>2, <1>3, BegunStep DEF Review_Order

LEMMA AutoBeginStep == ASSUME Inv, NEW t \in Tx, Auto_Begin(t) PROVE Inv'
<1>1. "auto.scan" \in Statements \ HoldingPCs /\ "auto.scan" \notin OrderPCs
  BY DEF Statements, HoldingPCs, OrderPCs
<1> QED
  BY <1>1, BegunStep DEF Auto_Begin

(* The next statement of t; what it does not change it remembers.          *)
LEMMA GoneOn ==
  ASSUME Inv, NEW t \in Tx, NEW pc \in Statements,
         tx' = [tx EXCEPT ![t].pc = pc]
  PROVE  \E x \in Transaction :
           /\ tx' = [tx EXCEPT ![t] = x] /\ tx'[t] = x /\ x.pc = pc
           /\ x.user = tx[t].user /\ x.order = tx[t].order /\ x.to = tx[t].to
           /\ x.out = tx[t].out /\ x.at = tx[t].at
<1> DEFINE x == [tx[t] EXCEPT !.pc = pc]
<1>1. tx[t] \in Transaction /\ t \in DOMAIN tx
  BY DEF Inv
<1>2. /\ x \in Transaction /\ x.pc = pc /\ x.user = tx[t].user /\ x.order = tx[t].order
      /\ x.to = tx[t].to /\ x.out = tx[t].out /\ x.at = tx[t].at
  BY <1>1 DEF Transaction
<1>3. tx' = [tx EXCEPT ![t] = x]
  OBVIOUS
<1> HIDE DEF x
<1> QED
  BY <1>1, <1>2, <1>3

LEMMA ReturnStep ==
  ASSUME Inv, NEW t \in Tx, Return(t), tx[t].pc \notin HoldingPCs,
         UNCHANGED <<orders, log, reviews, clock>>
  PROVE  Inv'
<1>1. tx'[t] = Idle
  BY DEF Inv, Return
<1>2. /\ Idle.at <= clock /\ Idle.pc \notin OrderPCs /\ Idle.pc # "move.apply"
      /\ Idle.pc # "move.lock"
  BY IdleTx DEF Inv, OrderPCs
<1>3. TxInv(t)'
  BY <1>1, <1>2, IdleTx, PlainTx
<1> QED
  BY <1>3, IdleTx, LocalStep DEF Return

LEMMA ReviewExistingStep == ASSUME Inv, NEW t \in Tx, Review_Existing(t) PROVE Inv'
<1>1. tx[t].pc = "review.existing" /\ UNCHANGED <<orders, log, reviews, clock>>
  BY DEF Review_Existing
<1>2. tx[t].pc \notin HoldingPCs
  BY <1>1 DEF HoldingPCs
<1>3. CASE Return(t)
  BY <1>1, <1>2, <1>3, ReturnStep
<1>4. CASE tx' = [tx EXCEPT ![t].pc = "review.insert"]
  <2>1. PICK x \in Transaction :
          /\ tx' = [tx EXCEPT ![t] = x] /\ tx'[t] = x /\ x.pc = "review.insert"
          /\ x.user = tx[t].user /\ x.order = tx[t].order /\ x.to = tx[t].to
          /\ x.out = tx[t].out /\ x.at = tx[t].at
    <3>1. "review.insert" \in Statements
      BY DEF Statements
    <3> QED
      BY <1>4, <3>1, GoneOn
  <2>2. /\ tx[t].user \in Users /\ tx[t].order \in Orders /\ tx[t].at <= clock
        /\ orders[tx[t].order].committed \in Order
    BY <1>1 DEF Inv, TxInv, OrderPCs
  <2>3. tx[t].out = {}
    BY <1>2, HoldsNothing
  <2>4. TxInv(t)'
    BY <1>1, <1>2, <2>1, <2>2, <2>3, PlainTx
  <2> QED
    BY <1>1, <2>1, <2>4, LocalStep
<1> QED
  BY <1>3, <1>4 DEF Review_Existing

LEMMA AutoScanStep == ASSUME Inv, NEW t \in Tx, Auto_Scan(t) PROVE Inv'
<1> DEFINE S == {o \in Orders : Overdue(OrderSeen(t, o), tx[t].at)}
           x == [tx[t] EXCEPT !.pc = "auto.rows", !.todo = S]
<1>1. tx[t].pc = "auto.scan" /\ UNCHANGED <<orders, log, reviews, clock>>
  BY DEF Auto_Scan
<1>2. tx[t] \in Transaction /\ t \in DOMAIN tx /\ S \in SUBSET Orders
  BY DEF Inv
<1>3. tx' = [tx EXCEPT ![t] = x]
  BY DEF Auto_Scan
<1> HIDE DEF S
<1>4. /\ x \in Transaction /\ x.pc = "auto.rows" /\ x.out = tx[t].out /\ x.at = tx[t].at
  BY <1>2 DEF Transaction, Statements
<1> HIDE DEF x
<1>5. tx'[t] = x
  BY <1>2, <1>3
<1>6. tx[t].pc \notin HoldingPCs /\ x.pc \notin OrderPCs
  BY <1>1, <1>4 DEF HoldingPCs, OrderPCs
<1>7. tx[t].out = {} /\ tx[t].at <= clock
  BY <1>6, HoldsNothing DEF Inv, TxInv
<1>8. TxInv(t)'
  BY <1>1, <1>4, <1>5, <1>6, <1>7, PlainTx
<1> QED
  BY <1>1, <1>3, <1>4, <1>8, LocalStep


LEMMA MoveLockStep == ASSUME Inv, NEW t \in Tx, Move_Lock(t) PROVE Inv'
<1> DEFINE o == tx[t].order
           v == OrderSeen(t, o)
           x == [tx[t] EXCEPT !.pc = "move.apply", !.seen = v]
<1>1. /\ tx[t].pc = "move.lock" /\ Free(orders[o], t) /\ WriteOrder(t, o, v)
      /\ tx' = [tx EXCEPT ![t] = x] /\ UNCHANGED <<log, reviews, clock>>
  BY DEF Move_Lock
<1>2. /\ tx[t].user \in Users /\ o \in Orders /\ orders[o].committed \in Order
      /\ tx[t].to \in Status /\ tx[t].at <= clock /\ tx[t] \in Transaction
  BY <1>1 DEF Inv, TxInv, OrderPCs
<1>3. (\A p \in Orders : orders[p].holder # t) /\ tx[t].out = {}
  BY <1>1, HoldsNothing DEF HoldingPCs
<1>4. v = orders[o].committed
  BY <1>2, <1>3, OrderRow
<1>5. PICK y : y = x
  OBVIOUS
<1> HIDE DEF v
<1>6. /\ y \in Transaction /\ y.pc = "move.apply" /\ y.seen = v /\ y.out = tx[t].out
      /\ y.user = tx[t].user /\ y.order = o /\ y.to = tx[t].to /\ y.at = tx[t].at
  BY <1>2, <1>4, <1>5 DEF Transaction, Statements
<1>7. tx' = [tx EXCEPT ![t] = y]
  BY <1>1, <1>5
<1> HIDE DEF x
<1>8. Wrote(t, o, v, y)
  BY <1>1, <1>7 DEF Wrote
<1>9. /\ orders'[o].holder = t /\ orders'[o].written = v
      /\ orders'[o].committed = orders[o].committed
      /\ \A p \in Orders \ {o} : orders'[p] = orders[p]
      /\ tx'[t] = y
  BY <1>2, <1>4, <1>6, <1>8, WriteStep DEF OneWritten
<1>10. \A p \in Orders : orders'[p].holder = t => Writing(t, p)'
  BY <1>2, <1>3, <1>4, <1>6, <1>9 DEF Writing
<1>11. TxInv(t)'
  BY <1>1, <1>2, <1>3, <1>6, <1>9, <1>10 DEF TxInv
<1> QED
  BY <1>2, <1>4, <1>6, <1>8, <1>11, WroteInv

LEMMA EntryTyped ==
  ASSUME NEW o \in Orders, NEW u \in Users \cup {Nothing}, NEW from \in Status \cup {Nothing},
         NEW to \in Status, NEW revision \in BOOLEAN, NEW now \in Nat
  PROVE  /\ Entry(o, u, from, to, revision, now) \in [order : Orders, event : Event]
         /\ Entry(o, u, from, to, revision, now).order = o
         /\ LET e == Entry(o, u, from, to, revision, now).event
            IN /\ e \in Event /\ e.by = u /\ e.from = from /\ e.to = to
               /\ e.revision = revision /\ e.at = now
  BY DEF Entry, Event

LEMMA MovedFields ==
  ASSUME NEW v \in Order, NEW to \in Status, NEW now \in Nat
  PROVE  LET w == Moved(v, v.status, to, now)
         IN /\ w \in Order /\ w.status = to /\ w.mode = v.mode /\ w.buyer = v.buyer
            /\ w.allowed = v.allowed
            /\ w.delivered = IF to = "delivered" THEN now ELSE v.delivered
            /\ w.used = IF IsRevision(v, to) THEN v.used + 1 ELSE v.used
<1> DEFINE d == IF to = "delivered" THEN now ELSE v.delivered
           n == IF v.status = "delivered" /\ to = "in_progress" THEN v.used + 1 ELSE v.used
<1>1. Moved(v, v.status, to, now) = [v EXCEPT !.status = to, !.delivered = d, !.used = n]
  BY DEF Moved
<1>2. /\ d \in Nat \cup {Nothing} /\ n \in Nat
      /\ n = IF IsRevision(v, to) THEN v.used + 1 ELSE v.used
  BY DEF Order, IsRevision
<1> HIDE DEF n
<1>3. PICK k : k = n
  OBVIOUS
<1>4. PICK f : f = d
  OBVIOUS
<1>5. PICK w : w = [v EXCEPT !.status = to, !.delivered = f, !.used = k]
  OBVIOUS
<1>6. /\ w \in Order /\ w.status = to /\ w.mode = v.mode /\ w.buyer = v.buyer
      /\ w.allowed = v.allowed /\ w.delivered = f /\ w.used = k
  BY <1>2, <1>3, <1>4, <1>5 DEF Order
<1>7. w = Moved(v, v.status, to, now)
  BY <1>1, <1>3, <1>4, <1>5
<1> QED
  BY <1>2, <1>3, <1>4, <1>6, <1>7

(* What mkt_order_transition allows is an edge of the trade.               *)
LEMMA LegalFollows ==
  ASSUME NEW v \in Order, NEW u \in Users, NEW to \in Status, NEW now \in Nat,
         NEW o \in Orders, Legal(v, to, RoleOf(v, u))
  PROVE  Follows(v, Moved(v, v.status, to, now),
                 Entry(o, u, v.status, to, IsRevision(v, to), now).event)
<1>1. PICK w : w = Moved(v, v.status, to, now)
  OBVIOUS
<1>2. PICK e : e = Entry(o, u, v.status, to, IsRevision(v, to), now).event
  OBVIOUS
<1>3. /\ e \in Event /\ e.by = u /\ e.from = v.status /\ e.to = to
      /\ e.revision = IsRevision(v, to) /\ e.at = now
  <2>1. v.status \in Status \cup {Nothing} /\ IsRevision(v, to) \in BOOLEAN
        /\ u \in Users \cup {Nothing}
    BY DEF Order, IsRevision
  <2> QED
    BY <1>2, <2>1, EntryTyped
<1>4. /\ w \in Order /\ w.status = to /\ w.mode = v.mode /\ w.buyer = v.buyer
      /\ w.allowed = v.allowed
      /\ w.delivered = IF to = "delivered" THEN now ELSE v.delivered
      /\ w.used = IF IsRevision(v, to) THEN v.used + 1 ELSE v.used
  BY <1>1, MovedFields
<1>5. Trade(v, w)
  <2>1. CASE <<v.status, to, RoleOf(v, u)>> \in PlainEdges
    BY <1>4, <2>1 DEF PlainEdges, Trade
  <2>2. CASE v.status = "requested"
             /\ to = IF v.mode = "online" THEN "awaiting_payment" ELSE "in_progress"
    BY <1>4, <2>2 DEF Trade
  <2>3. CASE v.status = "delivered" /\ to = "in_progress" /\ v.used < v.allowed
    BY <1>4, <2>3 DEF Trade
  <2> QED
    BY <2>1, <2>2, <2>3 DEF Legal
<1>6. to = "completed" => u = v.buyer
  <2>1. to = "completed" => RoleOf(v, u) = "buyer"
    BY DEF Legal, PlainEdges
  <2> QED
    BY <2>1 DEF RoleOf
<1>7. Follows(v, w, e)
  BY <1>3, <1>4, <1>5, <1>6 DEF Follows, IsRevision
<1> QED
  BY <1>1, <1>2, <1>7

(* t has written one order and the event that tells it.                    *)
LEMMA ToldStep ==
  ASSUME Inv, NEW t \in Tx, NEW o \in Orders, NEW w \in Order, NEW x \in Transaction,
         Wrote(t, o, w, x), \A p \in Orders \ {o} : orders[p].holder # t,
         x.pc = "commit", x.at <= clock,
         NEW e, x.out = {e}, e.order = o, e.event.at = x.at,
         Opens(orders[o].committed, w, e.event) \/ Follows(orders[o].committed, w, e.event)
  PROVE  Inv'
<1>1. /\ orders'[o].holder = t /\ orders'[o].written = w
      /\ orders'[o].committed = orders[o].committed
      /\ \A p \in Orders \ {o} : orders'[p] = orders[p]
      /\ tx'[t] = x /\ clock' = clock
  <2>1. OneWritten(t, o, w, x)
    BY WriteStep
  <2> QED
    BY <2>1 DEF OneWritten, Wrote
<1>2. Writing(t, o)'
  BY <1>1 DEF Writing
<1>3. TxInv(t)'
  BY <1>1, <1>2 DEF TxInv, OrderPCs
<1> QED
  BY <1>3, WroteInv


LEMMA MoveApplyStep == ASSUME Inv, NEW t \in Tx, Move_Apply(t) PROVE Inv'
<1>1. /\ tx[t].pc = "move.apply" /\ tx[t] \in Transaction /\ tx[t].at \in Nat
      /\ tx[t].user \in Users /\ tx[t].order \in Orders /\ tx[t].to \in Status
      /\ tx[t].at <= clock /\ tx[t].seen \in Order \cup {Absent}
  BY DEF Move_Apply, Inv, TxInv, OrderPCs, Transaction
<1>2. PICK o \in Orders, u \in Users, to \in Status, now \in Nat,
           v \in Order \cup {Absent} :
        /\ o = tx[t].order /\ u = tx[t].user /\ to = tx[t].to /\ now = tx[t].at
        /\ v = tx[t].seen
  BY <1>1
<1>3. orders[o].holder = t /\ Writing(t, o)
  BY <1>1, <1>2 DEF Inv, TxInv
<1>4. v \in Order /\ v = orders[o].committed /\ v = OrderSeen(t, o)
  <2>1. v \in Order /\ v = orders[o].committed /\ v = orders[o].written
    BY <1>1, <1>2, <1>3 DEF Writing
  <2> QED
    BY <1>3, <2>1, OrderRow
<1>5. \A p \in Orders \ {o} : orders[p].holder # t
  BY <1>1, <1>2 DEF Inv, TxInv, Writing
<1>6. PICK w : w = Moved(v, v.status, to, now)
  OBVIOUS
<1>7. PICK e : e = Entry(o, u, v.status, to, IsRevision(v, to), now)
  OBVIOUS
<1>8. /\ Legal(v, to, RoleOf(v, u)) /\ Free(orders[o], t) /\ WriteOrder(t, o, w)
      /\ tx' = [tx EXCEPT ![t].pc = "commit", ![t].out = {e}]
      /\ UNCHANGED <<log, reviews, clock>>
  BY <1>2, <1>4, <1>6, <1>7 DEF Move_Apply
<1>9. Follows(v, w, e.event) /\ w \in Order
  BY <1>4, <1>6, <1>7, <1>8, LegalFollows, MovedFields
<1>10. e \in [order : Orders, event : Event] /\ e.order = o /\ e.event.at = now
  <2>1. v.status \in Status \cup {Nothing} /\ IsRevision(v, to) \in BOOLEAN
        /\ u \in Users \cup {Nothing}
    BY <1>4 DEF Order, IsRevision
  <2> QED
    BY <1>7, <2>1, EntryTyped
<1>11. PICK x : x = [tx[t] EXCEPT !.pc = "commit", !.out = {e}]
  OBVIOUS
<1>12. tx' = [tx EXCEPT ![t] = x]
  BY <1>8, <1>11
<1>13. /\ x \in Transaction /\ x.pc = "commit" /\ x.out = {e} /\ x.at = now
       /\ x.at <= clock
  BY <1>1, <1>2, <1>10, <1>11 DEF Transaction, Statements
<1>14. Wrote(t, o, w, x)
  BY <1>8, <1>12 DEF Wrote
<1>15. Opens(orders[o].committed, w, e.event) \/ Follows(orders[o].committed, w, e.event)
  BY <1>4, <1>9
<1> QED
  BY <1>5, <1>9, <1>10, <1>13, <1>14, <1>15, ToldStep

LEMMA PlaceStep == ASSUME Inv, NEW t \in Tx, Place_Insert(t) PROVE Inv'
<1>1. PICK b \in Users, s \in Users, choice \in ModesAsked, n \in 0..MaxRevisions,
           o \in Fresh(orders, Orders) :
        /\ tx[t].pc = "idle" /\ WriteOrder(t, o, NewOrder(b, s, choice, n))
        /\ tx' = [tx EXCEPT ![t] = [Idle EXCEPT !.pc = "commit", !.user = b, !.at = clock,
                          !.out = {Entry(o, b, Nothing, "requested", FALSE, clock)}]]
        /\ UNCHANGED <<log, reviews, clock>>
  BY DEF Place_Insert
<1>2. /\ o \in Orders /\ orders[o] = Stored(Absent) /\ n \in Nat /\ clock \in Nat
      /\ b \in Users
  BY <1>1, RevisionsAssumption DEF Fresh, Inv
<1>3. PICK w : w = NewOrder(b, s, choice, n)
  OBVIOUS
<1>4. PICK e : e = Entry(o, b, Nothing, "requested", FALSE, clock)
  OBVIOUS
<1>5. PICK x : x = [Idle EXCEPT !.pc = "commit", !.user = b, !.at = clock, !.out = {e}]
  OBVIOUS
<1>6. /\ w \in Order /\ w.status = "requested" /\ w.used = 0 /\ w.allowed \in 0..MaxRevisions
  BY <1>1, <1>2, <1>3 DEF NewOrder, Order, Status
<1>7. /\ e \in [order : Orders, event : Event] /\ e.order = o
      /\ e.event \in Event /\ e.event.from = Nothing /\ e.event.to = "requested"
      /\ e.event.revision = FALSE /\ e.event.at = clock
  <2>1. /\ b \in Users \cup {Nothing} /\ Nothing \in Status \cup {Nothing}
        /\ "requested" \in Status /\ FALSE \in BOOLEAN
    BY DEF Status
  <2> QED
    BY <1>2, <1>4, <2>1 DEF Entry, Event
<1>8. /\ x \in Transaction /\ x.pc = "commit" /\ x.out = {e} /\ x.at = clock /\ x.at <= clock
  <2>1. PICK D : D = {e}
    OBVIOUS
  <2>2. D \in SUBSET [order : Orders, event : Event]
    BY <1>7, <2>1
  <2>3. x = [Idle EXCEPT !.pc = "commit", !.user = b, !.at = clock, !.out = D]
    BY <1>5, <2>1
  <2>4. /\ x \in Transaction /\ x.pc = "commit" /\ x.out = D /\ x.at = clock
    BY <1>2, <2>2, <2>3 DEF Idle, Transaction, Statements
  <2> QED
    BY <1>2, <2>1, <2>4
<1>9. Free(orders[o], t) /\ orders[o].committed = Absent
  BY <1>2 DEF Free, Stored
<1>10. Wrote(t, o, w, x)
  BY <1>1, <1>3, <1>4, <1>5, <1>9 DEF Wrote
<1>11. Opens(orders[o].committed, w, e.event)
  BY <1>6, <1>7, <1>9 DEF Opens
<1>12. \A p \in Orders \ {o} : orders[p].holder # t
  BY <1>1, HoldsNothing DEF HoldingPCs
<1> QED
  BY <1>2, <1>6, <1>7, <1>8, <1>10, <1>11, <1>12, ToldStep

LEMMA AutoRowStep == ASSUME Inv, NEW t \in Tx, Auto_Row(t) PROVE Inv'
<1>1. /\ tx[t].pc = "auto.rows" /\ tx[t] \in Transaction /\ tx[t].at \in Nat
      /\ tx[t].at <= clock /\ t \in DOMAIN tx /\ UNCHANGED <<log, reviews, clock>>
  BY DEF Auto_Row, Inv, TxInv, Transaction
<1>2. PICK o \in tx[t].todo :
        \/ /\ Overdue(OrderSeen(t, o), tx[t].at) /\ Free(orders[o], t)
           /\ WriteOrder(t, o, [OrderSeen(t, o) EXCEPT !.status = "completed"])
           /\ tx' = [tx EXCEPT ![t].todo = @ \ {o}, ![t].out = @ \cup
                       {Entry(o, Nothing, "delivered", "completed", FALSE, tx[t].at)}]
        \/ tx' = [tx EXCEPT ![t].todo = @ \ {o}] /\ UNCHANGED orders
  BY DEF Auto_Row
<1>3. o \in Orders
  BY <1>1 DEF Transaction
<1>4. PICK v, e :
        /\ v = OrderSeen(t, o)
        /\ e = Entry(o, Nothing, "delivered", "completed", FALSE, tx[t].at)
        /\ \/ /\ Overdue(v, tx[t].at) /\ Free(orders[o], t)
              /\ WriteOrder(t, o, [v EXCEPT !.status = "completed"])
              /\ tx' = [tx EXCEPT ![t].todo = @ \ {o}, ![t].out = @ \cup {e}]
           \/ tx' = [tx EXCEPT ![t].todo = @ \ {o}] /\ UNCHANGED orders
  BY <1>2
<1>5. PICK S : S = tx[t].todo \ {o}
  OBVIOUS
<1>6. CASE tx' = [tx EXCEPT ![t].todo = @ \ {o}] /\ UNCHANGED orders
  <2>1. PICK x : x = [tx[t] EXCEPT !.todo = S]
    OBVIOUS
  <2>2. tx' = [tx EXCEPT ![t] = x]
    BY <1>5, <1>6, <2>1
  <2>3. S \in SUBSET Orders
    BY <1>1, <1>5 DEF Transaction
  <2>4. /\ x \in Transaction /\ x.pc = "auto.rows" /\ x.out = tx[t].out /\ x.at = tx[t].at
        /\ x.order = tx[t].order
    BY <1>1, <2>1, <2>3 DEF Transaction
  <2>5. tx'[t] = x
    BY <1>1, <2>2
  <2>6. TxInv(t) /\ orders' = orders /\ clock' = clock
    BY <1>1, <1>6 DEF Inv
  <2>7. \A p \in Orders : orders[p].holder = t => Writing(t, p)'
    BY <1>1, <2>4, <2>5, <2>6 DEF TxInv, Writing
  <2>8. TxInv(t)'
    BY <1>1, <2>4, <2>5, <2>6, <2>7 DEF TxInv, OrderPCs
  <2> QED
    BY <1>1, <1>6, <2>2, <2>4, <2>8, LocalStep
<1>7. CASE /\ Overdue(v, tx[t].at) /\ Free(orders[o], t)
           /\ WriteOrder(t, o, [v EXCEPT !.status = "completed"])
           /\ tx' = [tx EXCEPT ![t].todo = @ \ {o}, ![t].out = @ \cup {e}]
  <2>1. v.status = "delivered" /\ v.delivered # Nothing /\ v # Absent
        /\ v.delivered + Window < tx[t].at
    BY <1>7 DEF Overdue
  <2>2. orders[o].holder # t
    <3>1. ASSUME orders[o].holder = t PROVE FALSE
      <4>1. Writing(t, o) /\ v = orders[o].written
        BY <1>3, <1>4, <3>1, OrderRow DEF Inv, TxInv
      <4> QED
        BY <1>1, <2>1, <4>1 DEF Writing
    <3> QED
      BY <3>1
  <2>3. v = orders[o].committed /\ v \in Order /\ v.delivered \in Nat
    <3>1. v = orders[o].committed /\ v \in Order
      BY <1>3, <1>4, <2>1, <2>2, OrderRow
    <3> QED
      BY <2>1, <3>1 DEF Order
  <2>4. PICK w : w = [v EXCEPT !.status = "completed"]
    OBVIOUS
  <2>5. /\ w \in Order /\ w.status = "completed" /\ w.mode = v.mode /\ w.buyer = v.buyer
        /\ w.allowed = v.allowed /\ w.used = v.used
    BY <2>3, <2>4 DEF Order, Status
  <2>6. /\ e \in [order : Orders, event : Event] /\ e.order = o
        /\ e.event \in Event /\ e.event.from = "delivered" /\ e.event.to = "completed"
        /\ e.event.revision = FALSE /\ e.event.at = tx[t].at
    <3>1. /\ Nothing \in Users \cup {Nothing} /\ "delivered" \in Status \cup {Nothing}
          /\ "completed" \in Status /\ FALSE \in BOOLEAN
      BY DEF Status
    <3> QED
      BY <1>1, <1>3, <1>4, <3>1 DEF Entry, Event
  <2>7. Follows(v, w, e.event)
    BY <2>1, <2>3, <2>5, <2>6 DEF Follows, Trade
  <2>8. PICK D : D = tx[t].out \cup {e}
    OBVIOUS
  <2>9. PICK x : x = [tx[t] EXCEPT !.todo = S, !.out = D]
    OBVIOUS
  <2>10. tx' = [tx EXCEPT ![t] = x]
    BY <1>5, <1>7, <2>8, <2>9
  <2>11. S \in SUBSET Orders /\ D \in SUBSET [order : Orders, event : Event]
    BY <1>1, <1>5, <2>6, <2>8 DEF Transaction
  <2>12. /\ x \in Transaction /\ x.pc = "auto.rows" /\ x.out = D /\ x.at = tx[t].at
         /\ x.order = tx[t].order
    BY <1>1, <2>9, <2>11 DEF Transaction
  <2>13. Wrote(t, o, w, x)
    BY <1>1, <1>7, <2>4, <2>10 DEF Wrote
  <2>14. OneWritten(t, o, w, x)
    BY <1>3, <2>5, <2>12, <2>13, WriteStep
  <2>15. /\ orders'[o].holder = t /\ orders'[o].written = w
         /\ orders'[o].committed = v
         /\ \A p \in Orders \ {o} : orders'[p] = orders[p]
         /\ tx'[t] = x /\ clock' = clock
    BY <1>1, <2>3, <2>14 DEF OneWritten
  <2>16. ASSUME NEW p \in Orders, orders'[p].holder = t PROVE Writing(t, p)'
    <3>1. CASE p = o
      BY <1>1, <2>5, <2>6, <2>7, <2>8, <2>12, <2>15, <3>1 DEF Writing
    <3>2. CASE p # o
      <4>1. orders'[p] = orders[p] /\ Writing(t, p)
        BY <2>15, <2>16, <3>2 DEF Inv, TxInv
      <4>2. PICK f \in tx[t].out :
              /\ f.order = p /\ f.event.at = tx[t].at
              /\ Follows(orders[p].committed, orders[p].written, f.event)
              /\ orders[p].written.status = "completed"
        BY <1>1, <4>1 DEF Writing
      <4>3. f \in x.out /\ x.at = tx[t].at
        BY <2>8, <2>12
      <4> QED
        BY <2>12, <2>15, <4>1, <4>2, <4>3 DEF Writing
    <3> QED
      BY <3>1, <3>2
  <2>17. \A f \in tx[t].out : f.order \in Orders /\ orders[f.order].holder = t
    BY <1>1 DEF Inv, TxInv, Transaction
  <2>18. \A f \in D : orders'[f.order].holder = t
    BY <2>2, <2>6, <2>8, <2>15, <2>17
  <2>19. \A f, g \in D : f.order = g.order => f = g
    <3>1. \A f, g \in tx[t].out : f.order = g.order => f = g
      BY DEF Inv, TxInv
    <3>2. \A f \in tx[t].out : f.order # o
      BY <2>2, <2>17
    <3> QED
      BY <2>6, <2>8, <3>1, <3>2
  <2>20. TxInv(t)'
    BY <1>1, <2>12, <2>15, <2>16, <2>18, <2>19 DEF TxInv, OrderPCs
  <2> QED
    BY <1>3, <2>5, <2>12, <2>13, <2>20, WroteInv
<1> QED
  BY <1>4, <1>6, <1>7


LEMMA ReviewRow ==
  ASSUME Inv, NEW v \in Reviews
  PROVE  /\ RowInv(reviews[v], Review, ReviewMoves, Absent) /\ Quiet(reviews[v])
         /\ reviews[v].committed \in Review \cup {Absent}
         /\ reviews[v].written \in Review \cup {Absent}
         /\ Earned(reviews[v].committed) /\ Earned(reviews[v].written)
<1>1. RowInv(reviews[v], Review, ReviewMoves, Absent)
  BY DEF Inv, RowsInv
<1> QED
  BY <1>1 DEF RowInv, RowsOf, Quiet, Inv, ReviewsInv

LEMMA ReviewKeys ==
  ASSUME NEW w \in Review \cup {Absent}, NEW o \in Orders
  PROVE  /\ w \in ReviewsOf(o) <=> ReviewOf(w, o)
         /\ Absent \notin ReviewsOf(o)
  BY AbsentAssumption DEF ReviewsOf, ReviewOf

(* t inserts a review of an order that has none.                           *)
LEMMA InsertReviews ==
  ASSUME Inv, NEW t \in Tx, NEW o \in Orders, NEW u \in Users, NEW v \in Reviews,
         reviews[v] = Stored(Absent), ReviewHolders(t, o) = {}, ~Reviewed(t, o),
         orders[o].committed \in Order, Reviewable(orders[o].committed, u),
         reviews' = [reviews EXCEPT ![v] = Put(@, t, [order |-> o, reviewer |-> u])],
         orders' = orders
  PROVE  ReviewsInv'
<1>1. PICK w : w = [order |-> o, reviewer |-> u]
  OBVIOUS
<1>2. /\ w \in Review /\ w.order = o /\ w.reviewer = u /\ w \in ReviewsOf(o)
      /\ \A p \in Orders \ {o} : w \notin ReviewsOf(p)
  BY <1>1 DEF Review, ReviewsOf
<1>3. \A p \in Reviews : reviews'[p] = IF p = v THEN Put(reviews[v], t, w) ELSE reviews[p]
  BY <1>1 DEF Inv, RowsInv
<1>4. ASSUME NEW p \in Reviews, p # v, NEW k \in Orders
      PROVE  OneEntry(reviews'[v], reviews'[p], ReviewsOf(k))
  <2> DEFINE K == ReviewsOf(k)
  <2>1. /\ OneEntry(reviews[v], reviews[p], K) /\ Quiet(reviews[v]) /\ Quiet(reviews[p])
        /\ reviews'[v] = Put(reviews[v], t, w) /\ reviews'[p] = reviews[p]
    BY <1>3, <1>4, ReviewRow DEF Inv, ReviewsInv
  <2>2. /\ reviews[p].committed \in Review \cup {Absent}
        /\ reviews[p].written \in Review \cup {Absent}
        /\ View(reviews[p], t) \in Review \cup {Absent}
    BY ReviewRow DEF View
  <2>3. reviews[v].committed \notin K
    BY ReviewKeys DEF Stored
  <2>4. CASE k = o
    <3>1. View(reviews[p], t) \notin K
      BY <2>2, <2>4, ReviewKeys DEF Reviewed, ReviewSeen
    <3>2. reviews[p].committed \in K \/ reviews[p].written \in K
            => reviews[p].holder \in {NoTx, t}
      BY <2>2, <2>4, ReviewKeys DEF ReviewHolders
    <3> QED
      BY <2>1, <2>3, <3>1, <3>2, EntryMade
  <2>5. CASE k # o
    <3>1. w \notin K
      BY <1>2, <2>5
    <3>2. Free(reviews[v], t)
      BY DEF Free, Stored
    <3>3. Touches(reviews[v], reviews'[v], t, K) /\ Touches(reviews[p], reviews'[p], t, K)
      BY <2>1, <3>1, <3>2 DEF Touches
    <3> QED
      BY <2>1, <3>3, EntryTouched
  <2> QED
    BY <2>4, <2>5
<1>5. ASSUME NEW p \in Reviews, NEW q \in Reviews, p # q, NEW k \in Orders
      PROVE  OneEntry(reviews'[p], reviews'[q], ReviewsOf(k))
  <2>1. CASE p = v
    BY <1>4, <1>5, <2>1
  <2>2. CASE q = v
    BY <1>4, <1>5, <2>2, EntrySymmetry
  <2>3. CASE p # v /\ q # v
    BY <1>3, <1>5, <2>3 DEF Inv, ReviewsInv
  <2> QED
    BY <2>1, <2>2, <2>3
<1>6. Earned(w) /\ Earned(Absent)
  BY <1>2, AbsentAssumption DEF Earned
<1>7. \A p \in Reviews : Earned(reviews'[p].committed) /\ Earned(reviews'[p].written)
  <2> SUFFICES ASSUME NEW p \in Reviews
               PROVE  Earned(reviews'[p].committed) /\ Earned(reviews'[p].written)
    OBVIOUS
  <2>1. CASE p = v
    BY <1>3, <1>6, <2>1 DEF Put, Stored
  <2>2. CASE p # v
    BY <1>3, <2>2, ReviewRow
  <2> QED
    BY <2>1, <2>2
<1>8. ASSUME NEW x, Earned(x) PROVE Earned(x)'
  BY <1>8 DEF Earned
<1> QED
  BY <1>5, <1>7, <1>8 DEF ReviewsInv

LEMMA ReviewInsertStep == ASSUME Inv, NEW t \in Tx, Review_Insert(t) PROVE Inv'
<1>1. /\ tx[t].pc = "review.insert" /\ tx[t].pc \notin HoldingPCs
      /\ UNCHANGED <<orders, log, clock>>
  BY DEF Review_Insert, HoldingPCs
<1>2. /\ tx[t].user \in Users /\ tx[t].order \in Orders /\ tx[t].at <= clock
      /\ orders[tx[t].order].committed \in Order
  BY <1>1 DEF Inv, TxInv, OrderPCs
<1>3. CASE Return(t) /\ UNCHANGED reviews
  BY <1>1, <1>3, ReturnStep
<1>4. CASE ~(Return(t) /\ UNCHANGED reviews)
  <2>1. PICK o \in Orders, u \in Users : o = tx[t].order /\ u = tx[t].user
    BY <1>2
  <2>2. /\ ReviewHolders(t, o) = {} /\ ~Reviewed(t, o) /\ Reviewable(OrderSeen(t, o), u)
        /\ \E v \in Fresh(reviews, Reviews) :
             reviews' = [reviews EXCEPT ![v] = Put(@, t, [order |-> o, reviewer |-> u])]
        /\ tx' = [tx EXCEPT ![t].pc = "commit"]
    BY <1>4, <2>1 DEF Review_Insert
  <2>3. PICK v \in Reviews :
          /\ reviews[v] = Stored(Absent)
          /\ reviews' = [reviews EXCEPT ![v] = Put(@, t, [order |-> o, reviewer |-> u])]
    BY <2>2 DEF Fresh
  <2>4. (\A p \in Orders : orders[p].holder # t) /\ tx[t].out = {}
    BY <1>1, HoldsNothing
  <2>5. Reviewable(orders[o].committed, u) /\ orders[o].committed \in Order
    BY <1>2, <2>1, <2>2, <2>4, OrderRow
  <2>6. ReviewsInv'
    BY <1>1, <2>2, <2>3, <2>5, InsertReviews
  <2>7. PICK x \in Transaction :
          /\ tx' = [tx EXCEPT ![t] = x] /\ tx'[t] = x /\ x.pc = "commit"
          /\ x.user = tx[t].user /\ x.order = tx[t].order /\ x.to = tx[t].to
          /\ x.out = tx[t].out /\ x.at = tx[t].at
    <3>1. "commit" \in Statements
      BY DEF Statements
    <3> QED
      BY <2>2, <3>1, GoneOn
  <2>8. TxInv(t)'
    BY <1>1, <1>2, <2>4, <2>7, PlainTx DEF OrderPCs
  <2>9. StepOK(t)
    <3>1. PICK w : w = [order |-> o, reviewer |-> u]
      OBVIOUS
    <3>2. w \in Review /\ reviews' = [reviews EXCEPT ![v] = Put(@, t, w)]
      BY <2>3, <3>1 DEF Review
    <3>3. \A p \in Reviews : reviews'[p] = IF p = v THEN Put(reviews[v], t, w) ELSE reviews[p]
      BY <3>2 DEF Inv, RowsInv
    <3>4. View(reviews[v], t) \in Review => <<View(reviews[v], t), w>> \in ReviewMoves
      BY <3>2 DEF ReviewMoves
    <3>5. Free(reviews[v], t)
      BY <2>3 DEF Free, Stored
    <3>6. \A p \in Reviews : RowChange(reviews[p], reviews'[p], t, Review, ReviewMoves)
      BY <3>2, <3>3, <3>4, <3>5 DEF RowChange
    <3>7. /\ reviews' = [p \in Reviews |-> reviews'[p]]
          /\ orders' = [p \in Orders |-> orders'[p]]
      BY <1>1, <3>2 DEF Inv, RowsInv
    <3>8. \A p \in Orders : RowChange(orders[p], orders'[p], t, Order, OrderMoves)
      BY <1>1 DEF RowChange
    <3>9. tx' \in [Tx -> Transaction] /\ \A s \in Tx \ {t} : tx'[s] = tx[s]
      BY <2>7 DEF Inv
    <3> QED
      BY <1>1, <3>6, <3>7, <3>8, <3>9 DEF StepOK
  <2>10. Calm
    BY <1>1 DEF Calm
  <2> QED
    BY <2>6, <2>8, <2>9, <2>10, CalmLog, Stepped
<1> QED
  BY <1>3, <1>4

-----------------------------------------------------------------------------
(* The end of a transaction.                                               *)

Ended(t) ==
  \/ /\ orders' = [o \in Orders |-> Published(orders[o], t)]
     /\ reviews' = [v \in Reviews |-> Published(reviews[v], t)]
  \/ /\ orders' = [o \in Orders |-> Restored(orders[o], t)]
     /\ reviews' = [v \in Reviews |-> Restored(reviews[v], t)]

LEMMA EndStep ==
  ASSUME Inv, NEW t \in Tx, Ended(t), Return(t), clock' = clock
  PROVE  StepOK(t) /\ TxInv(t)'
<1>1. /\ orders' = [o \in Orders |-> orders'[o]]
      /\ reviews' = [v \in Reviews |-> reviews'[v]]
      /\ \A o \in Orders : orders'[o] \in {Published(orders[o], t), Restored(orders[o], t)}
      /\ \A v \in Reviews :
           reviews'[v] \in {Published(reviews[v], t), Restored(reviews[v], t)}
  BY DEF Ended
<1>2. /\ \A o \in Orders : RowChange(orders[o], orders'[o], t, Order, OrderMoves)
      /\ \A v \in Reviews : RowChange(reviews[v], reviews'[v], t, Review, ReviewMoves)
  BY <1>1 DEF RowChange
<1>3. tx' \in [Tx -> Transaction] /\ tx'[t] = Idle /\ \A s \in Tx \ {t} : tx'[s] = tx[s]
  BY IdleTx DEF Inv, Return
<1>4. StepOK(t)
  BY <1>1, <1>2, <1>3 DEF StepOK
<1>5. \A o \in Orders : orders'[o].holder # t
  BY <1>1, NoTxAssumption DEF Published, Restored, Stored
<1>6. TxInv(t)'
  BY <1>3, <1>5, IdleTx DEF TxInv, OrderPCs, Inv
<1> QED
  BY <1>4, <1>6

LEMMA EndReviews ==
  ASSUME Inv, NEW t \in Tx, Ended(t),
         \A o \in Orders, u \in Users :
           orders[o].committed \in Order /\ Reviewable(orders[o].committed, u)
             => orders'[o].committed \in Order /\ Reviewable(orders'[o].committed, u)
  PROVE  ReviewsInv'
<1>1. ASSUME NEW w, Earned(w) PROVE Earned(w)'
  BY <1>1 DEF Earned, Review
<1>2. \A v \in Reviews : reviews'[v] \in {Published(reviews[v], t), Restored(reviews[v], t)}
  BY DEF Ended
<1>3. \A v \in Reviews : Earned(reviews'[v].committed) /\ Earned(reviews'[v].written)
  <2> SUFFICES ASSUME NEW v \in Reviews
               PROVE  Earned(reviews'[v].committed) /\ Earned(reviews'[v].written)
    OBVIOUS
  <2>1. /\ reviews'[v].committed \in {reviews[v].committed, reviews[v].written}
        /\ reviews'[v].written \in {reviews[v].committed, reviews[v].written}
    BY <1>2 DEF Published, Restored, Stored
  <2> QED
    BY <2>1, ReviewRow
<1>4. ASSUME NEW p \in Reviews, NEW q \in Reviews, p # q, NEW k \in Orders
      PROVE  OneEntry(reviews'[p], reviews'[q], ReviewsOf(k))
  <2>1. Quiet(reviews[p]) /\ Quiet(reviews[q]) /\ OneEntry(reviews[p], reviews[q], ReviewsOf(k))
    BY <1>4, ReviewRow DEF Inv, ReviewsInv
  <2> QED
    BY <2>1, EntryEnds DEF Ended
<1> QED
  BY <1>1, <1>3, <1>4 DEF ReviewsInv

(* What Commit(t) makes of one order: nothing, or what one of t's events   *)
(* tells; and the event joins the log in the same step.                    *)
Tells(t, o, e) ==
  /\ e \in tx[t].out /\ e.order = o /\ orders[o].holder = t
  /\ e.event \in Event /\ e.event.at = tx[t].at
  /\ \/ /\ tx[t].pc = "commit"
        /\ \/ Opens(orders[o].committed, orders'[o].committed, e.event)
           \/ Follows(orders[o].committed, orders'[o].committed, e.event)
     \/ /\ Follows(orders[o].committed, orders'[o].committed, e.event)
        /\ orders'[o].committed.status = "completed"
  /\ log'[o] = Append(log[o], e.event)

LEMMA CommitTells ==
  ASSUME Inv, NEW t \in Tx, Commit(t), NEW o \in Orders
  PROVE  \/ /\ orders'[o].committed = orders[o].committed /\ log'[o] = log[o]
            /\ orders[o].holder # t
         \/ \E e : Tells(t, o, e)
<1>1. /\ tx[t].pc \in {"commit", "auto.rows"} /\ TxInv(t) /\ tx[t] \in Transaction
      /\ orders'[o] = Published(orders[o], t) /\ log'[o] = Logged(o, t)
  BY DEF Commit, Finished, Inv
<1> DEFINE new == {e \in tx[t].out : e.order = o}
<1>2. CASE orders[o].holder # t
  <2>1. new = {}
    BY <1>1, <1>2 DEF TxInv
  <2>2. log'[o] = log[o]
    BY <1>1, <2>1 DEF Logged
  <2> QED
    BY <1>1, <1>2, <2>2 DEF Published
<1>3. CASE orders[o].holder = t
  <2>1. Writing(t, o) /\ orders'[o].committed = orders[o].written
    BY <1>1, <1>3 DEF TxInv, Published, Stored
  <2>2. PICK e \in tx[t].out :
          /\ e.order = o /\ e.event.at = tx[t].at
          /\ \/ /\ tx[t].pc = "commit"
                /\ \/ Opens(orders[o].committed, orders[o].written, e.event)
                   \/ Follows(orders[o].committed, orders[o].written, e.event)
             \/ /\ Follows(orders[o].committed, orders[o].written, e.event)
                /\ orders[o].written.status = "completed"
    BY <1>1, <2>1 DEF Writing
  <2>3. new = {e}
    BY <1>1, <2>2 DEF TxInv
  <2>4. log'[o] = Append(log[o], e.event)
    <3>1. new # {} /\ (CHOOSE f \in new : TRUE) = e
      BY <2>3
    <3> QED
      BY <1>1, <3>1 DEF Logged
  <2>5. e.event \in Event
    BY <1>1, <2>2 DEF Transaction
  <2>6. Tells(t, o, e)
    BY <1>3, <2>1, <2>2, <2>4, <2>5 DEF Tells
  <2> QED
    BY <2>6
<1> QED
  BY <1>2, <1>3

LEMMA CommitStep == ASSUME Inv, NEW t \in Tx, Commit(t) PROVE Inv'
<1>1. Ended(t) /\ Return(t) /\ clock' = clock /\ log' = [o \in Orders |-> log'[o]]
  BY DEF Commit, Ended
<1>2. StepOK(t) /\ TxInv(t)'
  BY <1>1, EndStep
<1>3. ASSUME NEW o \in Orders
      PROVE  /\ log'[o] \in Seq(Event)
             /\ History(orders'[o].committed, log'[o])
             /\ PaidFirst(orders'[o].committed, log'[o])
  <2>1. /\ log[o] \in Seq(Event) /\ History(orders[o].committed, log[o])
        /\ PaidFirst(orders[o].committed, log[o])
    BY DEF Inv, LogInv
  <2>2. CASE orders'[o].committed = orders[o].committed /\ log'[o] = log[o]
    BY <2>1, <2>2
  <2>3. ASSUME NEW e, Tells(t, o, e)
        PROVE  /\ log'[o] \in Seq(Event)
               /\ History(orders'[o].committed, log'[o])
               /\ PaidFirst(orders'[o].committed, log'[o])
    <3>1. log[o] \in Seq(Event) /\ e.event \in Event
      BY <2>1, <2>3 DEF Tells
    <3>2. PICK h \in Seq(Event), f \in Event : h = log[o] /\ f = e.event
      BY <3>1
    <3>3. PICK v, w : v = orders[o].committed /\ w = orders'[o].committed
      OBVIOUS
    <3>4. /\ v = orders[o].committed /\ w = orders'[o].committed /\ h = log[o]
          /\ f = e.event
      BY <3>2, <3>3
    <3>5. /\ Opens(v, w, f) \/ Follows(v, w, f)
          /\ log'[o] = Append(h, f)
      BY <2>3, <3>4 DEF Tells
    <3>6. History(v, h) /\ PaidFirst(v, h)
      BY <2>1, <3>4
    <3>7. History(w, Append(h, f)) /\ PaidFirst(w, Append(h, f))
      BY <3>5, <3>6, HistoryOpens, HistoryFollows
    <3>8. Append(h, f) \in Seq(Event)
      BY Appended
    <3> QED
      BY <3>4, <3>5, <3>7, <3>8
  <2> QED
    BY <2>2, <2>3, CommitTells
<1>4. LogInv'
  BY <1>1, <1>3 DEF LogInv
<1>5. ASSUME NEW o \in Orders, NEW u \in Users,
             orders[o].committed \in Order, Reviewable(orders[o].committed, u)
      PROVE  orders'[o].committed \in Order /\ Reviewable(orders'[o].committed, u)
  <2>1. ASSUME NEW e, Tells(t, o, e) PROVE FALSE
    <3>1. Opens(orders[o].committed, orders'[o].committed, e.event)
            \/ Follows(orders[o].committed, orders'[o].committed, e.event)
      BY <2>1 DEF Tells
    <3>2. orders[o].committed # Absent /\ orders[o].committed.status = "completed"
      BY <1>5, AbsentAssumption DEF Reviewable
    <3> QED
      BY <3>1, <3>2 DEF Opens, Follows, Trade
  <2> QED
    BY <1>5, <2>1, CommitTells
<1>6. ReviewsInv'
  BY <1>1, <1>5, EndReviews
<1> QED
  BY <1>2, <1>4, <1>6, Stepped

LEMMA RollbackStep == ASSUME Inv, NEW t \in Tx, Rollback(t) PROVE Inv' /\ Calm
<1>1. Ended(t) /\ Return(t) /\ clock' = clock /\ log' = log
  BY DEF Rollback, Ended
<1>2. StepOK(t) /\ TxInv(t)'
  BY <1>1, EndStep
<1>3. \A o \in Orders : orders'[o].committed = orders[o].committed
  BY DEF Rollback, Restored, Stored
<1>4. Calm
  BY <1>1, <1>3 DEF Calm
<1>5. \A o \in Orders, u \in Users :
        orders[o].committed \in Order /\ Reviewable(orders[o].committed, u)
          => orders'[o].committed \in Order /\ Reviewable(orders'[o].committed, u)
  BY <1>3
<1>6. ReviewsInv'
  BY <1>1, <1>5, EndReviews
<1> QED
  BY <1>2, <1>4, <1>6, CalmLog, Stepped

LEMMA TickStep == ASSUME Inv, Tick PROVE Inv'
<1>1. /\ clock' \in Nat /\ clock <= clock'
      /\ UNCHANGED <<orders, log, reviews, tx>>
  BY DaysAssumption DEF Tick, Inv
<1>2. RowsInv' /\ LogInv'
  BY <1>1 DEF Inv, RowsInv, LogInv
<1>3. ReviewsInv'
  BY <1>1 DEF Inv, ReviewsInv, Earned
<1>4. ASSUME NEW t \in Tx PROVE TxInv(t)'
  <2>1. TxInv(t) /\ tx[t].at \in Nat /\ clock \in Nat
    BY DEF Inv, Transaction
  <2>2. \A o \in Orders : Writing(t, o) => Writing(t, o)'
    BY <1>1 DEF Writing
  <2>3. tx[t].at <= clock'
    BY <1>1, <2>1 DEF TxInv
  <2> QED
    BY <1>1, <2>1, <2>2, <2>3 DEF TxInv
<1> QED
  BY <1>1, <1>2, <1>3, <1>4 DEF Inv

LEMMA InitInv == Init => Inv
<1> SUFFICES ASSUME Init PROVE Inv
  OBVIOUS
<1>1. RowsInv
  <2>1. /\ \A o \in Orders : orders[o] = Stored(Absent)
        /\ \A v \in Reviews : reviews[v] = Stored(Absent)
        /\ orders = [o \in Orders |-> orders[o]] /\ reviews = [v \in Reviews |-> reviews[v]]
    BY DEF Init
  <2>2. /\ RowInv(Stored(Absent), Order, OrderMoves, Absent)
        /\ RowInv(Stored(Absent), Review, ReviewMoves, Absent)
    BY AbsentAssumption DEF RowInv, RowsOf, Stored
  <2> QED
    BY <2>1, <2>2 DEF RowsInv
<1>2. LogInv
  BY DEF Init, LogInv, History, PaidFirst, Stored
<1>3. ReviewsInv
  <2>1. \A v \in Reviews : /\ reviews[v].committed = Absent /\ reviews[v].written = Absent
                           /\ Absent \notin Review
    BY AbsentAssumption DEF Init, Stored
  <2> QED
    BY <2>1 DEF ReviewsInv, Earned, OneEntry, ReviewsOf
<1>4. tx \in [Tx -> Transaction] /\ clock = 0
  BY IdleTx DEF Init
<1>5. ASSUME NEW t \in Tx PROVE TxInv(t)
  <2>1. tx[t] = Idle /\ \A o \in Orders : orders[o].holder # t
    BY NoTxAssumption DEF Init, Stored
  <2> QED
    BY <1>4, <2>1, IdleTx DEF TxInv, OrderPCs
<1> QED
  BY <1>1, <1>2, <1>3, <1>4, <1>5 DEF Inv

LEMMA NextInv == Inv /\ [Next]_vars => Inv'
<1> SUFFICES ASSUME Inv, [Next]_vars PROVE Inv'
  OBVIOUS
<1>1. CASE UNCHANGED vars
  BY <1>1 DEF vars, Inv, RowsInv, LogInv, ReviewsInv, Earned, TxInv, Writing
<1>2. CASE Tick
  BY <1>2, TickStep
<1>3. ASSUME NEW t \in Tx, Run(t) PROVE Inv'
  BY <1>3, PlaceStep, MoveBeginStep, MoveLockStep, MoveApplyStep, AutoBeginStep,
     AutoScanStep, AutoRowStep, ReviewOrderStep, ReviewExistingStep, ReviewInsertStep,
     CommitStep, RollbackStep DEF Run, Move_Illegal, Abort
<1> QED
  BY <1>1, <1>2, <1>3 DEF Next


(* The invariant itself, for any number of members, orders, reviews and    *)
(* overlapping calls: each uncommitted version of an order is accounted for*)
(* by an event its transaction has inserted and will commit with it.       *)
THEOREM Invariance == Spec => []Inv
  BY InitInv, NextInv, PTL DEF Spec

-----------------------------------------------------------------------------
(* What the parties rely on.                                               *)

(* The event log is the whole story of an order, whatever transitions,     *)
(* auto-completions and crashes overlap: it starts when the order was      *)
(* placed, its events join up, it ends in the order's status, and it holds *)
(* as many revisions as the order has been charged.                        *)
THEOREM HistoryKept == Spec => []HistoryInv
<1>1. Inv => HistoryInv
  <2> SUFFICES ASSUME Inv PROVE HistoryInv
    OBVIOUS
  <2>1. /\ \A o \in Orders : orders[o] \in RowsOf(Order \cup {Absent})
        /\ \A v \in Reviews : reviews[v] \in RowsOf(Review \cup {Absent})
    BY DEF Inv, RowsInv, RowInv
  <2>2. TypeOK
    BY <2>1 DEF TypeOK, Inv, RowsInv, LogInv
  <2>3. LogTellsOrder
    BY DEF LogTellsOrder, Inv, LogInv, History
  <2> QED
    BY <2>2, <2>3 DEF HistoryInv
<1> QED
  BY <1>1, Invariance, PTL

(* No seller is at work on an online order that its buyer has not paid.    *)
THEOREM NoWorkUnpaid == Spec => []PaidBeforeWork
<1>1. Inv => PaidBeforeWork
  BY DEF Inv, LogInv, PaidFirst, PaidBeforeWork
<1> QED
  BY <1>1, Invariance, PTL

(* A review is its buyer's word on an order that is over, and the only one *)
(* on it, also when two of the buyer's writeReview calls overlap.          *)
THEOREM ReviewsAreEarned == Spec => []ReviewsEarned
<1>1. Inv => ReviewsEarned
  <2> SUFFICES ASSUME Inv, NEW v \in Reviews, reviews[v].committed # Absent
               PROVE  LET w == reviews[v].committed
                      IN /\ Reviewable(orders[w.order].committed, w.reviewer)
                         /\ \A u \in Reviews :
                              ReviewOf(reviews[u].committed, w.order) => u = v
    BY DEF ReviewsEarned
  <2> DEFINE w == reviews[v].committed
  <2>1. w \in Review /\ Earned(w) /\ w.order \in Orders
    BY ReviewRow DEF Review
  <2>2. ASSUME NEW u \in Reviews, ReviewOf(reviews[u].committed, w.order), u # v PROVE FALSE
    <3>1. reviews[u].committed \in Review /\ reviews[u].committed \in ReviewsOf(w.order)
      BY <2>2, ReviewRow DEF ReviewOf, ReviewsOf
    <3>2. w \in ReviewsOf(w.order)
      BY <2>1 DEF ReviewsOf
    <3>3. OneEntry(reviews[u], reviews[v], ReviewsOf(w.order))
      BY <2>1, <2>2 DEF Inv, ReviewsInv
    <3> QED
      BY <3>1, <3>2, <3>3 DEF OneEntry
  <2> QED
    BY <2>1, <2>2 DEF Earned
<1> QED
  BY <1>1, Invariance, PTL

(* Steps that commit nothing.                                              *)
LEMMA OnlyCommit ==
  ASSUME Inv, [Next]_vars
  PROVE  \/ \A o \in Orders : orders'[o].committed = orders[o].committed
         \/ \E t \in Tx : Commit(t)
<1>1. ASSUME NEW t \in Tx, NEW o \in Orders, NEW v, WriteOrder(t, o, v)
      PROVE  \A p \in Orders : orders'[p].committed = orders[p].committed
  <2>1. \A p \in Orders : orders'[p] = IF p = o THEN Put(orders[o], t, v) ELSE orders[p]
    BY <1>1 DEF WriteOrder, Inv, RowsInv
  <2> QED
    BY <2>1 DEF Put
<1>2. ASSUME NEW t \in Tx, Run(t), ~Commit(t)
      PROVE  \/ orders' = orders
             \/ Rollback(t)
             \/ \E o \in Orders : \E v : WriteOrder(t, o, v)
  <2>1. CASE Place_Insert(t)
    BY <2>1 DEF Place_Insert, Fresh
  <2>2. CASE Move_Lock(t)
    <3>1. tx[t].order \in Orders
      BY <2>2 DEF Move_Lock, Inv, TxInv, OrderPCs
    <3> QED
      BY <2>2, <3>1 DEF Move_Lock
  <2>3. CASE Move_Apply(t)
    <3>1. tx[t].order \in Orders
      BY <2>3 DEF Move_Apply, Inv, TxInv, OrderPCs
    <3> QED
      BY <2>3, <3>1 DEF Move_Apply
  <2>4. CASE Auto_Row(t)
    <3>1. tx[t].todo \subseteq Orders
      BY DEF Inv, Transaction
    <3> QED
      BY <2>4, <3>1 DEF Auto_Row
  <2>5. CASE Move_Begin(t) \/ Auto_Begin(t) \/ Auto_Scan(t) \/ Review_Order(t)
             \/ Review_Existing(t) \/ Review_Insert(t)
    BY <2>5 DEF Move_Begin, Auto_Begin, Auto_Scan, Review_Order, Review_Existing,
                Review_Insert
  <2>6. CASE Move_Illegal(t) \/ Abort(t)
    BY <2>6 DEF Move_Illegal, Abort
  <2> QED
    BY <1>2, <2>1, <2>2, <2>3, <2>4, <2>5, <2>6 DEF Run
<1>3. CASE UNCHANGED vars \/ Tick
  BY <1>3 DEF vars, Tick
<1>4. ASSUME NEW t \in Tx, Run(t), ~Commit(t)
      PROVE  \A o \in Orders : orders'[o].committed = orders[o].committed
  <2>1. CASE Rollback(t)
    BY <2>1, RollbackStep DEF Calm
  <2>2. CASE orders' = orders
    BY <2>2
  <2> QED
    BY <1>1, <1>2, <1>4, <2>1, <2>2
<1> QED
  BY <1>3, <1>4 DEF Next

(* An order that is completed between two states was completed by its      *)
(* buyer, or had waited out the window since the delivery that was in hand:*)
(* the auto-completion looks again at a row it waited for, so a revision   *)
(* that got there first stops it.                                          *)
THEOREM CompletedInTime == Spec => CompletedByBuyerOrTime
<1>1. ASSUME Inv, [Next]_vars, NEW o \in Orders,
             orders[o].committed # Absent, orders[o].committed.status # "completed",
             orders'[o].committed.status = "completed"
      PROVE  \/ log'[o][Len(log'[o])].by = orders[o].committed.buyer
             \/ /\ log[o][Len(log[o])].to = "delivered"
                /\ log[o][Len(log[o])].at + Window < clock
  <2>0. PICK t \in Tx : Commit(t) /\ \E e : Tells(t, o, e)
    BY <1>1, OnlyCommit, CommitTells
  <2>1. PICK e : Commit(t) /\ Tells(t, o, e)
    BY <2>0
  <2>2. PICK h \in Seq(Event), f \in Event : h = log[o] /\ f = e.event
    <3>1. log[o] \in Seq(Event) /\ e.event \in Event
      BY <1>1, <2>1 DEF Inv, LogInv, Tells
    <3> QED
      BY <3>1
  <2>3. PICK v, w : v = orders[o].committed /\ w = orders'[o].committed
    OBVIOUS
  <2>4. v = orders[o].committed /\ w = orders'[o].committed /\ h = log[o] /\ f = e.event
    BY <2>2, <2>3
  <2>5. Follows(v, w, f) /\ log'[o] = Append(h, f) /\ f.at = tx[t].at
    BY <1>1, <2>1, <2>4 DEF Tells, Opens
  <2>6. log'[o][Len(log'[o])] = f
    BY <2>5, Appended
  <2>7. CASE f.by = v.buyer
    BY <2>4, <2>6, <2>7
  <2>8. CASE f.by # v.buyer
    <3>1. v.delivered \in Nat /\ v.delivered + Window < f.at /\ v.status = "delivered"
      BY <1>1, <2>4, <2>5, <2>8 DEF Follows, Trade
    <3>2. h[Len(h)].to = "delivered" /\ h[Len(h)].at = v.delivered
      BY <1>1, <2>4, <3>1 DEF Inv, LogInv, History
    <3>3. tx[t].at <= clock /\ tx[t].at \in Nat /\ clock \in Nat
      BY <1>1 DEF Inv, TxInv, Transaction
    <3>4. v.delivered + Window < clock
      BY <2>5, <3>1, <3>3, DaysAssumption
    <3> QED
      BY <2>4, <3>2, <3>4
  <2> QED
    BY <2>7, <2>8
<1>2. Inv /\ [Next]_vars
        => \A o \in Orders :
             LET v == orders[o].committed
                 w == orders'[o].committed
                 before == log[o][Len(log[o])]
                 done == log'[o][Len(log'[o])]
             IN v # Absent /\ v.status # "completed" /\ w.status = "completed"
                => \/ done.by = v.buyer
                   \/ before.to = "delivered" /\ before.at + Window < clock
  BY <1>1
<1> QED
  BY <1>2, Invariance, PTL DEF Spec, CompletedByBuyerOrTime


-----------------------------------------------------------------------------
(* The orders, seen from outside, keep OrderContract.                      *)

Stage(v) == IF v = Absent THEN "none" ELSE v.status
Pays(v) == IF v = Absent THEN FALSE ELSE v.mode = "online"
Left(v) == IF v = Absent THEN 0 ELSE v.allowed - v.used

Stages == [o \in Orders |-> Stage(orders[o].committed)]
Payments == [o \in Orders |-> Pays(orders[o].committed)]
Revisions == [o \in Orders |-> Left(orders[o].committed)]

(* These are the variables of the contract, in this state and in the next. *)
LEMMA ContractState ==
  /\ [o \in Orders |-> Told(o, "none", LAMBDA v : v.status)] = Stages
  /\ [o \in Orders |-> Told(o, FALSE, LAMBDA v : v.mode = "online")] = Payments
  /\ [o \in Orders |-> Told(o, 0, LAMBDA v : v.allowed - v.used)] = Revisions
  BY DEF Told, Stages, Payments, Revisions, Stage, Pays, Left

LEMMA ContractNext ==
  /\ [o \in Orders |-> Told(o, "none", LAMBDA v : v.status)]' = Stages'
  /\ [o \in Orders |-> Told(o, FALSE, LAMBDA v : v.mode = "online")]' = Payments'
  /\ [o \in Orders |-> Told(o, 0, LAMBDA v : v.allowed - v.used)]' = Revisions'
  BY DEF Told, Stages, Payments, Revisions, Stage, Pays, Left

LEMMA Stutters ==
  ASSUME \A o \in Orders : orders'[o].committed = orders[o].committed
  PROVE  UNCHANGED Contract!vars
<1>1. Stages' = Stages /\ Payments' = Payments /\ Revisions' = Revisions
  BY DEF Stages, Payments, Revisions
<1> QED
  BY <1>1, ContractState, ContractNext DEF Contract!vars

(* One order is moved on.                                                  *)
LEMMA Goes ==
  ASSUME NEW o \in Orders, NEW from, NEW to, Stages[o] \in from,
         Stages' = [Stages EXCEPT ![o] = to], Payments' = Payments,
         Revisions' = Revisions
  PROVE  Contract!Go(o, from, to)
  BY ContractState, ContractNext DEF Contract!Go

LEMMA Revises ==
  ASSUME NEW o \in Orders, Stages[o] = "delivered", Revisions[o] > 0,
         Stages' = [Stages EXCEPT ![o] = "in_progress"],
         Revisions' = [Revisions EXCEPT ![o] = @ - 1], Payments' = Payments
  PROVE  Contract!Revise(o)
  BY ContractState, ContractNext DEF Contract!Revise

LEMMA Completes ==
  ASSUME NEW S \in SUBSET Orders, \A o \in S : Stages[o] = "delivered",
         Stages' = [o \in Orders |-> IF o \in S THEN "completed" ELSE Stages[o]],
         Payments' = Payments, Revisions' = Revisions
  PROVE  Contract!Complete(S)
<1>1. \A o \in S : [q \in Orders |-> Told(q, "none", LAMBDA v : v.status)][o] = "delivered"
  BY ContractState
<1>2. [q \in Orders |-> Told(q, "none", LAMBDA v : v.status)]'
        = [o \in Orders |-> IF o \in S THEN "completed"
                 ELSE [q \in Orders |-> Told(q, "none", LAMBDA v : v.status)][o]]
  BY ContractState, ContractNext
<1>3. UNCHANGED <<[q \in Orders |-> Told(q, FALSE, LAMBDA v : v.mode = "online")],
                  [q \in Orders |-> Told(q, 0, LAMBDA v : v.allowed - v.used)]>>
  BY ContractState, ContractNext
<1> QED
  BY <1>1, <1>2, <1>3 DEF Contract!Complete

(* One order is told.                                                      *)
LEMMA OneTold ==
  ASSUME Inv, NEW o \in Orders,
         \A p \in Orders \ {o} : orders'[p].committed = orders[p].committed,
         NEW v, NEW w, NEW e, v = orders[o].committed, w = orders'[o].committed,
         Opens(v, w, e) \/ Follows(v, w, e)
  PROVE  Contract!Next
<1>1. /\ Stages[o] = Stage(v) /\ Payments[o] = Pays(v) /\ Revisions[o] = Left(v)
      /\ Stages' = [Stages EXCEPT ![o] = Stage(w)]
      /\ Payments' = [Payments EXCEPT ![o] = Pays(w)]
      /\ Revisions' = [Revisions EXCEPT ![o] = Left(w)]
      /\ Stages = [p \in Orders |-> Stages[p]]
      /\ Payments = [p \in Orders |-> Payments[p]]
      /\ Revisions = [p \in Orders |-> Revisions[p]]
  BY DEF Stages, Payments, Revisions
<1>2. CASE Opens(v, w, e)
  <2>1. /\ Stage(v) = "none" /\ Stage(w) = "requested" /\ Pays(w) \in BOOLEAN
        /\ Left(w) = w.allowed /\ w.allowed \in 0..MaxRevisions
    <3>1. v = Absent /\ w # Absent
      BY <1>2, AbsentAssumption DEF Opens
    <3>2. w.status = "requested" /\ w.used = 0 /\ w.allowed \in 0..MaxRevisions
      BY <1>2 DEF Opens
    <3>3. Pays(w) \in BOOLEAN
      BY DEF Pays
    <3>4. Left(w) = w.allowed
      BY <3>1, <3>2, RevisionsAssumption DEF Left
    <3> QED
      BY <3>1, <3>2, <3>3, <3>4 DEF Stage
  <2>2. Contract!Place(o, Pays(w), w.allowed)
    BY <1>1, <2>1, ContractState, ContractNext DEF Contract!Place
  <2> QED
    BY <2>1, <2>2 DEF Contract!Next
<1>3. CASE Follows(v, w, e)
  <2>1. /\ v # Absent /\ w # Absent /\ Stage(v) = v.status /\ Stage(w) = w.status
        /\ Pays(v) = (v.mode = "online") /\ Pays(w) = Pays(v)
        /\ Trade(v, w) /\ w.allowed = v.allowed /\ v.used \in Nat /\ v.allowed \in Nat
        /\ Left(v) = v.allowed - v.used /\ Left(w) = v.allowed - w.used
        /\ w.used = IF v.status = "delivered" /\ w.status = "in_progress"
                    THEN v.used + 1 ELSE v.used
    BY <1>3, AbsentAssumption DEF Follows, Stage, Pays, Left, Order
  <2>2. Payments' = Payments
    BY <1>1, <2>1
  <2>3. CASE v.status = "delivered" /\ w.status = "in_progress"
    <3>1. Left(v) > 0 /\ Left(w) = Left(v) - 1
      BY <2>1, <2>3 DEF Trade
    <3>2. Revisions' = [Revisions EXCEPT ![o] = @ - 1]
      <4>1. PICK k : k = Left(w)
        OBVIOUS
      <4>2. Revisions' = [Revisions EXCEPT ![o] = k] /\ k = Revisions[o] - 1
        BY <1>1, <3>1, <4>1
      <4> QED
        BY <4>2
    <3>3. Contract!Revise(o)
      <4>1. /\ Stages[o] = "delivered" /\ Revisions[o] > 0
            /\ Stages' = [Stages EXCEPT ![o] = "in_progress"]
        BY <1>1, <2>1, <2>3, <3>1
      <4> QED
        BY <2>2, <3>2, <4>1, Revises
    <3> QED
      BY <3>3 DEF Contract!Next
  <2>4. CASE ~(v.status = "delivered" /\ w.status = "in_progress")
    <3>1. Revisions' = Revisions
      BY <1>1, <2>1, <2>4
    <3>2. \A from : v.status \in from => Contract!Go(o, from, w.status)
      BY <1>1, <2>1, <2>2, <3>1, Goes
    <3>3. CASE w.status = "completed"
      <4>1. v.status = "delivered"
        BY <2>1, <3>3 DEF Trade
      <4>2. Stages' = [p \in Orders |-> IF p \in {o} THEN "completed" ELSE Stages[p]]
        <5>1. /\ Stages' = [Stages EXCEPT ![o] = "completed"]
              /\ Stages = [p \in Orders |-> Stages[p]]
          BY <1>1, <2>1, <3>3
        <5> QED
          BY <5>1
      <4>3. {o} \in SUBSET Orders
        OBVIOUS
      <4>4. Contract!Complete({o})
        <5>1. \A p \in {o} : Stages[p] = "delivered"
          BY <1>1, <2>1, <4>1
        <5> QED
          BY <2>2, <3>1, <4>2, <4>3, <5>1, Completes
      <4> QED
        BY <4>3, <4>4 DEF Contract!Next
    <3>4. CASE v.status = "requested" /\ w.status \in {"awaiting_payment", "in_progress"}
      <4>1. Payments[o] <=> w.status = "awaiting_payment"
        BY <1>1, <2>1, <3>4 DEF Trade
      <4>2. Contract!Go(o, {"requested"}, w.status)
        BY <3>2, <3>4
      <4>3. Contract!Accept(o)
        BY <3>4, <4>1, <4>2, ContractState DEF Contract!Accept
      <4> QED
        BY <4>3 DEF Contract!Next
    <3>5. CASE v.status = "awaiting_payment" /\ w.status = "paid"
      BY <3>2, <3>5 DEF Contract!Pay, Contract!Next
    <3>6. CASE v.status = "paid" /\ w.status = "in_progress"
      BY <3>2, <3>6 DEF Contract!Start, Contract!Next
    <3>7. CASE v.status = "in_progress" /\ w.status = "delivered"
      BY <3>2, <3>7 DEF Contract!Deliver, Contract!Next
    <3>8. CASE /\ w.status = "cancelled"
               /\ v.status \in {"requested", "awaiting_payment", "paid", "in_progress"}
      BY <3>2, <3>8 DEF Contract!CallOff, Contract!Next
    <3>9. CASE w.status = "disputed" /\ v.status \in {"paid", "in_progress", "delivered"}
      BY <3>2, <3>9 DEF Contract!Dispute, Contract!Next
    <3> QED
      BY <2>1, <2>4, <3>3, <3>4, <3>5, <3>6, <3>7, <3>8, <3>9 DEF Trade
  <2> QED
    BY <2>3, <2>4
<1> QED
  BY <1>2, <1>3

(* mkt_order_autocomplete tells of all its orders at once.                 *)
LEMMA AllTold ==
  ASSUME Inv, NEW t \in Tx, Commit(t), tx[t].pc = "auto.rows" PROVE Contract!Next
<1> DEFINE S == {o \in Orders : orders[o].holder = t}
<1>1. ASSUME NEW o \in S
      PROVE  /\ Stage(orders[o].committed) = "delivered"
             /\ Stage(orders'[o].committed) = "completed"
             /\ Pays(orders'[o].committed) = Pays(orders[o].committed)
             /\ Left(orders'[o].committed) = Left(orders[o].committed)
  <2>1. PICK e : Tells(t, o, e)
    BY <1>1, CommitTells
  <2>2. /\ Follows(orders[o].committed, orders'[o].committed, e.event)
        /\ orders'[o].committed.status = "completed"
    BY <2>1 DEF Tells
  <2>3. /\ orders[o].committed # Absent /\ orders'[o].committed # Absent
        /\ orders[o].committed.status = "delivered"
    BY <2>2, AbsentAssumption DEF Follows, Trade
  <2> QED
    BY <2>2, <2>3 DEF Follows, Stage, Pays, Left
<1>2. \A o \in Orders \ S : orders'[o].committed = orders[o].committed
  BY CommitTells DEF Tells
<1>3. /\ Stages' = [o \in Orders |-> IF o \in S THEN "completed" ELSE Stages[o]]
      /\ Payments' = Payments /\ Revisions' = Revisions
      /\ \A o \in S : Stages[o] = "delivered"
  BY <1>1, <1>2 DEF Stages, Payments, Revisions
<1>4. S \in SUBSET Orders
  OBVIOUS
<1>5. PICK R \in SUBSET Orders :
        /\ Stages' = [o \in Orders |-> IF o \in R THEN "completed" ELSE Stages[o]]
        /\ \A o \in R : Stages[o] = "delivered"
  BY <1>3, <1>4
<1>6. Contract!Complete(R)
  BY <1>3, <1>5, Completes
<1> QED
  BY <1>6 DEF Contract!Next

LEMMA ContractStep == ASSUME Inv, [Next]_vars PROVE [Contract!Next]_(Contract!vars)
<1>1. CASE \A o \in Orders : orders'[o].committed = orders[o].committed
  BY <1>1, Stutters
<1>2. ASSUME NEW t \in Tx, Commit(t) PROVE [Contract!Next]_(Contract!vars)
  <2>1. CASE tx[t].pc = "auto.rows"
    BY <1>2, <2>1, AllTold
  <2>2. CASE tx[t].pc = "commit"
    <3>1. CASE \E o \in Orders : \E e : Tells(t, o, e)
      <4>0. PICK o \in Orders : \E e : Tells(t, o, e)
        BY <3>1
      <4>1. PICK e : Tells(t, o, e)
        BY <4>0
      <4>2. ASSUME NEW p \in Orders, p # o, NEW f, Tells(t, p, f) PROVE FALSE
        <5>1. e = f
          BY <2>2, <4>1, <4>2 DEF Tells, Inv, TxInv
        <5> QED
          BY <4>1, <4>2, <5>1 DEF Tells
      <4>3. \A p \in Orders \ {o} : orders'[p].committed = orders[p].committed
        BY <1>2, <4>2, CommitTells
      <4>4. Opens(orders[o].committed, orders'[o].committed, e.event)
              \/ Follows(orders[o].committed, orders'[o].committed, e.event)
        BY <4>1 DEF Tells
      <4>5. PICK v, w, f : v = orders[o].committed /\ w = orders'[o].committed /\ f = e.event
        OBVIOUS
      <4>6. Opens(v, w, f) \/ Follows(v, w, f)
        BY <4>4, <4>5
      <4>7. Contract!Next
        BY <4>3, <4>5, <4>6, OneTold
      <4> QED
        BY <4>7
    <3>2. CASE ~ \E o \in Orders : \E e : Tells(t, o, e)
      <4>1. \A o \in Orders : orders'[o].committed = orders[o].committed
        BY <1>2, <3>2, CommitTells
      <4> QED
        BY <4>1, Stutters
    <3> QED
      BY <3>1, <3>2
  <2> QED
    BY <1>2, <2>1, <2>2 DEF Commit, Finished
<1> QED
  BY <1>1, <1>2, OnlyCommit

(* Whatever calls overlap, wait or crash, the two parties see their orders *)
(* move only as the contract says, one deed at a time: only along its      *)
(* edges, paid through the platform or not, and never with more revisions  *)
(* than the package includes.                                              *)
THEOREM OrdersKeepContract == Spec => ContractSpec
<1>1. Init => Contract!Init
  <2> SUFFICES ASSUME Init PROVE Contract!Init
    OBVIOUS
  <2>1. /\ Stages = [o \in Orders |-> "none"] /\ Payments = [o \in Orders |-> FALSE]
        /\ Revisions = [o \in Orders |-> 0]
    BY DEF Init, Stored, Stages, Payments, Revisions, Stage, Pays, Left
  <2> QED
    BY <2>1, ContractState DEF Contract!Init
<1>2. Inv /\ [Next]_vars => [Contract!Next]_(Contract!vars)
  BY ContractStep
<1> QED
  BY <1>1, <1>2, Invariance, PTL DEF Spec, ContractSpec, Contract!Spec
=============================================================================
