--------------------------- MODULE ServiceOrders ----------------------------
(***************************************************************************)
(* Service orders of the marketplace (packages/modules/marketplace): the   *)
(* order row, its event log and its review.  The application writes orders *)
(* only through three SQL functions: mkt_place_order, mkt_order_transition *)
(* (which locks the row before it looks) and mkt_order_autocomplete.       *)
(*                                                                         *)
(* now() is the start of the transaction, not the moment its statement got *)
(* the row: a call that waits for a lock writes the time it began.  So a   *)
(* move has a step that begins it, one that gets the row and one that uses *)
(* what it read.  Gigs and packages are outside: a call finds a gig that is*)
(* active, or is refused.                                                  *)
(***************************************************************************)
EXTENDS Naturals, FiniteSets, Sequences, RowStore

CONSTANTS Users,         \* the members of one tenant
          Orders,        \* row identities of mkt_orders
          Reviews,       \* row identities of mkt_reviews
          Absent,        \* the value of a row that was never inserted
          Nothing,       \* SQL null
          MaxRevisions,  \* the most revisions a package includes
          Window,        \* days a delivered order waits for its buyer
          ModesAsked,    \* bound: the payment modes buyers ask for here
          Days,          \* bound: the days, after day 0, on which anything is done
          Autos          \* bound: auto-complete runs in progress at once

VARIABLES orders,   \* mkt_orders
          log,      \* mkt_order_events, per order, as they were committed
          reviews,  \* mkt_reviews
          tx,       \* per connection: the transaction it runs
          clock     \* the day

vars == <<orders, log, reviews, tx, clock>>

ASSUME RevisionsAssumption == MaxRevisions \in Nat
ASSUME ModesAssumption == ModesAsked \subseteq {"cash", "online", Nothing}
ASSUME DaysAssumption == Days \subseteq Nat /\ Window \in Nat \ {0}

Status == {"requested", "awaiting_payment", "paid", "in_progress", "delivered",
           "completed", "cancelled", "disputed"}
Roles == {"buyer", "seller"}

Order == [buyer : Users, seller : Users, mode : {"cash", "online"}, status : Status,
          allowed : Nat, used : Nat, delivered : Nat \cup {Nothing}]
Review == [order : Orders, reviewer : Users]
ASSUME AbsentAssumption == Absent \notin Order \cup Review

Event == [by : Users \cup {Nothing}, from : Status \cup {Nothing}, to : Status,
          revision : BOOLEAN, at : Nat]

Statements == {"move.lock", "move.apply", "auto.scan", "auto.rows", "review.existing",
               "review.insert", "commit"}

(* What a connection remembers: its caller, the order and the target of a  *)
(* move, the row it read, the orders it has yet to visit, the events it    *)
(* inserted, and its now().                                                *)
Transaction ==
  [pc : Statements \cup {"idle"}, user : Users \cup {Nothing},
   order : Orders \cup {Nothing}, to : Status \cup {Nothing},
   seen : Order \cup {Absent}, todo : SUBSET Orders,
   out : SUBSET [order : Orders, event : Event], at : Nat]

Idle == [pc |-> "idle", user |-> Nothing, order |-> Nothing, to |-> Nothing,
         seen |-> Absent, todo |-> {}, out |-> {}, at |-> 0]

Init ==
  /\ orders = [o \in Orders |-> Stored(Absent)]
  /\ log = [o \in Orders |-> <<>>]
  /\ reviews = [v \in Reviews |-> Stored(Absent)]
  /\ tx = [t \in Tx |-> Idle]
  /\ clock = 0

-----------------------------------------------------------------------------
(* What the statements are built from.                                     *)

OrderSeen(t, o) == View(orders[o], t)
WriteOrder(t, o, v) == orders' = [orders EXCEPT ![o] = Put(@, t, v)]
Fresh(rows, pool) == {r \in pool : rows[r] = Stored(Absent)}
Placed == {o \in Orders : orders[o].committed # Absent}

Return(t) == tx' = [tx EXCEPT ![t] = Idle]

Rollback(t) ==
  /\ orders' = [o \in Orders |-> Restored(orders[o], t)]
  /\ reviews' = [v \in Reviews |-> Restored(reviews[v], t)]
  /\ Return(t)
  /\ UNCHANGED <<log, clock>>

Entry(o, u, from, to, revision, now) ==
  [order |-> o, event |-> [by |-> u, from |-> from, to |-> to,
                           revision |-> revision, at |-> now]]

Begin(t, pc, u, o, to) ==
  /\ tx[t].pc = "idle"
  /\ tx' = [tx EXCEPT ![t] = [Idle EXCEPT !.pc = pc, !.user = u, !.order = o,
                                          !.to = to, !.at = clock]]

-----------------------------------------------------------------------------
(* mkt_place_order: the order and its opening event.                       *)

NewOrder(b, s, choice, n) ==
  [buyer |-> b, seller |-> s, mode |-> IF choice = "online" THEN "online" ELSE "cash",
   status |-> "requested", allowed |-> n, used |-> 0, delivered |-> Nothing]

Place_Insert(t) ==
  \E b, s \in Users, choice \in ModesAsked, n \in 0..MaxRevisions, o \in Fresh(orders, Orders) :
    /\ tx[t].pc = "idle"
    /\ b # s
    /\ WriteOrder(t, o, NewOrder(b, s, choice, n))
    /\ tx' = [tx EXCEPT ![t] = [Idle EXCEPT !.pc = "commit", !.user = b, !.at = clock,
                        !.out = {Entry(o, b, Nothing, "requested", FALSE, clock)}]]
    /\ UNCHANGED <<log, reviews, clock>>

-----------------------------------------------------------------------------
(* mkt_order_transition                                                    *)

RoleOf(v, u) == IF u = v.buyer THEN "buyer" ELSE IF u = v.seller THEN "seller" ELSE "none"

(* The edges anybody of the role may take, <<from, to, role>>.             *)
PlainEdges ==
  {<<"awaiting_payment", "paid", "buyer">>, <<"paid", "in_progress", "seller">>,
   <<"in_progress", "delivered", "seller">>, <<"delivered", "completed", "buyer">>}
  \cup {<<f, "cancelled", "seller">> : f \in {"requested", "awaiting_payment", "paid",
                                             "in_progress"}}
  \cup {<<f, "cancelled", "buyer">> : f \in {"requested", "awaiting_payment"}}
  \cup {<<f, "disputed", "buyer">> : f \in {"paid", "in_progress", "delivered"}}

(* Mutant of Legal: the payment mode does not decide what accepting means. *)
Legal_AnyMode(v, to, role) ==
  \/ <<v.status, to, role>> \in PlainEdges
  \/ v.status = "requested" /\ role = "seller" /\ to \in {"awaiting_payment", "in_progress"}
  \/ v.status = "delivered" /\ role = "buyer" /\ to = "in_progress" /\ v.used < v.allowed

Legal(v, to, role) ==
  \/ <<v.status, to, role>> \in PlainEdges
  \/ /\ v.status = "requested" /\ role = "seller"
     /\ to = IF v.mode = "online" THEN "awaiting_payment" ELSE "in_progress"
  \/ v.status = "delivered" /\ role = "buyer" /\ to = "in_progress" /\ v.used < v.allowed

IsRevision(v, to) == v.status = "delivered" /\ to = "in_progress"

(* Mutant of Moved: the delivery keeps the time of the first one.          *)
Moved_FirstDelivery(v, from, to, now) ==
  [v EXCEPT !.status = to,
            !.delivered = IF to = "delivered" /\ @ = Nothing THEN now ELSE @,
            !.used = IF from = "delivered" /\ to = "in_progress" THEN @ + 1 ELSE @]

Moved(v, from, to, now) ==
  [v EXCEPT !.status = to,
            !.delivered = IF to = "delivered" THEN now ELSE @,
            !.used = IF from = "delivered" /\ to = "in_progress" THEN @ + 1 ELSE @]

Move_Begin(t) ==
  \E u \in Users, o \in Placed, to \in Status \ {"requested"} :
    /\ RoleOf(orders[o].committed, u) # "none"
    /\ Begin(t, "move.lock", u, o, to)
    /\ UNCHANGED <<orders, log, reviews, clock>>

(* Mutant of Move_Lock: SELECT without FOR UPDATE.                         *)
Move_Lock_Plain(t) ==
  /\ tx[t].pc = "move.lock"
  /\ tx' = [tx EXCEPT ![t].pc = "move.apply", ![t].seen = OrderSeen(t, tx[t].order)]
  /\ UNCHANGED <<orders, log, reviews, clock>>

(* SELECT ... FOR UPDATE: the row is t's, at its newest version.           *)
Move_Lock(t) ==
  LET o == tx[t].order
  IN /\ tx[t].pc = "move.lock"
     /\ Free(orders[o], t)
     /\ WriteOrder(t, o, OrderSeen(t, o))
     /\ tx' = [tx EXCEPT ![t].pc = "move.apply", ![t].seen = OrderSeen(t, o)]
     /\ UNCHANGED <<log, reviews, clock>>

(* The edge is judged by the row that was read; the UPDATE names only the  *)
(* row's id.                                                               *)
Move_Apply(t) ==
  LET o == tx[t].order
      v == tx[t].seen
      to == tx[t].to
  IN /\ tx[t].pc = "move.apply"
     /\ Legal(v, to, RoleOf(v, tx[t].user))
     /\ Free(orders[o], t)
     /\ WriteOrder(t, o, Moved(OrderSeen(t, o), v.status, to, tx[t].at))
     /\ tx' = [tx EXCEPT ![t].pc = "commit",
                         ![t].out = {Entry(o, tx[t].user, v.status, to, IsRevision(v, to),
                                           tx[t].at)}]
     /\ UNCHANGED <<log, reviews, clock>>

Move_Illegal(t) ==
  LET v == tx[t].seen
  IN /\ tx[t].pc = "move.apply"
     /\ ~Legal(v, tx[t].to, RoleOf(v, tx[t].user))
     /\ Rollback(t)

-----------------------------------------------------------------------------
(* mkt_order_autocomplete: one UPDATE over the delivered orders, and an    *)
(* event for each row it changed.                                          *)

(* Mutant of Overdue: the status is not part of the predicate.             *)
Overdue_AnyStatus(v, now) == v # Absent /\ v.delivered # Nothing /\ v.delivered + Window < now

Overdue(v, now) ==
  /\ v # Absent /\ v.status = "delivered"
  /\ v.delivered # Nothing /\ v.delivered + Window < now

Auto_Begin(t) ==
  /\ Cardinality({s \in Tx : tx[s].pc \in {"auto.scan", "auto.rows"}}) < Autos
  /\ Begin(t, "auto.scan", Nothing, Nothing, Nothing)
  /\ UNCHANGED <<orders, log, reviews, clock>>

Auto_Scan(t) ==
  /\ tx[t].pc = "auto.scan"
  /\ tx' = [tx EXCEPT ![t].pc = "auto.rows",
                      ![t].todo = {o \in Orders : Overdue(OrderSeen(t, o), tx[t].at)}]
  /\ UNCHANGED <<orders, log, reviews, clock>>

Auto_Row(t) ==
  /\ tx[t].pc = "auto.rows"
  /\ \E o \in tx[t].todo :
       LET v == OrderSeen(t, o)
           done == Entry(o, Nothing, "delivered", "completed", FALSE, tx[t].at)
       IN \/ /\ Overdue(v, tx[t].at) /\ Free(orders[o], t)
             /\ WriteOrder(t, o, [v EXCEPT !.status = "completed"])
             /\ tx' = [tx EXCEPT ![t].todo = @ \ {o}, ![t].out = @ \cup {done}]
          \/ /\ ~Overdue(v, tx[t].at)
             /\ tx' = [tx EXCEPT ![t].todo = @ \ {o}]
             /\ UNCHANGED orders
  /\ UNCHANGED <<log, reviews, clock>>

-----------------------------------------------------------------------------
(* writeReview: three statements, the last one ON CONFLICT DO NOTHING on   *)
(* the unique index over the order, under a policy that reads the order.   *)

ReviewSeen(t, v) == View(reviews[v], t)
ReviewOf(w, o) == w # Absent /\ w.order = o

Reviewed(t, o) == \E v \in Reviews : ReviewOf(ReviewSeen(t, v), o)
ReviewHolders(t, o) ==
  {reviews[v].holder : v \in {w \in Reviews : \/ ReviewOf(reviews[w].committed, o)
                                              \/ ReviewOf(reviews[w].written, o)}}
    \ {NoTx, t}

Reviewable(v, u) == v.buyer = u /\ v.status = "completed"

Review_Order(t) ==
  \E u \in Users, o \in Placed :
    /\ Reviewable(orders[o].committed, u)
    /\ Begin(t, "review.existing", u, o, Nothing)
    /\ UNCHANGED <<orders, log, reviews, clock>>

Review_Existing(t) ==
  /\ tx[t].pc = "review.existing"
  /\ IF Reviewed(t, tx[t].order)
       THEN Return(t) ELSE tx' = [tx EXCEPT ![t].pc = "review.insert"]
  /\ UNCHANGED <<orders, log, reviews, clock>>

(* Mutant of Review_Insert: the insert asks for no conflict.               *)
Review_Insert_Blind(t) ==
  LET o == tx[t].order
  IN /\ tx[t].pc = "review.insert"
     /\ \E v \in Fresh(reviews, Reviews) :
          reviews' = [reviews EXCEPT ![v] = Put(@, t, [order |-> o, reviewer |-> tx[t].user])]
     /\ tx' = [tx EXCEPT ![t].pc = "commit"]
     /\ UNCHANGED <<orders, log, clock>>

Review_Insert(t) ==
  LET o == tx[t].order
  IN /\ tx[t].pc = "review.insert"
     /\ ReviewHolders(t, o) = {}
     /\ \/ /\ ~Reviewed(t, o) /\ Reviewable(OrderSeen(t, o), tx[t].user)
           /\ \E v \in Fresh(reviews, Reviews) :
                reviews' = [reviews EXCEPT
                              ![v] = Put(@, t, [order |-> o, reviewer |-> tx[t].user])]
           /\ tx' = [tx EXCEPT ![t].pc = "commit"]
        \/ /\ Reviewed(t, o) \/ ~Reviewable(OrderSeen(t, o), tx[t].user)
           /\ Return(t)
           /\ UNCHANGED reviews
     /\ UNCHANGED <<orders, log, clock>>

-----------------------------------------------------------------------------
(* The end of a transaction.                                               *)

Finished(t) == tx[t].pc = "commit" \/ (tx[t].pc = "auto.rows" /\ tx[t].todo = {})

(* The row and its event become visible together.                          *)
Logged(o, t) ==
  LET new == {e \in tx[t].out : e.order = o}
  IN IF new = {} THEN log[o] ELSE Append(log[o], (CHOOSE e \in new : TRUE).event)

Commit(t) ==
  /\ Finished(t)
  /\ orders' = [o \in Orders |-> Published(orders[o], t)]
  /\ reviews' = [v \in Reviews |-> Published(reviews[v], t)]
  /\ log' = [o \in Orders |-> Logged(o, t)]
  /\ Return(t)
  /\ UNCHANGED clock

(* The process or its connection dies before the commit, or the database   *)
(* picks the transaction as the victim of a deadlock.                      *)
Abort(t) == tx[t].pc # "idle" /\ Rollback(t)

Tick ==
  /\ clock' \in {d \in Days : clock < d}
  /\ UNCHANGED <<orders, log, reviews, tx>>

Run(t) ==
  \/ Place_Insert(t)
  \/ Move_Begin(t) \/ Move_Lock(t) \/ Move_Apply(t) \/ Move_Illegal(t)
  \/ Auto_Begin(t) \/ Auto_Scan(t) \/ Auto_Row(t)
  \/ Review_Order(t) \/ Review_Existing(t) \/ Review_Insert(t)
  \/ Commit(t) \/ Abort(t)

Next == Tick \/ \E t \in Tx : Run(t)

Spec == Init /\ [][Next]_vars

-----------------------------------------------------------------------------
(* What an order promises its parties.                                     *)

TypeOK ==
  /\ orders \in [Orders -> RowsOf(Order \cup {Absent})]
  /\ reviews \in [Reviews -> RowsOf(Review \cup {Absent})]
  /\ log \in [Orders -> Seq(Event)]
  /\ tx \in [Tx -> Transaction]
  /\ clock \in Nat

(* The log is the order's history: its events join up, the last one led to *)
(* the order's status, and the revisions in it are the revisions charged   *)
(* ("writes the new status and its timestamps, and appends the event").    *)
LogTellsOrder ==
  \A o \in Orders :
    LET v == orders[o].committed
        h == log[o]
    IN IF v = Absent THEN h = <<>>
       ELSE /\ h # <<>> /\ h[1].from = Nothing /\ h[Len(h)].to = v.status
            /\ \A i \in 1..(Len(h) - 1) : h[i + 1].from = h[i].to
            /\ Cardinality({i \in 1..Len(h) : h[i].revision}) = v.used

(* Every row has its type and every order its history (LogTellsOrder).     *)
HistoryInv == TypeOK /\ LogTellsOrder

(* Work on an order paid through the platform starts only after `paid'.    *)
PaidBeforeWork ==
  \A o \in Orders :
    LET v == orders[o].committed
        h == log[o]
    IN v # Absent /\ v.mode = "online"
         => \A i \in 1..Len(h) :
              h[i].to = "in_progress" => \E j \in 1..(i - 1) : h[j].to = "paid"

(* An order completes by its buyer's hand, or when the delivery in hand has*)
(* waited out the window -- not because an earlier delivery had, and not   *)
(* when it was sent back for a revision meanwhile.                         *)
CompletedByBuyerOrTime ==
  [][\A o \in Orders :
       LET v == orders[o].committed
           w == orders'[o].committed
           before == log[o][Len(log[o])]
           done == log'[o][Len(log'[o])]
       IN v # Absent /\ v.status # "completed" /\ w.status = "completed"
          => \/ done.by = v.buyer
             \/ before.to = "delivered" /\ before.at + Window < clock]_vars

(* Every review is its buyer's, of an order that is over, and the only one.*)
ReviewsEarned ==
  \A v \in Reviews :
    LET w == reviews[v].committed
    IN w # Absent
         => /\ Reviewable(orders[w.order].committed, w.reviewer)
            /\ \A u \in Reviews : ReviewOf(reviews[u].committed, w.order) => u = v

-----------------------------------------------------------------------------
(* The orders implement the contract of the two parties.                   *)

Told(o, none, F(_)) == IF orders[o].committed = Absent THEN none ELSE F(orders[o].committed)

Contract == INSTANCE OrderContract WITH
  stage <- [o \in Orders |-> Told(o, "none", LAMBDA v : v.status)],
  online <- [o \in Orders |-> Told(o, FALSE, LAMBDA v : v.mode = "online")],
  revisions <- [o \in Orders |-> Told(o, 0, LAMBDA v : v.allowed - v.used)]

ContractSpec == Contract!Spec
=============================================================================
