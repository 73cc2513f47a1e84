--------------------------- MODULE OrderContract ----------------------------
(***************************************************************************)
(* What the two parties of a service order agree to, as if each deed were  *)
(* instantaneous: who may move the order, and from where to where.         *)
(* marketplace/drizzle/0004_marketplace_orders.sql, mkt_order_transition.  *)
(***************************************************************************)
EXTENDS Naturals

CONSTANTS Orders,
          MaxRevisions   \* the most revisions a package includes

VARIABLES stage,      \* per order: "none" until placed, then its status
          online,     \* per order: whether it is paid through the platform
          revisions   \* per order: the revisions the buyer may still ask for

vars == <<stage, online, revisions>>

Init ==
  /\ stage = [o \in Orders |-> "none"]
  /\ online = [o \in Orders |-> FALSE]
  /\ revisions = [o \in Orders |-> 0]

Place(o, pays, n) ==
  /\ stage[o] = "none"
  /\ stage' = [stage EXCEPT ![o] = "requested"]
  /\ online' = [online EXCEPT ![o] = pays]
  /\ revisions' = [revisions EXCEPT ![o] = n]

Go(o, from, to) ==
  /\ stage[o] \in from
  /\ stage' = [stage EXCEPT ![o] = to]
  /\ UNCHANGED <<online, revisions>>

(* The seller takes the request on: at once for cash, after payment else.  *)
Accept(o) ==
  \/ online[o] /\ Go(o, {"requested"}, "awaiting_payment")
  \/ ~online[o] /\ Go(o, {"requested"}, "in_progress")
Pay(o) == Go(o, {"awaiting_payment"}, "paid")
Start(o) == Go(o, {"paid"}, "in_progress")
Deliver(o) == Go(o, {"in_progress"}, "delivered")
Dispute(o) == Go(o, {"paid", "in_progress", "delivered"}, "disputed")
CallOff(o) == Go(o, {"requested", "awaiting_payment", "paid", "in_progress"}, "cancelled")

Revise(o) ==
  /\ stage[o] = "delivered" /\ revisions[o] > 0
  /\ stage' = [stage EXCEPT ![o] = "in_progress"]
  /\ revisions' = [revisions EXCEPT ![o] = @ - 1]
  /\ UNCHANGED online

(* The buyer accepts one order, or the platform all that waited too long.  *)
Complete(S) ==
  /\ \A o \in S : stage[o] = "delivered"
  /\ stage' = [o \in Orders |-> IF o \in S THEN "completed" ELSE stage[o]]
  /\ UNCHANGED <<online, revisions>>

Next ==
  \/ \E o \in Orders :
       \/ \E pays \in BOOLEAN, n \in 0..MaxRevisions : Place(o, pays, n)
       \/ Accept(o) \/ Pay(o) \/ Start(o) \/ Deliver(o)
       \/ Dispute(o) \/ CallOff(o) \/ Revise(o)
  \/ \E S \in SUBSET Orders : Complete(S)

Spec == Init /\ [][Next]_vars
=============================================================================
