--------------------------- MODULE RideSeatsProofs --------------------------
(***************************************************************************)
(* Proofs about RideSeats for every number of users, rides, requests,      *)
(* connections and seats.  The inductive invariant follows a value from    *)
(* the statement that writes it, through the row lock that protects it, to *)
(* the commit that publishes it: a row is read by one transaction while it *)
(* is rewritten by another, so neither version alone is inductive.         *)
(*   Inv       types, the moves a row makes between its two versions       *)
(*   HeldInv   what a transaction has written, told by its next statement  *)
(*   IndexInv  the live requests of a passenger on a ride share one entry  *)
(*   SeatsInv  riders, and seats being returned, fit into the seats taken  *)
(*   LineInv   the live occurrences of a recurring offer share one entry,  *)
(*             and a sweep follows up only rides it is itself ending       *)
(***************************************************************************)
EXTENDS RideSeats, RowStoreProofs, FiniteSetTheorems

GoodRide == {p \in Ride : Consistent(p) /\ (p.removed => p.status = "cancelled")}

RideMove(p, o) ==
  /\ o.root = p.root
  /\ p.removed => o.removed
  /\ p.status \notin OpenRide
       => \/ o.status = p.status
          \/ o.removed /\ ~p.removed /\ o.status = "cancelled"
RideMoves == {e \in GoodRide \X GoodRide : RideMove(e[1], e[2])}

ReqMove(v, w) ==
  \/ v = w
  \/ w.ride = v.ride /\ w.passenger = v.passenger /\ <<v.status, w.status>> \in ReqEdges
ReqMoves == {e \in Request \X Request : ReqMove(e[1], e[2])}

RidePCs == {"request.live", "request.insert", "accept.ride", "accept.req", "leave.req",
            "leave.ride", "callOff.riders", "callOff.snapshot", "callOff.reqs"}
ReqPCs == {"accept.ride", "accept.req", "leave.req"}
SweepPCs == {"sweep.completing", "sweep.expiring", "sweep.spawning"}

(* A statement only names rows that exist.                                 *)
TxInv(t) ==
  /\ tx[t].pc \in RidePCs => /\ tx[t].ride \in Rides /\ tx[t].user \in Users
                             /\ rides[tx[t].ride].committed \in GoodRide
  /\ tx[t].pc \in ReqPCs => /\ tx[t].req \in Reqs
                            /\ reqs[tx[t].req].committed \in Request
  /\ tx[t].pc = "callOff.reqs"
       => \A q \in tx[t].todo : q \in Reqs /\ ReqSeen(t, q) \in Request
  /\ tx[t].pc \in SweepPCs
       => \A r \in tx[t].todo : r \in Rides /\ RideSeen(t, r) \in GoodRide

(* A seat request belongs to a ride that was posted.                       *)
Anchored(v) == v \in Request => rides[v.ride].committed \in GoodRide

RidesInv == /\ rides = [r \in Rides |-> rides[r]]
            /\ \A r \in Rides : RowInv(rides[r], GoodRide, RideMoves, Absent)
ReqsInv == /\ reqs = [q \in Reqs |-> reqs[q]]
           /\ \A q \in Reqs : RowInv(reqs[q], Request, ReqMoves, Absent)

Inv ==
  /\ RidesInv
  /\ ReqsInv
  /\ \A q \in Reqs : Anchored(reqs[q].committed) /\ Anchored(reqs[q].written)
  /\ tx \in [Tx -> Transaction]
  /\ \A t \in Tx : TxInv(t)
  /\ clock \in Nat

-----------------------------------------------------------------------------
(* The moves are reflexive and transitive.                                 *)

LEMMA RideMovesOrder ==
  /\ \A p \in GoodRide : <<p, p>> \in RideMoves
  /\ \A p, o, n \in GoodRide :
       <<p, o>> \in RideMoves /\ <<o, n>> \in RideMoves => <<p, n>> \in RideMoves
<1>1. \A p, o : <<p, o>> \in RideMoves <=> p \in GoodRide /\ o \in GoodRide /\ RideMove(p, o)
  BY DEF RideMoves
<1>2. \A p \in GoodRide : RideMove(p, p)
  BY DEF RideMove
<1>3. ASSUME NEW p \in GoodRide, NEW o \in GoodRide, NEW n \in GoodRide,
             RideMove(p, o), RideMove(o, n)
      PROVE  RideMove(p, n)
  BY <1>3 DEF RideMove, OpenRide
<1> QED
  BY <1>1, <1>2, <1>3

LEMMA ReqMovesOrder ==
  /\ \A v \in Request : <<v, v>> \in ReqMoves
  /\ \A u, v, w \in Request :
       <<u, v>> \in ReqMoves /\ <<v, w>> \in ReqMoves => <<u, w>> \in ReqMoves
<1>1. \A v, w : <<v, w>> \in ReqMoves <=> v \in Request /\ w \in Request /\ ReqMove(v, w)
  BY DEF ReqMoves
<1>2. \A v \in Request : ReqMove(v, v)
  BY DEF ReqMove
<1>3. ASSUME NEW u \in Request, NEW v \in Request, NEW w \in Request,
             ReqMove(u, v), ReqMove(v, w)
      PROVE  ReqMove(u, w)
  <2>1. CASE u = v \/ v = w
    BY <1>3, <2>1 DEF ReqMove
  <2>2. CASE u # v /\ v # w
    <3>1. <<u.status, v.status>> \in ReqEdges /\ <<v.status, w.status>> \in ReqEdges
      BY <1>3, <2>2 DEF ReqMove
    <3>2. <<u.status, w.status>> \in ReqEdges
      BY <3>1 DEF ReqEdges
    <3> QED
      BY <1>3, <2>2, <3>2 DEF ReqMove
  <2> QED
    BY <2>1, <2>2
<1> QED
  BY <1>1, <1>2, <1>3

-----------------------------------------------------------------------------
(* What a step of transaction t may do to the tables and to itself.        *)

RidesStep(t) ==
  /\ rides' = [r \in Rides |-> rides'[r]]
  /\ \A r \in Rides : RowChange(rides[r], rides'[r], t, GoodRide, RideMoves)
ReqsStep(t) ==
  /\ reqs' = [q \in Reqs |-> reqs'[q]]
  /\ \A q \in Reqs : /\ RowChange(reqs[q], reqs'[q], t, Request, ReqMoves)
                     /\ Anchored(reqs'[q].written)
TxStep(t) ==
  /\ tx' \in [Tx -> Transaction]
  /\ \A s \in Tx \ {t} : tx'[s] = tx[s]
  /\ TxInv(t)'

(* Posted rides stay posted, made requests stay made.                      *)
LEMMA Kept ==
  ASSUME Inv, NEW t \in Tx, RidesStep(t), ReqsStep(t)
  PROVE  /\ \A r \in Rides : rides[r].committed \in GoodRide => rides'[r].committed \in GoodRide
         /\ \A q \in Reqs : reqs[q].committed \in Request => reqs'[q].committed \in Request
<1>1. ASSUME NEW r \in Rides, rides[r].committed \in GoodRide
      PROVE  rides'[r].committed \in GoodRide
  BY <1>1, CommittedKept DEF Inv, RidesInv, RidesStep
<1>2. ASSUME NEW q \in Reqs, reqs[q].committed \in Request
      PROVE  reqs'[q].committed \in Request
  BY <1>2, CommittedKept DEF Inv, ReqsInv, ReqsStep
<1> QED
  BY <1>1, <1>2

LEMMA StepPreservesInv ==
  ASSUME Inv, NEW t \in Tx, RidesStep(t), ReqsStep(t), TxStep(t), clock' \in Nat
  PROVE  Inv'
<1>1. RidesInv'
  <2>1. ASSUME NEW r \in Rides
        PROVE  RowInv(rides'[r], GoodRide, RideMoves, Absent)
    <3>1. /\ RowInv(rides[r], GoodRide, RideMoves, Absent)
          /\ RowChange(rides[r], rides'[r], t, GoodRide, RideMoves)
      BY DEF Inv, RidesInv, RidesStep
    <3> QED
      BY <3>1, RowPreserved, RideMovesOrder
  <2> QED
    BY <2>1 DEF RidesInv, RidesStep
<1>2. ReqsInv'
  <2>1. ASSUME NEW q \in Reqs
        PROVE  RowInv(reqs'[q], Request, ReqMoves, Absent)
    <3>1. /\ RowInv(reqs[q], Request, ReqMoves, Absent)
          /\ RowChange(reqs[q], reqs'[q], t, Request, ReqMoves)
      BY DEF Inv, ReqsInv, ReqsStep
    <3> QED
      BY <3>1, RowPreserved, ReqMovesOrder
  <2> QED
    BY <2>1 DEF ReqsInv, ReqsStep
<1>3. ASSUME NEW q \in Reqs
      PROVE  (Anchored(reqs[q].committed) /\ Anchored(reqs[q].written))'
  <2>1. \A v : Anchored(v) => Anchored(v)'
    <3> SUFFICES ASSUME NEW v, Anchored(v), v \in Request
                 PROVE  rides'[v.ride].committed \in GoodRide
      BY DEF Anchored
    <3>1. v.ride \in Rides
      BY DEF Request
    <3> QED
      BY <3>1, Kept DEF Anchored
  <2>2. /\ Anchored(reqs[q].committed) /\ Anchored(reqs[q].written)
        /\ Anchored(reqs'[q].written)
        /\ RowChange(reqs[q], reqs'[q], t, Request, ReqMoves)
    BY DEF Inv, ReqsStep
  <2>3. Anchored(reqs'[q].committed)
    <3>1. reqs'[q].committed = reqs[q].committed \/ reqs'[q].committed = reqs[q].written
      BY <2>2, ChangeCases
    <3> QED
      BY <2>2, <3>1
  <2> QED
    BY <2>1, <2>2, <2>3
<1>4. ASSUME NEW s \in Tx
      PROVE  TxInv(s)'
  <2>1. CASE s = t
    BY <2>1 DEF TxStep
  <2>2. CASE s # t
    <3>1. tx'[s] = tx[s] /\ TxInv(s)
      BY <2>2 DEF TxStep, Inv
    <3>2. ASSUME NEW r \in Rides, RideSeen(s, r) \in GoodRide
          PROVE  RideSeen(s, r)' \in GoodRide
      <4>1. /\ RowInv(rides[r], GoodRide, RideMoves, Absent)
            /\ RowChange(rides[r], rides'[r], t, GoodRide, RideMoves)
        BY DEF Inv, RidesInv, RidesStep
      <4> QED
        BY <2>2, <3>2, <4>1, ViewKept DEF RideSeen
    <3>3. ASSUME NEW q \in Reqs, ReqSeen(s, q) \in Request
          PROVE  ReqSeen(s, q)' \in Request
      <4>1. /\ RowInv(reqs[q], Request, ReqMoves, Absent)
            /\ RowChange(reqs[q], reqs'[q], t, Request, ReqMoves)
        BY DEF Inv, ReqsInv, ReqsStep
      <4> QED
        BY <2>2, <3>3, <4>1, ViewKept DEF ReqSeen
    <3> QED
      BY <3>1, <3>2, <3>3, Kept DEF TxInv
  <2> QED
    BY <2>1, <2>2
<1> QED
  BY <1>1, <1>2, <1>3, <1>4 DEF Inv, TxStep

-----------------------------------------------------------------------------
(* The shapes of step the actions are made of.                             *)

(* What a statement sees is a value, or a row that was never inserted.     *)
LEMMA Seen ==
  ASSUME Inv, NEW t \in Tx
  PROVE  /\ \A r \in Rides : /\ rides[r].committed \in GoodRide => RideSeen(t, r) \in GoodRide
                             /\ RideSeen(t, r) # Absent => RideSeen(t, r) \in GoodRide
                             /\ rides[r].committed # Absent => rides[r].committed \in GoodRide
         /\ \A q \in Reqs : /\ reqs[q].committed \in Request => ReqSeen(t, q) \in Request
                            /\ ReqSeen(t, q) # Absent => ReqSeen(t, q) \in Request
                            /\ reqs[q].committed # Absent => reqs[q].committed \in Request
<1>1. ASSUME NEW r \in Rides
      PROVE  /\ rides[r].committed \in GoodRide => RideSeen(t, r) \in GoodRide
             /\ RideSeen(t, r) # Absent => RideSeen(t, r) \in GoodRide
             /\ rides[r].committed # Absent => rides[r].committed \in GoodRide
  BY DEF Inv, RidesInv, RowInv, RowsOf, RideSeen, View
<1>2. ASSUME NEW q \in Reqs
      PROVE  /\ reqs[q].committed \in Request => ReqSeen(t, q) \in Request
             /\ ReqSeen(t, q) # Absent => ReqSeen(t, q) \in Request
             /\ reqs[q].committed # Absent => reqs[q].committed \in Request
  BY DEF Inv, ReqsInv, RowInv, RowsOf, ReqSeen, View
<1> QED
  BY <1>1, <1>2

LEMMA SameRides ==
  ASSUME Inv, NEW t \in Tx, rides' = rides
  PROVE  RidesStep(t)
  BY DEF Inv, RidesInv, RidesStep, RowChange

LEMMA SameReqs ==
  ASSUME Inv, NEW t \in Tx, reqs' = reqs
  PROVE  ReqsStep(t)
  BY DEF Inv, ReqsInv, ReqsStep, RowChange

LEMMA OneRide ==
  ASSUME Inv, NEW t \in Tx, NEW r \in Rides, NEW v \in GoodRide,
         WriteRide(t, r, v), Free(rides[r], t),
         RideSeen(t, r) \in GoodRide => RideMove(RideSeen(t, r), v)
  PROVE  RidesStep(t)
<1>1. rides' = [rides EXCEPT ![r] = Put(rides[r], t, v)]
  BY DEF WriteRide
<1>2. rides = [s \in Rides |-> rides[s]]
  BY DEF Inv, RidesInv
<1>3. rides' = [s \in Rides |-> rides'[s]]
  BY <1>1, <1>2
<1>4. RowChange(rides[r], rides'[r], t, GoodRide, RideMoves)
  <2>1. rides'[r] = Put(rides[r], t, v)
    BY <1>1, <1>2
  <2>2. View(rides[r], t) \in GoodRide => <<View(rides[r], t), v>> \in RideMoves
    BY DEF RideSeen, RideMoves
  <2> QED
    BY <2>1, <2>2 DEF RowChange
<1>5. ASSUME NEW s \in Rides, s # r
      PROVE  RowChange(rides[s], rides'[s], t, GoodRide, RideMoves)
  BY <1>1, <1>2, <1>5 DEF RowChange
<1> QED
  BY <1>3, <1>4, <1>5 DEF RidesStep

LEMMA OneReq ==
  ASSUME Inv, NEW t \in Tx, NEW q \in Reqs, NEW v \in Request,
         WriteReq(t, q, v), Free(reqs[q], t), Anchored(v),
         ReqSeen(t, q) \in Request => ReqMove(ReqSeen(t, q), v)
  PROVE  ReqsStep(t)
<1>1. reqs' = [reqs EXCEPT ![q] = Put(reqs[q], t, v)]
  BY DEF WriteReq
<1>2. reqs = [s \in Reqs |-> reqs[s]]
  BY DEF Inv, ReqsInv
<1>3. reqs' = [s \in Reqs |-> reqs'[s]]
  BY <1>1, <1>2
<1>4. /\ RowChange(reqs[q], reqs'[q], t, Request, ReqMoves)
      /\ Anchored(reqs'[q].written)
  <2>1. reqs'[q] = Put(reqs[q], t, v)
    BY <1>1, <1>2
  <2>2. View(reqs[q], t) \in Request => <<View(reqs[q], t), v>> \in ReqMoves
    BY DEF ReqSeen, ReqMoves
  <2>3. reqs'[q].written = v
    BY <2>1 DEF Put
  <2> QED
    BY <2>1, <2>2, <2>3 DEF RowChange
<1>5. ASSUME NEW s \in Reqs, s # q
      PROVE  /\ RowChange(reqs[s], reqs'[s], t, Request, ReqMoves)
             /\ Anchored(reqs'[s].written)
  BY <1>1, <1>2, <1>5 DEF RowChange, Inv
<1> QED
  BY <1>3, <1>4, <1>5 DEF ReqsStep

(* A commit or a rollback ends every write of its transaction at once.     *)
LEMMA AllRows ==
  ASSUME Inv, NEW t \in Tx,
         \/ /\ rides' = [r \in Rides |-> Published(rides[r], t)]
            /\ reqs' = [q \in Reqs |-> Published(reqs[q], t)]
         \/ /\ rides' = [r \in Rides |-> Restored(rides[r], t)]
            /\ reqs' = [q \in Reqs |-> Restored(reqs[q], t)]
  PROVE  RidesStep(t) /\ ReqsStep(t)
<1>1. \A r \in Rides : RowChange(rides[r], rides'[r], t, GoodRide, RideMoves)
  BY DEF RowChange
<1>2. \A q \in Reqs : RowChange(reqs[q], reqs'[q], t, Request, ReqMoves)
  BY DEF RowChange
<1>3. ASSUME NEW q \in Reqs PROVE Anchored(reqs'[q].written)
  <2>1. reqs'[q].written = reqs[q].written \/ reqs'[q].written = reqs[q].committed
    BY DEF Published, Restored, Stored
  <2> QED
    BY <2>1 DEF Inv
<1>4. rides' = [r \in Rides |-> rides'[r]] /\ reqs' = [q \in Reqs |-> reqs'[q]]
  OBVIOUS
<1> QED
  BY <1>1, <1>2, <1>3, <1>4 DEF RidesStep, ReqsStep

(* A transaction whose next statement names no row.                        *)
LEMMA LooseTx ==
  ASSUME Inv, NEW t \in Tx, NEW x \in Transaction, tx' = [tx EXCEPT ![t] = x],
         x.pc \notin RidePCs \cup ReqPCs \cup SweepPCs
  PROVE  TxStep(t)
  BY DEF Inv, TxStep, TxInv, RidePCs

LEMMA ReturnTx ==
  ASSUME Inv, NEW t \in Tx, Return(t)
  PROVE  TxStep(t)
<1>1. Idle \in Transaction
  BY DEF Idle, Transaction, Actors
<1>2. Idle.pc \notin RidePCs \cup ReqPCs \cup SweepPCs
  BY DEF Idle, RidePCs, ReqPCs, SweepPCs
<1> QED
  BY <1>1, <1>2, LooseTx DEF Return

LEMMA RollbackStep ==
  ASSUME Inv, NEW t \in Tx, Rollback(t)
  PROVE  RidesStep(t) /\ ReqsStep(t) /\ TxStep(t) /\ clock' = clock
  BY AllRows, ReturnTx DEF Rollback

(* A transaction opens on rows that exist.                                 *)
LEMMA OpenedType ==
  ASSUME NEW pc \in Statements, NEW u \in Actors, NEW r \in Rides \cup {Nothing},
         NEW q \in Reqs \cup {Nothing}
  PROVE  /\ Opened(pc, u, r, q) \in Transaction
         /\ Opened(pc, u, r, q).pc = pc /\ Opened(pc, u, r, q).user = u
         /\ Opened(pc, u, r, q).ride = r /\ Opened(pc, u, r, q).req = q
         /\ Opened(pc, u, r, q).todo = {}
  BY DEF Opened, Idle, Transaction, Actors

(* A transaction whose next statement names a ride, and maybe a request.   *)
LEMMA BusyTx ==
  ASSUME Inv, NEW t \in Tx, RidesStep(t), ReqsStep(t),
         NEW x \in Transaction, tx' = [tx EXCEPT ![t] = x],
         x.pc \notin SweepPCs, x.pc # "callOff.reqs",
         x.pc \in RidePCs => /\ x.ride \in Rides /\ x.user \in Users
                             /\ rides[x.ride].committed \in GoodRide,
         x.pc \in ReqPCs => x.req \in Reqs /\ reqs[x.req].committed \in Request
  PROVE  TxStep(t)
<1>1. tx' \in [Tx -> Transaction] /\ tx'[t] = x /\ \A s \in Tx \ {t} : tx'[s] = tx[s]
  BY DEF Inv
<1>2. TxInv(t)'
  BY <1>1, Kept DEF TxInv
<1> QED
  BY <1>1, <1>2 DEF TxStep

(* A transaction that goes on with the rows it already names.              *)
LEMMA GoesOn ==
  ASSUME Inv, NEW t \in Tx, RidesStep(t), ReqsStep(t),
         NEW pc \in Statements, NEW out \in SUBSET Notice,
         tx' = [tx EXCEPT ![t].pc = pc, ![t].out = out],
         tx[t].pc \in RidePCs, pc \notin SweepPCs, pc # "callOff.reqs",
         pc \in ReqPCs => tx[t].pc \in ReqPCs
  PROVE  TxStep(t)
<1> DEFINE x == [tx[t] EXCEPT !.pc = pc, !.out = out]
<1>1. tx[t] \in Transaction
  BY DEF Inv
<1>2. /\ x \in Transaction /\ x.pc = pc /\ x.ride = tx[t].ride
      /\ x.req = tx[t].req /\ x.user = tx[t].user
  BY <1>1 DEF Transaction
<1>3. tx' = [tx EXCEPT ![t] = x]
  OBVIOUS
<1>4. TxInv(t)
  BY DEF Inv
<1> HIDE DEF x
<1> QED
  BY <1>2, <1>3, <1>4, BusyTx DEF TxInv

LEMMA GotoTx ==
  ASSUME Inv, NEW t \in Tx, RidesStep(t), ReqsStep(t), NEW pc \in Statements,
         Goto(t, pc), tx[t].pc \in RidePCs, pc \notin SweepPCs, pc # "callOff.reqs",
         pc \in ReqPCs => tx[t].pc \in ReqPCs
  PROVE  TxStep(t)
<1>1. tx[t] \in Transaction
  BY DEF Inv
<1>2. tx[t].out \in SUBSET Notice
  BY <1>1 DEF Transaction
<1>3. [tx[t] EXCEPT !.pc = pc, !.out = tx[t].out] = [tx[t] EXCEPT !.pc = pc]
  BY <1>1 DEF Transaction
<1>4. tx' = [tx EXCEPT ![t].pc = pc, ![t].out = tx[t].out]
  BY <1>3 DEF Goto
<1> QED
  BY <1>2, <1>4, GoesOn

-----------------------------------------------------------------------------
(* The values the statements write are good, and legal successors of what  *)
(* they saw.                                                               *)

LEMMA EditedRide ==
  ASSUME NEW p \in GoodRide, NEW d \in Nat
  PROVE  [p EXCEPT !.depart = d] \in GoodRide /\ RideMove(p, [p EXCEPT !.depart = d])
<1> DEFINE v == [p EXCEPT !.depart = d]
<1>1. p \in Ride /\ Consistent(p)
  BY DEF GoodRide
<1>2. /\ v \in Ride /\ v.status = p.status /\ v.removed = p.removed /\ v.root = p.root
      /\ v.total = p.total /\ v.available = p.available
  BY <1>1 DEF Ride
<1>3. Consistent(v)
  BY <1>1, <1>2, AbsentAssumption DEF Consistent
<1>4. RideMove(p, v)
  BY <1>2 DEF RideMove
<1> QED
  BY <1>2, <1>3, <1>4 DEF GoodRide

(* An open ride may end in any way.                                        *)
LEMMA EndedRide ==
  ASSUME NEW p \in GoodRide, p.status \in OpenRide, NEW e \in RideStatus \ OpenRide
  PROVE  [p EXCEPT !.status = e] \in GoodRide /\ RideMove(p, [p EXCEPT !.status = e])
<1> DEFINE v == [p EXCEPT !.status = e]
<1>1. p \in Ride /\ Consistent(p)
  BY DEF GoodRide
<1>2. /\ v \in Ride /\ v.status = e /\ v.removed = p.removed /\ v.root = p.root
      /\ v.total = p.total /\ v.available = p.available
  BY <1>1 DEF Ride
<1>3. Consistent(v)
  BY <1>1, <1>2, AbsentAssumption DEF Consistent, OpenRide
<1>4. RideMove(p, v)
  BY <1>2 DEF RideMove
<1> QED
  BY <1>2, <1>3, <1>4 DEF GoodRide, OpenRide

LEMMA RemovedRide ==
  ASSUME NEW p \in GoodRide, ~p.removed
  PROVE  /\ [p EXCEPT !.status = "cancelled", !.removed = TRUE] \in GoodRide
         /\ RideMove(p, [p EXCEPT !.status = "cancelled", !.removed = TRUE])
<1> DEFINE v == [p EXCEPT !.status = "cancelled", !.removed = TRUE]
<1>1. p \in Ride /\ Consistent(p)
  BY DEF GoodRide
<1>2. /\ v \in Ride /\ v.status = "cancelled" /\ v.removed = TRUE
      /\ v.root = p.root
      /\ v.total = p.total /\ v.available = p.available
  BY <1>1 DEF Ride, RideStatus
<1>3. Consistent(v)
  BY <1>1, <1>2, AbsentAssumption DEF Consistent
<1>4. RideMove(p, v)
  BY <1>2 DEF RideMove
<1> QED
  BY <1>2, <1>3, <1>4 DEF GoodRide

LEMMA TakenSeat ==
  ASSUME NEW p \in GoodRide, NEW u, HasSeat(p, u)
  PROVE  SeatTaken(p) \in GoodRide /\ RideMove(p, SeatTaken(p))
<1> DEFINE v == SeatTaken(p)
<1>1. p \in Ride /\ Consistent(p) /\ p # Absent
  BY AbsentAssumption DEF GoodRide
<1>2. /\ p.available \in Nat \ {0} /\ p.total \in Nat /\ p.status \in OpenRide
      /\ p.available - 1 \in Nat /\ "full" \in RideStatus /\ p.status \in RideStatus
  BY <1>1 DEF HasSeat, Ride, RideStatus, OpenRide
<1>3. /\ v \in Ride /\ v.removed = p.removed /\ v.root = p.root /\ v.total = p.total
      /\ v.available = p.available - 1
      /\ v.status = IF p.available - 1 <= 0 THEN "full" ELSE p.status
  BY <1>1, <1>2 DEF SeatTaken, Ride
<1>4. Consistent(v)
  <2>1. p.available <= p.total /\ p.status = "active"
    BY <1>1, <1>2 DEF Consistent, OpenRide
  <2> QED
    BY <1>2, <1>3, <2>1 DEF Consistent
<1>5. RideMove(p, v)
  BY <1>2, <1>3 DEF RideMove
<1> QED
  BY <1>2, <1>3, <1>4, <1>5 DEF GoodRide, OpenRide

LEMMA ReturnedSeat ==
  ASSUME NEW p \in GoodRide
  PROVE  SeatReturned(p) \in GoodRide /\ RideMove(p, SeatReturned(p))
<1> DEFINE v == SeatReturned(p)
<1>1. p \in Ride /\ Consistent(p) /\ p # Absent
  BY AbsentAssumption DEF GoodRide
<1> DEFINE a == IF p.available < p.total THEN p.available + 1 ELSE p.total
           e == IF p.status = "full" THEN "active" ELSE p.status
<1>2. /\ p.available \in Nat /\ p.total \in Nat \ {0}
      /\ a \in Nat /\ e \in RideStatus
      /\ v = [p EXCEPT !.available = a, !.status = e]
  BY <1>1 DEF Ride, RideStatus, OpenRide, SeatReturned
<1> HIDE DEF v, a, e
<1>3. /\ v \in Ride /\ v.removed = p.removed /\ v.root = p.root /\ v.total = p.total
      /\ v.available = a /\ v.status = e
  BY <1>1, <1>2 DEF Ride
<1> USE DEF a, e
<1>4. Consistent(v)
  BY <1>1, <1>2, <1>3 DEF Consistent
<1>5. RideMove(p, v)
  BY <1>3 DEF RideMove, OpenRide
<1> QED
  BY <1>3, <1>4, <1>5 DEF GoodRide, v

LEMMA MovedReq ==
  ASSUME NEW v \in Request, NEW s, <<v.status, s>> \in ReqEdges
  PROVE  /\ [v EXCEPT !.status = s] \in Request
         /\ [v EXCEPT !.status = s].ride = v.ride
         /\ [v EXCEPT !.status = s].passenger = v.passenger
         /\ ReqMove(v, [v EXCEPT !.status = s])
<1> DEFINE w == [v EXCEPT !.status = s]
<1>1. s \in ReqStatus
  BY DEF ReqEdges, ReqStatus, LiveReq
<1>2. w \in Request /\ w.ride = v.ride /\ w.passenger = v.passenger /\ w.status = s
  BY <1>1 DEF Request
<1> QED
  BY <1>2 DEF ReqMove

-----------------------------------------------------------------------------
(* The actions, one lemma each.                                            *)

StepOK(t) == RidesStep(t) /\ ReqsStep(t) /\ TxStep(t) /\ clock' \in Nat

LEMMA ClockKept == Inv /\ clock' = clock => clock' \in Nat
  BY DEF Inv

LEMMA OfferType ==
  ASSUME NEW u \in Users, NEW n \in Nat \ {0}, NEW d \in Nat, NEW b \in BOOLEAN,
         NEW root \in Rides \cup {Nothing}
  PROVE  Offer(u, n, d, b, root) \in GoodRide
  BY DEF Offer, GoodRide, Ride, Consistent, RideStatus, OpenRide

LEMMA DeparturesType == Inv => Departures \subseteq Nat
  BY TimeAssumption DEF Inv, Departures

LEMMA FreshRide ==
  ASSUME Inv, NEW t \in Tx, NEW r \in Issued(rides, Rides)
  PROVE  r \in Rides /\ Free(rides[r], t) /\ RideSeen(t, r) = Absent
         /\ RideSeen(t, r) \notin GoodRide
  BY NoTxAssumption, AbsentAssumption DEF Issued, Fresh, Free, Stored, RideSeen, View, GoodRide

LEMMA CreateStep ==
  ASSUME Inv, NEW t \in Tx, Create_Insert(t)
  PROVE  StepOK(t)
<1>1. PICK u \in Verified, n \in 1..MaxSeats, d \in Departures, b \in Recurrence,
           r \in Issued(rides, Rides) :
        /\ WriteRide(t, r, Offer(u, n, d, b, Nothing))
        /\ Begin(t, "commit", u, r, Nothing)
        /\ UNCHANGED <<reqs, clock>>
  BY DEF Create_Insert
<1>2. Offer(u, n, d, b, Nothing) \in GoodRide
  BY OfferType, DeparturesType, SeatsAssumption, MembersAssumption
<1>3. RidesStep(t)
  BY <1>1, <1>2, FreshRide, OneRide
<1>4. TxStep(t)
  <2>1. Opened("commit", u, r, Nothing) \in Transaction
        /\ Opened("commit", u, r, Nothing).pc = "commit"
    BY FreshRide, OpenedType, MembersAssumption DEF Actors, Statements
  <2> QED
    BY <1>1, <2>1, LooseTx DEF Begin, RidePCs, ReqPCs, SweepPCs
<1> QED
  BY <1>1, <1>3, <1>4, SameReqs, ClockKept DEF StepOK

LEMMA EditStep ==
  ASSUME Inv, NEW t \in Tx, Edit_Ride(t)
  PROVE  StepOK(t)
<1>1. PICK u \in Users, r \in Posted, d \in Departures :
        /\ Editable(RideSeen(t, r), u) /\ Free(rides[r], t)
        /\ WriteRide(t, r, [RideSeen(t, r) EXCEPT !.depart = d])
        /\ Begin(t, "commit", u, r, Nothing)
        /\ UNCHANGED <<reqs, clock>>
  BY DEF Edit_Ride
<1> DEFINE p == RideSeen(t, r)
<1>2. r \in Rides /\ p \in GoodRide
  BY Seen DEF Posted
<1>3. [p EXCEPT !.depart = d] \in GoodRide /\ RideMove(p, [p EXCEPT !.depart = d])
  BY <1>2, DeparturesType, EditedRide
<1>4. RidesStep(t)
  BY <1>1, <1>2, <1>3, OneRide
<1>5. TxStep(t)
  <2>1. Opened("commit", u, r, Nothing) \in Transaction
        /\ Opened("commit", u, r, Nothing).pc = "commit"
    BY <1>2, OpenedType DEF Actors, Statements
  <2> QED
    BY <1>1, <2>1, LooseTx DEF Begin, RidePCs, ReqPCs, SweepPCs
<1> QED
  BY <1>1, <1>4, <1>5, SameReqs, ClockKept DEF StepOK

LEMMA CallOffRideStep ==
  ASSUME Inv, NEW t \in Tx, CallOff_Ride(t)
  PROVE  StepOK(t)
<1>1. PICK u \in Users, r \in Posted :
        /\ Open(RideSeen(t, r), u) /\ Free(rides[r], t)
        /\ WriteRide(t, r, [RideSeen(t, r) EXCEPT !.status = "cancelled"])
        /\ Begin(t, "callOff.riders", u, r, Nothing)
        /\ UNCHANGED <<reqs, clock>>
  BY DEF CallOff_Ride
<1> DEFINE p == RideSeen(t, r)
           x == Opened("callOff.riders", u, r, Nothing)
<1>2. r \in Rides /\ p \in GoodRide /\ rides[r].committed \in GoodRide
  BY Seen DEF Posted
<1>3. /\ [p EXCEPT !.status = "cancelled"] \in GoodRide
      /\ RideMove(p, [p EXCEPT !.status = "cancelled"])
  BY <1>1, <1>2, EndedRide DEF Open, RideStatus, OpenRide
<1>4. RidesStep(t)
  BY <1>1, <1>2, <1>3, OneRide
<1>5. ReqsStep(t)
  BY <1>1, SameReqs
<1>6. TxStep(t)
  <2>1. x \in Transaction /\ x.pc = "callOff.riders" /\ x.ride = r /\ x.user = u
    BY <1>2, OpenedType DEF Actors, Statements
  <2>2. tx' = [tx EXCEPT ![t] = x]
    BY <1>1 DEF Begin
  <2> HIDE DEF x
  <2> QED
    BY <1>2, <1>4, <1>5, <2>1, <2>2, BusyTx DEF ReqPCs, SweepPCs
<1> QED
  BY <1>1, <1>4, <1>5, <1>6, ClockKept DEF StepOK

LEMMA RemoveStep ==
  ASSUME Inv, NEW t \in Tx, Remove_Ride(t)
  PROVE  StepOK(t)
<1>1. PICK u \in Moderators, r \in Posted :
        /\ ~RideSeen(t, r).removed /\ Free(rides[r], t)
        /\ WriteRide(t, r, [RideSeen(t, r) EXCEPT !.status = "cancelled", !.removed = TRUE])
        /\ Begin(t, "commit", u, r, Nothing)
        /\ UNCHANGED <<reqs, clock>>
  BY DEF Remove_Ride
<1> DEFINE p == RideSeen(t, r)
           v == [p EXCEPT !.status = "cancelled", !.removed = TRUE]
<1>2. r \in Rides /\ p \in GoodRide
  BY Seen DEF Posted
<1>3. v \in GoodRide /\ RideMove(p, v)
  BY <1>1, <1>2, RemovedRide
<1>4. RidesStep(t)
  BY <1>1, <1>2, <1>3, OneRide
<1>5. TxStep(t)
  <2>1. Opened("commit", u, r, Nothing) \in Transaction
        /\ Opened("commit", u, r, Nothing).pc = "commit"
    BY <1>2, OpenedType, MembersAssumption DEF Actors, Statements
  <2> QED
    BY <1>1, <2>1, LooseTx DEF Begin, RidePCs, ReqPCs, SweepPCs
<1> QED
  BY <1>1, <1>4, <1>5, SameReqs, ClockKept DEF StepOK

LEMMA RequestRideStep ==
  ASSUME Inv, NEW t \in Tx, Request_Ride(t)
  PROVE  StepOK(t)
<1>1. PICK u \in Users, r \in Posted :
        Begin(t, "request.live", u, r, Nothing) /\ UNCHANGED <<rides, reqs, clock>>
  BY DEF Request_Ride
<1> DEFINE x == Opened("request.live", u, r, Nothing)
<1>2. r \in Rides /\ rides[r].committed \in GoodRide
  BY Seen DEF Posted
<1>3. RidesStep(t) /\ ReqsStep(t)
  BY <1>1, SameRides, SameReqs
<1>4. x \in Transaction /\ x.pc = "request.live" /\ x.ride = r /\ x.user = u
  BY <1>2, OpenedType DEF Actors, Statements
<1>5. tx' = [tx EXCEPT ![t] = x]
  BY <1>1 DEF Begin
<1> HIDE DEF x
<1>6. TxStep(t)
  BY <1>2, <1>3, <1>4, <1>5, BusyTx DEF ReqPCs, SweepPCs
<1> QED
  BY <1>1, <1>3, <1>6, ClockKept DEF StepOK

LEMMA RequestLiveStep ==
  ASSUME Inv, NEW t \in Tx, Request_Live(t)
  PROVE  StepOK(t)
<1>1. RidesStep(t) /\ ReqsStep(t) /\ clock' = clock
  BY SameRides, SameReqs DEF Request_Live
<1>2. CASE Return(t)
  BY <1>1, <1>2, ReturnTx, ClockKept DEF StepOK
<1>3. CASE Goto(t, "request.insert")
  <2>1. TxStep(t)
    BY <1>1, <1>3, GotoTx DEF Request_Live, RidePCs, ReqPCs, SweepPCs, Statements
  <2> QED
    BY <1>1, <2>1, ClockKept DEF StepOK
<1> QED
  BY <1>2, <1>3 DEF Request_Live

LEMMA NoteTx ==
  ASSUME Inv, NEW t \in Tx, NEW n \in Notice, LastNote(t, n)
  PROVE  TxStep(t)
<1> DEFINE x == [tx[t] EXCEPT !.pc = "commit", !.out = {n}]
<1>1. tx[t] \in Transaction
  BY DEF Inv
<1>2. x \in Transaction /\ x.pc = "commit"
  BY <1>1 DEF Transaction, Statements
<1>3. tx' = [tx EXCEPT ![t] = x]
  BY DEF LastNote
<1> HIDE DEF x
<1> QED
  BY <1>2, <1>3, LooseTx DEF RidePCs, ReqPCs, SweepPCs

LEMMA RequestInsertStep ==
  ASSUME Inv, NEW t \in Tx, Request_Insert(t)
  PROVE  StepOK(t)
<1> DEFINE r == tx[t].ride
           v == [ride |-> r, passenger |-> tx[t].user, status |-> "pending"]
           n == Note(RideSeen(t, r).author, "requested", r)
<1>1. PICK q \in Fresh(reqs, Reqs) : WriteReq(t, q, v)
  BY DEF Request_Insert
<1>2. LastNote(t, n) /\ rides' = rides /\ clock' = clock
  BY DEF Request_Insert
<1>3. /\ r \in Rides /\ tx[t].user \in Users
      /\ rides[r].committed \in GoodRide /\ RideSeen(t, r) \in GoodRide
  BY Seen DEF Inv, TxInv, RidePCs, Request_Insert
<1>4. v \in Request /\ Anchored(v)
  BY <1>3 DEF Request, ReqStatus, LiveReq, Anchored
<1>5. q \in Reqs /\ Free(reqs[q], t) /\ ReqSeen(t, q) \notin Request
  BY NoTxAssumption, AbsentAssumption DEF Fresh, Free, Stored, ReqSeen, View
<1>6. ReqsStep(t)
  BY <1>1, <1>4, <1>5, OneReq
<1>7. n \in Notice
  BY <1>3 DEF Note, Notice, GoodRide, Ride
<1>8. TxStep(t)
  BY <1>2, <1>7, NoteTx
<1> QED
  BY <1>2, <1>6, <1>8, SameRides, ClockKept DEF StepOK

LEMMA AcceptReadStep ==
  ASSUME Inv, NEW t \in Tx, Accept_Read(t)
  PROVE  StepOK(t)
<1>1. PICK u \in Users, q \in Asked :
        /\ Begin(t, "accept.ride", u, ReqSeen(t, q).ride, q)
        /\ UNCHANGED <<rides, reqs, clock>>
  BY DEF Accept_Read
<1> DEFINE r == ReqSeen(t, q).ride
           x == Opened("accept.ride", u, r, q)
<1>2. /\ q \in Reqs /\ reqs[q].committed \in Request /\ ReqSeen(t, q) \in Request
      /\ Anchored(ReqSeen(t, q))
  BY Seen DEF Asked, Inv, ReqSeen, View
<1>3. r \in Rides /\ rides[r].committed \in GoodRide
  BY <1>2 DEF Anchored, Request
<1>4. RidesStep(t) /\ ReqsStep(t)
  BY <1>1, SameRides, SameReqs
<1>5. x \in Transaction /\ x.pc = "accept.ride" /\ x.ride = r /\ x.user = u /\ x.req = q
  BY <1>2, <1>3, OpenedType DEF Actors, Statements
<1>6. tx' = [tx EXCEPT ![t] = x]
  BY <1>1 DEF Begin
<1> HIDE DEF x
<1>7. TxStep(t)
  BY <1>2, <1>3, <1>4, <1>5, <1>6, BusyTx DEF SweepPCs
<1> QED
  BY <1>1, <1>4, <1>7, ClockKept DEF StepOK

LEMMA AcceptRideStep ==
  ASSUME Inv, NEW t \in Tx, Accept_Ride(t)
  PROVE  StepOK(t)
<1> DEFINE r == tx[t].ride
           p == RideSeen(t, r)
<1>1. r \in Rides /\ rides[r].committed \in GoodRide /\ p \in GoodRide
  BY Seen DEF Inv, TxInv, RidePCs, Accept_Ride
<1>2. ReqsStep(t) /\ clock' = clock
  BY SameReqs DEF Accept_Ride
<1>3. CASE /\ HasSeat(p, tx[t].user) /\ Free(rides[r], t)
           /\ WriteRide(t, r, SeatTaken(p))
           /\ Goto(t, "accept.req")
  <2>1. RidesStep(t)
    BY <1>1, <1>3, TakenSeat, OneRide
  <2>2. TxStep(t)
    BY <1>2, <1>3, <2>1, GotoTx DEF Accept_Ride, RidePCs, ReqPCs, SweepPCs, Statements
  <2> QED
    BY <1>2, <2>1, <2>2, ClockKept DEF StepOK
<1>4. CASE Return(t) /\ rides' = rides
  BY <1>2, <1>4, SameRides, ReturnTx, ClockKept DEF StepOK
<1> QED
  BY <1>3, <1>4 DEF Accept_Ride

(* The request of a running accept or leave, as its transaction sees it.   *)
LEMMA NamedReq ==
  ASSUME Inv, NEW t \in Tx, tx[t].pc \in ReqPCs
  PROVE  /\ tx[t].req \in Reqs /\ ReqSeen(t, tx[t].req) \in Request
         /\ Anchored(ReqSeen(t, tx[t].req))
         /\ tx[t].ride \in Rides /\ rides[tx[t].ride].committed \in GoodRide
<1>1. tx[t].req \in Reqs /\ reqs[tx[t].req].committed \in Request
  BY DEF Inv, TxInv
<1>2. ReqSeen(t, tx[t].req) \in Request /\ Anchored(ReqSeen(t, tx[t].req))
  BY <1>1, Seen DEF Inv, ReqSeen, View
<1>3. tx[t].ride \in Rides /\ rides[tx[t].ride].committed \in GoodRide
  BY DEF Inv, TxInv, ReqPCs, RidePCs
<1> QED
  BY <1>1, <1>2, <1>3

(* A request moves along one edge of its lifecycle.                        *)
LEMMA ReqMoved ==
  ASSUME Inv, NEW t \in Tx, NEW q \in Reqs, NEW s, ReqSeen(t, q) \in Request,
         Anchored(ReqSeen(t, q)), Free(reqs[q], t),
         <<ReqSeen(t, q).status, s>> \in ReqEdges,
         WriteReq(t, q, [ReqSeen(t, q) EXCEPT !.status = s])
  PROVE  ReqsStep(t)
<1> DEFINE v == ReqSeen(t, q)
           w == [v EXCEPT !.status = s]
<1>1. w \in Request /\ w.ride = v.ride /\ ReqMove(v, w)
  BY MovedReq
<1>2. Anchored(w)
  BY <1>1 DEF Anchored
<1> HIDE DEF w
<1>3. WriteReq(t, q, w)
  BY DEF w
<1> QED
  BY <1>1, <1>2, <1>3, OneReq

LEMMA AcceptReqStep ==
  ASSUME Inv, NEW t \in Tx, Accept_Req(t)
  PROVE  StepOK(t)
<1> DEFINE q == tx[t].req
           v == ReqSeen(t, q)
           n == Note(v.passenger, "accepted", tx[t].ride)
<1>1. q \in Reqs /\ v \in Request /\ Anchored(v) /\ tx[t].ride \in Rides
  BY NamedReq DEF Accept_Req, ReqPCs
<1>2. RidesStep(t) /\ clock' = clock /\ LastNote(t, n)
  BY SameRides DEF Accept_Req
<1>3. ReqsStep(t)
  <2>1. CASE /\ v.status = "pending" /\ Free(reqs[q], t)
             /\ WriteReq(t, q, [v EXCEPT !.status = "accepted"])
    BY <1>1, <2>1, ReqMoved DEF ReqEdges
  <2>2. CASE reqs' = reqs
    BY <2>2, SameReqs
  <2> QED
    BY <2>1, <2>2 DEF Accept_Req
<1>4. n \in Notice
  BY <1>1 DEF Note, Notice, Request
<1> QED
  BY <1>2, <1>3, <1>4, NoteTx, ClockKept DEF StepOK

LEMMA DeclineStep ==
  ASSUME Inv, NEW t \in Tx, Decline_Req(t)
  PROVE  StepOK(t)
<1>1. PICK u \in Users, q \in Asked :
        /\ ReqSeen(t, q).status = "pending" /\ Free(reqs[q], t)
        /\ WriteReq(t, q, [ReqSeen(t, q) EXCEPT !.status = "declined"])
        /\ tx' = [tx EXCEPT ![t] =
                   [Opened("commit", u, ReqSeen(t, q).ride, q) EXCEPT
                      !.out = {Note(ReqSeen(t, q).passenger, "declined",
                                    ReqSeen(t, q).ride)}]]
        /\ UNCHANGED <<rides, clock>>
  BY DEF Decline_Req
<1> DEFINE v == ReqSeen(t, q)
           n == Note(v.passenger, "declined", v.ride)
           x == [Opened("commit", u, v.ride, q) EXCEPT !.out = {n}]
<1>2. q \in Reqs /\ v \in Request /\ Anchored(v)
  BY Seen DEF Asked, Inv, ReqSeen, View
<1>3. RidesStep(t) /\ ReqsStep(t)
  BY <1>1, <1>2, SameRides, ReqMoved DEF ReqEdges
<1>4. n \in Notice
  BY <1>2 DEF Note, Notice, Request
<1>5. x \in Transaction /\ x.pc = "commit"
  <2>1. v.ride \in Rides
    BY <1>2 DEF Request
  <2> DEFINE o == Opened("commit", u, v.ride, q)
  <2>2. o \in Transaction /\ o.pc = "commit"
    BY <1>2, <2>1, OpenedType DEF Actors, Statements
  <2> HIDE DEF o, n
  <2>3. [o EXCEPT !.out = {n}] \in Transaction /\ [o EXCEPT !.out = {n}].pc = "commit"
    BY <1>4, <2>2 DEF Transaction
  <2> QED
    BY <2>3 DEF o
<1>6. tx' = [tx EXCEPT ![t] = x]
  BY <1>1
<1> HIDE DEF x
<1>7. TxStep(t)
  BY <1>5, <1>6, LooseTx DEF RidePCs, ReqPCs, SweepPCs
<1> QED
  BY <1>1, <1>3, <1>7, ClockKept DEF StepOK

LEMMA LeaveReadStep ==
  ASSUME Inv, NEW t \in Tx, Leave_Read(t)
  PROVE  StepOK(t)
<1>1. PICK q \in Asked :
        /\ ReqSeen(t, q).status \in LiveReq
        /\ tx' = [tx EXCEPT ![t] =
                   [Opened("leave.req", ReqSeen(t, q).passenger, ReqSeen(t, q).ride, q)
                      EXCEPT !.seen = ReqSeen(t, q).status]]
        /\ UNCHANGED <<rides, reqs, clock>>
  BY DEF Leave_Read
<1> DEFINE v == ReqSeen(t, q)
           o == Opened("leave.req", v.passenger, v.ride, q)
           x == [o EXCEPT !.seen = v.status]
<1>2. /\ q \in Reqs /\ v \in Request /\ Anchored(v) /\ reqs[q].committed \in Request
      /\ v.ride \in Rides /\ v.passenger \in Users
      /\ rides[v.ride].committed \in GoodRide
  BY Seen DEF Asked, Inv, ReqSeen, View, Anchored, Request
<1>3. RidesStep(t) /\ ReqsStep(t)
  BY <1>1, SameRides, SameReqs
<1>4. /\ o \in Transaction /\ o.pc = "leave.req" /\ o.ride = v.ride
      /\ o.user = v.passenger /\ o.req = q
  BY <1>2, OpenedType DEF Actors, Statements
<1> HIDE DEF o
<1>5. /\ x \in Transaction /\ x.pc = "leave.req" /\ x.ride = v.ride
      /\ x.user = v.passenger /\ x.req = q
  BY <1>1, <1>4 DEF Transaction
<1>6. tx' = [tx EXCEPT ![t] = x]
  BY <1>1 DEF o
<1> HIDE DEF x
<1>7. TxStep(t)
  BY <1>2, <1>3, <1>5, <1>6, BusyTx DEF SweepPCs
<1> QED
  BY <1>1, <1>3, <1>7, ClockKept DEF StepOK

LEMMA LeaveReqStep ==
  ASSUME Inv, NEW t \in Tx, Leave_Req(t)
  PROVE  StepOK(t)
<1> DEFINE q == tx[t].req
           v == ReqSeen(t, q)
<1>1. q \in Reqs /\ v \in Request /\ Anchored(v)
  BY NamedReq DEF Leave_Req, ReqPCs
<1>2. RidesStep(t) /\ clock' = clock
  BY SameRides DEF Leave_Req
<1>3. ReqsStep(t)
  <2>1. CASE /\ v.status \in LiveReq /\ Free(reqs[q], t)
             /\ WriteReq(t, q, [v EXCEPT !.status = "cancelled"])
    BY <1>1, <2>1, ReqMoved DEF ReqEdges, LiveReq
  <2>2. CASE reqs' = reqs
    BY <2>2, SameReqs
  <2> QED
    BY <2>1, <2>2 DEF Leave_Req
<1>4. TxStep(t)
  BY <1>2, <1>3, GotoTx DEF Leave_Req, AfterLeave, RidePCs, ReqPCs, SweepPCs, Statements
<1> QED
  BY <1>2, <1>3, <1>4, ClockKept DEF StepOK

LEMMA LeaveRideStep ==
  ASSUME Inv, NEW t \in Tx, Leave_Ride(t)
  PROVE  StepOK(t)
<1> DEFINE r == tx[t].ride
           p == RideSeen(t, r)
<1>1. r \in Rides /\ p \in GoodRide
  BY Seen DEF Inv, TxInv, RidePCs, Leave_Ride
<1>2. ReqsStep(t) /\ clock' = clock
  BY SameReqs DEF Leave_Ride
<1>3. RidesStep(t)
  BY <1>1, ReturnedSeat, OneRide DEF Leave_Ride
<1>4. TxStep(t)
  BY <1>2, <1>3, GotoTx DEF Leave_Ride, RidePCs, ReqPCs, SweepPCs, Statements
<1> QED
  BY <1>2, <1>3, <1>4, ClockKept DEF StepOK

(* The transactions that visit a set of rows.                              *)
LEMMA VisitTx ==
  ASSUME Inv, NEW t \in Tx, RidesStep(t), ReqsStep(t), NEW x \in Transaction,
         tx' = [tx EXCEPT ![t] = x], x.pc \in SweepPCs \cup {"callOff.reqs"},
         x.pc = "callOff.reqs"
           => /\ x.ride \in Rides /\ x.user \in Users
              /\ rides[x.ride].committed \in GoodRide
              /\ \A q \in x.todo : q \in Reqs /\ ReqSeen(t, q)' \in Request,
         x.pc \in SweepPCs => \A r \in x.todo : r \in Rides /\ RideSeen(t, r)' \in GoodRide
  PROVE  TxStep(t)
<1>1. tx' \in [Tx -> Transaction] /\ tx'[t] = x /\ \A s \in Tx \ {t} : tx'[s] = tx[s]
  BY DEF Inv
<1>2. x.pc \notin ReqPCs /\ (x.pc \in RidePCs => x.pc = "callOff.reqs")
  BY DEF ReqPCs, RidePCs, SweepPCs
<1>3. x.pc \in RidePCs => rides'[x.ride].committed \in GoodRide
  BY <1>2, Kept
<1>4. TxInv(t)'
  BY <1>1, <1>2, <1>3 DEF TxInv
<1> QED
  BY <1>1, <1>4 DEF TxStep

(* A statement still sees a value where it saw one.                        *)
LEMMA RidesStillSeen ==
  ASSUME Inv, NEW t \in Tx, NEW r \in Rides, NEW v \in GoodRide, WriteRide(t, r, v)
  PROVE  \A s \in Rides : RideSeen(t, s) \in GoodRide => RideSeen(t, s)' \in GoodRide
<1>1. rides = [s \in Rides |-> rides[s]] /\ rides' = [rides EXCEPT ![r] = Put(@, t, v)]
  BY DEF Inv, RidesInv, WriteRide
<1>2. \A s \in Rides : rides'[s] = IF s = r THEN Put(rides[r], t, v) ELSE rides[s]
  BY <1>1
<1> QED
  BY <1>2 DEF RideSeen, View, Put

LEMMA ReqsStillSeen ==
  ASSUME Inv, NEW t \in Tx, NEW q \in Reqs, NEW v \in Request, WriteReq(t, q, v)
  PROVE  \A s \in Reqs : ReqSeen(t, s) \in Request => ReqSeen(t, s)' \in Request
<1>1. reqs = [s \in Reqs |-> reqs[s]] /\ reqs' = [reqs EXCEPT ![q] = Put(@, t, v)]
  BY DEF Inv, ReqsInv, WriteReq
<1>2. \A s \in Reqs : reqs'[s] = IF s = q THEN Put(reqs[q], t, v) ELSE reqs[s]
  BY <1>1
<1> QED
  BY <1>2 DEF ReqSeen, View, Put

LEMMA CallOffRidersStep ==
  ASSUME Inv, NEW t \in Tx, CallOff_Riders(t)
  PROVE  StepOK(t)
<1> DEFINE r == tx[t].ride
           out == {Note(ReqSeen(t, q).passenger, "cancelled", r) : q \in LiveOn(t, r)}
<1>1. RidesStep(t) /\ ReqsStep(t) /\ clock' = clock
  BY SameRides, SameReqs DEF CallOff_Riders
<1>2. r \in Rides
  BY DEF Inv, TxInv, RidePCs, CallOff_Riders
<1>3. out \in SUBSET Notice
  <2>1. ASSUME NEW q \in LiveOn(t, r)
        PROVE  ReqSeen(t, q).passenger \in Users
    BY Seen DEF LiveOn, Request
  <2> QED
    BY <1>2, <2>1 DEF Note, Notice
<1>4. tx' = [tx EXCEPT ![t].pc = "callOff.snapshot", ![t].out = out]
  BY DEF CallOff_Riders
<1> HIDE DEF out
<1>5. TxStep(t)
  BY <1>1, <1>3, <1>4, GoesOn DEF CallOff_Riders, RidePCs, ReqPCs, SweepPCs, Statements
<1> QED
  BY <1>1, <1>5, ClockKept DEF StepOK

LEMMA CallOffSnapshotStep ==
  ASSUME Inv, NEW t \in Tx, CallOff_Snapshot(t)
  PROVE  StepOK(t)
<1> DEFINE todo == LiveOn(t, tx[t].ride)
           x == [tx[t] EXCEPT !.pc = "callOff.reqs", !.todo = todo]
<1>1. RidesStep(t) /\ ReqsStep(t) /\ clock' = clock
  BY SameRides, SameReqs DEF CallOff_Snapshot
<1>2. /\ tx[t] \in Transaction /\ tx[t].ride \in Rides /\ tx[t].user \in Users
      /\ rides[tx[t].ride].committed \in GoodRide
  BY DEF Inv, TxInv, RidePCs, CallOff_Snapshot
<1>3. \A q \in todo : q \in Reqs /\ ReqSeen(t, q)' \in Request
  BY Seen DEF LiveOn, CallOff_Snapshot, ReqSeen, View
<1>4. /\ x \in Transaction /\ x.pc = "callOff.reqs" /\ x.todo = todo
      /\ x.ride = tx[t].ride /\ x.user = tx[t].user
  BY <1>2 DEF Transaction, Statements, LiveOn
<1>5. tx' = [tx EXCEPT ![t] = x]
  BY DEF CallOff_Snapshot
<1> HIDE DEF x, todo
<1>6. TxStep(t)
  BY <1>1, <1>2, <1>3, <1>4, <1>5, VisitTx DEF SweepPCs
<1> QED
  BY <1>1, <1>6, ClockKept DEF StepOK

LEMMA CallOffReqStep ==
  ASSUME Inv, NEW t \in Tx, CallOff_Req(t)
  PROVE  StepOK(t)
<1>1. PICK q \in tx[t].todo :
        /\ \/ /\ ReqSeen(t, q).status \in LiveReq /\ Free(reqs[q], t)
              /\ WriteReq(t, q, [ReqSeen(t, q) EXCEPT !.status = "cancelled"])
           \/ UNCHANGED reqs
        /\ tx' = [tx EXCEPT ![t].todo = @ \ {q}]
        /\ UNCHANGED <<rides, clock>>
  BY DEF CallOff_Req
<1> DEFINE v == ReqSeen(t, q)
           x == [tx[t] EXCEPT !.todo = @ \ {q}]
<1>2. /\ tx[t] \in Transaction /\ tx[t].ride \in Rides /\ tx[t].user \in Users
      /\ tx[t].pc = "callOff.reqs" /\ rides[tx[t].ride].committed \in GoodRide
      /\ \A p \in tx[t].todo : p \in Reqs /\ ReqSeen(t, p) \in Request
  BY DEF Inv, TxInv, RidePCs, CallOff_Req
<1>3. q \in Reqs /\ v \in Request /\ Anchored(v)
  BY <1>2, Seen DEF Inv, ReqSeen, View
<1>4. RidesStep(t)
  BY <1>1, SameRides
<1>5. ReqsStep(t) /\ \A p \in tx[t].todo : ReqSeen(t, p)' \in Request
  <2>1. CASE UNCHANGED reqs
    BY <1>2, <2>1, SameReqs DEF ReqSeen, View
  <2>2. CASE /\ v.status \in LiveReq /\ Free(reqs[q], t)
             /\ WriteReq(t, q, [v EXCEPT !.status = "cancelled"])
    <3>1. <<v.status, "cancelled">> \in ReqEdges
      BY <2>2 DEF LiveReq, ReqEdges
    <3>2. [v EXCEPT !.status = "cancelled"] \in Request
      BY <1>3, <3>1, MovedReq
    <3> QED
      BY <1>2, <1>3, <2>2, <3>1, <3>2, ReqMoved, ReqsStillSeen
  <2> QED
    BY <1>1, <2>1, <2>2
<1>6. /\ x \in Transaction /\ x.pc = "callOff.reqs" /\ x.todo = tx[t].todo \ {q}
      /\ x.ride = tx[t].ride /\ x.user = tx[t].user
  BY <1>2 DEF Transaction
<1>7. tx' = [tx EXCEPT ![t] = x]
  BY <1>1
<1> HIDE DEF x
<1>8. TxStep(t)
  BY <1>2, <1>4, <1>5, <1>6, <1>7, VisitTx DEF SweepPCs
<1> QED
  BY <1>1, <1>4, <1>5, <1>8, ClockKept DEF StepOK

LEMMA SweepStartStep ==
  ASSUME Inv, NEW t \in Tx, Sweep_Start(t)
  PROVE  StepOK(t)
<1> DEFINE o == Opened("sweep.complete", Scheduler, Nothing, Nothing)
           x == [o EXCEPT !.at = clock]
<1>1. RidesStep(t) /\ ReqsStep(t) /\ clock' = clock
  BY SameRides, SameReqs DEF Sweep_Start
<1>2. o \in Transaction /\ o.pc = "sweep.complete"
  BY OpenedType DEF Actors, Statements
<1>3. tx' = [tx EXCEPT ![t] = x]
  BY DEF Sweep_Start
<1> HIDE DEF o
<1>4. x \in Transaction /\ x.pc = "sweep.complete"
  BY <1>2 DEF Transaction, Inv
<1> HIDE DEF x
<1>5. TxStep(t)
  BY <1>3, <1>4, LooseTx DEF RidePCs, ReqPCs, SweepPCs
<1> QED
  BY <1>1, <1>5, ClockKept DEF StepOK

(* A sweep turns to the next set of rides.                                 *)
LEMMA ScanStep ==
  ASSUME Inv, NEW t \in Tx, NEW pc \in SweepPCs, NEW S \in SUBSET Rides,
         Scan(t, pc, S), UNCHANGED <<rides, reqs, clock>>,
         \A r \in S : RideSeen(t, r) \in GoodRide
  PROVE  StepOK(t)
<1> DEFINE x == [tx[t] EXCEPT !.pc = pc, !.todo = S]
<1>1. RidesStep(t) /\ ReqsStep(t)
  BY SameRides, SameReqs
<1>2. tx[t] \in Transaction
  BY DEF Inv
<1>3. x \in Transaction /\ x.pc = pc /\ x.todo = S
  BY <1>2 DEF Transaction, SweepPCs, Statements
<1>4. tx' = [tx EXCEPT ![t] = x]
  BY DEF Scan
<1>5. \A r \in S : RideSeen(t, r)' \in GoodRide
  BY DEF RideSeen, View
<1> HIDE DEF x
<1>6. TxStep(t)
  BY <1>1, <1>3, <1>4, <1>5, VisitTx DEF SweepPCs
<1> QED
  BY <1>1, <1>6, ClockKept DEF StepOK

LEMMA SweepScanSteps ==
  ASSUME Inv, NEW t \in Tx, Sweep_Complete(t) \/ Sweep_Expire(t) \/ Sweep_Ended(t)
  PROVE  StepOK(t)
<1>1. \A r \in DueRides(t) : RideSeen(t, r) \in GoodRide
  BY Seen DEF DueRides, Due
<1>2. CASE Sweep_Complete(t)
  <2> DEFINE S == {r \in DueRides(t) : Accepted(r) # {}}
  <2>1. S \in SUBSET Rides /\ \A r \in S : RideSeen(t, r) \in GoodRide
    BY <1>1 DEF DueRides
  <2>2. Scan(t, "sweep.completing", S) /\ UNCHANGED <<rides, reqs, clock>>
    BY <1>2 DEF Sweep_Complete
  <2> HIDE DEF S
  <2> QED
    BY <2>1, <2>2, ScanStep DEF SweepPCs
<1>3. CASE Sweep_Expire(t)
  <2>1. DueRides(t) \in SUBSET Rides
    BY DEF DueRides
  <2> QED
    BY <1>1, <1>3, <2>1, ScanStep DEF SweepPCs, Sweep_Expire
<1>4. CASE Sweep_Ended(t)
  <2> DEFINE S == {r \in Rides : /\ rides[r].holder = t
                                 /\ rides[r].written.recurring
                                 /\ rides[r].written.status \in {"completed", "expired"}}
  <2>1. \A r \in S : RideSeen(t, r) \in GoodRide
    BY NoTxAssumption DEF Inv, RidesInv, RowInv, RideSeen, View
  <2>2. Scan(t, "sweep.spawning", S) /\ UNCHANGED <<rides, reqs, clock>>
    BY <1>4 DEF Sweep_Ended
  <2>3. S \in SUBSET Rides
    OBVIOUS
  <2> HIDE DEF S
  <2> QED
    BY <2>1, <2>2, <2>3, ScanStep DEF SweepPCs
<1> QED
  BY <1>2, <1>3, <1>4

(* A sweep has dealt with one of its rides.                                *)
LEMMA VisitedTx ==
  ASSUME Inv, NEW t \in Tx, RidesStep(t), ReqsStep(t), NEW r,
         tx[t].pc \in SweepPCs, tx' = [tx EXCEPT ![t].todo = @ \ {r}],
         \A s \in tx[t].todo : RideSeen(t, s)' \in GoodRide
  PROVE  TxStep(t)
<1> DEFINE x == [tx[t] EXCEPT !.todo = @ \ {r}]
<1>1. tx[t] \in Transaction /\ \A s \in tx[t].todo : s \in Rides
  BY DEF Inv, TxInv
<1>2. x \in Transaction /\ x.pc = tx[t].pc /\ x.todo = tx[t].todo \ {r}
  BY <1>1 DEF Transaction
<1>3. tx' = [tx EXCEPT ![t] = x]
  OBVIOUS
<1> HIDE DEF x
<1> QED
  BY <1>1, <1>2, <1>3, VisitTx DEF SweepPCs

LEMMA SweepEndRowStep ==
  ASSUME Inv, NEW t \in Tx, Sweep_EndRow(t)
  PROVE  StepOK(t)
<1> DEFINE e == SweepOutcome(tx[t].pc)
<1>1. PICK r \in tx[t].todo :
        /\ \/ /\ Due(RideSeen(t, r), tx[t].at) /\ Free(rides[r], t)
              /\ WriteRide(t, r, [RideSeen(t, r) EXCEPT !.status = e])
           \/ UNCHANGED rides
        /\ tx' = [tx EXCEPT ![t].todo = @ \ {r}]
        /\ UNCHANGED <<reqs, clock>>
  BY DEF Sweep_EndRow
<1> DEFINE p == RideSeen(t, r)
<1>2. /\ tx[t].pc \in SweepPCs
      /\ \A s \in tx[t].todo : s \in Rides /\ RideSeen(t, s) \in GoodRide
  BY DEF Inv, TxInv, SweepPCs, Sweep_EndRow
<1>3. ReqsStep(t)
  BY <1>1, SameReqs
<1>4. RidesStep(t) /\ \A s \in tx[t].todo : RideSeen(t, s)' \in GoodRide
  <2>1. CASE UNCHANGED rides
    BY <1>2, <2>1, SameRides DEF RideSeen, View
  <2>2. CASE /\ Due(p, tx[t].at) /\ Free(rides[r], t)
             /\ WriteRide(t, r, [p EXCEPT !.status = e])
    <3>1. /\ [p EXCEPT !.status = e] \in GoodRide
          /\ RideMove(p, [p EXCEPT !.status = e])
      <4>1. e \in RideStatus \ OpenRide
        BY DEF SweepOutcome, RideStatus, OpenRide
      <4>2. p \in GoodRide /\ p.status \in OpenRide
        BY <1>2, <2>2 DEF Due
      <4> QED
        BY <4>1, <4>2, EndedRide
    <3> QED
      BY <1>2, <2>2, <3>1, OneRide, RidesStillSeen
  <2> QED
    BY <1>1, <2>1, <2>2
<1>5. TxStep(t)
  BY <1>1, <1>2, <1>3, <1>4, VisitedTx
<1> QED
  BY <1>1, <1>3, <1>4, <1>5, ClockKept DEF StepOK

LEMMA SweepSpawnStep ==
  ASSUME Inv, NEW t \in Tx, Sweep_Spawn(t)
  PROVE  StepOK(t)
<1>1. PICK r \in tx[t].todo :
        /\ \/ \E n \in Issued(rides, Rides) :
                WriteRide(t, n, Offer(RideSeen(t, r).author, RideSeen(t, r).total,
                                      NextSlot(RideSeen(t, r), tx[t].at), TRUE,
                                      RootOf(RideSeen(t, r), r)))
           \/ UNCHANGED rides
        /\ tx' = [tx EXCEPT ![t].todo = @ \ {r}]
        /\ UNCHANGED <<reqs, clock>>
  BY DEF Sweep_Spawn
<1> DEFINE p == RideSeen(t, r)
           o == Offer(p.author, p.total, NextSlot(p, tx[t].at), TRUE, RootOf(p, r))
<1>2. /\ tx[t].pc \in SweepPCs /\ tx[t] \in Transaction
      /\ \A s \in tx[t].todo : s \in Rides /\ RideSeen(t, s) \in GoodRide
  BY DEF Inv, TxInv, SweepPCs, Sweep_Spawn
<1>3. ReqsStep(t)
  BY <1>1, SameReqs
<1>4. o \in GoodRide
  <2>1. p \in Ride /\ r \in Rides /\ tx[t].at \in Nat
    BY <1>2 DEF GoodRide, Transaction
  <2>2. /\ p.author \in Users /\ p.total \in Nat \ {0}
        /\ NextSlot(p, tx[t].at) \in Nat /\ RootOf(p, r) \in Rides \cup {Nothing}
    BY <2>1 DEF Ride, NextSlot, RootOf
  <2> QED
    BY <2>2, OfferType
<1>5. RidesStep(t) /\ \A s \in tx[t].todo : RideSeen(t, s)' \in GoodRide
  <2>1. CASE UNCHANGED rides
    BY <1>2, <2>1, SameRides DEF RideSeen, View
  <2>2. CASE \E n \in Issued(rides, Rides) : WriteRide(t, n, o)
    <3>1. PICK n \in Issued(rides, Rides) : WriteRide(t, n, o)
      BY <2>2
    <3> HIDE DEF o
    <3> QED
      BY <1>2, <1>4, <3>1, FreshRide, OneRide, RidesStillSeen
  <2> QED
    BY <1>1, <2>1, <2>2
<1>6. TxStep(t)
  BY <1>1, <1>2, <1>3, <1>5, VisitedTx
<1> QED
  BY <1>1, <1>3, <1>5, <1>6, ClockKept DEF StepOK

LEMMA EndStep ==
  ASSUME Inv, NEW t \in Tx,
         Commit(t) \/ Abort(t) \/ DeadlockVictim(t) \/ Request_Duplicate(t)
  PROVE  StepOK(t)
<1>1. CASE Rollback(t)
  BY <1>1, RollbackStep, ClockKept DEF StepOK
<1>2. CASE Commit(t)
  BY <1>2, AllRows, ReturnTx, ClockKept DEF Commit, StepOK
<1> QED
  BY <1>1, <1>2 DEF Abort, DeadlockVictim, Request_Duplicate

-----------------------------------------------------------------------------
(* The invariant of the specification.                                     *)

LEMMA InitInv == Init => Inv
<1> SUFFICES ASSUME Init PROVE Inv
  OBVIOUS
<1>1. Absent \notin GoodRide /\ Absent \notin Request
  BY AbsentAssumption DEF GoodRide
<1>2. RidesInv /\ ReqsInv
  BY <1>1 DEF Init, RidesInv, ReqsInv, RowInv, RowsOf, Stored
<1>3. \A q \in Reqs : Anchored(reqs[q].committed) /\ Anchored(reqs[q].written)
  BY <1>1 DEF Init, Stored, Anchored
<1>4. Idle \in Transaction /\ Idle.pc = "idle"
  BY DEF Idle, Transaction, Actors
<1>5. tx \in [Tx -> Transaction] /\ \A t \in Tx : TxInv(t)
  BY <1>4 DEF Init, TxInv, RidePCs, ReqPCs, SweepPCs
<1> QED
  BY <1>2, <1>3, <1>5 DEF Inv, Init

(* Every step of a transaction has the shape the invariant survives.       *)
LEMMA TransactionStep ==
  ASSUME Inv, NEW t \in Tx, Arrival(t) \/ Run(t) \/ Abort(t)
  PROVE  StepOK(t)
<1>1. CASE Arrival(t)
  BY <1>1, CreateStep, EditStep, CallOffRideStep, RemoveStep, RequestRideStep,
     AcceptReadStep, DeclineStep, LeaveReadStep, SweepStartStep DEF Arrival
<1>2. CASE Statement(t)
  BY <1>2, RequestLiveStep, RequestInsertStep, EndStep, AcceptRideStep, AcceptReqStep,
     LeaveReqStep, LeaveRideStep, CallOffRidersStep, CallOffSnapshotStep,
     CallOffReqStep, SweepScanSteps, SweepEndRowStep, SweepSpawnStep DEF Statement
<1>3. CASE Commit(t) \/ DeadlockVictim(t) \/ Abort(t)
  BY <1>3, EndStep
<1> QED
  BY <1>1, <1>2, <1>3 DEF Run

(* Time passes, or nothing happens: no row and no transaction changes.     *)
LEMMA QuietStep ==
  ASSUME Inv, UNCHANGED <<rides, reqs, tx>>, clock' \in Nat
  PROVE  Inv'
  BY DEF Inv, RidesInv, ReqsInv, Anchored, TxInv, RideSeen, ReqSeen, View

LEMMA NextInv == Inv /\ [Next]_vars => Inv'
<1> SUFFICES ASSUME Inv, [Next]_vars PROVE Inv'
  OBVIOUS
<1>1. CASE Tick
  BY <1>1, QuietStep DEF Tick, Inv
<1>2. CASE \E t \in Tx : Arrival(t) \/ Run(t) \/ Abort(t)
  <2>1. PICK t \in Tx : Arrival(t) \/ Run(t) \/ Abort(t)
    BY <1>2
  <2> QED
    BY <2>1, TransactionStep, StepPreservesInv DEF StepOK
<1>3. CASE UNCHANGED vars
  BY <1>3, QuietStep DEF vars, Inv
<1> QED
  BY <1>1, <1>2, <1>3 DEF Next

(* Every row keeps the discipline of its transaction, and every statement  *)
(* names rows that exist, in every reachable state of the rides module.    *)
THEOREM Invariance == Spec => []Inv
  BY InitInv, NextInv, PTL DEF Spec

(* The free seats of a ride lie between none and all, and its status says  *)
(* whether there is one: acceptRequest, cancelSeatRequest, editRide,       *)
(* removeRide and the sweep keep the CHECK of 0000_rides.sql and more,     *)
(* for any number of seats and of calls in flight.                         *)
THEOREM LedgerConsistent == Spec => []LedgerOK
<1>1. Inv => LedgerOK
  BY DEF Inv, RidesInv, RowInv, RowsOf, GoodRide, LedgerOK, Consistent
<1> QED
  BY <1>1, Invariance, PTL

(* What one step commits, seen from one row.                               *)
LEMMA CommittedMoves ==
  ASSUME Inv, [Next]_vars
  PROVE  /\ \A r \in Rides : rides[r].committed # Absent
              => <<rides[r].committed, rides'[r].committed>> \in RideMoves
         /\ \A q \in Reqs : reqs[q].committed # Absent
              => <<reqs[q].committed, reqs'[q].committed>> \in ReqMoves
<1>1. ASSUME NEW t \in Tx, StepOK(t), NEW r \in Rides, rides[r].committed # Absent
      PROVE  <<rides[r].committed, rides'[r].committed>> \in RideMoves
  <2>1. /\ RowInv(rides[r], GoodRide, RideMoves, Absent)
        /\ RowChange(rides[r], rides'[r], t, GoodRide, RideMoves)
        /\ rides[r].committed \in GoodRide
    BY <1>1, Seen DEF Inv, RidesInv, StepOK, RidesStep
  <2> QED
    BY <2>1, RideMovesOrder, CommitMoves
<1>2. ASSUME NEW t \in Tx, StepOK(t), NEW q \in Reqs, reqs[q].committed # Absent
      PROVE  <<reqs[q].committed, reqs'[q].committed>> \in ReqMoves
  <2>1. /\ RowInv(reqs[q], Request, ReqMoves, Absent)
        /\ RowChange(reqs[q], reqs'[q], t, Request, ReqMoves)
        /\ reqs[q].committed \in Request
    BY <1>2, Seen DEF Inv, ReqsInv, StepOK, ReqsStep
  <2> QED
    BY <2>1, ReqMovesOrder, CommitMoves
<1>3. CASE UNCHANGED <<rides, reqs>>
  <2>1. /\ \A r \in Rides : rides[r].committed # Absent => rides[r].committed \in GoodRide
        /\ \A q \in Reqs : reqs[q].committed # Absent => reqs[q].committed \in Request
    BY AbsentAssumption DEF Inv, RidesInv, ReqsInv, RowInv, RowsOf
  <2> QED
    BY <1>3, <2>1, RideMovesOrder, ReqMovesOrder
<1>4. UNCHANGED <<rides, reqs>> \/ \E t \in Tx : StepOK(t)
  BY TransactionStep DEF Next, Tick, vars
<1> QED
  BY <1>1, <1>2, <1>3, <1>4

(* No call reopens a ride that was completed, expired or cancelled -- a    *)
(* seat that comes back late (cancelSeatRequest), an edit or a sweep that  *)
(* waited -- whatever calls overlap.                                       *)
THEOREM EndedForGood == Spec => EndedStaysEnded
<1>1. Inv /\ [Next]_vars
        => \A r \in Rides :
             LET p == rides[r].committed
                 o == rides'[r].committed
             IN p # Absent /\ p.status \notin OpenRide
                  => o.status = p.status \/ (o.removed /\ ~p.removed /\ o.status = "cancelled")
  BY CommittedMoves DEF RideMoves, RideMove
<1> QED
  BY <1>1, Invariance, PTL DEF Spec, EndedStaysEnded

(* No request leaves a final status, changes hands or skips a status, also *)
(* when accept, decline, cancel and call-off of it run at the same moment. *)
THEOREM RequestsMoveOn == Spec => RequestLifecycle
<1>1. Inv /\ [Next]_vars
        => \A q \in Reqs :
             LET v == reqs[q].committed
                 w == reqs'[q].committed
             IN v # Absent /\ w # v => /\ w.ride = v.ride /\ w.passenger = v.passenger
                                       /\ <<v.status, w.status>> \in ReqEdges
  BY CommittedMoves DEF ReqMoves, ReqMove
<1> QED
  BY <1>1, Invariance, PTL DEF Spec, RequestLifecycle

-----------------------------------------------------------------------------
(* What a running transaction has written.  The rows it holds are told by  *)
(* its next statement: which they are, and what their commit will change.  *)

CallOffPCs == {"callOff.riders", "callOff.snapshot", "callOff.reqs"}

SamePhase(p, w) == p \in GoodRide /\ PhaseOf(w) = PhaseOf(p)
NewOffer(p, w) == p = Absent /\ w.status = "active" /\ ~w.removed
CalledOff(p, w) ==
  p \in GoodRide /\ p.status \in OpenRide /\ w.status = "cancelled" /\ ~w.removed
TakenDown(p, w) == p \in GoodRide /\ ~p.removed /\ w.removed
PastWindow(p, w) ==
  /\ p \in GoodRide /\ p.status \in OpenRide
  /\ w.status \in {"completed", "expired"} /\ ~w.removed
  /\ w.depart = p.depart /\ w.depart + CompleteAfter <= clock
OneSeatTaken(p, w) == p.status \in OpenRide /\ w.available + 1 = p.available

RideHeld(t, r) ==
  LET p == rides[r].committed
      w == rides[r].written
      x == tx[t]
  IN /\ p \in GoodRide
          => /\ w.total = p.total
             /\ \/ w.available <= p.available
                \/ /\ x.pc = "commit" /\ x.seen = "accepted"
                   /\ w.available <= p.available + 1
     /\ \/ x.pc = "accept.req" /\ r = x.ride /\ SamePhase(p, w) /\ OneSeatTaken(p, w)
        \/ x.pc \in CallOffPCs /\ r = x.ride /\ CalledOff(p, w)
        \/ x.pc \in SweepPCs /\ PastWindow(p, w)
        \/ x.pc = "sweep.spawning" /\ NewOffer(p, w)
        \/ /\ x.pc = "commit" /\ r = x.ride
           /\ SamePhase(p, w) \/ NewOffer(p, w) \/ TakenDown(p, w)

ReqHeld(t, q) ==
  LET w == reqs[q].written
      x == tx[t]
  IN /\ \/ x.pc = "leave.ride" /\ q = x.req
        \/ x.pc = "callOff.reqs" /\ w.ride = x.ride /\ w.status = "cancelled"
        \/ /\ x.pc = "commit"
           /\ \A p \in Reqs : reqs[p].holder = t => p = q
           /\ \A r \in Rides : rides[r].holder = t
                => SamePhase(rides[r].committed, rides[r].written)
     /\ w.status = "accepted"
          => /\ x.pc = "commit" /\ q = x.req /\ w.ride = x.ride
             /\ rides[x.ride].holder = t
             /\ OneSeatTaken(rides[x.ride].committed, rides[x.ride].written)

(* The riders of a ride that is being called off: they are told, and their *)
(* requests are closed or still to be visited.                             *)
RiderOf(q, r) == LET v == reqs[q].committed
                 IN v # Absent /\ v.ride = r /\ v.status = "accepted"

CallOffHeld(t) ==
  LET x == tx[t]
  IN /\ rides[x.ride].holder = t
     /\ x.pc \in {"callOff.snapshot", "callOff.reqs"}
          => \A q \in Reqs : RiderOf(q, x.ride)
               => Note(reqs[q].committed.passenger, "cancelled", x.ride) \in x.out
     /\ x.pc = "callOff.reqs"
          => /\ \A q \in x.todo : ReqSeen(t, q).ride = x.ride
             /\ \A q \in Reqs : RiderOf(q, x.ride) => q \in x.todo \/ reqs[q].holder = t

LeaveHeld(t) ==
  LET x == tx[t]
      v == reqs[x.req].committed
  IN /\ x.pc \in {"leave.req", "leave.ride", "commit"}
     /\ x.req \in Reqs /\ v \in Request
     /\ v.ride = x.ride /\ v.passenger = x.user
     /\ x.pc # "leave.req" => ReqSeen(t, x.req).status \notin LiveReq

TxHeld(t) ==
  /\ tx[t].at <= clock
  /\ tx[t].pc \in ReqPCs => reqs[tx[t].req].committed.ride = tx[t].ride
  /\ tx[t].pc = "accept.req" => rides[tx[t].ride].holder = t
  /\ tx[t].pc = "leave.ride" => tx[t].seen = "accepted"
  /\ tx[t].pc \in CallOffPCs => CallOffHeld(t)
  /\ tx[t].seen = "accepted" => LeaveHeld(t)

Held(t) ==
  /\ \A r \in Rides : rides[r].holder = t => RideHeld(t, r)
  /\ \A q \in Reqs : reqs[q].holder = t => ReqHeld(t, q)
  /\ TxHeld(t)

HeldInv == \A t \in Tx : Held(t)

(* The live requests of one passenger on one ride share one index entry.   *)
LiveKey(r, u) == {v \in Request : LiveAsk(v, r, u)}
IndexInv ==
  \A p, q \in Reqs, r \in Rides, u \in Users :
    p # q => OneEntry(reqs[p], reqs[q], LiveKey(r, u))

(* A seat is charged to a request that is accepted, and to one whose cancel*)
(* has read that it was and has not yet returned the seat.                 *)
Charged(r) ==
  {q \in Reqs : LET v == reqs[q].committed
                IN /\ v \in Request /\ v.ride = r
                   /\ v.status = "accepted" \/ \E t \in Tx : Returning(t, q)}
SeatsFit(r) ==
  LET p == rides[r].committed
  IN p \in GoodRide => /\ IsFiniteSet(Charged(r))
                       /\ Cardinality(Charged(r)) + p.available <= p.total
RacedInv ==
  /\ raced \in SUBSET Rides
  /\ \A q \in Reqs : \A s, t \in Tx :
       s # t /\ Returning(s, q) /\ Returning(t, q) => tx[t].ride \in raced
SeatsInv == RacedInv /\ \A r \in Rides \ raced : SeatsFit(r)

-----------------------------------------------------------------------------
(* What the other transactions hold is not disturbed.                      *)

LEMMA OthersRows ==
  ASSUME NEW t \in Tx, StepOK(t), NEW s \in Tx, s # t
  PROVE  /\ \A r \in Rides : rides'[r].holder = s <=> rides[r].holder = s
         /\ \A r \in Rides : rides[r].holder = s => rides'[r] = rides[r]
         /\ \A q \in Reqs : reqs'[q].holder = s <=> reqs[q].holder = s
         /\ \A q \in Reqs : reqs[q].holder = s => reqs'[q] = reqs[q]
         /\ tx'[s] = tx[s]
<1>1. ASSUME NEW r \in Rides
      PROVE  /\ rides'[r].holder = s <=> rides[r].holder = s
             /\ rides[r].holder = s => rides'[r] = rides[r]
  <2>1. RowChange(rides[r], rides'[r], t, GoodRide, RideMoves)
    BY DEF StepOK, RidesStep
  <2> QED
    BY <2>1, OthersRow
<1>2. ASSUME NEW q \in Reqs
      PROVE  /\ reqs'[q].holder = s <=> reqs[q].holder = s
             /\ reqs[q].holder = s => reqs'[q] = reqs[q]
  <2>1. RowChange(reqs[q], reqs'[q], t, Request, ReqMoves)
    BY DEF StepOK, ReqsStep
  <2> QED
    BY <2>1, OthersRow
<1> QED
  BY <1>1, <1>2 DEF StepOK, TxStep

(* A request keeps its ride and its passenger, and its final status.       *)
LEMMA ReqKept ==
  ASSUME Inv, NEW t \in Tx, StepOK(t), NEW q \in Reqs, reqs[q].committed \in Request
  PROVE  LET v == reqs[q].committed
             w == reqs'[q].committed
         IN /\ w \in Request /\ w.ride = v.ride /\ w.passenger = v.passenger
            /\ v.status \notin LiveReq => w = v
<1>1. /\ RowInv(reqs[q], Request, ReqMoves, Absent)
      /\ RowChange(reqs[q], reqs'[q], t, Request, ReqMoves)
  BY DEF Inv, ReqsInv, StepOK, ReqsStep
<1>2. <<reqs[q].committed, reqs'[q].committed>> \in ReqMoves
  BY <1>1, ReqMovesOrder, CommitMoves
<1>3. reqs'[q].committed \in Request /\ ReqMove(reqs[q].committed, reqs'[q].committed)
  BY <1>2 DEF ReqMoves
<1> QED
  BY <1>3 DEF ReqMove, ReqEdges, LiveReq

(* Who gets a seat gets it from the transaction that holds the ride.       *)
LEMMA NewRider ==
  ASSUME Inv, NEW t \in Tx, Held(t), StepOK(t), NEW q \in Reqs, NEW r \in Rides,
         RiderOf(q, r)'
  PROVE  RiderOf(q, r) \/ rides[r].holder = t
<1>1. RowChange(reqs[q], reqs'[q], t, Request, ReqMoves)
  BY DEF StepOK, ReqsStep
<1>2. CASE reqs'[q].committed = reqs[q].committed
  BY <1>2 DEF RiderOf
<1>3. CASE reqs[q].holder = t /\ reqs'[q].committed = reqs[q].written
  BY <1>3 DEF Held, ReqHeld, RiderOf
<1> QED
  BY <1>1, <1>2, <1>3, ChangeCases

LEMMA OthersRides ==
  ASSUME NEW t \in Tx, StepOK(t), clock' = clock, NEW s \in Tx, s # t, Held(s),
         NEW r \in Rides, rides'[r].holder = s
  PROVE  RideHeld(s, r)'
<1>1. rides[r].holder = s /\ rides'[r] = rides[r] /\ tx'[s] = tx[s]
  BY OthersRows
<1>2. RideHeld(s, r)
  BY <1>1 DEF Held
<1> QED
  BY <1>1, <1>2 DEF RideHeld, PastWindow

(* A row somebody writes has a value to be committed.                      *)
LEMMA WrittenTyped ==
  ASSUME Inv, NEW t \in Tx
  PROVE  /\ \A r \in Rides : rides[r].holder = t => rides[r].written \in GoodRide
         /\ \A q \in Reqs : reqs[q].holder = t => reqs[q].written \in Request
<1>1. ASSUME NEW r \in Rides, rides[r].holder = t PROVE rides[r].written \in GoodRide
  BY <1>1, NoTxAssumption DEF Inv, RidesInv, RowInv
<1>2. ASSUME NEW q \in Reqs, reqs[q].holder = t PROVE reqs[q].written \in Request
  BY <1>2, NoTxAssumption DEF Inv, ReqsInv, RowInv
<1> QED
  BY <1>1, <1>2

LEMMA OthersReqs ==
  ASSUME Inv, NEW t \in Tx, StepOK(t), NEW s \in Tx, s # t, Held(s),
         NEW q \in Reqs, reqs'[q].holder = s
  PROVE  ReqHeld(s, q)'
<1> DEFINE w == reqs[q].written
           x == tx[s]
<1>1. /\ reqs[q].holder = s /\ reqs'[q] = reqs[q] /\ tx'[s] = x
      /\ \A p \in Reqs : reqs'[p].holder = s => reqs[p].holder = s
      /\ \A r \in Rides : rides'[r].holder = s => rides[r].holder = s
      /\ \A r \in Rides : rides[r].holder = s => rides'[r] = rides[r]
  BY OthersRows
<1>2. ReqHeld(s, q)
  BY <1>1 DEF Held
<1>3. (x.pc = "commit"
         /\ \A p \in Reqs : reqs[p].holder = s => p = q
         /\ \A r \in Rides : rides[r].holder = s
              => SamePhase(rides[r].committed, rides[r].written))
      => /\ \A p \in Reqs : reqs'[p].holder = s => p = q
         /\ \A r \in Rides : rides'[r].holder = s
              => SamePhase(rides'[r].committed, rides'[r].written)
  BY <1>1
<1>4. w.status = "accepted"
        => /\ rides'[x.ride].holder = s
           /\ OneSeatTaken(rides'[x.ride].committed, rides'[x.ride].written)
  <2> SUFFICES ASSUME w.status = "accepted"
               PROVE  rides'[x.ride] = rides[x.ride]
    BY <1>2 DEF ReqHeld
  <2>1. x.ride \in Rides
    BY <1>1, <1>2, WrittenTyped DEF ReqHeld, Request
  <2> QED
    BY <1>1, <1>2, <2>1 DEF ReqHeld
<1> QED
  BY <1>1, <1>2, <1>3, <1>4 DEF ReqHeld

LEMMA OthersCallOff ==
  ASSUME Inv, NEW t \in Tx, Held(t), StepOK(t), NEW s \in Tx, s # t, Held(s),
         tx[s].pc \in CallOffPCs
  PROVE  CallOffHeld(s)'
<1> DEFINE x == tx[s]
<1>1. CallOffHeld(s) /\ tx'[s] = x /\ x.ride \in Rides
  BY OthersRows DEF Held, TxHeld, CallOffPCs, Inv, TxInv, RidePCs
<1>2. rides[x.ride].holder = s /\ rides'[x.ride].holder = s
  BY <1>1, OthersRows DEF CallOffHeld
<1>3. \A q \in Reqs : RiderOf(q, x.ride)' => RiderOf(q, x.ride)
  <2> SUFFICES ASSUME NEW q \in Reqs, NEW r \in Rides, r = x.ride, RiderOf(q, r)'
               PROVE  RiderOf(q, r)
    BY <1>1
  <2> QED
    BY <1>2, NewRider
<1>4. \A q \in Reqs : RiderOf(q, x.ride)
        => reqs'[q].committed.passenger = reqs[q].committed.passenger
  <2> SUFFICES ASSUME NEW q \in Reqs, RiderOf(q, x.ride)
               PROVE  reqs'[q].committed.passenger = reqs[q].committed.passenger
    OBVIOUS
  <2>1. reqs[q].committed \in Request
    BY Seen DEF RiderOf
  <2> QED
    BY <2>1, ReqKept
<1>5. x.pc = "callOff.reqs" => \A q \in x.todo : ReqSeen(s, q)'.ride = x.ride
  <2> SUFFICES ASSUME x.pc = "callOff.reqs", NEW q \in x.todo
               PROVE  ReqSeen(s, q)'.ride = x.ride
    OBVIOUS
  <2>1. q \in Reqs /\ ReqSeen(s, q) \in Request /\ ReqSeen(s, q).ride = x.ride
    BY <1>1 DEF Inv, TxInv, CallOffHeld
  <2>2. CASE reqs[q].holder = s
    BY <2>1, <2>2, OthersRows DEF ReqSeen, View
  <2>3. CASE reqs[q].holder # s
    <3>1. reqs'[q].holder # s
      BY <2>1, <2>3, OthersRows
    <3>2. reqs[q].committed \in Request /\ reqs[q].committed.ride = x.ride
      BY <2>1, <2>3 DEF ReqSeen, View
    <3>3. reqs'[q].committed.ride = x.ride
      BY <2>1, <3>2, ReqKept
    <3> QED
      BY <3>1, <3>3 DEF ReqSeen, View
  <2> QED
    BY <2>2, <2>3
<1>6. \A q \in Reqs : reqs[q].holder = s => reqs'[q].holder = s
  BY OthersRows
<1> QED
  BY <1>1, <1>2, <1>3, <1>4, <1>5, <1>6 DEF CallOffHeld, RiderOf

LEMMA OthersLeave ==
  ASSUME Inv, NEW t \in Tx, StepOK(t), NEW s \in Tx, s # t, Held(s),
         tx[s].seen = "accepted"
  PROVE  LeaveHeld(s)'
<1> DEFINE q == tx[s].req
<1>1. LeaveHeld(s) /\ tx'[s] = tx[s]
  BY OthersRows DEF Held, TxHeld
<1>2. q \in Reqs /\ reqs[q].committed \in Request
  BY <1>1 DEF LeaveHeld
<1>3. /\ reqs'[q].committed \in Request
      /\ reqs'[q].committed.ride = reqs[q].committed.ride
      /\ reqs'[q].committed.passenger = reqs[q].committed.passenger
      /\ reqs[q].committed.status \notin LiveReq => reqs'[q].committed = reqs[q].committed
  BY <1>2, ReqKept
<1>4. ReqSeen(s, q).status \notin LiveReq => ReqSeen(s, q)'.status \notin LiveReq
  BY <1>1, <1>2, <1>3, OthersRows DEF ReqSeen, View
<1> QED
  BY <1>1, <1>2, <1>3, <1>4 DEF LeaveHeld

LEMMA OthersHeld ==
  ASSUME Inv, NEW t \in Tx, Held(t), StepOK(t), clock' = clock,
         NEW s \in Tx, s # t, Held(s)
  PROVE  Held(s)'
<1>1. tx'[s] = tx[s]
  BY OthersRows
<1>2. tx[s].pc \in ReqPCs => reqs'[tx[s].req].committed.ride = tx[s].ride
  <2> SUFFICES ASSUME tx[s].pc \in ReqPCs
               PROVE  reqs'[tx[s].req].committed.ride = tx[s].ride
    OBVIOUS
  <2>1. tx[s].req \in Reqs /\ reqs[tx[s].req].committed \in Request
    BY DEF Inv, TxInv
  <2> QED
    BY <2>1, ReqKept DEF Held, TxHeld
<1>3. tx[s].pc = "accept.req" => rides'[tx[s].ride].holder = s
  <2> SUFFICES ASSUME tx[s].pc = "accept.req" PROVE rides'[tx[s].ride].holder = s
    OBVIOUS
  <2>1. tx[s].ride \in Rides
    BY DEF Inv, TxInv, RidePCs
  <2> QED
    BY <2>1, OthersRows DEF Held, TxHeld
<1>4. TxHeld(s)'
  BY <1>1, <1>2, <1>3, OthersCallOff, OthersLeave DEF Held, TxHeld
<1> QED
  BY <1>4, OthersRides, OthersReqs DEF Held

-----------------------------------------------------------------------------
(* What a transaction holds at each of its statements.                     *)

LEMMA NoRideHeld ==
  ASSUME NEW t \in Tx, Held(t),
         tx[t].pc \notin {"accept.req", "commit"} \cup CallOffPCs \cup SweepPCs
  PROVE  \A r \in Rides : rides[r].holder # t
  BY DEF Held, RideHeld, SweepPCs

LEMMA NoReqHeld ==
  ASSUME NEW t \in Tx, Held(t), tx[t].pc \notin {"leave.ride", "callOff.reqs", "commit"}
  PROVE  \A q \in Reqs : reqs[q].holder # t
  BY DEF Held, ReqHeld

LEMMA NotReturning ==
  ASSUME NEW t \in Tx, Held(t), tx[t].pc \notin {"leave.req", "leave.ride", "commit"}
  PROVE  tx[t].seen # "accepted"
  BY DEF Held, TxHeld, LeaveHeld

(* What a write leaves of a table.                                         *)
LEMMA WrittenRide ==
  ASSUME Inv, NEW t \in Tx, NEW r \in Rides, NEW v, WriteRide(t, r, v)
  PROVE  /\ rides'[r].committed = rides[r].committed
         /\ rides'[r].written = v /\ rides'[r].holder = t
         /\ \A s \in Rides : s # r => rides'[s] = rides[s]
<1>1. rides = [s \in Rides |-> rides[s]] /\ rides' = [rides EXCEPT ![r] = Put(@, t, v)]
  BY DEF Inv, RidesInv, WriteRide
<1>2. \A s \in Rides : rides'[s] = IF s = r THEN Put(rides[r], t, v) ELSE rides[s]
  BY <1>1
<1> QED
  BY <1>2 DEF Put

LEMMA WrittenReq ==
  ASSUME Inv, NEW t \in Tx, NEW q \in Reqs, NEW v, WriteReq(t, q, v)
  PROVE  /\ reqs'[q].committed = reqs[q].committed
         /\ reqs'[q].written = v /\ reqs'[q].holder = t
         /\ \A s \in Reqs : s # q => reqs'[s] = reqs[s]
<1>1. reqs = [s \in Reqs |-> reqs[s]] /\ reqs' = [reqs EXCEPT ![q] = Put(@, t, v)]
  BY DEF Inv, ReqsInv, WriteReq
<1>2. \A s \in Reqs : reqs'[s] = IF s = q THEN Put(reqs[q], t, v) ELSE reqs[s]
  BY <1>1
<1> QED
  BY <1>2 DEF Put

(* The transactions of no promise: nothing to call off, nothing to return. *)
LEMMA PlainTx ==
  ASSUME NEW t \in Tx, tx'[t].pc \notin {"leave.ride"} \cup ReqPCs \cup CallOffPCs,
         tx'[t].seen # "accepted", tx'[t].at <= clock'
  PROVE  TxHeld(t)'
  BY DEF TxHeld, ReqPCs

(* A statement that writes nothing, of a transaction that holds nothing.   *)
LEMMA EmptyHanded ==
  ASSUME NEW t \in Tx, rides' = rides, reqs' = reqs,
         \A r \in Rides : rides[r].holder # t, \A q \in Reqs : reqs[q].holder # t,
         TxHeld(t)'
  PROVE  Held(t)'
  BY DEF Held

LEMMA OpenedFields ==
  ASSUME NEW t \in Tx, Inv, NEW pc, NEW u, NEW r, NEW q, Begin(t, pc, u, r, q)
  PROVE  /\ tx'[t].pc = pc /\ tx'[t].user = u /\ tx'[t].ride = r /\ tx'[t].req = q
         /\ tx'[t].seen = Nothing /\ tx'[t].at = 0 /\ tx'[t].out = {} /\ tx'[t].todo = {}
<1>1. tx'[t] = Opened(pc, u, r, q)
  BY DEF Begin, Inv
<1> QED
  BY <1>1 DEF Opened, Idle

(* The values the statements write, compared with what they saw.           *)
LEMMA EditedPhase ==
  ASSUME NEW p \in GoodRide, NEW d \in Nat
  PROVE  /\ SamePhase(p, [p EXCEPT !.depart = d])
         /\ [p EXCEPT !.depart = d].total = p.total
         /\ [p EXCEPT !.depart = d].available = p.available
<1> DEFINE w == [p EXCEPT !.depart = d]
<1>1. p \in Ride /\ p # Absent
  BY AbsentAssumption DEF GoodRide
<1>2. /\ w \in Ride /\ w.status = p.status /\ w.removed = p.removed
      /\ w.total = p.total /\ w.available = p.available
  BY <1>1 DEF Ride
<1>3. w # Absent
  BY <1>2, AbsentAssumption
<1> QED
  BY <1>1, <1>2, <1>3 DEF SamePhase, PhaseOf

LEMMA EndedPhase ==
  ASSUME NEW p \in GoodRide, p.status \in OpenRide, NEW e \in RideStatus \ OpenRide
  PROVE  LET w == [p EXCEPT !.status = e]
         IN /\ w.status = e /\ ~w.removed /\ w.depart = p.depart
            /\ w.total = p.total /\ w.available = p.available
  BY DEF GoodRide, Ride, OpenRide

LEMMA TakenDownPhase ==
  ASSUME NEW p \in GoodRide, ~p.removed
  PROVE  LET w == [p EXCEPT !.status = "cancelled", !.removed = TRUE]
         IN TakenDown(p, w) /\ w.total = p.total /\ w.available = p.available
<1> DEFINE w == [p EXCEPT !.status = "cancelled", !.removed = TRUE]
<1>1. w.removed = TRUE /\ w.total = p.total /\ w.available = p.available
  BY DEF GoodRide, Ride
<1> QED
  BY <1>1 DEF TakenDown

LEMMA TakenPhase ==
  ASSUME NEW p \in GoodRide, NEW u, HasSeat(p, u)
  PROVE  /\ SamePhase(p, SeatTaken(p)) /\ SeatTaken(p).total = p.total
         /\ OneSeatTaken(p, SeatTaken(p))
<1> DEFINE w == SeatTaken(p)
<1>1. /\ p \in Ride /\ p # Absent /\ p.status \in OpenRide
      /\ p.available \in Nat /\ p.available > 0
  BY AbsentAssumption DEF GoodRide, Ride, HasSeat
<1>2. /\ w.available = p.available - 1 /\ w.total = p.total /\ w.removed = p.removed
      /\ w.status = IF p.available - 1 <= 0 THEN "full" ELSE p.status
  BY <1>1 DEF SeatTaken, Ride
<1>3. w # Absent /\ w.status \in OpenRide
  BY <1>1, <1>2, TakenSeat, AbsentAssumption DEF GoodRide, OpenRide
<1>4. w.available + 1 = p.available
  BY <1>1, <1>2
<1> QED
  BY <1>1, <1>2, <1>3, <1>4 DEF SamePhase, PhaseOf, OneSeatTaken

LEMMA ReturnedPhase ==
  ASSUME NEW p \in GoodRide
  PROVE  /\ SamePhase(p, SeatReturned(p)) /\ SeatReturned(p).total = p.total
         /\ SeatReturned(p).available <= p.available + 1
<1> DEFINE w == SeatReturned(p)
<1>1. /\ p \in Ride /\ p # Absent /\ p.available \in Nat /\ p.total \in Nat
      /\ p.available <= p.total
  BY AbsentAssumption DEF GoodRide, Ride, Consistent
<1>2. /\ w.available = IF p.available < p.total THEN p.available + 1 ELSE p.total
      /\ w.status = IF p.status = "full" THEN "active" ELSE p.status
      /\ w.total = p.total /\ w.removed = p.removed
  BY <1>1 DEF SeatReturned, Ride
<1>3. w # Absent
  BY ReturnedSeat, AbsentAssumption DEF GoodRide
<1>4. w.available <= p.available + 1
  BY <1>1, <1>2
<1> QED
  BY <1>1, <1>2, <1>3, <1>4 DEF SamePhase, PhaseOf, OpenRide

-----------------------------------------------------------------------------
(* The actions keep what their transaction holds as described, one lemma   *)
(* each.                                                                   *)

LEMMA OnlyRide ==
  ASSUME Inv, NEW t \in Tx, NEW r \in Rides, NEW v, WriteRide(t, r, v),
         \A s \in Rides : rides[s].holder # t, RideHeld(t, r)'
  PROVE  \A s \in Rides : rides'[s].holder = t => RideHeld(t, s)'
<1> SUFFICES ASSUME NEW s \in Rides, rides'[s].holder = t PROVE RideHeld(t, s)'
  OBVIOUS
<1>1. s = r
  BY WrittenRide
<1> QED
  BY <1>1

(* A call whose first statement writes a ride.                             *)
LEMMA ArrivesWriting ==
  ASSUME Inv, NEW t \in Tx, Held(t), tx[t].pc = "idle",
         NEW r \in Rides, NEW v, NEW u, NEW pc \in {"commit", "callOff.riders"},
         WriteRide(t, r, v), Begin(t, pc, u, r, Nothing), UNCHANGED <<reqs, clock>>,
         RideHeld(t, r)'
  PROVE  Held(t)'
<1>1. /\ \A s \in Rides : rides[s].holder # t
      /\ \A q \in Reqs : reqs[q].holder # t
  BY NoRideHeld, NoReqHeld DEF CallOffPCs, SweepPCs
<1>2. \A s \in Rides : rides'[s].holder = t => RideHeld(t, s)'
  BY <1>1, OnlyRide
<1>3. /\ tx'[t].pc = pc /\ tx'[t].ride = r /\ tx'[t].seen # "accepted"
      /\ tx'[t].at <= clock'
  BY OpenedFields, NothingAssumption DEF Inv, LiveReq
<1>4. rides'[r].holder = t
  BY WrittenRide
<1>5. TxHeld(t)'
  BY <1>3, <1>4 DEF TxHeld, CallOffHeld, ReqPCs
<1> QED
  BY <1>1, <1>2, <1>5 DEF Held

LEMMA CreateHeld ==
  ASSUME Inv, NEW t \in Tx, Held(t), Create_Insert(t)
  PROVE  Held(t)'
<1>1. PICK u \in Verified, n \in 1..MaxSeats, d \in Departures, b \in Recurrence,
           r \in Issued(rides, Rides) :
        /\ WriteRide(t, r, Offer(u, n, d, b, Nothing))
        /\ Begin(t, "commit", u, r, Nothing)
        /\ UNCHANGED <<reqs, clock>>
  BY DEF Create_Insert
<1> DEFINE v == Offer(u, n, d, b, Nothing)
<1>2. r \in Rides /\ rides[r].committed = Absent /\ tx[t].pc = "idle"
  BY DEF Issued, Fresh, Stored, Create_Insert, Arrives
<1>3. v.status = "active" /\ ~v.removed
  BY DEF Offer
<1>4. Absent \notin GoodRide
  BY AbsentAssumption DEF GoodRide
<1>5. tx'[t].pc = "commit" /\ tx'[t].ride = r
  BY <1>1, OpenedFields
<1>6. rides'[r].committed = Absent /\ rides'[r].written = v
  BY <1>1, <1>2, WrittenRide
<1> HIDE DEF v
<1>7. RideHeld(t, r)'
  BY <1>3, <1>4, <1>5, <1>6 DEF RideHeld, NewOffer
<1> QED
  BY <1>1, <1>2, <1>7, ArrivesWriting DEF v

(* A call whose first statement rewrites a posted ride.                    *)
LEMMA RewrittenHeld ==
  ASSUME Inv, NEW t \in Tx, Held(t), tx[t].pc = "idle",
         NEW r \in Rides, NEW v, NEW u, NEW pc \in {"commit", "callOff.riders"},
         WriteRide(t, r, v), Begin(t, pc, u, r, Nothing), UNCHANGED <<reqs, clock>>,
         v.total = RideSeen(t, r).total, v.available = RideSeen(t, r).available,
         RideSeen(t, r) \in GoodRide,
         pc = "commit" => \/ SamePhase(RideSeen(t, r), v)
                          \/ TakenDown(RideSeen(t, r), v),
         pc = "callOff.riders" => CalledOff(RideSeen(t, r), v)
  PROVE  Held(t)'
<1>1. RideSeen(t, r) = rides[r].committed
  BY NoRideHeld DEF RideSeen, View, CallOffPCs, SweepPCs
<1>2. tx'[t].pc = pc /\ tx'[t].ride = r
  BY OpenedFields
<1>3. rides'[r].committed = RideSeen(t, r) /\ rides'[r].written = v
  BY <1>1, WrittenRide
<1>4. v.available <= RideSeen(t, r).available
  BY DEF GoodRide, Ride
<1>5. RideHeld(t, r)'
  BY <1>2, <1>3, <1>4 DEF RideHeld, CallOffPCs
<1> QED
  BY <1>5, ArrivesWriting

LEMMA EditHeld ==
  ASSUME Inv, NEW t \in Tx, Held(t), Edit_Ride(t)
  PROVE  Held(t)'
<1>1. PICK u \in Users, r \in Posted, d \in Departures :
        /\ WriteRide(t, r, [RideSeen(t, r) EXCEPT !.depart = d])
        /\ Begin(t, "commit", u, r, Nothing)
        /\ UNCHANGED <<reqs, clock>>
  BY DEF Edit_Ride
<1>2. tx[t].pc = "idle" /\ r \in Rides /\ RideSeen(t, r) \in GoodRide /\ d \in Nat
  BY Seen, DeparturesType DEF Edit_Ride, Arrives, Posted
<1>3. /\ SamePhase(RideSeen(t, r), [RideSeen(t, r) EXCEPT !.depart = d])
      /\ [RideSeen(t, r) EXCEPT !.depart = d].total = RideSeen(t, r).total
      /\ [RideSeen(t, r) EXCEPT !.depart = d].available = RideSeen(t, r).available
  BY <1>2, EditedPhase
<1> QED
  BY <1>1, <1>2, <1>3, RewrittenHeld

LEMMA CallOffRideHeld ==
  ASSUME Inv, NEW t \in Tx, Held(t), CallOff_Ride(t)
  PROVE  Held(t)'
<1>1. PICK u \in Users, r \in Posted :
        /\ Open(RideSeen(t, r), u)
        /\ WriteRide(t, r, [RideSeen(t, r) EXCEPT !.status = "cancelled"])
        /\ Begin(t, "callOff.riders", u, r, Nothing)
        /\ UNCHANGED <<reqs, clock>>
  BY DEF CallOff_Ride
<1> DEFINE p == RideSeen(t, r)
           v == [p EXCEPT !.status = "cancelled"]
<1>2. /\ tx[t].pc = "idle" /\ r \in Rides /\ p \in GoodRide /\ p.status \in OpenRide
  BY <1>1, Seen DEF CallOff_Ride, Arrives, Posted, Open
<1>3. /\ v.status = "cancelled" /\ ~v.removed
      /\ v.total = p.total /\ v.available = p.available
  BY <1>2, EndedPhase DEF RideStatus, OpenRide
<1>4. CalledOff(p, v)
  BY <1>2, <1>3 DEF CalledOff
<1> QED
  BY <1>1, <1>2, <1>3, <1>4, RewrittenHeld

LEMMA RemoveHeld ==
  ASSUME Inv, NEW t \in Tx, Held(t), Remove_Ride(t)
  PROVE  Held(t)'
<1>1. PICK u \in Moderators, r \in Posted :
        /\ ~RideSeen(t, r).removed
        /\ WriteRide(t, r, [RideSeen(t, r) EXCEPT !.status = "cancelled", !.removed = TRUE])
        /\ Begin(t, "commit", u, r, Nothing)
        /\ UNCHANGED <<reqs, clock>>
  BY DEF Remove_Ride
<1> DEFINE p == RideSeen(t, r)
           v == [p EXCEPT !.status = "cancelled", !.removed = TRUE]
<1>2. tx[t].pc = "idle" /\ r \in Rides /\ p \in GoodRide
  BY Seen DEF Remove_Ride, Arrives, Posted
<1>3. TakenDown(p, v) /\ v.total = p.total /\ v.available = p.available
  BY <1>1, <1>2, TakenDownPhase
<1> HIDE DEF v
<1> QED
  BY <1>1, <1>2, <1>3, RewrittenHeld DEF v

(* A call whose first statement only reads.                                *)
LEMMA ReadingHeld ==
  ASSUME Inv, NEW t \in Tx, Held(t), tx[t].pc = "idle", UNCHANGED <<rides, reqs>>,
         TxHeld(t)'
  PROVE  Held(t)'
  BY NoRideHeld, NoReqHeld, EmptyHanded DEF CallOffPCs, SweepPCs

LEMMA RequestRideHeld ==
  ASSUME Inv, NEW t \in Tx, Held(t), Request_Ride(t)
  PROVE  Held(t)'
<1>1. PICK u \in Users, r \in Posted :
        Begin(t, "request.live", u, r, Nothing) /\ UNCHANGED <<rides, reqs, clock>>
  BY DEF Request_Ride
<1>2. tx'[t].pc = "request.live" /\ tx'[t].seen # "accepted" /\ tx'[t].at <= clock'
  BY <1>1, OpenedFields, NothingAssumption DEF Inv, LiveReq
<1>3. TxHeld(t)'
  BY <1>2, PlainTx DEF ReqPCs, CallOffPCs
<1> QED
  BY <1>1, <1>3, ReadingHeld DEF Request_Ride, Arrives

LEMMA AcceptReadHeld ==
  ASSUME Inv, NEW t \in Tx, Held(t), Accept_Read(t)
  PROVE  Held(t)'
<1>1. PICK u \in Users, q \in Asked :
        /\ Begin(t, "accept.ride", u, ReqSeen(t, q).ride, q)
        /\ UNCHANGED <<rides, reqs, clock>>
  BY DEF Accept_Read
<1>2. tx[t].pc = "idle" /\ q \in Reqs
  BY DEF Accept_Read, Arrives, Asked
<1>3. ReqSeen(t, q) = reqs[q].committed
  BY <1>2, NoReqHeld DEF ReqSeen, View
<1>4. /\ tx'[t].pc = "accept.ride" /\ tx'[t].seen # "accepted" /\ tx'[t].at <= clock'
      /\ tx'[t].ride = reqs[q].committed.ride /\ tx'[t].req = q
  BY <1>1, <1>3, OpenedFields, NothingAssumption DEF Inv, LiveReq
<1>5. TxHeld(t)'
  BY <1>1, <1>4 DEF TxHeld, CallOffPCs
<1> QED
  BY <1>1, <1>2, <1>5, ReadingHeld

LEMMA LeaveReadHeld ==
  ASSUME Inv, NEW t \in Tx, Held(t), Leave_Read(t)
  PROVE  Held(t)'
<1>1. PICK q \in Asked :
        /\ tx' = [tx EXCEPT ![t] =
                   [Opened("leave.req", ReqSeen(t, q).passenger, ReqSeen(t, q).ride, q)
                      EXCEPT !.seen = ReqSeen(t, q).status]]
        /\ UNCHANGED <<rides, reqs, clock>>
  BY DEF Leave_Read
<1>2. tx[t].pc = "idle" /\ q \in Reqs /\ reqs[q].committed \in Request
  BY Seen DEF Leave_Read, Arrives, Asked
<1>3. ReqSeen(t, q) = reqs[q].committed
  BY <1>2, NoReqHeld DEF ReqSeen, View
<1> DEFINE v == reqs[q].committed
<1>4. tx'[t] = [Opened("leave.req", v.passenger, v.ride, q) EXCEPT !.seen = v.status]
  BY <1>1, <1>3 DEF Inv
<1>5. /\ tx'[t].pc = "leave.req" /\ tx'[t].user = v.passenger /\ tx'[t].ride = v.ride
      /\ tx'[t].req = q /\ tx'[t].at = 0
  BY <1>4 DEF Opened, Idle
<1>6. TxHeld(t)'
  BY <1>1, <1>2, <1>5 DEF TxHeld, LeaveHeld, CallOffPCs, Inv
<1> QED
  BY <1>1, <1>2, <1>6, ReadingHeld

LEMMA SweepStartHeld ==
  ASSUME Inv, NEW t \in Tx, Held(t), Sweep_Start(t)
  PROVE  Held(t)'
<1>1. tx'[t] = [Opened("sweep.complete", Scheduler, Nothing, Nothing) EXCEPT !.at = clock]
  BY DEF Sweep_Start, Inv
<1>2. /\ tx'[t].pc = "sweep.complete" /\ tx'[t].seen # "accepted" /\ tx'[t].at = clock
      /\ clock' = clock /\ clock \in Nat
  BY <1>1, NothingAssumption DEF Opened, Idle, LiveReq, Sweep_Start, Inv
<1>3. TxHeld(t)'
  BY <1>2, PlainTx DEF ReqPCs, CallOffPCs
<1> QED
  BY <1>3, ReadingHeld DEF Sweep_Start, Arrives

LEMMA DeclineHeld ==
  ASSUME Inv, NEW t \in Tx, Held(t), Decline_Req(t)
  PROVE  Held(t)'
<1>1. PICK u \in Users, q \in Asked :
        /\ ReqSeen(t, q).status = "pending"
        /\ WriteReq(t, q, [ReqSeen(t, q) EXCEPT !.status = "declined"])
        /\ tx' = [tx EXCEPT ![t] =
                   [Opened("commit", u, ReqSeen(t, q).ride, q) EXCEPT
                      !.out = {Note(ReqSeen(t, q).passenger, "declined",
                                    ReqSeen(t, q).ride)}]]
        /\ UNCHANGED <<rides, clock>>
  BY DEF Decline_Req
<1> DEFINE v == [ReqSeen(t, q) EXCEPT !.status = "declined"]
<1>2. tx[t].pc = "idle" /\ q \in Reqs /\ ReqSeen(t, q) \in Request
  BY Seen DEF Decline_Req, Arrives, Asked
<1>3. v.status = "declined"
  BY <1>2 DEF Request
<1>4. tx'[t].pc = "commit" /\ tx'[t].seen = Nothing /\ tx'[t].at = 0
  <2>1. tx'[t] = [Opened("commit", u, ReqSeen(t, q).ride, q) EXCEPT
                      !.out = {Note(ReqSeen(t, q).passenger, "declined",
                                    ReqSeen(t, q).ride)}]
    BY <1>1 DEF Inv
  <2> QED
    BY <2>1 DEF Opened, Idle
<1>5. TxHeld(t)'
  BY <1>1, <1>4, PlainTx, NothingAssumption DEF ReqPCs, CallOffPCs, LiveReq, Inv
<1>6. /\ \A r \in Rides : rides'[r].holder # t
      /\ \A p \in Reqs : reqs[p].holder # t
  BY <1>1, <1>2, NoRideHeld, NoReqHeld DEF CallOffPCs, SweepPCs
<1>7. /\ \A p \in Reqs : reqs'[p].holder = t => p = q
      /\ reqs'[q].written = v
  BY <1>1, <1>2, <1>6, WrittenReq
<1> HIDE DEF v
<1>8. ASSUME NEW p \in Reqs, reqs'[p].holder = t PROVE ReqHeld(t, p)'
  <2>1. p = q
    BY <1>7, <1>8
  <2> QED
    BY <1>3, <1>4, <1>6, <1>7, <2>1 DEF ReqHeld
<1> QED
  BY <1>5, <1>6, <1>8 DEF Held

(* A transaction that ends holds nothing.                                  *)
LEMMA ReturnHeld ==
  ASSUME Inv, NEW t \in Tx, Return(t), clock' = clock,
         \A r \in Rides : rides'[r].holder # t, \A q \in Reqs : reqs'[q].holder # t
  PROVE  Held(t)'
<1>1. tx'[t] = Idle
  BY DEF Return, Inv
<1>2. tx'[t].pc = "idle" /\ tx'[t].seen # "accepted" /\ tx'[t].at <= clock'
  BY <1>1, NothingAssumption DEF Idle, LiveReq, Inv
<1>3. TxHeld(t)'
  BY <1>2, PlainTx DEF ReqPCs, CallOffPCs
<1> QED
  BY <1>3 DEF Held

LEMMA GotoFields ==
  ASSUME Inv, NEW t \in Tx, NEW pc, Goto(t, pc)
  PROVE  /\ tx'[t].pc = pc /\ tx'[t].user = tx[t].user /\ tx'[t].ride = tx[t].ride
         /\ tx'[t].req = tx[t].req /\ tx'[t].seen = tx[t].seen
         /\ tx'[t].todo = tx[t].todo /\ tx'[t].out = tx[t].out /\ tx'[t].at = tx[t].at
<1>1. tx[t] \in Transaction /\ tx'[t] = [tx[t] EXCEPT !.pc = pc]
  BY DEF Goto, Inv
<1> QED
  BY <1>1 DEF Transaction

LEMMA NoteFields ==
  ASSUME Inv, NEW t \in Tx, NEW n, LastNote(t, n)
  PROVE  /\ tx'[t].pc = "commit" /\ tx'[t].user = tx[t].user /\ tx'[t].ride = tx[t].ride
         /\ tx'[t].req = tx[t].req /\ tx'[t].seen = tx[t].seen /\ tx'[t].at = tx[t].at
<1>1. tx[t] \in Transaction /\ tx'[t] = [tx[t] EXCEPT !.pc = "commit", !.out = {n}]
  BY DEF LastNote, Inv
<1> QED
  BY <1>1 DEF Transaction

LEMMA RequestLiveHeld ==
  ASSUME Inv, NEW t \in Tx, Held(t), Request_Live(t)
  PROVE  Held(t)'
<1>1. /\ rides' = rides /\ reqs' = reqs /\ clock' = clock
      /\ \A r \in Rides : rides[r].holder # t
      /\ tx[t].seen # "accepted"
  BY NoRideHeld, NotReturning DEF Request_Live, CallOffPCs, SweepPCs
<1>2. \A q \in Reqs : reqs[q].holder # t
  BY NoReqHeld DEF Request_Live
<1>3. CASE Return(t)
  BY <1>1, <1>2, <1>3, ReturnHeld
<1>4. CASE Goto(t, "request.insert")
  <2>1. /\ tx'[t].pc = "request.insert" /\ tx'[t].seen # "accepted"
        /\ tx'[t].at <= clock'
    BY <1>1, <1>4, GotoFields DEF Held, TxHeld
  <2>2. TxHeld(t)'
    BY <2>1, PlainTx DEF ReqPCs, CallOffPCs
  <2> QED
    BY <1>1, <1>2, <2>2, EmptyHanded
<1> QED
  BY <1>3, <1>4 DEF Request_Live

(* A transaction whose last write is one request.                          *)
LEMMA OnlyReq ==
  ASSUME Inv, NEW t \in Tx, NEW q \in Reqs, NEW v, WriteReq(t, q, v),
         \A p \in Reqs : reqs[p].holder # t, ReqHeld(t, q)'
  PROVE  \A p \in Reqs : reqs'[p].holder = t => ReqHeld(t, p)'
<1> SUFFICES ASSUME NEW p \in Reqs, reqs'[p].holder = t PROVE ReqHeld(t, p)'
  OBVIOUS
<1>1. p = q
  BY WrittenReq
<1> QED
  BY <1>1

LEMMA RequestInsertHeld ==
  ASSUME Inv, NEW t \in Tx, Held(t), Request_Insert(t)
  PROVE  Held(t)'
<1> DEFINE v == [ride |-> tx[t].ride, passenger |-> tx[t].user, status |-> "pending"]
           n == Note(RideSeen(t, tx[t].ride).author, "requested", tx[t].ride)
<1>1. PICK q \in Fresh(reqs, Reqs) : WriteReq(t, q, v)
  BY DEF Request_Insert
<1>2. q \in Reqs /\ rides' = rides /\ clock' = clock /\ LastNote(t, n)
  BY DEF Fresh, Request_Insert
<1>3. /\ \A r \in Rides : rides[r].holder # t
      /\ tx[t].seen # "accepted"
  BY NoRideHeld, NotReturning DEF Request_Insert, CallOffPCs, SweepPCs
<1>4. \A p \in Reqs : reqs[p].holder # t
  BY NoReqHeld DEF Request_Insert
<1>5. /\ tx'[t].pc = "commit" /\ tx'[t].seen # "accepted" /\ tx'[t].at <= clock'
  BY <1>2, <1>3, NoteFields DEF Held, TxHeld
<1>6. v.status # "accepted"
  OBVIOUS
<1> HIDE DEF v
<1>7. /\ reqs'[q].written = v
      /\ \A p \in Reqs : reqs'[p].holder = t => p = q
  BY <1>1, <1>2, <1>4, WrittenReq
<1>8. ReqHeld(t, q)'
  BY <1>2, <1>3, <1>5, <1>6, <1>7 DEF ReqHeld
<1>9. TxHeld(t)'
  BY <1>5, PlainTx DEF ReqPCs, CallOffPCs
<1>10. \A p \in Reqs : reqs'[p].holder = t => ReqHeld(t, p)'
  BY <1>1, <1>2, <1>4, <1>8, OnlyReq
<1> QED
  BY <1>2, <1>3, <1>9, <1>10 DEF Held

LEMMA AcceptRideHeld ==
  ASSUME Inv, NEW t \in Tx, Held(t), Accept_Ride(t)
  PROVE  Held(t)'
<1> DEFINE r == tx[t].ride
           p == RideSeen(t, r)
<1>1. /\ r \in Rides /\ rides[r].committed \in GoodRide
      /\ tx[t].req \in Reqs /\ reqs' = reqs /\ clock' = clock
  BY DEF Inv, TxInv, RidePCs, ReqPCs, Accept_Ride
<1>2. /\ \A s \in Rides : rides[s].holder # t
      /\ tx[t].seen # "accepted"
  BY NoRideHeld, NotReturning DEF Accept_Ride, CallOffPCs, SweepPCs
<1>3. \A q \in Reqs : reqs[q].holder # t
  BY NoReqHeld DEF Accept_Ride
<1>4. CASE /\ HasSeat(p, tx[t].user)
           /\ WriteRide(t, r, SeatTaken(p))
           /\ Goto(t, "accept.req")
  <2>1. p = rides[r].committed
    BY <1>1, <1>2 DEF RideSeen, View
  <2>2. /\ SamePhase(p, SeatTaken(p)) /\ SeatTaken(p).total = p.total
        /\ OneSeatTaken(p, SeatTaken(p)) /\ SeatTaken(p) \in GoodRide
    BY <1>1, <1>4, <2>1, TakenPhase, TakenSeat
  <2>3. /\ rides'[r].committed = p /\ rides'[r].written = SeatTaken(p)
        /\ rides'[r].holder = t
    BY <1>1, <1>4, <2>1, WrittenRide
  <2>4. /\ tx'[t].pc = "accept.req" /\ tx'[t].ride = r /\ tx'[t].req = tx[t].req
        /\ tx'[t].seen = tx[t].seen /\ tx'[t].at = tx[t].at
    BY <1>4, GotoFields
  <2>5. SeatTaken(p).available <= p.available
    BY <1>1, <2>1, <2>2, SMTT(20) DEF OneSeatTaken, GoodRide, Ride
  <2>6. ASSUME NEW s \in Rides, rides'[s].holder = t PROVE RideHeld(t, s)'
    <3>1. s = r
      BY <1>1, <1>2, <1>4, <2>6, WrittenRide
    <3> QED
      BY <2>2, <2>3, <2>4, <2>5, <3>1 DEF RideHeld
  <2>7. TxHeld(t)'
    BY <1>1, <1>2, <2>3, <2>4 DEF TxHeld, Held, CallOffPCs, ReqPCs, Accept_Ride
  <2> QED
    BY <1>1, <1>3, <2>6, <2>7 DEF Held
<1>5. CASE Return(t) /\ rides' = rides
  BY <1>1, <1>2, <1>3, <1>5, ReturnHeld
<1> QED
  BY <1>4, <1>5 DEF Accept_Ride

LEMMA AcceptReqHeld ==
  ASSUME Inv, NEW t \in Tx, Held(t), Accept_Req(t)
  PROVE  Held(t)'
<1> DEFINE q == tx[t].req
           v == ReqSeen(t, q)
           r == tx[t].ride
           n == Note(v.passenger, "accepted", r)
<1>1. /\ q \in Reqs /\ v \in Request /\ r \in Rides /\ reqs[q].committed \in Request
      /\ tx[t].pc = "accept.req" /\ rides' = rides /\ clock' = clock /\ LastNote(t, n)
  BY NamedReq DEF Accept_Req, ReqPCs, Inv, TxInv
<1>2. /\ tx[t].seen # "accepted" /\ rides[r].holder = t
      /\ reqs[q].committed.ride = r /\ RideHeld(t, r)
  BY <1>1, NotReturning DEF Held, TxHeld, ReqPCs
<1>3. \A p \in Reqs : reqs[p].holder # t
  BY <1>1, NoReqHeld
<1>4. /\ tx'[t].pc = "commit" /\ tx'[t].ride = r /\ tx'[t].req = q
      /\ tx'[t].seen # "accepted" /\ tx'[t].at <= clock'
  BY <1>1, <1>2, NoteFields DEF Held, TxHeld
<1>5. /\ SamePhase(rides[r].committed, rides[r].written)
      /\ OneSeatTaken(rides[r].committed, rides[r].written)
      /\ \A s \in Rides : rides[s].holder = t => s = r
  BY <1>1, <1>2 DEF RideHeld, Held, CallOffPCs, SweepPCs
<1>6. ASSUME NEW s \in Rides, rides'[s].holder = t PROVE RideHeld(t, s)'
  <2>1. s = r
    BY <1>1, <1>5, <1>6
  <2> QED
    BY <1>1, <1>2, <1>4, <1>5, <2>1 DEF RideHeld
<1>7. TxHeld(t)'
  BY <1>4, PlainTx DEF ReqPCs, CallOffPCs
<1>8. \A p \in Reqs : reqs'[p].holder = t => ReqHeld(t, p)'
  <2>1. CASE WriteReq(t, q, [v EXCEPT !.status = "accepted"])
    <3> DEFINE w == [v EXCEPT !.status = "accepted"]
    <3>1. w.ride = r
      BY <1>1, <1>2, <1>3 DEF Request, ReqSeen, View
    <3> HIDE DEF w
    <3>2. /\ reqs'[q].written = w
          /\ \A p \in Reqs : reqs'[p].holder = t => p = q
      BY <1>1, <1>3, <2>1, WrittenReq DEF w
    <3>3. ASSUME NEW p \in Reqs, reqs'[p].holder = t PROVE ReqHeld(t, p)'
      <4>1. p = q
        BY <3>2, <3>3
      <4> QED
        BY <1>1, <1>2, <1>4, <1>5, <3>1, <3>2, <4>1 DEF ReqHeld
    <3> QED
      BY <3>3
  <2>2. CASE reqs' = reqs
    BY <1>3, <2>2
  <2> QED
    BY <2>1, <2>2 DEF Accept_Req
<1> QED
  BY <1>6, <1>7, <1>8 DEF Held

LEMMA LeaveReqHeld ==
  ASSUME Inv, NEW t \in Tx, Held(t), Leave_Req(t)
  PROVE  Held(t)'
<1> DEFINE q == tx[t].req
           v == ReqSeen(t, q)
           w == [v EXCEPT !.status = "cancelled"]
<1>1. /\ q \in Reqs /\ v \in Request /\ reqs[q].committed \in Request
      /\ tx[t].pc = "leave.req" /\ rides' = rides /\ clock' = clock
      /\ Goto(t, AfterLeave(t))
  BY NamedReq DEF Leave_Req, ReqPCs, Inv, TxInv
<1>2. \A r \in Rides : rides[r].holder # t
  BY <1>1, NoRideHeld DEF CallOffPCs, SweepPCs
<1>3. \A p \in Reqs : reqs[p].holder # t
  BY <1>1, NoReqHeld
<1>4. /\ tx'[t].pc = AfterLeave(t) /\ tx'[t].ride = tx[t].ride /\ tx'[t].req = q
      /\ tx'[t].seen = tx[t].seen /\ tx'[t].user = tx[t].user /\ tx'[t].at = tx[t].at
  BY <1>1, GotoFields
<1>5. w.status = "cancelled"
  BY <1>1 DEF Request
<1>6. /\ reqs'[q].committed = reqs[q].committed
      /\ \A p \in Reqs : reqs'[p].holder = t => p = q /\ reqs'[p].written.status = "cancelled"
      /\ ReqSeen(t, q)'.status \notin LiveReq
  <2>1. CASE WriteReq(t, q, w)
    <3> HIDE DEF w
    <3>1. /\ reqs'[q].committed = reqs[q].committed
          /\ reqs'[q].written = w /\ reqs'[q].holder = t
          /\ \A p \in Reqs : reqs'[p].holder = t => p = q
      BY <1>1, <1>3, <2>1, WrittenReq
    <3>2. reqs'[q].written.status \notin LiveReq
      BY <1>5, <3>1 DEF LiveReq
    <3>3. ReqSeen(t, q)'.status \notin LiveReq
      BY <1>4, <3>1, <3>2 DEF ReqSeen, View
    <3> QED
      BY <1>5, <3>1, <3>3
  <2>2. CASE v.status \notin LiveReq /\ reqs' = reqs
    <3>1. ReqSeen(t, q)' = v
      BY <1>4, <2>2 DEF ReqSeen, View
    <3> QED
      BY <1>3, <2>2, <3>1
  <2> QED
    BY <2>1, <2>2 DEF Leave_Req
<1>7. ASSUME NEW p \in Reqs, reqs'[p].holder = t PROVE ReqHeld(t, p)'
  <2>1. p = q /\ reqs'[p].written.status # "accepted"
    BY <1>6, <1>7
  <2>2. tx'[t].pc = "leave.ride" \/ tx'[t].pc = "commit"
    BY <1>4 DEF AfterLeave
  <2> QED
    BY <1>1, <1>2, <1>4, <1>6, <2>1, <2>2 DEF ReqHeld
<1>8. TxHeld(t)'
  <2>1. tx'[t].seen = "accepted" => LeaveHeld(t)'
    BY <1>1, <1>4, <1>6 DEF Held, TxHeld, LeaveHeld, AfterLeave
  <2>2. tx'[t].pc \in ReqPCs => FALSE
    BY <1>4 DEF AfterLeave, ReqPCs
  <2> QED
    BY <1>1, <1>4, <2>1, <2>2 DEF Held, TxHeld, AfterLeave, CallOffPCs
<1> QED
  BY <1>1, <1>2, <1>7, <1>8 DEF Held

LEMMA LeaveRideHeld ==
  ASSUME Inv, NEW t \in Tx, Held(t), Leave_Ride(t)
  PROVE  Held(t)'
<1> DEFINE r == tx[t].ride
           p == RideSeen(t, r)
           w == SeatReturned(p)
<1>1. /\ r \in Rides /\ rides[r].committed \in GoodRide /\ tx[t].pc = "leave.ride"
      /\ WriteRide(t, r, w) /\ Goto(t, "commit") /\ reqs' = reqs /\ clock' = clock
  BY DEF Inv, TxInv, RidePCs, Leave_Ride
<1>2. \A s \in Rides : rides[s].holder # t
  BY <1>1, NoRideHeld DEF CallOffPCs, SweepPCs
<1>3. p = rides[r].committed /\ p \in GoodRide
  BY <1>1, <1>2 DEF RideSeen, View
<1>4. SamePhase(p, w) /\ w.total = p.total /\ w.available <= p.available + 1
  BY <1>3, ReturnedPhase
<1>5. /\ tx'[t].pc = "commit" /\ tx'[t].ride = r /\ tx'[t].req = tx[t].req
      /\ tx'[t].seen = "accepted" /\ tx'[t].user = tx[t].user /\ tx'[t].at = tx[t].at
  BY <1>1, GotoFields DEF Held, TxHeld
<1> HIDE DEF w
<1>6. /\ rides'[r].committed = p /\ rides'[r].written = w
      /\ \A s \in Rides : rides'[s].holder = t => s = r
  BY <1>1, <1>2, <1>3, WrittenRide
<1>8. ASSUME NEW s \in Rides, rides'[s].holder = t PROVE RideHeld(t, s)'
  <2>1. s = r
    BY <1>6, <1>8
  <2> QED
    BY <1>3, <1>4, <1>5, <1>6, <2>1 DEF RideHeld
<1>9. ASSUME NEW q \in Reqs, reqs'[q].holder = t PROVE ReqHeld(t, q)'
  <2>1. /\ \A b \in Reqs : reqs[b].holder = t => b = tx[t].req
        /\ reqs[q].written.status # "accepted" /\ reqs[q].holder = t
    BY <1>1, <1>9 DEF Held, ReqHeld
  <2>2. \A s \in Rides : rides'[s].holder = t
          => SamePhase(rides'[s].committed, rides'[s].written)
    BY <1>4, <1>6
  <2> QED
    BY <1>1, <1>5, <2>1, <2>2 DEF ReqHeld
<1>10. TxHeld(t)'
  BY <1>1, <1>5 DEF Held, TxHeld, LeaveHeld, ReqPCs, CallOffPCs, ReqSeen, View
<1> QED
  BY <1>8, <1>9, <1>10 DEF Held

(* A running call-off holds its ride and no other.                         *)
LEMMA CallOffRides ==
  ASSUME Inv, NEW t \in Tx, Held(t), tx[t].pc \in CallOffPCs,
         rides' = rides, tx'[t].pc \in CallOffPCs, tx'[t].ride = tx[t].ride
  PROVE  /\ \A r \in Rides : rides'[r].holder = t => RideHeld(t, r)'
         /\ tx[t].ride \in Rides /\ rides[tx[t].ride].holder = t
<1>1. tx[t].ride \in Rides /\ rides[tx[t].ride].holder = t
  BY DEF Held, TxHeld, CallOffHeld, Inv, TxInv, RidePCs, CallOffPCs
<1>2. ASSUME NEW r \in Rides, rides'[r].holder = t PROVE RideHeld(t, r)'
  <2>1. RideHeld(t, r) /\ rides[r].holder = t
    BY <1>2 DEF Held
  <2>2. /\ tx[t].pc \notin SweepPCs /\ tx[t].pc # "commit" /\ tx[t].pc # "accept.req"
        /\ tx[t].pc # "sweep.spawning"
    BY DEF CallOffPCs, SweepPCs
  <2>3. /\ r = tx[t].ride /\ CalledOff(rides[r].committed, rides[r].written)
        /\ rides[r].committed \in GoodRide
              => /\ rides[r].written.total = rides[r].committed.total
                 /\ rides[r].written.available <= rides[r].committed.available
    BY <2>1, <2>2 DEF RideHeld
  <2> QED
    BY <2>3 DEF RideHeld
<1> QED
  BY <1>1, <1>2

LEMMA CallOffRidersHeld ==
  ASSUME Inv, NEW t \in Tx, Held(t), CallOff_Riders(t)
  PROVE  Held(t)'
<1> DEFINE r == tx[t].ride
           out == {Note(ReqSeen(t, q).passenger, "cancelled", r) : q \in LiveOn(t, r)}
<1>1. /\ tx[t].pc = "callOff.riders" /\ UNCHANGED <<rides, reqs, clock>>
      /\ tx' = [tx EXCEPT ![t].pc = "callOff.snapshot", ![t].out = out]
  BY DEF CallOff_Riders
<1>2. /\ \A q \in Reqs : reqs[q].holder # t
      /\ tx[t].seen # "accepted"
  BY <1>1, NoReqHeld, NotReturning
<1>3. /\ tx'[t].pc = "callOff.snapshot" /\ tx'[t].ride = r /\ tx'[t].out = out
      /\ tx'[t].seen = tx[t].seen /\ tx'[t].at = tx[t].at
  <2> HIDE DEF out
  <2>1. tx[t] \in Transaction /\ tx'[t] = [tx[t] EXCEPT !.pc = "callOff.snapshot", !.out = out]
    BY <1>1 DEF Inv
  <2> QED
    BY <2>1 DEF Transaction
<1>4. /\ \A s \in Rides : rides'[s].holder = t => RideHeld(t, s)'
      /\ r \in Rides /\ rides[r].holder = t
  BY <1>1, <1>3, CallOffRides DEF CallOffPCs
<1>5. \A q \in Reqs : RiderOf(q, r) => Note(reqs[q].committed.passenger, "cancelled", r) \in out
  <2> SUFFICES ASSUME NEW q \in Reqs, RiderOf(q, r)
               PROVE  Note(reqs[q].committed.passenger, "cancelled", r) \in out
    OBVIOUS
  <2>1. ReqSeen(t, q) = reqs[q].committed
    BY <1>2 DEF ReqSeen, View
  <2>2. q \in LiveOn(t, r)
    BY <2>1 DEF LiveOn, RiderOf, LiveReq
  <2> QED
    BY <2>1, <2>2
<1> HIDE DEF out
<1>6. TxHeld(t)'
  BY <1>1, <1>2, <1>3, <1>4, <1>5 DEF TxHeld, CallOffHeld, RiderOf, Held, ReqPCs
<1> QED
  BY <1>1, <1>2, <1>4, <1>6 DEF Held

LEMMA CallOffSnapshotHeld ==
  ASSUME Inv, NEW t \in Tx, Held(t), CallOff_Snapshot(t)
  PROVE  Held(t)'
<1> DEFINE r == tx[t].ride
           todo == LiveOn(t, r)
<1>1. /\ tx[t].pc = "callOff.snapshot" /\ UNCHANGED <<rides, reqs, clock>>
      /\ tx' = [tx EXCEPT ![t].pc = "callOff.reqs", ![t].todo = todo]
  BY DEF CallOff_Snapshot
<1>2. /\ \A q \in Reqs : reqs[q].holder # t
      /\ tx[t].seen # "accepted"
  BY <1>1, NoReqHeld, NotReturning
<1>3. \A q \in Reqs : ReqSeen(t, q) = reqs[q].committed /\ ReqSeen(t, q)' = ReqSeen(t, q)
  BY <1>1, <1>2 DEF ReqSeen, View
<1>4. /\ \A q \in todo : ReqSeen(t, q)'.ride = r
      /\ \A q \in Reqs : RiderOf(q, r) => q \in todo
  BY <1>3 DEF LiveOn, RiderOf, LiveReq
<1> HIDE DEF todo
<1>5. /\ tx'[t].pc = "callOff.reqs" /\ tx'[t].ride = r /\ tx'[t].todo = todo
      /\ tx'[t].out = tx[t].out /\ tx'[t].seen = tx[t].seen /\ tx'[t].at = tx[t].at
  <2>1. tx[t] \in Transaction /\ tx'[t] = [tx[t] EXCEPT !.pc = "callOff.reqs", !.todo = todo]
    BY <1>1 DEF Inv
  <2> QED
    BY <2>1 DEF Transaction
<1>6. /\ \A s \in Rides : rides'[s].holder = t => RideHeld(t, s)'
      /\ r \in Rides /\ rides[r].holder = t
  BY <1>1, <1>5, CallOffRides DEF CallOffPCs
<1>7. \A q \in Reqs : RiderOf(q, r)
        => Note(reqs[q].committed.passenger, "cancelled", r) \in tx[t].out
  BY <1>1 DEF Held, TxHeld, CallOffHeld, CallOffPCs
<1>8. CallOffHeld(t)'
  BY <1>1, <1>4, <1>5, <1>6, <1>7 DEF CallOffHeld, RiderOf
<1>9. TxHeld(t)'
  BY <1>1, <1>2, <1>5, <1>8 DEF TxHeld, Held, ReqPCs
<1> QED
  BY <1>1, <1>2, <1>6, <1>9 DEF Held

LEMMA CallOffReqHeld ==
  ASSUME Inv, NEW t \in Tx, Held(t), CallOff_Req(t)
  PROVE  Held(t)'
<1>1. PICK q \in tx[t].todo :
        /\ \/ WriteReq(t, q, [ReqSeen(t, q) EXCEPT !.status = "cancelled"])
           \/ ReqSeen(t, q).status \notin LiveReq /\ UNCHANGED reqs
        /\ tx' = [tx EXCEPT ![t].todo = @ \ {q}]
        /\ UNCHANGED <<rides, clock>>
  BY DEF CallOff_Req
<1> DEFINE r == tx[t].ride
           v == ReqSeen(t, q)
           w == [v EXCEPT !.status = "cancelled"]
<1>2. /\ tx[t].pc = "callOff.reqs" /\ tx[t].seen # "accepted" /\ CallOffHeld(t)
      /\ q \in Reqs /\ v \in Request /\ v.ride = r
  BY NotReturning DEF CallOff_Req, Inv, TxInv, Held, TxHeld, CallOffPCs, CallOffHeld
<1>3. /\ tx'[t].pc = "callOff.reqs" /\ tx'[t].ride = r /\ tx'[t].todo = tx[t].todo \ {q}
      /\ tx'[t].out = tx[t].out /\ tx'[t].seen = tx[t].seen /\ tx'[t].at = tx[t].at
  <2>1. tx[t] \in Transaction /\ tx'[t] = [tx[t] EXCEPT !.todo = @ \ {q}]
    BY <1>1 DEF Inv
  <2> QED
    BY <1>2, <2>1 DEF Transaction
<1>4. /\ \A s \in Rides : rides'[s].holder = t => RideHeld(t, s)'
      /\ r \in Rides /\ rides[r].holder = t
  BY <1>1, <1>2, <1>3, CallOffRides DEF CallOffPCs
<1>5. w.ride = r /\ w.status = "cancelled"
  BY <1>2 DEF Request
<1>6. /\ \A p \in Reqs : reqs'[p].committed = reqs[p].committed
      /\ \A p \in Reqs : reqs[p].holder = t => reqs'[p].holder = t
      /\ RiderOf(q, r) => reqs'[q].holder = t
      /\ \A p \in Reqs : reqs'[p].holder = t
           => reqs'[p].written.ride = r /\ reqs'[p].written.status = "cancelled"
      /\ \A p \in tx[t].todo : ReqSeen(t, p)'.ride = r
  <2>1. \A p \in Reqs : reqs[p].holder = t
           => reqs[p].written.ride = r /\ reqs[p].written.status = "cancelled"
    BY <1>2 DEF Held, ReqHeld
  <2>2. \A p \in tx[t].todo : p \in Reqs /\ ReqSeen(t, p).ride = r
    BY <1>2 DEF Inv, TxInv, CallOffHeld
  <2>3. CASE WriteReq(t, q, w)
    <3> HIDE DEF w
    <3>1. /\ reqs'[q].committed = reqs[q].committed
          /\ reqs'[q].written = w /\ reqs'[q].holder = t
          /\ \A p \in Reqs : p # q => reqs'[p] = reqs[p]
      BY <1>2, <2>3, WrittenReq
    <3> QED
      BY <1>5, <2>1, <2>2, <3>1 DEF ReqSeen, View
  <2>4. CASE v.status \notin LiveReq /\ UNCHANGED reqs
    <3>1. RiderOf(q, r) => reqs[q].holder = t
      BY <2>4 DEF ReqSeen, View, RiderOf, LiveReq
    <3> QED
      BY <2>1, <2>2, <2>4, <3>1 DEF ReqSeen, View
  <2> QED
    BY <1>1, <2>3, <2>4
<1>7. CallOffHeld(t)'
  <2>1. \A p \in Reqs : RiderOf(p, r)' => RiderOf(p, r)
    BY <1>3, <1>6 DEF RiderOf
  <2>2. \A p \in Reqs : RiderOf(p, r) => p \in tx'[t].todo \/ reqs'[p].holder = t
    BY <1>2, <1>3, <1>6 DEF CallOffHeld
  <2>3. \A p \in Reqs : RiderOf(p, r)
          => Note(reqs'[p].committed.passenger, "cancelled", r) \in tx'[t].out
    BY <1>2, <1>3, <1>6 DEF CallOffHeld
  <2>4. rides'[r].holder = t
    BY <1>1, <1>4
  <2> QED
    BY <1>3, <1>6, <2>1, <2>2, <2>3, <2>4 DEF CallOffHeld, RiderOf
<1>8. TxHeld(t)'
  BY <1>1, <1>2, <1>3, <1>7 DEF TxHeld, Held, ReqPCs
<1>9. ASSUME NEW p \in Reqs, reqs'[p].holder = t PROVE ReqHeld(t, p)'
  <2>1. reqs'[p].written.ride = r /\ reqs'[p].written.status = "cancelled"
    BY <1>6, <1>9
  <2> QED
    BY <1>3, <2>1 DEF ReqHeld
<1> QED
  BY <1>4, <1>8, <1>9 DEF Held

(* A sweep turns to the next set of rides, with the rides it has ended.    *)
LEMMA ScanHeld ==
  ASSUME Inv, NEW t \in Tx, Held(t), NEW pc \in SweepPCs, NEW S,
         tx[t].pc \in {"sweep.complete", "sweep.completing", "sweep.expiring"},
         Scan(t, pc, S), UNCHANGED <<rides, reqs, clock>>
  PROVE  Held(t)'
<1>1. /\ tx'[t].pc = pc /\ tx'[t].seen = tx[t].seen /\ tx'[t].at = tx[t].at
  <2>1. tx[t] \in Transaction /\ tx'[t] = [tx[t] EXCEPT !.pc = pc, !.todo = S]
    BY DEF Inv, Scan
  <2> QED
    BY <2>1 DEF Transaction
<1>2. /\ \A q \in Reqs : reqs[q].holder # t
      /\ tx[t].seen # "accepted"
  BY NoReqHeld, NotReturning
<1>3. TxHeld(t)'
  BY <1>1, <1>2, PlainTx DEF Held, TxHeld, ReqPCs, CallOffPCs, SweepPCs
<1>4. ASSUME NEW r \in Rides, rides'[r].holder = t PROVE RideHeld(t, r)'
  <2>1. RideHeld(t, r)
    BY <1>4 DEF Held
  <2>2. /\ PastWindow(rides[r].committed, rides[r].written)
        /\ rides[r].committed \in GoodRide
              => /\ rides[r].written.total = rides[r].committed.total
                 /\ rides[r].written.available <= rides[r].committed.available
    BY <2>1 DEF RideHeld, CallOffPCs
  <2> QED
    BY <1>1, <2>2 DEF RideHeld, PastWindow
<1> QED
  BY <1>2, <1>3, <1>4 DEF Held

LEMMA SweepScansHeld ==
  ASSUME Inv, NEW t \in Tx, Held(t), Sweep_Complete(t) \/ Sweep_Expire(t) \/ Sweep_Ended(t)
  PROVE  Held(t)'
<1>1. CASE Sweep_Complete(t)
  BY <1>1, ScanHeld DEF Sweep_Complete, SweepPCs
<1>2. CASE Sweep_Expire(t)
  BY <1>2, ScanHeld DEF Sweep_Expire, SweepPCs
<1>3. CASE Sweep_Ended(t)
  BY <1>3, ScanHeld DEF Sweep_Ended, SweepPCs
<1> QED
  BY <1>1, <1>2, <1>3

(* A sweep deals with one ride, and keeps the others.                      *)
LEMMA VisitedFields ==
  ASSUME Inv, NEW t \in Tx, NEW r, tx' = [tx EXCEPT ![t].todo = @ \ {r}]
  PROVE  tx'[t].pc = tx[t].pc /\ tx'[t].seen = tx[t].seen /\ tx'[t].at = tx[t].at
<1>1. tx[t] \in Transaction /\ tx'[t] = [tx[t] EXCEPT !.todo = @ \ {r}]
  BY DEF Inv
<1> QED
  BY <1>1 DEF Transaction

LEMMA VisitHeld ==
  ASSUME Inv, NEW t \in Tx, Held(t), tx[t].pc \in SweepPCs, NEW r,
         tx' = [tx EXCEPT ![t].todo = @ \ {r}], UNCHANGED <<reqs, clock>>,
         \A s \in Rides : rides'[s].holder = t => rides'[s] = rides[s] \/ RideHeld(t, s)'
  PROVE  Held(t)'
<1>1. /\ tx'[t].pc = tx[t].pc /\ tx'[t].seen = tx[t].seen /\ tx'[t].at = tx[t].at
  BY VisitedFields
<1>2. /\ \A q \in Reqs : reqs[q].holder # t
      /\ tx[t].seen # "accepted"
  BY NoReqHeld, NotReturning DEF SweepPCs
<1>3. TxHeld(t)'
  BY <1>1, <1>2, PlainTx DEF Held, TxHeld, ReqPCs, CallOffPCs, SweepPCs
<1>4. ASSUME NEW s \in Rides, rides'[s].holder = t, rides'[s] = rides[s]
      PROVE  RideHeld(t, s)'
  <2>1. RideHeld(t, s)
    BY <1>4 DEF Held
  <2>2. /\ tx[t].pc # "accept.req" /\ tx[t].pc \notin CallOffPCs /\ tx[t].pc # "commit"
        /\ rides[s].holder = t
    BY <1>4 DEF CallOffPCs, SweepPCs
  <2>3. rides'[s].committed = rides[s].committed /\ rides'[s].written = rides[s].written
    BY <1>4
  <2>4. /\ \/ PastWindow(rides[s].committed, rides[s].written)
           \/ tx[t].pc = "sweep.spawning" /\ NewOffer(rides[s].committed, rides[s].written)
        /\ rides[s].committed \in GoodRide
              => /\ rides[s].written.total = rides[s].committed.total
                 /\ rides[s].written.available <= rides[s].committed.available
    BY <2>1, <2>2 DEF RideHeld
  <2>5. CASE PastWindow(rides[s].committed, rides[s].written)
    <3>1. PastWindow(rides[s].committed, rides[s].written)'
      BY <2>3, <2>5 DEF PastWindow
    <3> QED
      BY <1>1, <2>3, <2>4, <3>1 DEF RideHeld
  <2>6. CASE tx[t].pc = "sweep.spawning" /\ NewOffer(rides[s].committed, rides[s].written)
    BY <1>1, <2>3, <2>4, <2>6 DEF RideHeld, NewOffer
  <2> QED
    BY <2>4, <2>5, <2>6
<1> QED
  BY <1>2, <1>3, <1>4 DEF Held

LEMMA SweepEndRowHeld ==
  ASSUME Inv, NEW t \in Tx, Held(t), Sweep_EndRow(t)
  PROVE  Held(t)'
<1> DEFINE e == SweepOutcome(tx[t].pc)
<1>1. PICK r \in tx[t].todo :
        /\ \/ /\ Due(RideSeen(t, r), tx[t].at)
              /\ WriteRide(t, r, [RideSeen(t, r) EXCEPT !.status = e])
           \/ UNCHANGED rides
        /\ tx' = [tx EXCEPT ![t].todo = @ \ {r}]
        /\ UNCHANGED <<reqs, clock>>
  BY DEF Sweep_EndRow
<1> DEFINE p == RideSeen(t, r)
<1>2. /\ tx[t].pc \in {"sweep.completing", "sweep.expiring"} /\ tx[t].pc \in SweepPCs
      /\ r \in Rides /\ p \in GoodRide /\ tx[t].at <= clock /\ tx[t].at \in Nat
  BY DEF Inv, TxInv, SweepPCs, Sweep_EndRow, Held, TxHeld, Transaction
<1>3. CASE /\ Due(p, tx[t].at)
           /\ WriteRide(t, r, [p EXCEPT !.status = e])
  <2> DEFINE w == [p EXCEPT !.status = e]
  <2>1. p.status \in OpenRide /\ ~p.removed /\ p.depart + CompleteAfter <= tx[t].at
    BY <1>3 DEF Due
  <2>2. e \in {"completed", "expired"} /\ e \in RideStatus \ OpenRide
    BY DEF SweepOutcome, RideStatus, OpenRide
  <2>3. /\ w.status = e /\ ~w.removed /\ w.depart = p.depart
        /\ w.total = p.total /\ w.available = p.available
    BY <1>2, <2>1, <2>2, EndedPhase
  <2>4. rides[r].holder # t
    <3> SUFFICES ASSUME rides[r].holder = t PROVE FALSE
      OBVIOUS
    <3>1. RideHeld(t, r) /\ p = rides[r].written
      BY <1>2 DEF Held, RideSeen, View
    <3>2. p.status \in {"completed", "expired"}
      BY <1>2, <3>1 DEF RideHeld, PastWindow, CallOffPCs
    <3> QED
      BY <2>1, <3>2 DEF OpenRide
  <2>5. p = rides[r].committed
    BY <2>4 DEF RideSeen, View
  <2>6. p.depart \in Nat /\ p.available \in Nat /\ CompleteAfter \in Nat /\ clock \in Nat
    BY <1>2, TimeAssumption DEF GoodRide, Ride, Inv
  <2> HIDE DEF w, e
  <2>7. /\ rides'[r].committed = p /\ rides'[r].written = w
        /\ \A s \in Rides : s # r => rides'[s] = rides[s]
    BY <1>2, <1>3, <2>5, WrittenRide DEF w
  <2>8. tx'[t].pc = tx[t].pc /\ clock' = clock
    BY <1>1, VisitedFields
  <2>9. RideHeld(t, r)'
    <3>1. w.depart + CompleteAfter <= clock' /\ w.available <= p.available
      BY <1>2, <2>1, <2>3, <2>6, <2>8
    <3>2. PastWindow(rides[r].committed, rides[r].written)'
      BY <2>1, <2>2, <2>3, <2>7, <1>2, <3>1 DEF PastWindow
    <3> QED
      BY <1>2, <2>3, <2>7, <2>8, <3>1, <3>2 DEF RideHeld
  <2>10. \A s \in Rides : rides'[s].holder = t => rides'[s] = rides[s] \/ RideHeld(t, s)'
    BY <2>7, <2>9
  <2> QED
    BY <1>1, <1>2, <2>10, VisitHeld
<1>4. CASE UNCHANGED rides
  BY <1>1, <1>2, <1>4, VisitHeld
<1> QED
  BY <1>1, <1>3, <1>4

LEMMA SweepSpawnHeld ==
  ASSUME Inv, NEW t \in Tx, Held(t), Sweep_Spawn(t)
  PROVE  Held(t)'
<1>1. PICK r \in tx[t].todo :
        /\ \/ \E n \in Issued(rides, Rides) :
                WriteRide(t, n, Offer(RideSeen(t, r).author, RideSeen(t, r).total,
                                      NextSlot(RideSeen(t, r), tx[t].at), TRUE,
                                      RootOf(RideSeen(t, r), r)))
           \/ UNCHANGED rides
        /\ tx' = [tx EXCEPT ![t].todo = @ \ {r}]
        /\ UNCHANGED <<reqs, clock>>
  BY DEF Sweep_Spawn
<1> DEFINE p == RideSeen(t, r)
           o == Offer(p.author, p.total, NextSlot(p, tx[t].at), TRUE, RootOf(p, r))
<1>2. tx[t].pc = "sweep.spawning" /\ tx[t].pc \in SweepPCs
  BY DEF Sweep_Spawn, SweepPCs
<1>3. o.status = "active" /\ ~o.removed
  BY DEF Offer
<1>4. CASE UNCHANGED rides
  BY <1>1, <1>2, <1>4, VisitHeld
<1>5. CASE \E n \in Issued(rides, Rides) : WriteRide(t, n, o)
  <2> HIDE DEF o
  <2>1. PICK n \in Issued(rides, Rides) : WriteRide(t, n, o)
    BY <1>5
  <2>2. n \in Rides /\ rides[n].committed = Absent /\ Absent \notin GoodRide
    BY AbsentAssumption DEF Issued, Fresh, Stored, GoodRide
  <2>3. /\ rides'[n].committed = Absent /\ rides'[n].written = o
        /\ \A s \in Rides : s # n => rides'[s] = rides[s]
    BY <2>1, <2>2, WrittenRide
  <2>4. tx'[t].pc = "sweep.spawning"
    BY <1>1, <1>2, VisitedFields
  <2>5. RideHeld(t, n)'
    BY <1>3, <2>2, <2>3, <2>4 DEF RideHeld, NewOffer
  <2>6. \A s \in Rides : rides'[s].holder = t => rides'[s] = rides[s] \/ RideHeld(t, s)'
    BY <2>3, <2>5
  <2> QED
    BY <1>1, <1>2, <2>6, VisitHeld
<1> QED
  BY <1>1, <1>4, <1>5

LEMMA EndHeld ==
  ASSUME Inv, NEW t \in Tx, Held(t),
         Commit(t) \/ Abort(t) \/ DeadlockVictim(t) \/ Request_Duplicate(t)
  PROVE  Held(t)'
<1>1. Return(t) /\ clock' = clock
  BY DEF Commit, Abort, DeadlockVictim, Request_Duplicate, Rollback
<1>2. (\A r \in Rides : rides'[r].holder # t) /\ (\A q \in Reqs : reqs'[q].holder # t)
  <2>1. CASE Rollback(t)
    BY <2>1, NoTxAssumption DEF Rollback, Restored, Stored
  <2>2. CASE Commit(t)
    BY <2>2, NoTxAssumption DEF Commit, Published, Stored
  <2> QED
    BY <2>1, <2>2 DEF Abort, DeadlockVictim, Request_Duplicate
<1> QED
  BY <1>1, <1>2, ReturnHeld

-----------------------------------------------------------------------------
(* What the running transactions hold is an invariant.                     *)

LEMMA ActionHeld ==
  ASSUME Inv, NEW t \in Tx, Held(t), Arrival(t) \/ Run(t) \/ Abort(t)
  PROVE  Held(t)' /\ clock' = clock
<1>1. clock' = clock
  BY Zenon
     DEF Arrival, Run, Statement, Abort, Rollback, Commit, DeadlockVictim, Create_Insert,
     Edit_Ride, CallOff_Ride, Remove_Ride, Request_Ride, Accept_Read, Decline_Req,
     Leave_Read, Sweep_Start, Request_Live, Request_Insert, Request_Duplicate,
     Accept_Ride, Accept_Req, Leave_Req, Leave_Ride, CallOff_Riders, CallOff_Snapshot,
     CallOff_Req, Sweep_Complete, Sweep_EndRow, Sweep_Expire, Sweep_Ended, Sweep_Spawn
<1>2. CASE Arrival(t)
  BY <1>1, <1>2, CreateHeld, EditHeld, CallOffRideHeld, RemoveHeld, RequestRideHeld,
     AcceptReadHeld, DeclineHeld, LeaveReadHeld, SweepStartHeld DEF Arrival
<1>3. CASE Statement(t)
  BY <1>1, <1>3, RequestLiveHeld, RequestInsertHeld, EndHeld, AcceptRideHeld, AcceptReqHeld,
     LeaveReqHeld, LeaveRideHeld, CallOffRidersHeld, CallOffSnapshotHeld,
     CallOffReqHeld, SweepScansHeld, SweepEndRowHeld, SweepSpawnHeld DEF Statement
<1>4. CASE Commit(t) \/ DeadlockVictim(t) \/ Abort(t)
  <2>1. Commit(t) \/ Abort(t) \/ DeadlockVictim(t) \/ Request_Duplicate(t)
    BY <1>4
  <2> QED
    BY <1>1, <2>1, EndHeld
<1> QED
  BY <1>1, <1>2, <1>3, <1>4, Zenon DEF Run

LEMMA TransactionHeld ==
  ASSUME Inv, HeldInv, NEW t \in Tx, Arrival(t) \/ Run(t) \/ Abort(t)
  PROVE  HeldInv'
<1> SUFFICES ASSUME NEW s \in Tx PROVE Held(s)'
  BY DEF HeldInv
<1>1. Held(t)' /\ clock' = clock /\ StepOK(t)
  BY ActionHeld, TransactionStep DEF HeldInv
<1>2. CASE s = t
  BY <1>1, <1>2
<1>3. CASE s # t
  BY <1>1, <1>3, OthersHeld DEF HeldInv
<1> QED
  BY <1>2, <1>3

(* Time passes: a ride past its window stays past it.                      *)
LEMMA QuietHeld ==
  ASSUME Inv, HeldInv, UNCHANGED <<rides, reqs, tx>>, clock' \in Nat, clock <= clock'
  PROVE  HeldInv'
<1> SUFFICES ASSUME NEW t \in Tx PROVE Held(t)'
  BY DEF HeldInv
<1>1. Held(t)
  BY DEF HeldInv
<1>2. ASSUME NEW r \in Rides, rides'[r].holder = t PROVE RideHeld(t, r)'
  <2>1. RideHeld(t, r) /\ rides[r].holder = t
    BY <1>1, <1>2 DEF Held
  <2>2. PastWindow(rides[r].committed, rides[r].written)
          => PastWindow(rides[r].committed, rides[r].written)'
    <3> SUFFICES ASSUME PastWindow(rides[r].committed, rides[r].written)
                 PROVE  rides[r].written.depart + CompleteAfter <= clock'
      BY DEF PastWindow
    <3>1. rides[r].written.depart \in Nat /\ CompleteAfter \in Nat /\ clock \in Nat
      BY <2>1, WrittenTyped, TimeAssumption DEF GoodRide, Ride, Inv
    <3> QED
      BY <3>1 DEF PastWindow
  <2> QED
    BY <2>1, <2>2 DEF RideHeld
<1>3. ASSUME NEW q \in Reqs, reqs'[q].holder = t PROVE ReqHeld(t, q)'
  BY <1>1, <1>3 DEF Held, ReqHeld
<1>4. TxHeld(t)'
  <2>1. tx[t].at \in Nat /\ clock \in Nat
    BY DEF Inv, Transaction
  <2> QED
    BY <1>1, <2>1 DEF Held, TxHeld, CallOffHeld, LeaveHeld, RiderOf, ReqSeen, View
<1> QED
  BY <1>2, <1>3, <1>4 DEF Held

LEMMA InitHeld == Init => HeldInv
<1> SUFFICES ASSUME Init, NEW t \in Tx PROVE Held(t)
  BY DEF HeldInv
<1>1. /\ \A r \in Rides : rides[r].holder # t
      /\ \A q \in Reqs : reqs[q].holder # t
  BY NoTxAssumption DEF Init, Stored
<1>2. tx[t].pc = "idle" /\ tx[t].seen # "accepted" /\ tx[t].at = 0 /\ clock = 0
  BY NothingAssumption DEF Init, Idle, LiveReq
<1>3. TxHeld(t)
  BY <1>2 DEF TxHeld, ReqPCs, CallOffPCs
<1> QED
  BY <1>1, <1>3 DEF Held

LEMMA NextHeld == Inv /\ HeldInv /\ [Next]_vars => HeldInv'
<1> SUFFICES ASSUME Inv, HeldInv, [Next]_vars PROVE HeldInv'
  OBVIOUS
<1>1. CASE Tick
  BY <1>1, QuietHeld DEF Tick, Inv
<1>2. CASE \E t \in Tx : Arrival(t) \/ Run(t) \/ Abort(t)
  BY <1>2, TransactionHeld
<1>3. CASE UNCHANGED vars
  <2>1. UNCHANGED <<rides, reqs, tx>> /\ clock' \in Nat /\ clock <= clock'
    BY <1>3 DEF vars, Inv
  <2> QED
    BY <2>1, QuietHeld
<1> QED
  BY <1>1, <1>2, <1>3 DEF Next

(* In every reachable state, each row a running transaction has written is *)
(* the one its next statement is about, changed as its commit will show.   *)
THEOREM HeldInvariance == Spec => []HeldInv
  BY InitHeld, NextHeld, Invariance, PTL DEF Spec

-----------------------------------------------------------------------------
(* What the commits do.                                                    *)

(* A committed ride that changes is one the committing transaction holds.  *)
LEMMA RideCommits ==
  ASSUME Inv, HeldInv, [Next]_vars, NEW r \in Rides,
         rides'[r].committed # rides[r].committed
  PROVE  \E t \in Tx : /\ rides[r].holder = t /\ RideHeld(t, r)
                       /\ rides'[r].committed = rides[r].written
                       /\ rides[r].written \in GoodRide
<1>1. UNCHANGED <<rides, reqs>> \/ \E t \in Tx : StepOK(t)
  BY TransactionStep DEF Next, Tick, vars
<1>2. PICK t \in Tx : StepOK(t)
  BY <1>1
<1>3. RowChange(rides[r], rides'[r], t, GoodRide, RideMoves)
  BY <1>2 DEF StepOK, RidesStep
<1>4. rides[r].holder = t /\ rides'[r].committed = rides[r].written
  BY <1>3, ChangeCases
<1> QED
  BY <1>4, WrittenTyped DEF HeldInv, Held

(* The sweep (apps/scripts rides-sweep) ends no ride before its window is  *)
(* over: a departure the driver moves while the sweep runs is the one that *)
(* counts, for any number of sweeps, edits and rides.                      *)
THEOREM EndedWhenDue == Spec => EndsOnlyWhenDue
<1>1. Inv /\ HeldInv /\ [Next]_vars
        => \A r \in Rides :
             LET p == rides[r].committed
                 o == rides'[r].committed
             IN /\ p # Absent /\ p.status \in OpenRide
                /\ o.status \in {"completed", "expired"}
                => o.depart = p.depart /\ o.depart + CompleteAfter <= clock
  <2> SUFFICES ASSUME Inv, HeldInv, [Next]_vars, NEW r \in Rides,
                      rides[r].committed # Absent, rides[r].committed.status \in OpenRide,
                      rides'[r].committed.status \in {"completed", "expired"}
               PROVE  /\ rides'[r].committed.depart = rides[r].committed.depart
                      /\ rides'[r].committed.depart + CompleteAfter <= clock
    OBVIOUS
  <2> DEFINE p == rides[r].committed
             w == rides[r].written
  <2>1. PICK t \in Tx : /\ RideHeld(t, r) /\ rides'[r].committed = w
                        /\ w \in GoodRide
    BY RideCommits DEF OpenRide
  <2>2. p \in GoodRide
    BY AbsentAssumption DEF Inv, RidesInv, RowInv, RowsOf
  <2>3. PhaseOf(p) = "open" /\ PhaseOf(w) # "open" /\ ~w.removed
    BY <2>1, <2>2, AbsentAssumption DEF PhaseOf, GoodRide, OpenRide
  <2>4. /\ ~SamePhase(p, w) /\ ~NewOffer(p, w) /\ ~TakenDown(p, w)
        /\ ~CalledOff(p, w)
    BY <2>1, <2>3 DEF SamePhase, NewOffer, TakenDown, CalledOff
  <2>5. PastWindow(p, w)
    BY <2>1, <2>4 DEF RideHeld
  <2> QED
    BY <2>1, <2>5 DEF PastWindow
<1> QED
  BY <1>1, Invariance, HeldInvariance, PTL DEF Spec, EndsOnlyWhenDue

(* Whoever loses an accepted seat to cancelRide is among the riders that   *)
(* call has told, although it reads them in one statement and closes the   *)
(* requests in a later one: the ride's row lock keeps acceptRequest out in *)
(* between.                                                                *)
THEOREM RidersAreTold == Spec => AcceptedRidersTold
<1>1. Inv /\ HeldInv
        => \A t \in Tx, q \in Reqs :
             LET v == reqs[q].committed
             IN /\ tx[t].pc = "callOff.reqs" /\ reqs[q].holder = t
                /\ v # Absent /\ v.status = "accepted"
                /\ reqs'[q].committed.status = "cancelled"
                => Note(v.passenger, "cancelled", v.ride) \in tx[t].out
  <2> SUFFICES ASSUME Inv, HeldInv, NEW t \in Tx, NEW q \in Reqs,
                      tx[t].pc = "callOff.reqs", reqs[q].holder = t,
                      reqs[q].committed # Absent, reqs[q].committed.status = "accepted"
               PROVE  Note(reqs[q].committed.passenger, "cancelled",
                           reqs[q].committed.ride) \in tx[t].out
    OBVIOUS
  <2>1. reqs[q].written.ride = tx[t].ride /\ CallOffHeld(t)
    BY DEF HeldInv, Held, ReqHeld, TxHeld, CallOffPCs
  <2>2. reqs[q].committed \in Request /\ <<reqs[q].committed, reqs[q].written>> \in ReqMoves
    BY AbsentAssumption DEF Inv, ReqsInv, RowInv, RowsOf
  <2>3. reqs[q].committed.ride = tx[t].ride
    BY <2>1, <2>2 DEF ReqMoves, ReqMove
  <2> QED
    BY <2>1, <2>3 DEF CallOffHeld, RiderOf
<1> QED
  BY <1>1, Invariance, HeldInvariance, PTL DEF Spec, AcceptedRidersTold

-----------------------------------------------------------------------------
(* The partial unique index on the live requests.                          *)

LEMMA QuietReqs == Inv => \A q \in Reqs : Quiet(reqs[q])
  BY DEF Inv, ReqsInv, RowInv, Quiet

(* A statement that makes no request live that was not.                    *)
LEMMA RewrittenIndex ==
  ASSUME Inv, IndexInv, NEW t \in Tx, NEW q \in Reqs, NEW w,
         WriteReq(t, q, w), Free(reqs[q], t),
         \A r \in Rides, u \in Users : w \in LiveKey(r, u) => ReqSeen(t, q) \in LiveKey(r, u)
  PROVE  IndexInv'
<1>1. \A p \in Reqs : reqs'[p] = IF p = q THEN Put(reqs[q], t, w) ELSE reqs[p]
  BY DEF Inv, ReqsInv, WriteReq
<1> SUFFICES ASSUME NEW p \in Reqs, NEW s \in Reqs, p # s, NEW r \in Rides, NEW u \in Users
             PROVE  OneEntry(reqs'[p], reqs'[s], LiveKey(r, u))
  BY DEF IndexInv
<1>2. OneEntry(reqs[p], reqs[s], LiveKey(r, u)) /\ Quiet(reqs[p]) /\ Quiet(reqs[s])
  BY QuietReqs DEF IndexInv
<1>3. Touches(reqs[q], Put(reqs[q], t, w), t, LiveKey(r, u))
  BY DEF Touches, ReqSeen
<1>4. Touches(reqs[p], reqs'[p], t, LiveKey(r, u)) /\ Touches(reqs[s], reqs'[s], t, LiveKey(r, u))
  BY <1>1, <1>3 DEF Touches
<1> QED
  BY <1>2, <1>4, EntryTouched

LEMMA EndedIndex ==
  ASSUME Inv, NEW t \in Tx, NEW q \in Reqs, NEW e \in {"declined", "cancelled"},
         ReqSeen(t, q) \in Request
  PROVE  \A r \in Rides, u \in Users :
           [ReqSeen(t, q) EXCEPT !.status = e] \in LiveKey(r, u)
             => ReqSeen(t, q) \in LiveKey(r, u)
<1> DEFINE w == [ReqSeen(t, q) EXCEPT !.status = e]
<1>1. w.status \notin LiveReq
  BY DEF Request, LiveReq
<1> HIDE DEF w
<1>2. \A r \in Rides, u \in Users : w \notin LiveKey(r, u)
  BY <1>1 DEF LiveKey, LiveAsk
<1> QED
  BY <1>2 DEF w

LEMMA DeclineIndex ==
  ASSUME Inv, IndexInv, NEW t \in Tx, Decline_Req(t)
  PROVE  IndexInv'
<1>1. PICK q \in Asked :
        /\ WriteReq(t, q, [ReqSeen(t, q) EXCEPT !.status = "declined"])
        /\ Free(reqs[q], t)
  BY DEF Decline_Req
<1>2. q \in Reqs /\ ReqSeen(t, q) \in Request
  BY Seen DEF Asked
<1> QED
  BY <1>1, <1>2, EndedIndex, RewrittenIndex

LEMMA LeaveIndex ==
  ASSUME Inv, IndexInv, NEW t \in Tx, Leave_Req(t)
  PROVE  IndexInv'
<1> DEFINE q == tx[t].req
<1>1. q \in Reqs /\ ReqSeen(t, q) \in Request
  BY NamedReq DEF Leave_Req, ReqPCs
<1>2. CASE WriteReq(t, q, [ReqSeen(t, q) EXCEPT !.status = "cancelled"]) /\ Free(reqs[q], t)
  BY <1>1, <1>2, EndedIndex, RewrittenIndex
<1>3. CASE UNCHANGED reqs
  BY <1>3 DEF IndexInv
<1> QED
  BY <1>2, <1>3 DEF Leave_Req

LEMMA CallOffIndex ==
  ASSUME Inv, IndexInv, NEW t \in Tx, CallOff_Req(t)
  PROVE  IndexInv'
<1>1. PICK q \in tx[t].todo :
        \/ /\ WriteReq(t, q, [ReqSeen(t, q) EXCEPT !.status = "cancelled"])
           /\ Free(reqs[q], t)
        \/ UNCHANGED reqs
  BY DEF CallOff_Req
<1>2. q \in Reqs /\ ReqSeen(t, q) \in Request
  BY DEF Inv, TxInv, CallOff_Req
<1>3. CASE WriteReq(t, q, [ReqSeen(t, q) EXCEPT !.status = "cancelled"]) /\ Free(reqs[q], t)
  BY <1>2, <1>3, EndedIndex, RewrittenIndex
<1>4. CASE UNCHANGED reqs
  BY <1>4 DEF IndexInv
<1> QED
  BY <1>1, <1>3, <1>4

LEMMA AcceptIndex ==
  ASSUME Inv, IndexInv, NEW t \in Tx, Accept_Req(t)
  PROVE  IndexInv'
<1> DEFINE q == tx[t].req
           v == ReqSeen(t, q)
           w == [v EXCEPT !.status = "accepted"]
<1>1. q \in Reqs /\ v \in Request
  BY NamedReq DEF Accept_Req, ReqPCs
<1>2. CASE v.status = "pending" /\ Free(reqs[q], t) /\ WriteReq(t, q, w)
  <2>1. w.ride = v.ride /\ w.passenger = v.passenger /\ v # Absent
    BY <1>1, AbsentAssumption DEF Request
  <2>2. \A r \in Rides, u \in Users : w \in LiveKey(r, u) => v \in LiveKey(r, u)
    BY <1>1, <1>2, <2>1 DEF LiveKey, LiveAsk, LiveReq
  <2> QED
    BY <1>1, <1>2, <2>2, RewrittenIndex
<1>3. CASE UNCHANGED reqs
  BY <1>3 DEF IndexInv
<1> QED
  BY <1>2, <1>3 DEF Accept_Req

LEMMA InsertIndex ==
  ASSUME Inv, IndexInv, NEW t \in Tx, Request_Insert(t)
  PROVE  IndexInv'
<1> DEFINE r == tx[t].ride
           u == tx[t].user
           v == [ride |-> r, passenger |-> u, status |-> "pending"]
<1>1. PICK q \in Fresh(reqs, Reqs) : WriteReq(t, q, v)
  BY DEF Request_Insert
<1>2. /\ q \in Reqs /\ reqs[q] = Stored(Absent)
      /\ AskHolders(t, r, u) = {} /\ ~AskTaken(t, r, u)
  BY DEF Fresh, Request_Insert
<1>3. \A p \in Reqs : reqs'[p] = IF p = q THEN Put(reqs[q], t, v) ELSE reqs[p]
  BY <1>1, <1>2 DEF Inv, ReqsInv, WriteReq
<1>4. v.ride = r /\ v.passenger = u
  OBVIOUS
<1> HIDE DEF v
<1>5. ASSUME NEW p \in Reqs, p # q, NEW a \in Rides, NEW b \in Users
      PROVE  OneEntry(reqs'[q], reqs'[p], LiveKey(a, b))
  <2> DEFINE K == LiveKey(a, b)
  <2>1. /\ OneEntry(reqs[q], reqs[p], K) /\ Quiet(reqs[q]) /\ Quiet(reqs[p])
        /\ reqs'[q] = Put(reqs[q], t, v) /\ reqs'[p] = reqs[p]
    BY <1>2, <1>3, <1>5, QuietReqs DEF IndexInv
  <2>2. CASE a = r /\ b = u
    <3>1. reqs[q].committed \notin K
      BY <1>2, AbsentAssumption DEF LiveKey, Stored
    <3>2. View(reqs[p], t) \notin K
      BY <1>2, <2>2 DEF AskTaken, ReqSeen, LiveKey
    <3>3. reqs[p].committed \in K \/ reqs[p].written \in K => reqs[p].holder \in {NoTx, t}
      BY <1>2, <2>2 DEF AskHolders, LiveKey
    <3> QED
      BY <2>1, <3>1, <3>2, <3>3, EntryMade
  <2>3. CASE ~(a = r /\ b = u)
    <3>1. v \notin K
      BY <1>4, <2>3 DEF LiveKey, LiveAsk
    <3>2. Free(reqs[q], t)
      BY <1>2 DEF Free, Stored
    <3>3. Touches(reqs[q], reqs'[q], t, K) /\ Touches(reqs[p], reqs'[p], t, K)
      BY <2>1, <3>1, <3>2 DEF Touches
    <3> QED
      BY <2>1, <3>3, EntryTouched
  <2> QED
    BY <2>2, <2>3
<1>6. ASSUME NEW p \in Reqs, NEW s \in Reqs, p # s, NEW a \in Rides, NEW b \in Users
      PROVE  OneEntry(reqs'[p], reqs'[s], LiveKey(a, b))
  <2>1. CASE p = q
    BY <1>5, <1>6, <2>1
  <2>2. CASE s = q
    BY <1>2, <1>5, <1>6, <2>2, EntrySymmetry
  <2>3. CASE p # q /\ s # q
    BY <1>3, <1>6, <2>3 DEF IndexInv
  <2> QED
    BY <2>1, <2>2, <2>3
<1> QED
  BY <1>6 DEF IndexInv

LEMMA EndIndex ==
  ASSUME Inv, IndexInv, NEW t \in Tx,
         Commit(t) \/ Abort(t) \/ DeadlockVictim(t) \/ Request_Duplicate(t)
  PROVE  IndexInv'
<1>1. \/ \A q \in Reqs : reqs'[q] = Published(reqs[q], t)
      \/ \A q \in Reqs : reqs'[q] = Restored(reqs[q], t)
  BY DEF Commit, Abort, DeadlockVictim, Request_Duplicate, Rollback
<1> SUFFICES ASSUME NEW p \in Reqs, NEW s \in Reqs, p # s, NEW r \in Rides, NEW u \in Users
             PROVE  OneEntry(reqs'[p], reqs'[s], LiveKey(r, u))
  BY DEF IndexInv
<1>2. OneEntry(reqs[p], reqs[s], LiveKey(r, u)) /\ Quiet(reqs[p]) /\ Quiet(reqs[s])
  BY QuietReqs DEF IndexInv
<1>3. /\ OneEntry(Published(reqs[p], t), Published(reqs[s], t), LiveKey(r, u))
      /\ OneEntry(Restored(reqs[p], t), Restored(reqs[s], t), LiveKey(r, u))
  BY <1>2, EntryEnds
<1> QED
  BY <1>1, <1>3

LEMMA NextIndex == Inv /\ IndexInv /\ [Next]_vars => IndexInv'
<1> SUFFICES ASSUME Inv, IndexInv, [Next]_vars PROVE IndexInv'
  OBVIOUS
<1>1. CASE UNCHANGED reqs
  BY <1>1 DEF IndexInv
<1>2. ASSUME NEW t \in Tx, Arrival(t) \/ Run(t) \/ Abort(t) PROVE IndexInv'
  <2>1. CASE Arrival(t)
    BY <1>1, <2>1, DeclineIndex DEF Arrival, Create_Insert, Edit_Ride, CallOff_Ride,
       Remove_Ride, Request_Ride, Accept_Read, Leave_Read, Sweep_Start
  <2>2. CASE Statement(t)
    BY <1>1, <2>2, InsertIndex, EndIndex, AcceptIndex, LeaveIndex, CallOffIndex
       DEF Statement, Request_Live, Accept_Ride, Leave_Ride, CallOff_Riders,
       CallOff_Snapshot, Sweep_Complete, Sweep_EndRow, Sweep_Expire, Sweep_Ended,
       Sweep_Spawn
  <2>3. CASE Commit(t) \/ DeadlockVictim(t) \/ Abort(t)
    BY <2>3, EndIndex
  <2> QED
    BY <1>2, <2>1, <2>2, <2>3 DEF Run
<1> QED
  BY <1>1, <1>2 DEF Next, Tick, vars

LEMMA InitIndex == Init => IndexInv
<1> SUFFICES ASSUME Init, NEW p \in Reqs, NEW q \in Reqs, NEW r \in Rides, NEW u \in Users
             PROVE  OneEntry(reqs[p], reqs[q], LiveKey(r, u))
  BY DEF IndexInv
<1> QED
  BY AbsentAssumption DEF Init, Stored, OneEntry, LiveKey

(* A passenger has at most one live request on a ride, however many calls  *)
(* of requestSeat pass the check before any of them inserts.               *)
THEOREM AskedOnce == Spec => []OneLiveRequest
<1>1. Inv /\ IndexInv => OneLiveRequest
  <2> SUFFICES ASSUME Inv, IndexInv, NEW p \in Reqs, NEW q \in Reqs,
                      reqs[p].committed # Absent, reqs[q].committed # Absent,
                      reqs[p].committed.status \in LiveReq,
                      reqs[q].committed.status \in LiveReq,
                      reqs[p].committed.ride = reqs[q].committed.ride,
                      reqs[p].committed.passenger = reqs[q].committed.passenger,
                      p # q
               PROVE  FALSE
    BY DEF OneLiveRequest
  <2> DEFINE v == reqs[p].committed
  <2>1. v \in Request /\ reqs[q].committed \in Request
    BY DEF Inv, ReqsInv, RowInv, RowsOf
  <2>2. v.ride \in Rides /\ v.passenger \in Users
    BY <2>1 DEF Request
  <2>3. v \in LiveKey(v.ride, v.passenger) /\ reqs[q].committed \in LiveKey(v.ride, v.passenger)
    BY <2>1 DEF LiveKey, LiveAsk
  <2> QED
    BY <2>2, <2>3 DEF IndexInv, OneEntry
<1>2. Spec => []IndexInv
  BY InitIndex, NextIndex, Invariance, PTL DEF Spec
<1> QED
  BY <1>1, <1>2, Invariance, PTL

-----------------------------------------------------------------------------
(* No seat is promised twice.  cancelSeatRequest returns the seat of the   *)
(* status it read: two of them of one request, both read before either     *)
(* writes, return one seat twice, and the ride of that request is raced.   *)

LEMMA WriteCommitsNothing ==
  ASSUME Inv, NEW t \in Tx
  PROVE  /\ \A r, v : WriteRide(t, r, v)
              => \A s \in Rides : rides'[s].committed = rides[s].committed
         /\ \A q, v : WriteReq(t, q, v)
              => \A s \in Reqs : reqs'[s].committed = reqs[s].committed
<1>1. ASSUME NEW r, NEW v, WriteRide(t, r, v), NEW s \in Rides
      PROVE  rides'[s].committed = rides[s].committed
  <2>1. rides'[s] = IF s = r THEN Put(rides[r], t, v) ELSE rides[s]
    BY <1>1 DEF Inv, RidesInv, WriteRide
  <2> QED
    BY <2>1 DEF Put
<1>2. ASSUME NEW q, NEW v, WriteReq(t, q, v), NEW s \in Reqs
      PROVE  reqs'[s].committed = reqs[s].committed
  <2>1. reqs'[s] = IF s = q THEN Put(reqs[q], t, v) ELSE reqs[s]
    BY <1>2 DEF Inv, ReqsInv, WriteReq
  <2> QED
    BY <2>1 DEF Put
<1> QED
  BY <1>1, <1>2

NothingCommitted == /\ \A r \in Rides : rides'[r].committed = rides[r].committed
                    /\ \A q \in Reqs : reqs'[q].committed = reqs[q].committed

(* Only a commit publishes.                                                *)
LEMMA OnlyCommit ==
  ASSUME Inv, NEW t \in Tx, Arrival(t) \/ Run(t) \/ Abort(t), ~Commit(t)
  PROVE  NothingCommitted
<1>1. CASE Rollback(t)
  BY <1>1 DEF Rollback, Restored, Stored, NothingCommitted
<1>2. CASE \/ Create_Insert(t) \/ Edit_Ride(t) \/ CallOff_Ride(t) \/ Remove_Ride(t)
           \/ Decline_Req(t)
  BY <1>2, WriteCommitsNothing DEF Create_Insert, Edit_Ride, CallOff_Ride, Remove_Ride,
     Decline_Req, NothingCommitted
<1>3. CASE \/ Request_Ride(t) \/ Accept_Read(t) \/ Leave_Read(t) \/ Sweep_Start(t)
           \/ Request_Live(t) \/ CallOff_Riders(t) \/ CallOff_Snapshot(t)
           \/ Sweep_Complete(t) \/ Sweep_Expire(t) \/ Sweep_Ended(t)
  BY <1>3 DEF Request_Ride, Accept_Read, Leave_Read, Sweep_Start, Request_Live,
     CallOff_Riders, CallOff_Snapshot, Sweep_Complete, Sweep_Expire, Sweep_Ended,
     NothingCommitted
<1>4. CASE Accept_Ride(t) \/ Leave_Ride(t) \/ Sweep_EndRow(t) \/ Sweep_Spawn(t)
  BY <1>4, WriteCommitsNothing DEF Accept_Ride, Leave_Ride, Sweep_EndRow, Sweep_Spawn,
     NothingCommitted
<1>5. CASE Request_Insert(t) \/ Accept_Req(t) \/ Leave_Req(t) \/ CallOff_Req(t)
  BY <1>5, WriteCommitsNothing DEF Request_Insert, Accept_Req, Leave_Req, CallOff_Req,
     NothingCommitted
<1> QED
  BY <1>1, <1>2, <1>3, <1>4, <1>5
     DEF Arrival, Run, Statement, Abort, DeadlockVictim, Request_Duplicate

(* Only the first statement of a cancel makes a transaction return a seat. *)
LEMMA NewReturning ==
  ASSUME Inv, NEW t \in Tx, Arrival(t) \/ Run(t) \/ Abort(t), ~Leave_Read(t),
         tx'[t].seen = "accepted"
  PROVE  /\ tx[t].seen = "accepted" /\ tx'[t].req = tx[t].req /\ ~Commit(t)
         /\ tx'[t].ride = tx[t].ride
<1>1. Nothing # "accepted"
  BY NothingAssumption DEF LiveReq
<1>2. ~Return(t)
  <2>1. Return(t) => tx'[t] = Idle
    BY DEF Return, Inv
  <2> QED
    BY <1>1, <2>1 DEF Idle
<1>3. \A pc, u, r, q : ~Begin(t, pc, u, r, q)
  BY <1>1, OpenedFields
<1>4. ~Rollback(t) /\ ~Commit(t)
  BY <1>2 DEF Rollback, Commit
<1>5. ~Decline_Req(t) /\ ~Sweep_Start(t)
  <2>1. ~Sweep_Start(t)
    <3> SUFFICES ASSUME Sweep_Start(t) PROVE FALSE
      OBVIOUS
    <3>1. tx'[t] = [Opened("sweep.complete", Scheduler, Nothing, Nothing) EXCEPT !.at = clock]
      BY DEF Sweep_Start, Inv
    <3> QED
      BY <1>1, <3>1 DEF Opened, Idle
  <2>2. ~Decline_Req(t)
    <3> SUFFICES ASSUME Decline_Req(t) PROVE FALSE
      OBVIOUS
    <3>1. PICK u \in Users, q \in Asked :
            tx' = [tx EXCEPT ![t] =
                     [Opened("commit", u, ReqSeen(t, q).ride, q) EXCEPT
                        !.out = {Note(ReqSeen(t, q).passenger, "declined",
                                      ReqSeen(t, q).ride)}]]
      BY DEF Decline_Req
    <3>2. tx'[t] = [Opened("commit", u, ReqSeen(t, q).ride, q) EXCEPT
                        !.out = {Note(ReqSeen(t, q).passenger, "declined",
                                      ReqSeen(t, q).ride)}]
      BY <3>1 DEF Inv
    <3> QED
      BY <1>1, <3>2 DEF Opened, Idle
  <2> QED
    BY <2>1, <2>2
<1>6. ~Arrival(t)
  BY <1>3, <1>5 DEF Arrival, Create_Insert, Edit_Ride, CallOff_Ride, Remove_Ride,
     Request_Ride, Accept_Read
<1>7. Statement(t)
  BY <1>4, <1>6 DEF Run, Abort, DeadlockVictim
<1> DEFINE SameMemory == /\ tx'[t].seen = tx[t].seen /\ tx'[t].req = tx[t].req
                         /\ tx'[t].ride = tx[t].ride
<1>8. CASE Request_Live(t) \/ Accept_Ride(t) \/ Leave_Req(t) \/ Leave_Ride(t)
  <2>1. SameMemory
    BY <1>2, <1>8, GotoFields DEF Request_Live, Accept_Ride, Leave_Req, Leave_Ride
  <2> QED
    BY <1>4, <2>1
<1>9. CASE Request_Insert(t) \/ Accept_Req(t)
  <2>1. SameMemory
    BY <1>9, NoteFields DEF Request_Insert, Accept_Req
  <2> QED
    BY <1>4, <2>1
<1>10. CASE CallOff_Req(t) \/ Sweep_EndRow(t) \/ Sweep_Spawn(t)
  <2>1. PICK x : tx' = [tx EXCEPT ![t].todo = @ \ {x}]
    BY <1>10 DEF CallOff_Req, Sweep_EndRow, Sweep_Spawn
  <2>2. tx[t] \in Transaction /\ tx'[t] = [tx[t] EXCEPT !.todo = @ \ {x}]
    BY <2>1 DEF Inv
  <2> QED
    BY <1>4, <2>2 DEF Transaction
<1>11. CASE \/ CallOff_Riders(t) \/ CallOff_Snapshot(t)
            \/ Sweep_Complete(t) \/ Sweep_Expire(t) \/ Sweep_Ended(t)
  <2>1. tx[t] \in Transaction
    BY DEF Inv
  <2>2. ASSUME NEW pc, NEW S, Scan(t, pc, S) PROVE SameMemory
    <3>1. tx'[t] = [tx[t] EXCEPT !.pc = pc, !.todo = S]
      BY <2>2 DEF Inv, Scan
    <3> QED
      BY <2>1, <3>1 DEF Transaction
  <2>3. CASE CallOff_Snapshot(t)
    <3> DEFINE S == LiveOn(t, tx[t].ride)
    <3>1. tx'[t] = [tx[t] EXCEPT !.pc = "callOff.reqs", !.todo = S]
      BY <2>3 DEF CallOff_Snapshot, Inv
    <3> HIDE DEF S
    <3> QED
      BY <1>4, <2>1, <3>1 DEF Transaction
  <2>4. CASE CallOff_Riders(t)
    <3> DEFINE S == {Note(ReqSeen(t, q).passenger, "cancelled", tx[t].ride) :
                       q \in LiveOn(t, tx[t].ride)}
    <3>1. tx'[t] = [tx[t] EXCEPT !.pc = "callOff.snapshot", !.out = S]
      BY <2>4 DEF CallOff_Riders, Inv
    <3> HIDE DEF S
    <3> QED
      BY <1>4, <2>1, <3>1 DEF Transaction
  <2>5. CASE Sweep_Complete(t) \/ Sweep_Expire(t) \/ Sweep_Ended(t)
    <3>1. SameMemory
      BY <2>2, <2>5 DEF Sweep_Complete, Sweep_Expire, Sweep_Ended
    <3> QED
      BY <1>4, <3>1
  <2> QED
    BY <1>11, <2>3, <2>4, <2>5
<1> QED
  BY <1>4, <1>7, <1>8, <1>9, <1>10, <1>11 DEF Statement, Request_Duplicate

(* A cancel reads a settled request; if another one is returning the seat  *)
(* it will return, the ride is raced.                                      *)
LEMMA LeavesAs ==
  ASSUME Inv, HeldInv, NEW t \in Tx, Leave_Read(t)
  PROVE  LET q == tx'[t].req
             v == reqs[q].committed
         IN /\ q \in Reqs /\ v \in Request
            /\ tx'[t].seen = v.status /\ tx'[t].ride = v.ride
            /\ raced' = IF v.status = "accepted" /\ \E s \in Tx : Returning(s, q)
                          THEN raced \cup {v.ride} ELSE raced
<1>1. PICK q \in Asked :
        /\ Arrives(t, ReqSeen(t, q).passenger, "cancelSeatRequest")
        /\ tx' = [tx EXCEPT ![t] =
                   [Opened("leave.req", ReqSeen(t, q).passenger, ReqSeen(t, q).ride, q)
                      EXCEPT !.seen = ReqSeen(t, q).status]]
        /\ raced' = IF ReqSeen(t, q).status = "accepted" /\ \E s \in Tx : Returning(s, q)
                      THEN raced \cup {ReqSeen(t, q).ride} ELSE raced
  BY DEF Leave_Read
<1>2. /\ q \in Reqs /\ ReqSeen(t, q) = reqs[q].committed
      /\ reqs[q].committed \in Request
  BY <1>1, NoReqHeld DEF HeldInv, ReqSeen, View, Arrives, Asked, Inv, ReqsInv, RowInv, RowsOf
<1>3. tx'[t] = [Opened("leave.req", ReqSeen(t, q).passenger, ReqSeen(t, q).ride, q)
                  EXCEPT !.seen = ReqSeen(t, q).status]
  BY <1>1 DEF Inv
<1>4. tx'[t].req = q /\ tx'[t].seen = reqs[q].committed.status
      /\ tx'[t].ride = reqs[q].committed.ride
  BY <1>2, <1>3 DEF Opened, Idle
<1> QED
  BY <1>1, <1>2, <1>4

(* What a step makes of the returning transactions: the others stay.       *)
LEMMA OthersReturning ==
  ASSUME Inv, NEW t \in Tx, Arrival(t) \/ Run(t) \/ Abort(t), NEW s \in Tx, s # t
  PROVE  \A q : Returning(s, q)' <=> Returning(s, q)
<1>1. tx'[s] = tx[s]
  BY TransactionStep, OthersRows
<1> QED
  BY <1>1 DEF Returning

(* No other step makes a ride raced.                                       *)
LEMMA OnlyLeaveRaces ==
  ASSUME NEW t \in Tx, Arrival(t) \/ Run(t) \/ Abort(t), ~Leave_Read(t)
  PROVE  raced' = raced
<1>1. CASE Rollback(t) \/ Commit(t)
  BY <1>1 DEF Rollback, Commit
<1>2. CASE \/ Create_Insert(t) \/ Edit_Ride(t) \/ CallOff_Ride(t) \/ Remove_Ride(t)
           \/ Decline_Req(t) \/ Request_Ride(t) \/ Accept_Read(t) \/ Sweep_Start(t)
  BY <1>2 DEF Create_Insert, Edit_Ride, CallOff_Ride, Remove_Ride, Decline_Req,
     Request_Ride, Accept_Read, Sweep_Start
<1>3. CASE \/ Request_Live(t) \/ Request_Insert(t) \/ Accept_Ride(t) \/ Accept_Req(t)
           \/ Leave_Req(t) \/ Leave_Ride(t) \/ CallOff_Riders(t) \/ CallOff_Snapshot(t)
           \/ CallOff_Req(t)
  BY <1>3 DEF Request_Live, Request_Insert, Accept_Ride, Accept_Req, Leave_Req, Leave_Ride,
     CallOff_Riders, CallOff_Snapshot, CallOff_Req
<1>4. CASE \/ Sweep_Complete(t) \/ Sweep_Expire(t) \/ Sweep_Ended(t)
           \/ Sweep_EndRow(t) \/ Sweep_Spawn(t)
  BY <1>4 DEF Sweep_Complete, Sweep_Expire, Sweep_Ended, Sweep_EndRow, Sweep_Spawn
<1> QED
  BY <1>1, <1>2, <1>3, <1>4
     DEF Arrival, Run, Statement, Abort, DeadlockVictim, Request_Duplicate

(* A seat that two connections are returning is one of a raced ride.       *)
LEMMA StepRaces ==
  ASSUME Inv, HeldInv, RacedInv, NEW t \in Tx, Arrival(t) \/ Run(t) \/ Abort(t)
  PROVE  RacedInv' /\ raced \subseteq raced'
<1>1. raced' \in SUBSET Rides /\ raced \subseteq raced'
  BY OnlyLeaveRaces, LeavesAs DEF RacedInv, Request
<1>2. ASSUME NEW q \in Reqs, NEW s \in Tx, NEW o \in Tx, s # o,
             Returning(s, q)', Returning(o, q)'
      PROVE  tx'[o].ride \in raced'
  <2>1. \A u \in Tx : u # t => tx'[u] = tx[u]
    BY TransactionStep, OthersRows
  <2>2. ASSUME NEW u \in Tx, Returning(u, q)', u # t \/ ~Leave_Read(t)
        PROVE  Returning(u, q) /\ tx'[u].ride = tx[u].ride
    BY <2>1, <2>2, NewReturning DEF Returning
  <2>3. CASE (s # t /\ o # t) \/ ~Leave_Read(t)
    BY <1>1, <1>2, <2>2, <2>3 DEF RacedInv
  <2>4. CASE Leave_Read(t) /\ (s = t \/ o = t)
    <3>1. PICK u \in {s, o} : u # t /\ Returning(u, q) /\ tx'[u].ride = tx[u].ride
      BY <1>2, <2>2
    <3>2. LeaveHeld(u) /\ tx[u].ride = reqs[q].committed.ride
      BY <3>1 DEF HeldInv, Held, TxHeld, LeaveHeld, Returning
    <3>3. tx'[t].req = q /\ tx'[t].seen = "accepted"
      BY <1>2, <2>4 DEF Returning
    <3>4. tx'[t].ride = reqs[q].committed.ride /\ reqs[q].committed.ride \in raced'
      BY <2>4, <3>1, <3>3, LeavesAs
    <3> QED
      BY <2>4, <3>1, <3>2, <3>4
  <2> QED
    BY <2>3, <2>4
<1> QED
  BY <1>1, <1>2 DEF RacedInv

(* A statement charges no new seat.                                        *)
LEMMA StatementCharges ==
  ASSUME Inv, HeldInv, NEW t \in Tx, Arrival(t) \/ Run(t) \/ Abort(t),
         ~Commit(t), NEW r \in Rides
  PROVE  Charged(r)' \subseteq Charged(r)
<1> SUFFICES ASSUME NEW q \in Reqs, q \in Charged(r)' PROVE q \in Charged(r)
  BY DEF Charged
<1> DEFINE v == reqs[q].committed
<1>1. reqs'[q].committed = v
  BY OnlyCommit DEF NothingCommitted
<1>2. v \in Request /\ v.ride = r
  BY <1>1 DEF Charged
<1>3. CASE v.status = "accepted"
  BY <1>2, <1>3 DEF Charged
<1>4. CASE \E s \in Tx : Returning(s, q)'
  <2>1. PICK s \in Tx : Returning(s, q)'
    BY <1>4
  <2>2. CASE s # t
    BY <1>2, <2>1, <2>2, OthersReturning DEF Charged
  <2>3. CASE s = t /\ Leave_Read(t)
    <3>1. tx'[t].seen = "accepted" /\ tx'[t].req = q
      BY <2>1, <2>3 DEF Returning
    <3>2. v.status = "accepted"
      BY <2>3, <3>1, LeavesAs
    <3> QED
      BY <1>2, <3>2 DEF Charged
  <2>4. CASE s = t /\ ~Leave_Read(t)
    <3>1. Returning(t, q)
      BY <2>1, <2>4, NewReturning DEF Returning
    <3> QED
      BY <1>2, <3>1 DEF Charged
  <2> QED
    BY <2>2, <2>3, <2>4
<1>5. v.status = "accepted" \/ \E s \in Tx : Returning(s, q)'
  BY <1>1 DEF Charged
<1> QED
  BY <1>3, <1>4, <1>5

(* A commit charges the seat it takes and no other, and settles the one it *)
(* returns.                                                                *)
LEMMA CommitsRow ==
  ASSUME Inv, NEW t \in Tx, Commit(t)
  PROVE  /\ \A r \in Rides : rides'[r].committed = IF rides[r].holder = t
              THEN rides[r].written ELSE rides[r].committed
         /\ \A q \in Reqs : reqs'[q].committed = ReqSeen(t, q)
         /\ tx'[t].seen # "accepted"
<1>1. tx'[t] = Idle
  BY DEF Commit, Return, Inv
<1> QED
  BY <1>1, NothingAssumption DEF Commit, Published, Stored, ReqSeen, View, Idle, LiveReq

LEMMA CommitCharges ==
  ASSUME Inv, HeldInv, NEW t \in Tx, Commit(t), NEW r \in Rides, NEW q \in Reqs,
         q \in Charged(r)'
  PROVE  \/ q \in Charged(r)
         \/ /\ reqs[q].holder = t /\ reqs[q].written.status = "accepted"
            /\ reqs[q].written.ride = r
<1> DEFINE v == reqs[q].committed
           w == ReqSeen(t, q)
<1>1. reqs'[q].committed = w /\ w \in Request /\ w.ride = r
  BY CommitsRow DEF Charged
<1>2. CASE w.status = "accepted"
  BY <1>1, <1>2 DEF Charged, ReqSeen, View
<1>3. CASE \E s \in Tx : Returning(s, q)'
  <2>1. PICK s \in Tx : Returning(s, q)'
    BY <1>3
  <2>2. Returning(s, q)
    <3>1. s # t
      BY <2>1, CommitsRow DEF Returning
    <3> QED
      BY <2>1, <3>1, OthersReturning DEF Run
  <2>3. v \in Request
    BY <2>2 DEF Returning, HeldInv, Held, TxHeld, LeaveHeld
  <2>4. v.ride = r
    <3>1. CASE reqs[q].holder = t
      <4>1. <<v, reqs[q].written>> \in ReqMoves
        BY <2>3 DEF Inv, ReqsInv, RowInv
      <4> QED
        BY <1>1, <3>1, <4>1 DEF ReqMoves, ReqMove, ReqSeen, View
    <3>2. CASE reqs[q].holder # t
      BY <1>1, <3>2 DEF ReqSeen, View
    <3> QED
      BY <3>1, <3>2
  <2> QED
    BY <2>2, <2>3, <2>4 DEF Charged
<1>4. w.status = "accepted" \/ \E s \in Tx : Returning(s, q)'
  BY <1>1 DEF Charged
<1> QED
  BY <1>2, <1>3, <1>4

(* Fewer seats charged and no more on offer, or one more and one less.     *)
LEMMA SeatsCounted ==
  ASSUME NEW C, NEW D, IsFiniteSet(C), NEW a \in Nat, NEW b \in Nat, NEW n \in Nat,
         Cardinality(C) + a <= n,
         \/ D \subseteq C /\ b <= a
         \/ \E q : D \subseteq C \cup {q} /\ b + 1 <= a
         \/ \E q \in C : D \subseteq C \ {q} /\ b <= a + 1
  PROVE  IsFiniteSet(D) /\ Cardinality(D) + b <= n
<1>1. Cardinality(C) \in Nat
  BY FS_CardinalityType
<1>2. CASE D \subseteq C /\ b <= a
  <2>1. IsFiniteSet(D) /\ Cardinality(D) <= Cardinality(C) /\ Cardinality(D) \in Nat
    BY <1>2, FS_Subset, FS_CardinalityType
  <2> QED
    BY <1>1, <1>2, <2>1
<1>3. ASSUME NEW q, D \subseteq C \cup {q}, b + 1 <= a
      PROVE  IsFiniteSet(D) /\ Cardinality(D) + b <= n
  <2>1. IsFiniteSet(C \cup {q}) /\ Cardinality(C \cup {q}) <= Cardinality(C) + 1
    BY <1>1, FS_AddElement
  <2>2. Cardinality(C \cup {q}) \in Nat
    BY <2>1, FS_CardinalityType
  <2>3. /\ IsFiniteSet(D) /\ Cardinality(D) <= Cardinality(C \cup {q})
        /\ Cardinality(D) \in Nat
    BY <1>3, <2>1, FS_Subset, FS_CardinalityType
  <2> QED
    BY <1>1, <1>3, <2>1, <2>2, <2>3
<1>4. ASSUME NEW q \in C, D \subseteq C \ {q}, b <= a + 1
      PROVE  IsFiniteSet(D) /\ Cardinality(D) + b <= n
  <2>1. IsFiniteSet(C \ {q}) /\ Cardinality(C \ {q}) = Cardinality(C) - 1
    BY FS_RemoveElement
  <2>2. Cardinality(C \ {q}) \in Nat
    BY <2>1, FS_CardinalityType
  <2>3. /\ IsFiniteSet(D) /\ Cardinality(D) <= Cardinality(C \ {q})
        /\ Cardinality(D) \in Nat
    BY <1>4, <2>1, FS_Subset, FS_CardinalityType
  <2> QED
    BY <1>1, <1>4, <2>1, <2>2, <2>3
<1> QED
  BY <1>2, <1>3, <1>4

LEMMA RideNumbers ==
  \A p \in GoodRide : /\ p \in Ride /\ p.available \in Nat /\ p.total \in Nat
                      /\ p.available <= p.total /\ p # Absent
  BY AbsentAssumption DEF GoodRide, Ride, Consistent

LEMMA SeatsStillFit ==
  ASSUME NEW r \in Rides, SeatsFit(r),
         rides[r].committed \in GoodRide, rides'[r].committed \in GoodRide,
         rides'[r].committed.total = rides[r].committed.total,
         \/ /\ Charged(r)' \subseteq Charged(r)
            /\ rides'[r].committed.available <= rides[r].committed.available
         \/ \E q : /\ Charged(r)' \subseteq Charged(r) \cup {q}
                   /\ rides'[r].committed.available + 1 <= rides[r].committed.available
         \/ \E q \in Charged(r) :
                /\ Charged(r)' \subseteq Charged(r) \ {q}
                /\ rides'[r].committed.available <= rides[r].committed.available + 1
  PROVE  SeatsFit(r)'
<1> DEFINE a == rides[r].committed.available
           b == rides'[r].committed.available
           n == rides[r].committed.total
           C == Charged(r)
           D == Charged(r)'
<1>1. /\ IsFiniteSet(C) /\ Cardinality(C) + a <= n
      /\ a \in Nat /\ b \in Nat /\ n \in Nat
  BY RideNumbers DEF SeatsFit
<1>2. \/ D \subseteq C /\ b <= a
      \/ \E q : D \subseteq C \cup {q} /\ b + 1 <= a
      \/ \E q \in C : D \subseteq C \ {q} /\ b <= a + 1
  OBVIOUS
<1>3. IsFiniteSet(D) /\ Cardinality(D) + b <= n
  <2> HIDE DEF a, b, n, C, D
  <2> QED
    BY <1>1, <1>2, SeatsCounted
<1> QED
  BY <1>3 DEF SeatsFit

(* A new ride: nobody can have asked for it.                               *)
LEMMA NewRideSeats ==
  ASSUME Inv, HeldInv, NEW t \in Tx, Commit(t), NEW r \in Rides,
         rides[r].committed \notin GoodRide
  PROVE  SeatsFit(r)'
<1>1. ASSUME NEW q \in Reqs, q \in Charged(r)' PROVE FALSE
  <2>1. ReqSeen(t, q) \in Request /\ ReqSeen(t, q).ride = r
    BY <1>1, CommitsRow DEF Charged
  <2> QED
    BY <2>1 DEF Inv, Anchored, ReqSeen, View
<1>2. Charged(r)' = {}
  BY <1>1 DEF Charged
<1> QED
  BY <1>2, FS_EmptySet, RideNumbers DEF SeatsFit

(* A ride the commit does not touch.                                       *)
LEMMA OtherRideSeats ==
  ASSUME Inv, HeldInv, NEW t \in Tx, Commit(t), NEW r \in Rides,
         rides[r].holder # t, SeatsFit(r), rides[r].committed \in GoodRide
  PROVE  SeatsFit(r)'
<1>1. rides'[r].committed = rides[r].committed
  BY CommitsRow
<1>2. Charged(r)' \subseteq Charged(r)
  <2> SUFFICES ASSUME NEW q \in Reqs, q \in Charged(r)' PROVE q \in Charged(r)
    BY DEF Charged
  <2>1. reqs[q].holder = t /\ reqs[q].written.status = "accepted"
          => reqs[q].written.ride # r
    BY DEF HeldInv, Held, ReqHeld
  <2> QED
    BY <2>1, CommitCharges
<1>3. rides'[r].committed.available <= rides[r].committed.available
  BY <1>1, RideNumbers
<1> QED
  BY <1>1, <1>2, <1>3, SeatsStillFit

(* A ride it publishes.                                                    *)
LEMMA HeldRideSeats ==
  ASSUME Inv, HeldInv, RacedInv, NEW t \in Tx, Commit(t), NEW r \in Rides \ raced,
         rides[r].holder = t, SeatsFit(r), rides[r].committed \in GoodRide
  PROVE  SeatsFit(r)'
<1> DEFINE p == rides[r].committed
           w == rides[r].written
           C == Charged(r)
           D == Charged(r)'
<1>1. /\ rides'[r].committed = w /\ w \in GoodRide /\ RideHeld(t, r) /\ Held(t)
  BY CommitsRow, WrittenTyped DEF HeldInv, Held
<1>2. w.total = p.total
  BY <1>1 DEF RideHeld
<1>3. CASE \E q \in Reqs : /\ reqs[q].holder = t /\ reqs[q].written.status = "accepted"
                           /\ reqs[q].written.ride = r
  <2>1. PICK q \in Reqs : /\ reqs[q].holder = t /\ reqs[q].written.status = "accepted"
                          /\ reqs[q].written.ride = r
    BY <1>3
  <2>2. /\ tx[t].pc = "commit" /\ OneSeatTaken(p, w)
        /\ \A s \in Reqs : reqs[s].holder = t => s = q
    BY <1>1, <2>1 DEF Held, ReqHeld
  <2>3. D \subseteq C \cup {q}
    BY <2>2, CommitCharges DEF Charged
  <2>4. w.available + 1 <= p.available
    BY <1>1, <2>2, RideNumbers DEF OneSeatTaken
  <2> QED
    BY <1>1, <1>2, <2>3, <2>4, SeatsStillFit
<1>4. CASE ~ \E q \in Reqs : /\ reqs[q].holder = t /\ reqs[q].written.status = "accepted"
                             /\ reqs[q].written.ride = r
  <2>1. D \subseteq C
    BY <1>4, CommitCharges DEF Charged
  <2>2. CASE w.available <= p.available
    BY <1>1, <1>2, <2>1, <2>2, SeatsStillFit
  <2>3. CASE ~(w.available <= p.available)
    <3>1. /\ tx[t].pc = "commit" /\ tx[t].seen = "accepted"
          /\ w.available <= p.available + 1
      BY <1>1, <2>3 DEF RideHeld
    <3>2. r = tx[t].ride /\ LeaveHeld(t)
      BY <1>1, <3>1 DEF RideHeld, CallOffPCs, SweepPCs, Held, TxHeld
    <3>3. PICK q \in Reqs :
             /\ reqs[q].committed \in Request /\ reqs[q].committed.ride = r
             /\ ReqSeen(t, q).status \notin LiveReq /\ Returning(t, q)
      BY <3>1, <3>2 DEF LeaveHeld, Returning
    <3>4. q \in C
      BY <3>3 DEF Charged
    <3>5. q \notin D
      <4>1. reqs'[q].committed.status # "accepted"
        BY <3>3, CommitsRow DEF LiveReq
      <4>2. ASSUME NEW s \in Tx, Returning(s, q)' PROVE FALSE
        <5>1. s # t
          BY <4>2, CommitsRow DEF Returning
        <5>2. Returning(s, q)
          BY <4>2, <5>1, OthersReturning DEF Run
        <5> QED
          BY <3>2, <3>3, <5>1, <5>2 DEF RacedInv
      <4> QED
        BY <4>1, <4>2 DEF Charged
    <3>6. D \subseteq C \ {q}
      BY <2>1, <3>5
    <3> QED
      BY <1>1, <1>2, <3>1, <3>4, <3>6, SeatsStillFit
  <2> QED
    BY <2>2, <2>3
<1> QED
  BY <1>3, <1>4

LEMMA NextSeats == Inv /\ HeldInv /\ SeatsInv /\ [Next]_vars => SeatsInv'
<1> SUFFICES ASSUME Inv, HeldInv, SeatsInv, [Next]_vars PROVE SeatsInv'
  OBVIOUS
<1>1. CASE UNCHANGED <<rides, reqs, tx, raced>>
  BY <1>1 DEF SeatsInv, RacedInv, SeatsFit, Charged, Returning
<1>2. ASSUME NEW t \in Tx, Arrival(t) \/ Run(t) \/ Abort(t) PROVE SeatsInv'
  <2>1. RacedInv' /\ raced \subseteq raced'
    BY <1>2, StepRaces DEF SeatsInv
  <2> SUFFICES ASSUME NEW r \in Rides \ raced PROVE SeatsFit(r)'
    BY <2>1 DEF SeatsInv
  <2>2. SeatsFit(r)
    BY DEF SeatsInv
  <2>3. CASE Commit(t)
    BY <2>2, <2>3, NewRideSeats, OtherRideSeats, HeldRideSeats DEF SeatsInv
  <2>4. CASE ~Commit(t)
    <3>1. rides'[r].committed = rides[r].committed /\ Charged(r)' \subseteq Charged(r)
      BY <1>2, <2>4, OnlyCommit, StatementCharges DEF NothingCommitted
    <3>2. CASE rides[r].committed \in GoodRide
      <4>1. rides'[r].committed.available <= rides[r].committed.available
        BY <3>1, <3>2, RideNumbers
      <4> QED
        BY <2>2, <3>1, <3>2, <4>1, SeatsStillFit
    <3>3. CASE rides[r].committed \notin GoodRide
      BY <3>1, <3>3 DEF SeatsFit
    <3> QED
      BY <3>2, <3>3
  <2> QED
    BY <2>3, <2>4
<1> QED
  BY <1>1, <1>2 DEF Next, Tick, vars

LEMMA InitSeats == Init => SeatsInv
<1> SUFFICES ASSUME Init PROVE SeatsInv
  OBVIOUS
<1>1. \A t \in Tx : tx[t].seen # "accepted"
  BY NothingAssumption DEF Init, Idle, LiveReq
<1>2. \A r \in Rides : rides[r].committed \notin GoodRide
  BY AbsentAssumption DEF Init, Stored, GoodRide
<1> QED
  BY <1>1, <1>2 DEF SeatsInv, RacedInv, SeatsFit, Returning, Init

LEMMA SeatsInvariance == Spec => []SeatsInv
  BY InitSeats, NextSeats, Invariance, HeldInvariance, PTL DEF Spec

(* The ride and seat-request tables and the transactions that are running  *)
(* on them hold only values of their types, for any number of members,     *)
(* rides, requests and connections: requestSeat, acceptRequest and the     *)
(* rest never read a row that is not there.                                *)
THEOREM TypeCorrect == Spec => []TypeOK
<1>1. Inv /\ SeatsInv => TypeOK
  <2> SUFFICES ASSUME Inv, SeatsInv PROVE TypeOK
    OBVIOUS
  <2>1. \A r \in Rides : rides[r] \in RowsOf(Ride \cup {Absent})
    BY DEF Inv, RidesInv, RowInv, RowsOf, GoodRide
  <2>2. \A q \in Reqs : reqs[q] \in RowsOf(Request \cup {Absent})
    BY DEF Inv, ReqsInv, RowInv
  <2> QED
    BY <2>1, <2>2 DEF TypeOK, Inv, RidesInv, ReqsInv, SeatsInv, RacedInv
<1> QED
  BY <1>1, SeatsInvariance, Invariance, PTL

(* The seats of a ride that are accepted and those still on offer never    *)
(* exceed the car's: acceptRequest takes a seat in one statement and marks *)
(* the request in another, cancelSeatRequest frees the request and returns *)
(* the seat, and whatever commits in between, no seat is promised twice,   *)
(* for any number of members, calls and connections; the one way to spoil  *)
(* a ride's ledger is to cancel one accepted request twice at once.        *)
THEOREM SeatsNotOversold == Spec => []NoOversell
<1>1. Inv /\ SeatsInv => NoOversell
  <2> SUFFICES ASSUME Inv, SeatsInv, NEW r \in Rides \ raced, rides[r].committed # Absent
               PROVE  Cardinality(Accepted(r)) + rides[r].committed.available
                        <= rides[r].committed.total
    BY DEF NoOversell
  <2>1. rides[r].committed \in GoodRide /\ SeatsFit(r)
    BY DEF Inv, RidesInv, RowInv, RowsOf, SeatsInv
  <2>2. Accepted(r) \subseteq Charged(r)
    BY DEF Accepted, Charged, Inv, ReqsInv, RowInv, RowsOf
  <2>3. /\ IsFiniteSet(Charged(r)) /\ rides[r].committed.available \in Nat
        /\ rides[r].committed.total \in Nat
        /\ Cardinality(Charged(r)) + rides[r].committed.available
             <= rides[r].committed.total
    BY <2>1, RideNumbers DEF SeatsFit
  <2>4. /\ Cardinality(Accepted(r)) <= Cardinality(Charged(r))
        /\ Cardinality(Accepted(r)) \in Nat /\ Cardinality(Charged(r)) \in Nat
    BY <2>2, <2>3, FS_Subset, FS_CardinalityType
  <2> QED
    BY <2>3, <2>4
<1> QED
  BY <1>1, SeatsInvariance, Invariance, PTL

-----------------------------------------------------------------------------
(* The ledger implements the booking promise.                              *)

SeatsOf(p) == IF p = Absent THEN 0 ELSE p.total
Riding(r) == {reqs[q].committed.passenger : q \in Accepted(r)}

SamePhases == \A r \in Rides : PhaseOf(rides'[r].committed) = PhaseOf(rides[r].committed)
SameTotals == \A r \in Rides : SeatsOf(rides'[r].committed) = SeatsOf(rides[r].committed)
SameRiders == \A r \in Rides : Riding(r)' = Riding(r)

BookingVars ==
  <<[r \in Rides |-> PhaseOf(rides[r].committed)],
    [r \in Rides |-> IF rides[r].committed = Absent THEN 0 ELSE rides[r].committed.total],
    [r \in Rides |-> {reqs[q].committed.passenger : q \in Accepted(r)}],
    raced>>

(* The steps of the promise, ride by ride.                                 *)
LEMMA Stutters ==
  ASSUME SamePhases, SameTotals, SameRiders, UNCHANGED raced
  PROVE  UNCHANGED BookingVars
<1>1. [r \in Rides |-> Riding(r)]' = [r \in Rides |-> Riding(r)]
  BY DEF SameRiders
<1>2. [r \in Rides |-> SeatsOf(rides[r].committed)]'
        = [r \in Rides |-> SeatsOf(rides[r].committed)]
  BY DEF SameTotals
<1>3. [r \in Rides |-> PhaseOf(rides[r].committed)]'
        = [r \in Rides |-> PhaseOf(rides[r].committed)]
  BY DEF SamePhases
<1> QED
  BY <1>1, <1>2, <1>3 DEF BookingVars, Riding, SeatsOf

(* The promise counts with its own instance of FiniteSets.                 *)
LEMMA SameCount == \A S : Booking!Cardinality(S) = Cardinality(S)
  BY DEF Booking!Cardinality, Cardinality

LEMMA Books ==
  ASSUME NEW r \in Rides, NEW u \in Users, SamePhases, SameTotals,
         PhaseOf(rides[r].committed) = "open", u \notin Riding(r), UNCHANGED raced,
         r \in raced \/ Cardinality(Riding(r)) < SeatsOf(rides[r].committed),
         Riding(r)' = Riding(r) \cup {u},
         \A s \in Rides : s # r => Riding(s)' = Riding(s)
  PROVE  Booking!Next
<1> DEFINE phase == [s \in Rides |-> PhaseOf(rides[s].committed)]
           seats == [s \in Rides |-> SeatsOf(rides[s].committed)]
           booked == [s \in Rides |-> Riding(s)]
<1>1. phase' = phase /\ seats' = seats
  BY DEF SamePhases, SameTotals
<1>2. booked' = [booked EXCEPT ![r] = @ \cup {u}]
  OBVIOUS
<1>3. phase[r] = "open" /\ booked[r] = Riding(r) /\ seats[r] = SeatsOf(rides[r].committed)
  OBVIOUS
<1>4. /\ phase[r] = "open" /\ u \notin booked[r]
      /\ r \in raced \/ Cardinality(booked[r]) < seats[r]
      /\ booked' = [booked EXCEPT ![r] = @ \cup {u}] /\ UNCHANGED <<phase, seats, raced>>
  BY <1>1, <1>2, <1>3
<1>5. Booking!Cardinality(booked[r]) = Cardinality(booked[r])
  BY SameCount
<1>6. Booking!Book(r, u)
  BY <1>4, <1>5 DEF Booking!Book, SeatsOf, Riding
<1> QED
  BY <1>6 DEF Booking!Next

LEMMA Releases ==
  ASSUME NEW r \in Rides, NEW u \in Users, SamePhases, SameTotals, u \in Riding(r),
         UNCHANGED raced,
         Riding(r)' = Riding(r) \ {u},
         \A s \in Rides : s # r => Riding(s)' = Riding(s)
  PROVE  Booking!Next
<1> DEFINE phase == [s \in Rides |-> PhaseOf(rides[s].committed)]
           seats == [s \in Rides |-> SeatsOf(rides[s].committed)]
           booked == [s \in Rides |-> Riding(s)]
<1>1. phase' = phase /\ seats' = seats
  BY DEF SamePhases, SameTotals
<1>2. booked' = [booked EXCEPT ![r] = @ \ {u}] /\ u \in booked[r]
  OBVIOUS
<1>3. Booking!Release(r, u)
  BY <1>1, <1>2 DEF Booking!Release, SeatsOf, Riding
<1> QED
  BY <1>3 DEF Booking!Next

LEMMA Disputes ==
  ASSUME NEW r \in Rides, NEW u \in Users, SamePhases, SameTotals, SameRiders,
         u \in Riding(r), raced' = raced \cup {r}
  PROVE  Booking!Next
<1> DEFINE phase == [s \in Rides |-> PhaseOf(rides[s].committed)]
           seats == [s \in Rides |-> SeatsOf(rides[s].committed)]
           booked == [s \in Rides |-> Riding(s)]
<1>1. phase' = phase /\ seats' = seats /\ booked' = booked /\ u \in booked[r]
  BY DEF SamePhases, SameTotals, SameRiders
<1>2. Booking!Dispute(r, u)
  BY <1>1 DEF Booking!Dispute, SeatsOf, Riding
<1> QED
  BY <1>2 DEF Booking!Next

LEMMA CallsOff ==
  ASSUME NEW r \in Rides, SameTotals, UNCHANGED raced,
         PhaseOf(rides[r].committed) = "open", PhaseOf(rides'[r].committed) = "off",
         \A s \in Rides : s # r => /\ PhaseOf(rides'[s].committed) = PhaseOf(rides[s].committed)
                                   /\ Riding(s)' = Riding(s),
         Riding(r)' = {}
  PROVE  Booking!Next
<1> DEFINE phase == [s \in Rides |-> PhaseOf(rides[s].committed)]
           seats == [s \in Rides |-> SeatsOf(rides[s].committed)]
           booked == [s \in Rides |-> Riding(s)]
<1>1. seats' = seats
  BY DEF SameTotals
<1>2. booked' = [booked EXCEPT ![r] = {}]
  OBVIOUS
<1>3. phase' = [phase EXCEPT ![r] = "off"] /\ phase[r] = "open"
  OBVIOUS
<1>4. Booking!CallOff(r)
  BY <1>1, <1>2, <1>3 DEF Booking!CallOff, SeatsOf, Riding
<1> QED
  BY <1>4 DEF Booking!Next

LEMMA Removes ==
  ASSUME NEW r \in Rides, SameTotals, SameRiders, UNCHANGED raced,
         PhaseOf(rides[r].committed) \notin {"none", "down"},
         PhaseOf(rides'[r].committed) = "down",
         \A s \in Rides : s # r => PhaseOf(rides'[s].committed) = PhaseOf(rides[s].committed)
  PROVE  Booking!Next
<1> DEFINE phase == [s \in Rides |-> PhaseOf(rides[s].committed)]
           seats == [s \in Rides |-> SeatsOf(rides[s].committed)]
           booked == [s \in Rides |-> Riding(s)]
<1>1. seats' = seats /\ booked' = booked
  BY DEF SameTotals, SameRiders
<1>2. phase' = [phase EXCEPT ![r] = "down"] /\ phase[r] \notin {"none", "down"}
  OBVIOUS
<1>3. Booking!Remove(r)
  BY <1>1, <1>2 DEF Booking!Remove, SeatsOf, Riding
<1> QED
  BY <1>3 DEF Booking!Next

LEMMA Settles ==
  ASSUME NEW ended \in SUBSET Rides, NEW new \in SUBSET Rides, SameRiders,
         UNCHANGED raced,
         \A r \in ended : /\ PhaseOf(rides[r].committed) = "open"
                          /\ PhaseOf(rides'[r].committed) = "over"
                          /\ r \notin new,
         \A r \in new : /\ PhaseOf(rides[r].committed) = "none"
                        /\ PhaseOf(rides'[r].committed) = "open"
                        /\ SeatsOf(rides'[r].committed) \in Nat \ {0},
         \A r \in Rides \ (ended \cup new) :
            PhaseOf(rides'[r].committed) = PhaseOf(rides[r].committed),
         \A r \in Rides \ new : SeatsOf(rides'[r].committed) = SeatsOf(rides[r].committed)
  PROVE  Booking!Next
<1> DEFINE phase == [s \in Rides |-> PhaseOf(rides[s].committed)]
           seats == [s \in Rides |-> SeatsOf(rides[s].committed)]
           booked == [s \in Rides |-> Riding(s)]
<1>1. booked' = booked
  BY DEF SameRiders
<1>2. phase' = [r \in Rides |-> IF r \in ended THEN "over"
                                ELSE IF r \in new THEN "open" ELSE phase[r]]
  OBVIOUS
<1>3. /\ \A r \in ended : phase[r] = "open"
      /\ \A r \in new : phase[r] = "none"
      /\ \A r \in Rides : IF r \in new THEN seats'[r] \in Nat \ {0} ELSE seats'[r] = seats[r]
  OBVIOUS
<1>4. Booking!Settle(ended, new)
  BY <1>1, <1>2, <1>3 DEF Booking!Settle, SeatsOf, Riding
<1> QED
  BY <1>4 DEF Booking!Next

(* What a commit makes of a ride.                                          *)
LEMMA CommitsRide ==
  ASSUME Inv, HeldInv, NEW t \in Tx, Commit(t), NEW r \in Rides
  PROVE  LET p == rides[r].committed
             o == rides'[r].committed
         IN /\ rides[r].holder # t => o = p
            /\ rides[r].holder = t
                 => o = rides[r].written /\ o \in GoodRide /\ RideHeld(t, r)
            /\ p \in GoodRide => SeatsOf(o) = SeatsOf(p)
<1>1. rides[r].holder = t => rides[r].written \in GoodRide /\ RideHeld(t, r)
  BY WrittenTyped DEF HeldInv, Held
<1>2. rides[r].holder = t /\ rides[r].committed \in GoodRide
        => SeatsOf(rides[r].written) = SeatsOf(rides[r].committed)
  BY <1>1, RideNumbers DEF RideHeld, SeatsOf
<1> QED
  BY <1>1, <1>2, CommitsRow

(* The same riders, as long as no request gains or loses a seat.           *)
LEMMA RidersStay ==
  ASSUME NEW r \in Rides,
         \A q \in Reqs : /\ RiderOf(q, r)' <=> RiderOf(q, r)
                         /\ RiderOf(q, r) => reqs'[q].committed.passenger
                                               = reqs[q].committed.passenger
  PROVE  Riding(r)' = Riding(r)
<1>1. Accepted(r)' = Accepted(r)
  BY DEF Accepted, RiderOf
<1>2. \A q \in Accepted(r) : reqs'[q].committed.passenger = reqs[q].committed.passenger
  BY DEF Accepted, RiderOf
<1> QED
  BY <1>1, <1>2 DEF Riding

LEMMA PhasesOfRides ==
  \A p \in GoodRide :
    /\ PhaseOf(p) # "none"
    /\ PhaseOf(p) = "open" <=> p.status \in OpenRide
    /\ PhaseOf(p) = "down" <=> p.removed = TRUE
    /\ PhaseOf(p) = "off" <=> p.status = "cancelled" /\ p.removed = FALSE
    /\ PhaseOf(p) = "over" <=> p.status \in {"completed", "expired"}
<1> SUFFICES ASSUME NEW p \in GoodRide
             PROVE  /\ PhaseOf(p) # "none"
                    /\ PhaseOf(p) = "open" <=> p.status \in OpenRide
                    /\ PhaseOf(p) = "down" <=> p.removed = TRUE
                    /\ PhaseOf(p) = "off" <=> p.status = "cancelled" /\ p.removed = FALSE
                    /\ PhaseOf(p) = "over" <=> p.status \in {"completed", "expired"}
  OBVIOUS
<1>1. /\ p \in Ride /\ p # Absent /\ p.removed \in BOOLEAN /\ p.status \in RideStatus
      /\ p.removed = TRUE => p.status = "cancelled"
  BY AbsentAssumption DEF GoodRide, Ride
<1> QED
  BY <1>1 DEF PhaseOf, RideStatus, OpenRide

(* A transaction of one ride: an edit, an offer or a removal.              *)
LEMMA CommitsOneRide ==
  ASSUME Inv, HeldInv, NEW t \in Tx, Commit(t), UNCHANGED raced, tx[t].pc = "commit",
         \A q \in Reqs : reqs[q].holder # t
  PROVE  Booking!Next \/ UNCHANGED BookingVars
<1>1. SameRiders
  <2>1. \A q \in Reqs : reqs'[q].committed = reqs[q].committed
    BY CommitsRow DEF ReqSeen, View
  <2> QED
    BY <2>1, RidersStay DEF SameRiders, RiderOf
<1>2. CASE \A r \in Rides : rides[r].holder = t
             => SamePhase(rides[r].committed, rides[r].written)
  <2>1. SamePhases /\ SameTotals
    BY <1>2, CommitsRide DEF SamePhases, SameTotals, SamePhase
  <2> QED
    BY <1>1, <2>1, Stutters
<1>3. CASE \E r \in Rides : /\ rides[r].holder = t
                            /\ ~SamePhase(rides[r].committed, rides[r].written)
  <2>1. PICK r \in Rides : /\ rides[r].holder = t
                           /\ ~SamePhase(rides[r].committed, rides[r].written)
    BY <1>3
  <2> DEFINE p == rides[r].committed
             o == rides'[r].committed
  <2>2. /\ o = rides[r].written /\ o \in GoodRide
        /\ NewOffer(p, o) \/ TakenDown(p, o)
    BY <2>1, CommitsRide DEF RideHeld, CallOffPCs, SweepPCs
  <2>3. \A s \in Rides : s # r => rides'[s].committed = rides[s].committed
    <3>1. \A s \in Rides : rides[s].holder = t => RideHeld(t, s)
      BY DEF HeldInv, Held
    <3>2. \A s \in Rides : rides[s].holder = t => s = r
      BY <2>1, <3>1 DEF RideHeld, CallOffPCs, SweepPCs
    <3> QED
      BY <3>2, CommitsRide
  <2>4. CASE NewOffer(p, o)
    <3>1. /\ PhaseOf(p) = "none" /\ PhaseOf(o) = "open"
          /\ SeatsOf(o) \in Nat \ {0}
      BY <2>2, <2>4, PhasesOfRides, RideNumbers
         DEF NewOffer, OpenRide, PhaseOf, SeatsOf, GoodRide, Ride
    <3>2. {} \in SUBSET Rides /\ {r} \in SUBSET Rides
      OBVIOUS
    <3>3. Booking!Next
      BY <1>1, <2>3, <3>1, <3>2, Settles
    <3> QED
      BY <3>3
  <2>5. CASE TakenDown(p, o)
    <3>1. p \in GoodRide /\ PhaseOf(p) \notin {"none", "down"} /\ PhaseOf(o) = "down"
      BY <2>2, <2>5, PhasesOfRides DEF TakenDown, GoodRide, Ride
    <3>2. SameTotals
      BY <2>3, <3>1, CommitsRide DEF SameTotals
    <3> QED
      BY <1>1, <2>3, <3>1, <3>2, Removes
  <2> QED
    BY <2>2, <2>4, <2>5
<1> QED
  BY <1>2, <1>3

(* A call-off.                                                             *)
LEMMA CommitsCallOff ==
  ASSUME Inv, HeldInv, NEW t \in Tx, Commit(t), UNCHANGED raced, tx[t].pc = "callOff.reqs"
  PROVE  Booking!Next
<1>1. /\ CallOffHeld(t) /\ tx[t].ride \in Rides /\ tx[t].todo = {}
  BY DEF HeldInv, Held, TxHeld, CallOffPCs, Inv, TxInv, RidePCs, Commit, Finished
<1>2. PICK r \in Rides : r = tx[t].ride
  BY <1>1
<1>3. /\ rides[r].holder = t
      /\ \A q \in Reqs : RiderOf(q, r) => reqs[q].holder = t
      /\ \A q \in Reqs : reqs[q].holder = t
           => reqs[q].written.ride = r /\ reqs[q].written.status = "cancelled"
  BY <1>1, <1>2 DEF CallOffHeld, HeldInv, Held, ReqHeld
<1>4. \A s \in Rides : rides[s].holder = t
        => s = r /\ CalledOff(rides[s].committed, rides[s].written)
  <2> SUFFICES ASSUME NEW s \in Rides, rides[s].holder = t
               PROVE  s = r /\ CalledOff(rides[s].committed, rides[s].written)
    OBVIOUS
  <2>1. RideHeld(t, s)
    BY DEF HeldInv, Held
  <2> QED
    BY <1>2, <2>1 DEF RideHeld, SweepPCs
<1>5. /\ rides[r].committed \in GoodRide /\ rides'[r].committed \in GoodRide
      /\ PhaseOf(rides[r].committed) = "open" /\ PhaseOf(rides'[r].committed) = "off"
  <2>1. /\ rides'[r].committed = rides[r].written /\ rides[r].written \in GoodRide
        /\ CalledOff(rides[r].committed, rides[r].written)
    BY <1>3, <1>4, CommitsRide
  <2>2. rides[r].written.removed = FALSE
    BY <2>1 DEF CalledOff, GoodRide, Ride
  <2> QED
    BY <2>1, <2>2, PhasesOfRides DEF CalledOff
<1>6. \A s \in Rides : s # r => rides'[s].committed = rides[s].committed
  BY <1>4, CommitsRide
<1>7. SameTotals
  BY <1>5, <1>6, CommitsRide DEF SameTotals
<1>8. \A q \in Reqs : reqs'[q].committed = ReqSeen(t, q)
  BY CommitsRow
<1>9. Riding(r)' = {}
  <2>1. \A q \in Reqs : ~RiderOf(q, r)'
    BY <1>3, <1>8 DEF RiderOf, ReqSeen, View
  <2>2. Accepted(r)' = {}
    BY <2>1 DEF Accepted, RiderOf
  <2> QED
    BY <2>2 DEF Riding
<1>10. ASSUME NEW s \in Rides, s # r PROVE Riding(s)' = Riding(s)
  <2> SUFFICES ASSUME NEW q \in Reqs
               PROVE  /\ RiderOf(q, s)' <=> RiderOf(q, s)
                      /\ RiderOf(q, s) => reqs'[q].committed.passenger
                                            = reqs[q].committed.passenger
    BY RidersStay
  <2>1. CASE reqs[q].holder # t
    BY <1>8, <2>1 DEF RiderOf, ReqSeen, View
  <2>2. CASE reqs[q].holder = t
    <3>1. ~RiderOf(q, s)'
      BY <1>3, <1>8, <2>2 DEF RiderOf, ReqSeen, View
    <3>2. ~RiderOf(q, s)
      <4>1. reqs[q].committed \in Request
              => <<reqs[q].committed, reqs[q].written>> \in ReqMoves
        BY DEF Inv, ReqsInv, RowInv
      <4>2. reqs[q].committed # Absent => reqs[q].committed \in Request
        BY DEF Inv, ReqsInv, RowInv, RowsOf
      <4> QED
        BY <1>3, <1>10, <2>2, <4>1, <4>2 DEF RiderOf, ReqMoves, ReqMove
    <3> QED
      BY <3>1, <3>2
  <2> QED
    BY <2>1, <2>2
<1> QED
  BY <1>5, <1>6, <1>7, <1>9, <1>10, CallsOff

(* A sweep.                                                                *)
LEMMA CommitsSweep ==
  ASSUME Inv, HeldInv, NEW t \in Tx, Commit(t), UNCHANGED raced, tx[t].pc = "sweep.spawning"
  PROVE  Booking!Next
<1>1. SameRiders
  <2>1. \A q \in Reqs : reqs[q].holder # t
    BY NoReqHeld DEF HeldInv
  <2>2. \A q \in Reqs : reqs'[q].committed = reqs[q].committed
    BY <2>1, CommitsRow DEF ReqSeen, View
  <2> QED
    BY <2>2, RidersStay DEF SameRiders, RiderOf
<1> DEFINE ended == {r \in Rides : /\ rides[r].holder = t
                                   /\ PastWindow(rides[r].committed, rides[r].written)}
           new == {r \in Rides : /\ rides[r].holder = t
                                 /\ NewOffer(rides[r].committed, rides[r].written)}
<1>2. ASSUME NEW r \in ended
      PROVE  /\ PhaseOf(rides[r].committed) = "open" /\ PhaseOf(rides'[r].committed) = "over"
             /\ r \notin new
  <2>1. rides'[r].committed = rides[r].written /\ rides[r].written \in GoodRide
    BY CommitsRide
  <2> QED
    BY <2>1, PhasesOfRides, RideNumbers DEF PastWindow, NewOffer
<1>3. ASSUME NEW r \in new
      PROVE  /\ PhaseOf(rides[r].committed) = "none" /\ PhaseOf(rides'[r].committed) = "open"
             /\ SeatsOf(rides'[r].committed) \in Nat \ {0}
  <2>1. rides'[r].committed = rides[r].written /\ rides[r].written \in GoodRide
    BY CommitsRide
  <2> QED
    BY <2>1, PhasesOfRides, RideNumbers
       DEF NewOffer, OpenRide, PhaseOf, SeatsOf, GoodRide, Ride
<1>4. \A r \in Rides : rides[r].holder = t => r \in ended \cup new
  <2> SUFFICES ASSUME NEW r \in Rides, rides[r].holder = t PROVE r \in ended \cup new
    OBVIOUS
  <2>1. RideHeld(t, r)
    BY CommitsRide
  <2>2. \/ PastWindow(rides[r].committed, rides[r].written)
        \/ NewOffer(rides[r].committed, rides[r].written)
    BY <2>1 DEF RideHeld, CallOffPCs
  <2> QED
    BY <2>2
<1>5. \A r \in Rides \ (ended \cup new) :
        PhaseOf(rides'[r].committed) = PhaseOf(rides[r].committed)
  BY <1>4, CommitsRide
<1>6. \A r \in Rides \ new : SeatsOf(rides'[r].committed) = SeatsOf(rides[r].committed)
  <2> SUFFICES ASSUME NEW r \in Rides \ new
               PROVE  SeatsOf(rides'[r].committed) = SeatsOf(rides[r].committed)
    OBVIOUS
  <2>1. CASE rides[r].holder # t
    BY <2>1, CommitsRide
  <2>2. CASE rides[r].holder = t
    <3>1. rides[r].committed \in GoodRide
      BY <1>4, <2>2 DEF PastWindow
    <3> QED
      BY <3>1, CommitsRide
  <2> QED
    BY <2>1, <2>2
<1>7. ended \in SUBSET Rides /\ new \in SUBSET Rides
  OBVIOUS
<1> HIDE DEF ended, new
<1> QED
  BY <1>1, <1>2, <1>3, <1>5, <1>6, <1>7, Settles

(* There are no more riders than accepted requests.                        *)
LEMMA RidersCounted ==
  ASSUME Inv, SeatsInv, NEW r \in Rides \ raced, rides[r].committed \in GoodRide
  PROVE  /\ Cardinality(Riding(r)) \in Nat
         /\ Cardinality(Riding(r)) + rides[r].committed.available <= rides[r].committed.total
<1> DEFINE f == [q \in Accepted(r) |-> reqs[q].committed.passenger]
<1>1. f \in Surjection(Accepted(r), Riding(r))
  BY DEF Surjection, Riding
<1>2. /\ IsFiniteSet(Charged(r)) /\ Accepted(r) \subseteq Charged(r)
      /\ Cardinality(Charged(r)) + rides[r].committed.available <= rides[r].committed.total
  BY DEF SeatsInv, SeatsFit, Accepted, Charged, Inv, ReqsInv, RowInv, RowsOf
<1>3. IsFiniteSet(Accepted(r)) /\ Cardinality(Accepted(r)) <= Cardinality(Charged(r))
  BY <1>2, FS_Subset
<1>4. IsFiniteSet(Riding(r)) /\ Cardinality(Riding(r)) <= Cardinality(Accepted(r))
  BY <1>1, <1>3, FS_Surjection
<1>5. /\ Cardinality(Riding(r)) \in Nat /\ Cardinality(Accepted(r)) \in Nat
      /\ Cardinality(Charged(r)) \in Nat
  BY <1>2, <1>3, <1>4, FS_CardinalityType
<1> QED
  BY <1>2, <1>3, <1>4, <1>5, RideNumbers

(* A decision about one request.                                           *)
LEMMA CommitsRequest ==
  ASSUME Inv, HeldInv, IndexInv, SeatsInv, NEW t \in Tx, Commit(t), tx[t].pc = "commit",
         UNCHANGED raced,
         NEW q \in Reqs, reqs[q].holder = t
  PROVE  Booking!Next \/ UNCHANGED BookingVars
<1> DEFINE v == reqs[q].committed
           w == reqs[q].written
<1>1. /\ w \in Request /\ ReqHeld(t, q)
      /\ v # Absent => v \in Request /\ w.ride = v.ride /\ w.passenger = v.passenger
  BY WrittenTyped DEF Inv, ReqsInv, RowInv, RowsOf, ReqMoves, ReqMove, HeldInv, Held
<1>2. /\ \A p \in Reqs : reqs[p].holder = t => p = q
      /\ \A s \in Rides : rides[s].holder = t
           => SamePhase(rides[s].committed, rides[s].written)
  BY <1>1 DEF ReqHeld
<1>3. SamePhases /\ SameTotals
  BY <1>2, CommitsRide DEF SamePhases, SameTotals, SamePhase
<1>4. /\ reqs'[q].committed = w
      /\ \A p \in Reqs : p # q => reqs'[p].committed = reqs[p].committed
  BY <1>2, CommitsRow DEF ReqSeen, View
<1>5. PICK r \in Rides, u \in Users : w.ride = r /\ w.passenger = u
  BY <1>1 DEF Request
<1>6. ASSUME NEW s \in Rides, s # r PROVE Riding(s)' = Riding(s)
  BY <1>1, <1>4, <1>5, <1>6, RidersStay DEF RiderOf
<1>7. \A p \in Reqs : p # q => /\ RiderOf(p, r)' <=> RiderOf(p, r)
                              /\ reqs'[p].committed.passenger = reqs[p].committed.passenger
  BY <1>4 DEF RiderOf
<1>8. RiderOf(q, r) => reqs[q].committed.passenger = u
  BY <1>1, <1>5 DEF RiderOf
<1>9. ASSUME NEW p \in Reqs, p # q, RiderOf(p, r)
      PROVE  /\ reqs[p].committed \in Request
             /\ reqs[p].committed.passenger = u => reqs[p].committed \in LiveKey(r, u)
             /\ OneEntry(reqs[p], reqs[q], LiveKey(r, u))
  <2>1. /\ reqs[p].committed # Absent
        /\ reqs[p].committed.ride = r
        /\ reqs[p].committed.status = "accepted"
    BY <1>9 DEF RiderOf
  <2>2. reqs[p].committed \in Request
    BY <2>1 DEF Inv, ReqsInv, RowInv, RowsOf
  <2>3. reqs[p].committed.passenger = u => reqs[p].committed \in LiveKey(r, u)
    BY <2>1, <2>2 DEF LiveKey, LiveAsk, LiveReq
  <2>4. OneEntry(reqs[p], reqs[q], LiveKey(r, u))
    BY <1>9 DEF IndexInv
  <2> QED
    BY <2>2, <2>3, <2>4
<1>10. CASE RiderOf(q, r)' <=> RiderOf(q, r)
  <2>1. reqs'[q].committed.passenger = u
    BY <1>4, <1>5
  <2>2. Riding(r)' = Riding(r)
    BY <1>7, <1>8, <1>10, <2>1, RidersStay
  <2> QED
    BY <1>3, <1>6, <2>2, Stutters DEF SameRiders
<1>11. CASE RiderOf(q, r)' /\ ~RiderOf(q, r)
  <2>1. w.status = "accepted" /\ reqs'[q].committed.passenger = u /\ w # Absent
    BY <1>4, <1>5, <1>11 DEF RiderOf
  <2>2. /\ rides[r].holder = t
        /\ OneSeatTaken(rides[r].committed, rides[r].written)
    BY <1>1, <1>5, <2>1 DEF ReqHeld
  <2>3. /\ rides[r].committed \in GoodRide /\ rides[r].written \in GoodRide
        /\ PhaseOf(rides[r].committed) = "open"
    BY <1>2, <2>2, CommitsRide, PhasesOfRides DEF SamePhase, OneSeatTaken
  <2>4. r \in raced \/ Cardinality(Riding(r)) < SeatsOf(rides[r].committed)
    <3> SUFFICES ASSUME r \notin raced
                 PROVE  Cardinality(Riding(r)) < SeatsOf(rides[r].committed)
      OBVIOUS
    <3>1. /\ rides[r].written.available \in Nat
          /\ rides[r].written.available + 1 = rides[r].committed.available
          /\ rides[r].committed.total \in Nat
          /\ SeatsOf(rides[r].committed) = rides[r].committed.total
      BY <2>2, <2>3, RideNumbers DEF OneSeatTaken, SeatsOf
    <3>2. /\ Cardinality(Riding(r)) \in Nat
          /\ Cardinality(Riding(r)) + rides[r].committed.available
               <= rides[r].committed.total
      BY <2>3, RidersCounted
    <3> QED
      BY <3>1, <3>2
  <2>5. w \in LiveKey(r, u)
    BY <1>1, <1>5, <2>1 DEF LiveKey, LiveAsk, LiveReq
  <2>6. \A p \in Reqs : RiderOf(p, r) => reqs[p].committed.passenger # u
    BY <1>2, <1>9, <1>11, <2>5 DEF OneEntry
  <2>7. u \notin Riding(r)
    BY <2>6 DEF Riding, Accepted, RiderOf
  <2>8. Accepted(r)' = Accepted(r) \cup {q}
    BY <1>7, <1>11 DEF Accepted, RiderOf
  <2>9. Riding(r)' = Riding(r) \cup {u}
    <3>1. \A p \in Accepted(r) : reqs'[p].committed.passenger = reqs[p].committed.passenger
      BY <1>7, <1>11 DEF Accepted, RiderOf
    <3> QED
      BY <2>1, <2>8, <3>1 DEF Riding
  <2>10. Booking!Next
    BY <1>3, <1>6, <2>3, <2>4, <2>7, <2>9, Books
  <2> QED
    BY <2>10
<1>12. CASE ~RiderOf(q, r)' /\ RiderOf(q, r)
  <2>1. Accepted(r)' = Accepted(r) \ {q} /\ q \in Accepted(r)
    BY <1>7, <1>12 DEF Accepted, RiderOf
  <2>2. v \in LiveKey(r, u)
    BY <1>1, <1>8, <1>12 DEF RiderOf, LiveKey, LiveAsk, LiveReq
  <2>3. \A p \in Accepted(r) \ {q} :
           /\ reqs[p].committed.passenger # u
           /\ reqs'[p].committed.passenger = reqs[p].committed.passenger
    BY <1>7, <1>9, <2>2 DEF OneEntry, Accepted, RiderOf
  <2>4. Riding(r)' = Riding(r) \ {u} /\ u \in Riding(r)
    BY <1>8, <1>12, <2>1, <2>3 DEF Riding
  <2>5. Booking!Next
    BY <1>3, <1>6, <2>4, Releases
  <2> QED
    BY <2>5
<1> QED
  BY <1>10, <1>11, <1>12

(* A seat that is returned twice: nothing is committed, the ride is raced. *)
LEMMA BookingRaced ==
  ASSUME Inv, HeldInv, NothingCommitted, NEW t \in Tx, Leave_Read(t)
  PROVE  Booking!Next \/ UNCHANGED raced
<1> DEFINE q == tx'[t].req
           v == reqs[q].committed
<1>1. /\ q \in Reqs /\ v \in Request
      /\ \/ raced' = raced
         \/ v.status = "accepted" /\ raced' = raced \cup {v.ride}
  BY LeavesAs
<1>2. CASE v.status = "accepted" /\ raced' = raced \cup {v.ride}
  <2>1. PICK r \in Rides, u \in Users : r = v.ride /\ u = v.passenger
    BY <1>1 DEF Request
  <2>2. q \in Accepted(r)
    BY <1>1, <1>2, <2>1, AbsentAssumption DEF Accepted
  <2>3. u \in Riding(r) /\ raced' = raced \cup {r}
    BY <1>2, <2>1, <2>2 DEF Riding
  <2>4. SamePhases /\ SameTotals /\ SameRiders
    BY RidersStay DEF NothingCommitted, SamePhases, SameTotals, SameRiders, RiderOf
  <2> QED
    BY <2>3, <2>4, Disputes
<1> QED
  BY <1>1, <1>2

LEMMA BookingStep ==
  ASSUME Inv, HeldInv, IndexInv, SeatsInv, [Next]_vars
  PROVE  Booking!Next \/ UNCHANGED BookingVars
<1>1. CASE NothingCommitted /\ UNCHANGED raced
  <2>1. SamePhases /\ SameTotals
    BY <1>1 DEF NothingCommitted, SamePhases, SameTotals
  <2>2. SameRiders
    BY <1>1, RidersStay DEF NothingCommitted, SameRiders, RiderOf
  <2> QED
    BY <1>1, <2>1, <2>2, Stutters
<1>2. ASSUME NEW t \in Tx, Commit(t) PROVE Booking!Next \/ UNCHANGED BookingVars
  <2>1. tx[t].pc \in {"commit", "callOff.reqs", "sweep.spawning"} /\ UNCHANGED raced
    BY <1>2 DEF Commit, Finished, LastPCs
  <2> QED
    BY <1>2, <2>1, CommitsOneRide, CommitsRequest, CommitsCallOff, CommitsSweep
<1>3. ASSUME NEW t \in Tx, Arrival(t) \/ Run(t) \/ Abort(t), ~Commit(t)
      PROVE  Booking!Next \/ (NothingCommitted /\ UNCHANGED raced)
  BY <1>3, OnlyCommit, OnlyLeaveRaces, BookingRaced
<1>4. CASE Tick \/ UNCHANGED vars
  BY <1>1, <1>4 DEF Tick, vars, NothingCommitted
<1> QED
  BY <1>1, <1>2, <1>3, <1>4 DEF Next

(* Whatever statements overlap, members see the rides module do only what  *)
(* SeatBooking promises: one rider at a time gets a seat that is left, on  *)
(* an open ride; a call-off empties the ride; what is over stays over.     *)
(* Only a rider who has a seat and cancels it twice at once spoils the     *)
(* count of free seats, and of that ride alone (Dispute).                  *)
THEOREM LedgerBooksSeats == Spec => BookingSpec
<1>1. Init => Booking!Init
  <2> SUFFICES ASSUME Init PROVE Booking!Init
    OBVIOUS
  <2>1. \A r \in Rides : /\ PhaseOf(rides[r].committed) = "none"
                         /\ rides[r].committed = Absent
                         /\ Accepted(r) = {}
    BY DEF Init, Stored, PhaseOf, Accepted
  <2>2. raced = {}
    BY DEF Init
  <2> QED
    BY <2>1, <2>2 DEF Booking!Init
<1>2. Inv /\ HeldInv /\ IndexInv /\ SeatsInv /\ [Next]_vars => [Booking!Next]_BookingVars
  BY BookingStep
<1>3. Spec => [](Inv /\ HeldInv /\ IndexInv /\ SeatsInv)
  BY SeatsInvariance, InitIndex, NextIndex, Invariance, HeldInvariance, PTL DEF Spec
<1> QED
  BY <1>1, <1>2, <1>3, PTL DEF Spec, BookingSpec, Booking!Spec, Booking!vars, BookingVars

-----------------------------------------------------------------------------
(* A recurring offer and its next occurrence.                              *)

(* The values with which row r is the live occurrence of the offer `root'. *)
Line(r, root) == {v \in GoodRide : v.status \in OpenRide /\ RootOf(v, r) = root}

(* Two rows, x with the keys A and y with the keys B, share an entry as    *)
(* OneEntry says.                                                          *)
OneLive(x, y, A, B) ==
  /\ ~(x.committed \in A /\ y.committed \in B)
  /\ ~(x.written \in A /\ y.written \in B)
  /\ x.committed \in A /\ y.written \in B => x.holder = y.holder
  /\ x.written \in A /\ y.committed \in B => x.holder = y.holder

LiveOnce ==
  \A r, s, root \in Rides :
    r # s => OneLive(rides[r], rides[s], Line(r, root), Line(s, root))

(* The first ride of a line is posted before the others name it.           *)
RootPosted(v) ==
  v \in GoodRide /\ v.root # Nothing => rides[v.root].committed \in GoodRide

(* What a sweep still has to follow up it has ended itself, and not yet.   *)
SpawnHeld(t) ==
  tx[t].pc = "sweep.spawning"
    => \A r \in tx[t].todo :
         /\ rides[r].holder = t /\ rides[r].written.status \notin OpenRide
         /\ \A n \in Rides :
              rides[n].holder = t /\ rides[n].written.status \in OpenRide
                => RootOf(rides[n].written, n) # RootOf(rides[r].written, r)

LineInv ==
  /\ LiveOnce
  /\ \A r \in Rides : RootPosted(rides[r].committed) /\ RootPosted(rides[r].written)
  /\ \A t \in Tx : SpawnHeld(t)


LEMMA QuietRides == Inv => \A r \in Rides : Quiet(rides[r])
  BY DEF Inv, RidesInv, RowInv, Quiet

(* A legal successor of a live occurrence that is live is so for the same  *)
(* offer.                                                                  *)
LEMMA LineMoves ==
  ASSUME NEW p \in GoodRide, NEW v, RideMove(p, v), NEW r, NEW root, v \in Line(r, root)
  PROVE  p \in Line(r, root)
<1>1. v.status \in OpenRide /\ RootOf(v, r) = root /\ v.root = p.root /\ v \in GoodRide
  BY DEF Line, RideMove
<1>2. v.status # "cancelled"
  BY <1>1 DEF OpenRide
<1>3. p.status \in OpenRide
  BY <1>1, <1>2 DEF RideMove
<1> QED
  BY <1>1, <1>3 DEF Line, RootOf

(* The lines survive every statement that posts nothing ...                *)
LEMMA LineTouched ==
  ASSUME NEW x, NEW y, NEW x1, NEW y1, NEW t \in Tx, NEW A, NEW B, Quiet(x), Quiet(y),
         OneLive(x, y, A, B), Touches(x, x1, t, A), Touches(y, y1, t, B)
  PROVE  OneLive(x1, y1, A, B)
<1> DEFINE Cases(row, new, K) ==
      \/ new = row
      \/ /\ Free(row, t) /\ new.holder = t /\ new.committed = row.committed
         /\ new.written \in K => row.written \in K
      \/ /\ row.holder = NoTx /\ new.holder = NoTx /\ new.written = new.committed
         /\ new.committed \in K => row.committed \in K
<1>1. Cases(x, x1, A) /\ Cases(y, y1, B)
  BY TouchCases
<1> QED
  BY <1>1, NoTxAssumption DEF OneLive, Quiet, Free

(* ... and the end of a transaction.                                       *)
LEMMA LineEnds ==
  ASSUME NEW x, NEW y, NEW t \in Tx, NEW A, NEW B, Quiet(x), Quiet(y), OneLive(x, y, A, B)
  PROVE  /\ OneLive(Published(x, t), Published(y, t), A, B)
         /\ OneLive(Restored(x, t), Restored(y, t), A, B)
  BY NoTxAssumption DEF OneLive, Quiet, Published, Restored, Stored

LEMMA LineSymmetry ==
  ASSUME NEW x, NEW y, NEW A, NEW B, OneLive(x, y, A, B) PROVE OneLive(y, x, B, A)
  BY DEF OneLive

(* What another transaction has to follow up is its own affair.            *)
LEMMA OthersSpawn ==
  ASSUME Inv, NEW t \in Tx, NEW s \in Tx, s # t, StepOK(t), SpawnHeld(s)
  PROVE  SpawnHeld(s)'
<1>1. tx'[s] = tx[s]
  BY DEF StepOK, TxStep
<1>2. \A r \in Rides : /\ rides'[r].holder = s <=> rides[r].holder = s
                       /\ rides[r].holder = s => rides'[r] = rides[r]
  BY OthersRow DEF StepOK, RidesStep
<1>3. tx[s].pc = "sweep.spawning" => \A r \in tx[s].todo : r \in Rides
  BY DEF Inv, TxInv, SweepPCs
<1> SUFFICES ASSUME tx[s].pc = "sweep.spawning", NEW r \in tx[s].todo
             PROVE  /\ rides'[r].holder = s /\ rides'[r].written.status \notin OpenRide
                    /\ \A n \in Rides :
                         rides'[n].holder = s /\ rides'[n].written.status \in OpenRide
                           => RootOf(rides'[n].written, n) # RootOf(rides'[r].written, r)
  BY <1>1 DEF SpawnHeld
<1>4. r \in Rides /\ rides[r].holder = s /\ rides'[r] = rides[r]
  BY <1>2, <1>3 DEF SpawnHeld
<1> QED
  BY <1>2, <1>4 DEF SpawnHeld

(* The parts of LineInv, put together again.                               *)
LEMMA LineStep ==
  ASSUME Inv, LineInv, NEW t \in Tx, StepOK(t), LiveOnce', SpawnHeld(t)',
         \A r \in Rides : RootPosted(rides'[r].written)
  PROVE  LineInv'
<1>1. \A r \in Rides : rides[r].committed \in GoodRide => rides'[r].committed \in GoodRide
  BY Kept DEF StepOK
<1>2. ASSUME NEW v, RootPosted(v), v \in GoodRide, v.root # Nothing
      PROVE  rides'[v.root].committed \in GoodRide
  <2>1. v.root \in Rides
    BY <1>2 DEF GoodRide, Ride
  <2> QED
    BY <1>1, <1>2, <2>1 DEF RootPosted
<1>3. ASSUME NEW r \in Rides
      PROVE  RootPosted(rides'[r].committed) /\ RootPosted(rides'[r].written)
  <2>1. \/ rides'[r].committed = rides[r].committed
        \/ rides'[r].committed = rides[r].written
    BY ChangeCases DEF StepOK, RidesStep
  <2> QED
    BY <2>1 DEF LineInv
<1>4. ASSUME NEW r \in Rides
      PROVE  RootPosted(rides[r].committed)' /\ RootPosted(rides[r].written)'
  BY <1>2, <1>3, <1>4 DEF RootPosted
<1>5. \A s \in Tx : SpawnHeld(s)'
  BY OthersSpawn DEF LineInv
<1> QED
  BY <1>4, <1>5 DEF LineInv

(* A statement that leaves the rides alone.                                *)
LEMMA QuietLine ==
  ASSUME Inv, LineInv, NEW t \in Tx, StepOK(t), rides' = rides,
         tx'[t].pc # "sweep.spawning"
  PROVE  LineInv'
<1>1. LiveOnce'
  BY DEF LineInv, LiveOnce
<1>2. SpawnHeld(t)'
  BY DEF SpawnHeld
<1>3. \A r \in Rides : RootPosted(rides'[r].written)
  BY DEF LineInv
<1> QED
  BY <1>1, <1>2, <1>3, LineStep

(* A statement that changes a posted ride.                                 *)
LEMMA MovedLine ==
  ASSUME Inv, LineInv, NEW t \in Tx, StepOK(t), NEW r \in Rides, NEW v \in GoodRide,
         WriteRide(t, r, v), Free(rides[r], t), RideSeen(t, r) \in GoodRide,
         RideMove(RideSeen(t, r), v), tx'[t].pc # "sweep.spawning"
  PROVE  LineInv'
<1>1. \A s \in Rides : rides'[s] = IF s = r THEN Put(rides[r], t, v) ELSE rides[s]
  BY DEF Inv, RidesInv, WriteRide
<1>2. ASSUME NEW s \in Rides, NEW root \in Rides
      PROVE  Touches(rides[s], rides'[s], t, Line(s, root))
  <2>1. CASE s = r
    <3>1. v \in Line(r, root) => View(rides[r], t) \in Line(r, root)
      BY LineMoves DEF RideSeen
    <3> QED
      BY <1>1, <2>1, <3>1 DEF Touches
  <2>2. CASE s # r
    BY <1>1, <2>2 DEF Touches
  <2> QED
    BY <2>1, <2>2
<1>3. LiveOnce'
  <2> SUFFICES ASSUME NEW a \in Rides, NEW b \in Rides, NEW root \in Rides, a # b
               PROVE  OneLive(rides'[a], rides'[b], Line(a, root), Line(b, root))
    BY DEF LiveOnce
  <2>1. /\ OneLive(rides[a], rides[b], Line(a, root), Line(b, root))
        /\ Quiet(rides[a]) /\ Quiet(rides[b])
    BY QuietRides DEF LineInv, LiveOnce
  <2> QED
    BY <1>2, <2>1, LineTouched
<1>4. SpawnHeld(t)'
  BY DEF SpawnHeld
<1>5. ASSUME NEW s \in Rides PROVE RootPosted(rides'[s].written)
  <2>1. CASE s = r
    <3>1. rides'[s].written = v
      BY <1>1, <2>1 DEF Put
    <3>2. RootPosted(RideSeen(t, r)) /\ v.root = RideSeen(t, r).root
      BY DEF LineInv, RideSeen, View, RideMove
    <3> QED
      BY <3>1, <3>2 DEF RootPosted
  <2>2. CASE s # r
    BY <1>1, <2>2 DEF LineInv
  <2> QED
    BY <2>1, <2>2
<1> QED
  BY <1>3, <1>4, <1>5, LineStep

LEMMA EndLine ==
  ASSUME Inv, LineInv, NEW t \in Tx,
         Commit(t) \/ Abort(t) \/ DeadlockVictim(t) \/ Request_Duplicate(t)
  PROVE  LineInv'
<1>1. \/ \A r \in Rides : rides'[r] = Published(rides[r], t)
      \/ \A r \in Rides : rides'[r] = Restored(rides[r], t)
  BY DEF Commit, Abort, DeadlockVictim, Request_Duplicate, Rollback
<1>2. LiveOnce'
  <2> SUFFICES ASSUME NEW a \in Rides, NEW b \in Rides, NEW root \in Rides, a # b
               PROVE  OneLive(rides'[a], rides'[b], Line(a, root), Line(b, root))
    BY DEF LiveOnce
  <2>1. /\ OneLive(rides[a], rides[b], Line(a, root), Line(b, root))
        /\ Quiet(rides[a]) /\ Quiet(rides[b])
    BY QuietRides DEF LineInv, LiveOnce
  <2>2. /\ OneLive(Published(rides[a], t), Published(rides[b], t), Line(a, root), Line(b, root))
        /\ OneLive(Restored(rides[a], t), Restored(rides[b], t), Line(a, root), Line(b, root))
    BY <2>1, LineEnds
  <2> QED
    BY <1>1, <2>2
<1>3. SpawnHeld(t)'
  <2>1. tx'[t] = Idle
    BY DEF Commit, Abort, DeadlockVictim, Request_Duplicate, Rollback, Return, Inv
  <2> QED
    BY <2>1 DEF SpawnHeld, Idle
<1>4. ASSUME NEW r \in Rides PROVE RootPosted(rides'[r].written)
  <2>1. rides'[r] = Published(rides[r], t) \/ rides'[r] = Restored(rides[r], t)
    BY <1>1
  <2>2. \/ rides'[r].written = rides[r].written
        \/ rides'[r].written = rides[r].committed
    BY <2>1 DEF Published, Restored, Stored
  <2> QED
    BY <2>2 DEF LineInv
<1> QED
  BY <1>2, <1>3, <1>4, EndStep, LineStep


-----------------------------------------------------------------------------
(* The actions that change the rides.                                      *)

LEMMA BeginPC ==
  ASSUME Inv, NEW t \in Tx, NEW pc, NEW u, NEW r, NEW q, Begin(t, pc, u, r, q)
  PROVE  tx'[t].pc = pc
  BY DEF Begin, Opened, Idle, Inv

(* The first ride of an offer: nobody else names it yet.                   *)
LEMMA CreateLine ==
  ASSUME Inv, LineInv, NEW t \in Tx, Create_Insert(t)
  PROVE  LineInv'
<1>1. PICK u \in Verified, n \in 1..MaxSeats, d \in Departures, b \in Recurrence,
           r \in Issued(rides, Rides) :
        /\ WriteRide(t, r, Offer(u, n, d, b, Nothing))
        /\ Begin(t, "commit", u, r, Nothing)
  BY DEF Create_Insert
<1> DEFINE o == Offer(u, n, d, b, Nothing)
<1>2. o.root = Nothing /\ RootOf(o, r) = r
  BY DEF Offer, RootOf
<1> HIDE DEF o
<1>3. /\ r \in Rides /\ rides[r] = Stored(Absent) /\ Absent \notin GoodRide
  BY AbsentAssumption DEF Issued, Fresh, GoodRide
<1>4. \A s \in Rides : rides'[s] = IF s = r THEN Put(rides[r], t, o) ELSE rides[s]
  BY <1>1, <1>3 DEF Inv, RidesInv, WriteRide, o
<1>5. /\ rides'[r].committed = Absent /\ rides'[r].written = o
      /\ rides[r].committed = Absent /\ rides[r].written = Absent
  BY <1>3, <1>4 DEF Put, Stored
<1>6. ASSUME NEW s \in Rides, s # r, NEW root \in Rides
      PROVE  OneLive(rides'[r], rides'[s], Line(r, root), Line(s, root))
  <2>1. CASE root = r
    <3>1. ASSUME NEW v, RootPosted(v), v \in Line(s, r) PROVE FALSE
      <4>1. v \in GoodRide /\ RootOf(v, s) = r
        BY <3>1 DEF Line
      <4>2. v.root = r /\ r # Nothing
        BY <1>3, <1>6, <4>1, NothingAssumption DEF RootOf
      <4> QED
        BY <1>3, <1>5, <3>1, <4>1, <4>2 DEF RootPosted
    <3>2. rides[s].committed \notin Line(s, r) /\ rides[s].written \notin Line(s, r)
      BY <3>1 DEF LineInv
    <3> QED
      BY <1>4, <1>6, <2>1, <3>2 DEF OneLive
  <2>2. CASE root # r
    <3>1. o \notin Line(r, root) /\ Absent \notin Line(r, root)
      BY <1>2, <1>3, <2>2 DEF Line
    <3> QED
      BY <1>5, <3>1 DEF OneLive
  <2> QED
    BY <2>1, <2>2
<1>7. LiveOnce'
  <2> SUFFICES ASSUME NEW a \in Rides, NEW s \in Rides, NEW root \in Rides, a # s
               PROVE  OneLive(rides'[a], rides'[s], Line(a, root), Line(s, root))
    BY DEF LiveOnce
  <2>1. CASE a = r
    BY <1>6, <2>1
  <2>2. CASE s = r
    BY <1>3, <1>6, <2>2, LineSymmetry
  <2>3. CASE a # r /\ s # r
    BY <1>4, <2>3 DEF LineInv, LiveOnce
  <2> QED
    BY <2>1, <2>2, <2>3
<1>8. SpawnHeld(t)'
  BY <1>1, BeginPC DEF SpawnHeld
<1>9. ASSUME NEW s \in Rides PROVE RootPosted(rides'[s].written)
  <2>1. CASE s = r
    BY <1>2, <1>5, <2>1 DEF RootPosted
  <2>2. CASE s # r
    BY <1>4, <2>2 DEF LineInv
  <2> QED
    BY <2>1, <2>2
<1> QED
  BY <1>7, <1>8, <1>9, CreateStep, LineStep

LEMMA EditLine ==
  ASSUME Inv, LineInv, NEW t \in Tx, Edit_Ride(t)
  PROVE  LineInv'
<1>1. PICK u \in Users, r \in Posted, d \in Departures :
        /\ Free(rides[r], t)
        /\ WriteRide(t, r, [RideSeen(t, r) EXCEPT !.depart = d])
        /\ Begin(t, "commit", u, r, Nothing)
  BY DEF Edit_Ride
<1> DEFINE p == RideSeen(t, r)
<1>2. r \in Rides /\ p \in GoodRide
  BY Seen DEF Posted
<1>3. [p EXCEPT !.depart = d] \in GoodRide /\ RideMove(p, [p EXCEPT !.depart = d])
  BY <1>2, DeparturesType, EditedRide
<1> QED
  BY <1>1, <1>2, <1>3, EditStep, BeginPC, MovedLine

LEMMA CallOffLine ==
  ASSUME Inv, LineInv, NEW t \in Tx, CallOff_Ride(t)
  PROVE  LineInv'
<1>1. PICK u \in Users, r \in Posted :
        /\ Open(RideSeen(t, r), u) /\ Free(rides[r], t)
        /\ WriteRide(t, r, [RideSeen(t, r) EXCEPT !.status = "cancelled"])
        /\ Begin(t, "callOff.riders", u, r, Nothing)
  BY DEF CallOff_Ride
<1> DEFINE p == RideSeen(t, r)
<1>2. r \in Rides /\ p \in GoodRide
  BY Seen DEF Posted
<1>3. /\ [p EXCEPT !.status = "cancelled"] \in GoodRide
      /\ RideMove(p, [p EXCEPT !.status = "cancelled"])
  BY <1>1, <1>2, EndedRide DEF Open, RideStatus, OpenRide
<1> QED
  BY <1>1, <1>2, <1>3, CallOffRideStep, BeginPC, MovedLine

LEMMA RemoveLine ==
  ASSUME Inv, LineInv, NEW t \in Tx, Remove_Ride(t)
  PROVE  LineInv'
<1>1. PICK u \in Moderators, r \in Posted :
        /\ ~RideSeen(t, r).removed /\ Free(rides[r], t)
        /\ WriteRide(t, r, [RideSeen(t, r) EXCEPT !.status = "cancelled", !.removed = TRUE])
        /\ Begin(t, "commit", u, r, Nothing)
  BY DEF Remove_Ride
<1> DEFINE p == RideSeen(t, r)
           v == [p EXCEPT !.status = "cancelled", !.removed = TRUE]
<1>2. r \in Rides /\ p \in GoodRide
  BY Seen DEF Posted
<1>3. v \in GoodRide /\ RideMove(p, v)
  BY <1>1, <1>2, RemovedRide
<1> QED
  BY <1>1, <1>2, <1>3, RemoveStep, BeginPC, MovedLine

LEMMA AcceptLine ==
  ASSUME Inv, LineInv, NEW t \in Tx, Accept_Ride(t)
  PROVE  LineInv'
<1> DEFINE r == tx[t].ride
           p == RideSeen(t, r)
<1>1. r \in Rides /\ p \in GoodRide
  BY Seen DEF Inv, TxInv, RidePCs, Accept_Ride
<1>2. CASE /\ HasSeat(p, tx[t].user) /\ Free(rides[r], t)
           /\ WriteRide(t, r, SeatTaken(p)) /\ Goto(t, "accept.req")
  <2>1. SeatTaken(p) \in GoodRide /\ RideMove(p, SeatTaken(p))
    BY <1>1, <1>2, TakenSeat
  <2>2. tx'[t].pc # "sweep.spawning"
    BY <1>2, GotoFields
  <2> QED
    BY <1>1, <1>2, <2>1, <2>2, AcceptRideStep, MovedLine
<1>3. CASE Return(t) /\ UNCHANGED rides
  <2>1. tx'[t].pc # "sweep.spawning"
    BY <1>3 DEF Return, Idle, Inv
  <2> QED
    BY <1>3, <2>1, AcceptRideStep, QuietLine
<1> QED
  BY <1>2, <1>3 DEF Accept_Ride

LEMMA LeaveLine ==
  ASSUME Inv, LineInv, NEW t \in Tx, Leave_Ride(t)
  PROVE  LineInv'
<1> DEFINE r == tx[t].ride
           p == RideSeen(t, r)
<1>1. r \in Rides /\ p \in GoodRide
  BY Seen DEF Inv, TxInv, RidePCs, Leave_Ride
<1>2. SeatReturned(p) \in GoodRide /\ RideMove(p, SeatReturned(p))
  BY <1>1, ReturnedSeat
<1>3. Free(rides[r], t) /\ WriteRide(t, r, SeatReturned(p)) /\ tx'[t].pc # "sweep.spawning"
  BY GotoFields DEF Leave_Ride
<1> QED
  BY <1>1, <1>2, <1>3, LeaveRideStep, MovedLine

LEMMA SweepEndLine ==
  ASSUME Inv, LineInv, NEW t \in Tx, Sweep_EndRow(t)
  PROVE  LineInv'
<1> DEFINE e == SweepOutcome(tx[t].pc)
<1>1. PICK r \in tx[t].todo :
        /\ \/ /\ Due(RideSeen(t, r), tx[t].at) /\ Free(rides[r], t)
              /\ WriteRide(t, r, [RideSeen(t, r) EXCEPT !.status = e])
           \/ UNCHANGED rides
        /\ tx' = [tx EXCEPT ![t].todo = @ \ {r}]
  BY DEF Sweep_EndRow
<1> DEFINE p == RideSeen(t, r)
<1>2. r \in Rides /\ p \in GoodRide
  BY DEF Inv, TxInv, SweepPCs, Sweep_EndRow
<1>3. tx'[t].pc # "sweep.spawning"
  BY <1>1, VisitedFields DEF Sweep_EndRow
<1>4. CASE UNCHANGED rides
  BY <1>3, <1>4, SweepEndRowStep, QuietLine
<1>5. CASE /\ Due(p, tx[t].at) /\ Free(rides[r], t)
           /\ WriteRide(t, r, [p EXCEPT !.status = e])
  <2>1. e \in RideStatus \ OpenRide
    BY DEF SweepOutcome, RideStatus, OpenRide
  <2>2. p.status \in OpenRide
    BY <1>5 DEF Due
  <2>3. [p EXCEPT !.status = e] \in GoodRide /\ RideMove(p, [p EXCEPT !.status = e])
    BY <1>2, <2>1, <2>2, EndedRide
  <2> QED
    BY <1>2, <1>3, <1>5, <2>3, SweepEndRowStep, MovedLine
<1> QED
  BY <1>1, <1>4, <1>5


(* What a sweep that turns to the follow-ups holds, it has ended.          *)
LEMMA EndedLine ==
  ASSUME NEW t \in Tx, Inv, Held(t), LineInv, Sweep_Ended(t)
  PROVE  LineInv'
<1> DEFINE S == {r \in Rides : /\ rides[r].holder = t
                               /\ rides[r].written.recurring
                               /\ rides[r].written.status \in {"completed", "expired"}}
<1>1. /\ tx[t].pc = "sweep.expiring" /\ rides' = rides
      /\ Scan(t, "sweep.spawning", S)
  BY DEF Sweep_Ended
<1>2. \A r \in S : rides[r].holder = t /\ rides[r].written.status \notin OpenRide
  BY DEF OpenRide
<1> HIDE DEF S
<1>3. tx'[t].todo = S
  <2>1. tx[t] \in Transaction /\ tx'[t] = [tx[t] EXCEPT !.pc = "sweep.spawning", !.todo = S]
    BY <1>1 DEF Scan, Inv
  <2> QED
    BY <2>1 DEF Transaction
<1>4. ASSUME NEW n \in Rides, rides[n].holder = t
      PROVE  rides[n].written.status \notin OpenRide
  <2>1. PastWindow(rides[n].committed, rides[n].written)
    BY <1>1, <1>4 DEF Held, RideHeld, CallOffPCs
  <2> QED
    BY <2>1 DEF PastWindow, OpenRide
<1>5. SpawnHeld(t)'
  BY <1>1, <1>2, <1>3, <1>4 DEF SpawnHeld
<1>6. LiveOnce'
  BY <1>1 DEF LineInv, LiveOnce
<1>7. \A r \in Rides : RootPosted(rides'[r].written)
  BY <1>1 DEF LineInv
<1> QED
  BY <1>5, <1>6, <1>7, SweepScanSteps, LineStep

(* A ride to follow up: everybody else still sees it on the board.         *)
LEMMA FollowedUp ==
  ASSUME NEW t \in Tx, Inv, Held(t), SpawnHeld(t), tx[t].pc = "sweep.spawning",
         NEW r \in tx[t].todo
  PROVE  /\ r \in Rides /\ rides[r].holder = t /\ RideSeen(t, r) = rides[r].written
         /\ rides[r].written \in GoodRide /\ rides[r].written.status \notin OpenRide
         /\ rides[r].committed \in Line(r, RootOf(rides[r].written, r))
         /\ RootOf(rides[r].written, r) \in Rides
<1>1. /\ r \in Rides /\ rides[r].holder = t /\ RideSeen(t, r) = rides[r].written
      /\ rides[r].written.status \notin OpenRide
  BY DEF Inv, TxInv, SweepPCs, SpawnHeld, RideSeen, View
<1>2. rides[r].written \in GoodRide
  BY <1>1, NoTxAssumption DEF Inv, RidesInv, RowInv
<1>3. PastWindow(rides[r].committed, rides[r].written)
  BY <1>1 DEF Held, RideHeld, CallOffPCs, NewOffer, OpenRide
<1>4. rides[r].committed \in GoodRide /\ rides[r].committed.status \in OpenRide
  BY <1>3 DEF PastWindow
<1>5. rides[r].written.root = rides[r].committed.root
  BY <1>1, <1>4 DEF Inv, RidesInv, RowInv, RideMoves, RideMove
<1>6. RootOf(rides[r].written, r) = RootOf(rides[r].committed, r)
  BY <1>5 DEF RootOf
<1>7. RootOf(rides[r].written, r) \in Rides
  BY <1>1, <1>2 DEF RootOf, GoodRide, Ride
<1> QED
  BY <1>1, <1>2, <1>4, <1>6, <1>7 DEF Line

(* The next occurrence is the only one: nobody else may end the last one.  *)
LEMMA SpawnLine ==
  ASSUME NEW t \in Tx, Inv, Held(t), LineInv, Sweep_Spawn(t)
  PROVE  LineInv'
<1>1. PICK r \in tx[t].todo :
        /\ \/ \E n \in Issued(rides, Rides) :
                WriteRide(t, n, Offer(RideSeen(t, r).author, RideSeen(t, r).total,
                                      NextSlot(RideSeen(t, r), tx[t].at), TRUE,
                                      RootOf(RideSeen(t, r), r)))
           \/ UNCHANGED rides
        /\ tx' = [tx EXCEPT ![t].todo = @ \ {r}]
  BY DEF Sweep_Spawn
<1> DEFINE p == rides[r].written
           R == RootOf(p, r)
           o == Offer(p.author, p.total, NextSlot(p, tx[t].at), TRUE, R)
<1>2. tx[t].pc = "sweep.spawning" /\ SpawnHeld(t)
  BY DEF Sweep_Spawn, LineInv
<1>3. /\ r \in Rides /\ rides[r].holder = t /\ RideSeen(t, r) = p
      /\ p \in GoodRide /\ p.status \notin OpenRide
      /\ rides[r].committed \in Line(r, R) /\ R \in Rides
  BY <1>2, FollowedUp
<1>4. tx'[t].pc = "sweep.spawning" /\ tx'[t].todo = tx[t].todo \ {r}
  <2>1. tx[t] \in Transaction /\ tx'[t] = [tx[t] EXCEPT !.todo = @ \ {r}]
    BY <1>1 DEF Inv
  <2> QED
    BY <1>2, <2>1 DEF Transaction
<1>5. CASE UNCHANGED rides
  <2>1. LiveOnce'
    BY <1>5 DEF LineInv, LiveOnce
  <2>2. SpawnHeld(t)'
    BY <1>2, <1>4, <1>5 DEF SpawnHeld
  <2>3. \A s \in Rides : RootPosted(rides'[s].written)
    BY <1>5 DEF LineInv
  <2> QED
    BY <2>1, <2>2, <2>3, SweepSpawnStep, LineStep
<1>6. ASSUME NEW n \in Issued(rides, Rides), WriteRide(t, n, o) PROVE LineInv'
  <2>1. o.root = R /\ \A s : RootOf(o, s) = R
    BY <1>3, NothingAssumption DEF Offer, RootOf
  <2>2. n \in Rides /\ rides[n] = Stored(Absent) /\ Absent \notin GoodRide
    BY AbsentAssumption DEF Issued, Fresh, GoodRide
  <2> HIDE DEF o, R
  <2>3. /\ rides'[n].committed = Absent /\ rides'[n].written = o /\ rides'[n].holder = t
        /\ \A s \in Rides : s # n => rides'[s] = rides[s]
    BY <1>6, <2>2, WrittenRide DEF Stored
  <2>4. n # r /\ rides[n].holder # t
    BY <1>3, <2>2, NoTxAssumption DEF Stored
  <2>5. ASSUME NEW s \in Rides, s # n, NEW root \in Rides
        PROVE  OneLive(rides'[n], rides'[s], Line(n, root), Line(s, root))
    <3>1. Absent \notin Line(n, root)
      BY <2>2 DEF Line
    <3>2. CASE root # R
      <4>1. o \notin Line(n, root)
        BY <2>1, <3>2 DEF Line
      <4> QED
        BY <2>3, <3>1, <4>1 DEF OneLive
    <3>3. CASE root = R
      <4>1. rides'[s].written \notin Line(s, R) /\ (rides'[s].committed \in Line(s, R) => rides'[s].holder = t)
        <5>1. CASE s = r
          BY <1>3, <2>3, <2>4, <5>1 DEF Line
        <5>2. CASE s # r
          <6>1. OneLive(rides[r], rides[s], Line(r, R), Line(s, R))
            BY <1>3, <5>2 DEF LineInv, LiveOnce
          <6>2. rides[s].committed \notin Line(s, R)
            BY <1>3, <6>1 DEF OneLive
          <6>3. rides[s].written \in Line(s, R) => rides[s].holder = t
            BY <1>3, <6>1 DEF OneLive
          <6>4. rides[s].written \notin Line(s, R)
            BY <1>2, <6>3 DEF SpawnHeld, Line, R
          <6> QED
            BY <2>3, <2>5, <6>2, <6>4
        <5> QED
          BY <5>1, <5>2
      <4> QED
        BY <2>3, <3>1, <3>3, <4>1 DEF OneLive
    <3> QED
      BY <3>2, <3>3
  <2>6. LiveOnce'
    <3> SUFFICES ASSUME NEW a \in Rides, NEW s \in Rides, NEW root \in Rides, a # s
                 PROVE  OneLive(rides'[a], rides'[s], Line(a, root), Line(s, root))
      BY DEF LiveOnce
    <3>1. CASE a = n
      BY <2>5, <3>1
    <3>2. CASE s = n
      BY <2>2, <2>5, <3>2, LineSymmetry
    <3>3. CASE a # n /\ s # n
      BY <2>3, <3>3 DEF LineInv, LiveOnce
    <3> QED
      BY <3>1, <3>2, <3>3
  <2>7. SpawnHeld(t)'
    <3> SUFFICES ASSUME NEW q \in tx[t].todo, q # r
                 PROVE  /\ rides'[q].holder = t /\ rides'[q].written.status \notin OpenRide
                        /\ \A m \in Rides :
                             rides'[m].holder = t /\ rides'[m].written.status \in OpenRide
                               => RootOf(rides'[m].written, m) # RootOf(rides'[q].written, q)
      BY <1>4 DEF SpawnHeld
    <3>1. /\ q \in Rides /\ rides[q].holder = t /\ rides[q].written.status \notin OpenRide
          /\ rides[q].committed \in Line(q, RootOf(rides[q].written, q))
      BY <1>2, FollowedUp
    <3>2. rides'[q] = rides[q]
      BY <2>3, <2>4, <3>1
    <3>3. RootOf(rides[q].written, q) # R
      <4> SUFFICES ASSUME RootOf(rides[q].written, q) = R PROVE FALSE
        OBVIOUS
      <4>1. OneLive(rides[r], rides[q], Line(r, R), Line(q, R))
        BY <1>3, <3>1 DEF LineInv, LiveOnce
      <4> QED
        BY <1>3, <3>1, <4>1 DEF OneLive
    <3>4. ASSUME NEW m \in Rides, rides'[m].holder = t, rides'[m].written.status \in OpenRide
          PROVE  RootOf(rides'[m].written, m) # RootOf(rides[q].written, q)
      <4>1. CASE m = n
        BY <2>1, <2>3, <3>3, <4>1
      <4>2. CASE m # n
        BY <1>2, <2>3, <3>4, <4>2 DEF SpawnHeld
      <4> QED
        BY <4>1, <4>2
    <3> QED
      BY <3>1, <3>2, <3>4
  <2>8. ASSUME NEW s \in Rides PROVE RootPosted(rides'[s].written)
    <3>1. CASE s = n
      <4>1. rides[R].committed \in GoodRide
        <5>1. CASE p.root = Nothing
          BY <1>3, <5>1 DEF R, RootOf, Line
        <5>2. CASE p.root # Nothing
          BY <1>3, <5>2 DEF R, RootOf, LineInv, RootPosted
        <5> QED
          BY <5>1, <5>2
      <4> QED
        BY <2>1, <2>3, <3>1, <4>1 DEF RootPosted
    <3>2. CASE s # n
      BY <2>3, <3>2 DEF LineInv
    <3> QED
      BY <3>1, <3>2
  <2> QED
    BY <2>6, <2>7, <2>8, SweepSpawnStep, LineStep
<1> QED
  BY <1>1, <1>3, <1>5, <1>6


-----------------------------------------------------------------------------
(* The lines are an invariant.                                             *)

(* A transaction that has no ride to follow up has not turned to it.       *)
LEMMA NotSpawning ==
  ASSUME NEW t \in Tx, Inv,
         \/ Request_Ride(t) \/ Accept_Read(t) \/ Decline_Req(t) \/ Leave_Read(t)
         \/ Sweep_Start(t) \/ Request_Live(t) \/ Request_Insert(t) \/ Accept_Req(t)
         \/ Leave_Req(t) \/ CallOff_Riders(t) \/ CallOff_Snapshot(t) \/ CallOff_Req(t)
         \/ Sweep_Complete(t) \/ Sweep_Expire(t)
  PROVE  tx'[t].pc # "sweep.spawning" /\ rides' = rides
<1>1. CASE Request_Ride(t) \/ Accept_Read(t)
  BY <1>1, BeginPC DEF Request_Ride, Accept_Read
<1>2. CASE Decline_Req(t)
  BY <1>2 DEF Decline_Req, Opened, Idle, Inv
<1>3. CASE Leave_Read(t)
  BY <1>3 DEF Leave_Read, Opened, Idle, Inv
<1>4. CASE Sweep_Start(t)
  BY <1>4 DEF Sweep_Start, Opened, Idle, Inv
<1>5. CASE Request_Live(t)
  BY <1>5, GotoFields DEF Request_Live, Return, Idle, Inv
<1>6. CASE Request_Insert(t) \/ Accept_Req(t)
  BY <1>6, NoteFields DEF Request_Insert, Accept_Req
<1>7. CASE Leave_Req(t)
  BY <1>7, GotoFields DEF Leave_Req, AfterLeave
<1>8. CASE CallOff_Riders(t) \/ CallOff_Snapshot(t)
  <2>1. tx[t] \in Transaction
    BY DEF Inv
  <2> QED
    BY <1>8, <2>1 DEF CallOff_Riders, CallOff_Snapshot, Inv, Transaction
<1>9. CASE CallOff_Req(t)
  BY <1>9, VisitedFields DEF CallOff_Req
<1>10. CASE Sweep_Complete(t) \/ Sweep_Expire(t)
  <2>1. tx[t] \in Transaction
    BY DEF Inv
  <2> QED
    BY <1>10, <2>1 DEF Sweep_Complete, Sweep_Expire, Scan, Inv, Transaction
<1> QED
  BY <1>1, <1>2, <1>3, <1>4, <1>5, <1>6, <1>7, <1>8, <1>9, <1>10

LEMMA ActionLine ==
  ASSUME NEW t \in Tx, Inv, Held(t), LineInv, Arrival(t) \/ Run(t) \/ Abort(t)
  PROVE  LineInv'
<1>1. CASE Arrival(t)
  BY <1>1, CreateLine, EditLine, CallOffLine, RemoveLine, NotSpawning, TransactionStep,
     QuietLine DEF Arrival
<1>2. CASE Statement(t)
  BY <1>2, AcceptLine, LeaveLine, SweepEndLine, EndedLine, SpawnLine, EndLine, NotSpawning,
     TransactionStep, QuietLine DEF Statement, Run
<1>3. CASE Commit(t) \/ DeadlockVictim(t) \/ Abort(t)
  <2>1. Commit(t) \/ Abort(t) \/ DeadlockVictim(t) \/ Request_Duplicate(t)
    BY <1>3
  <2> QED
    BY <2>1, EndLine
<1> QED
  BY <1>1, <1>2, <1>3 DEF Run

LEMMA NextLine == Inv /\ HeldInv /\ LineInv /\ [Next]_vars => LineInv'
<1> SUFFICES ASSUME Inv, HeldInv, LineInv, [Next]_vars PROVE LineInv'
  OBVIOUS
<1>1. CASE UNCHANGED <<rides, tx>>
  BY <1>1 DEF LineInv, LiveOnce, RootPosted, SpawnHeld
<1>2. ASSUME NEW t \in Tx, Arrival(t) \/ Run(t) \/ Abort(t) PROVE LineInv'
  BY <1>2, ActionLine DEF HeldInv
<1> QED
  BY <1>1, <1>2 DEF Next, Tick, vars

LEMMA InitLine == Init => LineInv
<1> SUFFICES ASSUME Init PROVE LineInv
  OBVIOUS
<1>1. Absent \notin GoodRide
  BY AbsentAssumption DEF GoodRide
<1>2. \A r \in Rides : rides[r].committed = Absent /\ rides[r].written = Absent
  BY DEF Init, Stored
<1>3. \A t \in Tx : tx[t].pc = "idle"
  BY DEF Init, Idle
<1> QED
  BY <1>1, <1>2, <1>3 DEF LineInv, LiveOnce, OneLive, Line, RootPosted, SpawnHeld

(* A recurring offer is on the board at most once, however many sweeps run *)
(* (auth_rides_sweep): whoever posts the next occurrence has ended the     *)
(* last one itself, in the same transaction.                               *)
THEOREM OfferedOnce == Spec => []OneLiveOccurrence
<1>1. Inv /\ LineInv => OneLiveOccurrence
  <2> SUFFICES ASSUME Inv, LineInv, NEW r \in Rides, NEW s \in Rides,
                      rides[r].committed # Absent, rides[s].committed # Absent,
                      rides[r].committed.status \in OpenRide,
                      rides[s].committed.status \in OpenRide,
                      RootOf(rides[r].committed, r) = RootOf(rides[s].committed, s),
                      r # s
               PROVE  FALSE
    BY DEF OneLiveOccurrence
  <2> DEFINE p == rides[r].committed
             root == RootOf(p, r)
  <2>1. p \in GoodRide /\ rides[s].committed \in GoodRide
    BY DEF Inv, RidesInv, RowInv, RowsOf
  <2>2. root \in Rides
    BY <2>1 DEF RootOf, GoodRide, Ride
  <2>3. p \in Line(r, root) /\ rides[s].committed \in Line(s, root)
    BY <2>1 DEF Line
  <2>4. OneLive(rides[r], rides[s], Line(r, root), Line(s, root))
    BY <2>2 DEF LineInv, LiveOnce
  <2> QED
    BY <2>3, <2>4 DEF OneLive
<1> QED
  BY <1>1, InitLine, NextLine, Invariance, HeldInvariance, PTL DEF Spec
=============================================================================
