----------------------------- MODULE RideSeats ------------------------------
(***************************************************************************)
(* The seat ledger of the rides module (packages/modules/rides): a driver  *)
(* offers seats, passengers ask for one, the driver accepts or declines,   *)
(* either side calls off, a moderator removes, and an hourly sweep ends    *)
(* what is past and posts the next occurrence of a recurring offer.        *)
(*                                                                         *)
(* Every operation is one READ COMMITTED transaction.  An action below is  *)
(* one SQL statement of one transaction, or its commit or rollback, so the *)
(* statements of different requests interleave as the database allows.     *)
(* The first statement of a request is also its arrival: a request that it *)
(* refuses, or that waits in it holding no row, has changed nothing, so it *)
(* is a request that has not arrived.                                      *)
(* Only offers are modelled: a ride post of kind `request' has no ledger.  *)
(* The notifications of a transaction (tx[t].out) are rows it inserts:     *)
(* they are delivered by its commit and by nothing else.                   *)
(***************************************************************************)
EXTENDS Naturals, FiniteSets, RowStore

CONSTANTS Users,          \* the members of one tenant
          Scheduler,      \* the cron job that runs rides:sweep
          Moderators,     \* holders of rides.moderate
          Verified,       \* users whose membership is verified
          Blocked,        \* pairs <<u, v>> of users with a block either way
          Rides, Reqs,    \* row identities of ride_posts, ride_seat_requests
          Absent,         \* the value of a row that was never inserted
          Nothing,        \* SQL null
          MaxSeats,       \* the tenant's maxSeatsPerOffer
          CompleteAfter,  \* hours after departure before the sweep ends a ride
          InFlight,       \* bound: [op -> calls of its caller in progress at once]
          MaxTime,        \* bound: last hour of the clock
          SpawnReserve,   \* bound: ride rows kept back for the sweep
          IdOrder,        \* bound: pairs <<r, s>>, row r is inserted before s
          Recurrence,     \* bound: whether offers recur, a subset of BOOLEAN
          Ops             \* bound: the operations clients call in this instance

VARIABLES rides,   \* ride_posts
          reqs,    \* ride_seat_requests
          tx,      \* per connection: the transaction it runs
          clock,   \* the hour
          raced    \* history: the rides on which one seat was returned twice at once

vars == <<rides, reqs, tx, clock, raced>>

ASSUME MembersAssumption ==
  Verified \subseteq Users /\ Moderators \subseteq Users /\ Recurrence \subseteq BOOLEAN
ASSUME SeatsAssumption == MaxSeats \in Nat \ {0}
ASSUME TimeAssumption ==
  MaxTime \in Nat /\ CompleteAfter \in Nat \ {0}

Actors == Users \cup {Scheduler}
OpenRide == {"active", "full"}
RideStatus == OpenRide \cup {"completed", "expired", "cancelled"}
LiveReq == {"pending", "accepted"}
ReqStatus == LiveReq \cup {"declined", "cancelled"}

Ride == [author : Users, status : RideStatus, total : Nat \ {0}, available : Nat,
         depart : Nat, recurring : BOOLEAN, root : Rides \cup {Nothing},
         removed : BOOLEAN]
Request == [ride : Rides, passenger : Users, status : ReqStatus]
ASSUME AbsentAssumption == Absent \notin Ride \cup Request
ASSUME NothingAssumption == Nothing \notin Rides /\ Nothing \notin LiveReq

Notice == [to : Users, kind : {"requested", "accepted", "declined", "cancelled"},
           ride : Rides]

(* What a connection remembers: its next statement, its caller, the rows   *)
(* the call is about, the status it read, the rows its current statement   *)
(* has yet to visit, the notifications it inserted and its now().          *)
Statements ==
  {"request.live", "request.insert", "accept.ride", "accept.req", "leave.req",
   "leave.ride", "callOff.riders", "callOff.snapshot", "callOff.reqs",
   "sweep.complete", "sweep.completing", "sweep.expiring", "sweep.spawning", "commit"}

Transaction ==
  [pc : Statements \cup {"idle"}, user : Actors, ride : Rides \cup {Nothing},
   req : Reqs \cup {Nothing}, seen : LiveReq \cup {Nothing},
   todo : SUBSET (Rides \cup Reqs), out : SUBSET Notice, at : Nat]

Idle == [pc |-> "idle", user |-> Scheduler, ride |-> Nothing, req |-> Nothing,
         seen |-> Nothing, todo |-> {}, out |-> {}, at |-> 0]

Init ==
  /\ rides = [r \in Rides |-> Stored(Absent)]
  /\ reqs = [q \in Reqs |-> Stored(Absent)]
  /\ tx = [t \in Tx |-> Idle]
  /\ clock = 0
  /\ raced = {}

-----------------------------------------------------------------------------
(* What the statements are built from.                                     *)

RideSeen(t, r) == View(rides[r], t)
ReqSeen(t, q) == View(reqs[q], t)

Goto(t, pc) == tx' = [tx EXCEPT ![t].pc = pc]
Return(t) == tx' = [tx EXCEPT ![t] = Idle]

WriteRide(t, r, v) == rides' = [rides EXCEPT ![r] = Put(@, t, v)]
WriteReq(t, q, v) == reqs' = [reqs EXCEPT ![q] = Put(@, t, v)]

(* Everything t wrote disappears; its connection is free again.            *)
Rollback(t) ==
  /\ rides' = [r \in Rides |-> Restored(rides[r], t)]
  /\ reqs' = [q \in Reqs |-> Restored(reqs[q], t)]
  /\ Return(t)
  /\ UNCHANGED <<clock, raced>>

LiveAsk(v, r, u) ==
  v # Absent /\ v.ride = r /\ v.passenger = u /\ v.status \in LiveReq

Occurrence(v, root, d) ==
  v # Absent /\ root # Nothing /\ v.root = root /\ v.depart = d

(* Mutant of AskHolders: no unique index, only the check before the insert.*)
AskHolders_NoIndex(t, r, u) == {}

(* A unique index makes an INSERT or UPDATE wait for the transaction that  *)
(* is writing an entry with the same key, and fail on a settled one: these *)
(* are the writers to wait for, of another live request of the passenger   *)
(* on the ride and of another occurrence of the offer at the departure.    *)
AskHolders(t, r, u) ==
  {reqs[q].holder : q \in {p \in Reqs : \/ LiveAsk(reqs[p].committed, r, u)
                                        \/ LiveAsk(reqs[p].written, r, u)}}
    \ {NoTx, t}
AskTaken(t, r, u) == \E q \in Reqs : LiveAsk(ReqSeen(t, q), r, u)

SlotHolders(t, root, d) ==
  {rides[r].holder : r \in {p \in Rides : \/ Occurrence(rides[p].committed, root, d)
                                          \/ Occurrence(rides[p].written, root, d)}}
    \ {NoTx, t}
SlotTaken(t, root, d) == \E r \in Rides : Occurrence(RideSeen(t, r), root, d)

Fresh(rows, pool) == {r \in pool : rows[r] = Stored(Absent)}
Issued(rows, pool) == {r \in Fresh(rows, pool) :
                         \A f \in Fresh(rows, pool) : <<f, r>> \notin IdOrder}

-----------------------------------------------------------------------------
(* A request of u arrives on an idle connection.                           *)

Posted == {r \in Rides : rides[r].committed # Absent}
Asked == {q \in Reqs : reqs[q].committed # Absent}

InFlightOf(u) == {t \in Tx : tx[t].pc # "idle" /\ tx[t].user = u}

Arrives(t, u, op) ==
  /\ op \in Ops
  /\ tx[t].pc = "idle"
  /\ Cardinality(InFlightOf(u)) < InFlight[op]

Opened(pc, u, r, q) ==
  [Idle EXCEPT !.pc = pc, !.user = u, !.ride = r, !.req = q]

Begin(t, pc, u, r, q) == tx' = [tx EXCEPT ![t] = Opened(pc, u, r, q)]

Note(to, kind, r) == [to |-> to, kind |-> kind, ride |-> r]
LastNote(t, n) == tx' = [tx EXCEPT ![t].pc = "commit", ![t].out = {n}]

Departures == (clock + 1)..(MaxTime + 1)

-----------------------------------------------------------------------------
(* createRidePost.  (Its hourly cap per author only ever refuses.)         *)

Offer(u, n, d, recurring, root) ==
  [author |-> u, status |-> "active", total |-> n, available |-> n, depart |-> d,
   recurring |-> recurring, root |-> root, removed |-> FALSE]

(* The pool of row identities is a bound: the sweep's share is kept back.  *)
Create_Insert(t) ==
  \E u \in Verified, n \in 1..MaxSeats, d \in Departures, recurring \in Recurrence :
    /\ Arrives(t, u, "createRidePost")
    /\ Cardinality(Fresh(rides, Rides)) > SpawnReserve
    /\ \E r \in Issued(rides, Rides) :
         /\ WriteRide(t, r, Offer(u, n, d, recurring, Nothing))
         /\ Begin(t, "commit", u, r, Nothing)
    /\ UNCHANGED <<reqs, clock, raced>>

-----------------------------------------------------------------------------
(* requestSeat                                                             *)

SeatRefused(u, p) ==
  \/ u \notin Verified
  \/ p.author = u
  \/ p.status # "active" \/ p.available = 0
  \/ <<u, p.author>> \in Blocked

AskingPCs == {"request.live", "request.insert"}
Asking == {t \in Tx : tx[t].pc \in AskingPCs}

(* A call is made only while a row identity is left for its request.       *)
Request_Ride(t) ==
  \E u \in Users, r \in Posted :
    /\ Arrives(t, u, "requestSeat")
    /\ Cardinality(Fresh(reqs, Reqs)) > Cardinality(Asking)
    /\ ~SeatRefused(u, RideSeen(t, r))
    /\ Begin(t, "request.live", u, r, Nothing)
    /\ UNCHANGED <<rides, reqs, clock, raced>>

Request_Live(t) ==
  /\ tx[t].pc = "request.live"
  /\ IF AskTaken(t, tx[t].ride, tx[t].user)
       THEN Return(t) ELSE Goto(t, "request.insert")
  /\ UNCHANGED <<rides, reqs, clock, raced>>

Request_Insert(t) ==
  LET r == tx[t].ride
      u == tx[t].user
  IN /\ tx[t].pc = "request.insert"
     /\ AskHolders(t, r, u) = {}
     /\ ~AskTaken(t, r, u)
     /\ \E q \in Fresh(reqs, Reqs) :
          WriteReq(t, q, [ride |-> r, passenger |-> u, status |-> "pending"])
     /\ LastNote(t, Note(RideSeen(t, r).author, "requested", r))
     /\ UNCHANGED <<rides, clock, raced>>

(* The partial unique index refuses a second live request: the transaction *)
(* fails and is rolled back.                                               *)
Request_Duplicate(t) ==
  /\ tx[t].pc = "request.insert"
  /\ AskHolders(t, tx[t].ride, tx[t].user) = {}
  /\ AskTaken(t, tx[t].ride, tx[t].user)
  /\ Rollback(t)

-----------------------------------------------------------------------------
(* acceptRequest.  The seat is taken from the ride by a guarded UPDATE; the *)
(* request is marked by a second one whose row count nobody looks at.      *)

DriverOf(t, q) == RideSeen(t, ReqSeen(t, q).ride).author
Accept_Read(t) ==
  \E u \in Users, q \in Asked :
    LET v == ReqSeen(t, q)
    IN /\ Arrives(t, u, "acceptRequest")
       /\ DriverOf(t, q) = u
       /\ v.status = "pending"
       /\ <<u, v.passenger>> \notin Blocked
       /\ Begin(t, "accept.ride", u, v.ride, q)
       /\ UNCHANGED <<rides, reqs, clock, raced>>

(* Mutant of HasSeat: the UPDATE does not ask for an open ride.            *)
HasSeat_AnyStatus(p, u) == p.author = u /\ p.available > 0
HasSeat(p, u) == p.author = u /\ p.status \in OpenRide /\ p.available > 0

(* Mutant of SeatTaken: the last seat leaves the ride active.               *)
SeatTaken_NeverFull(p) == [p EXCEPT !.available = @ - 1]
SeatTaken(p) ==
  [p EXCEPT !.available = @ - 1,
            !.status = IF p.available - 1 <= 0 THEN "full" ELSE @]

(* Mutant of Accept_Ride: the refusal leaves the transaction open.          *)
Accept_Ride_LeftOpen(t) ==
  LET r == tx[t].ride
      p == RideSeen(t, r)
  IN /\ tx[t].pc = "accept.ride"
     /\ HasSeat(p, tx[t].user) /\ Free(rides[r], t)
     /\ WriteRide(t, r, SeatTaken(p))
     /\ Goto(t, "accept.req")
     /\ UNCHANGED <<reqs, clock, raced>>

Accept_Ride(t) ==
  LET r == tx[t].ride
      p == RideSeen(t, r)
  IN /\ tx[t].pc = "accept.ride"
     /\ \/ /\ HasSeat(p, tx[t].user) /\ Free(rides[r], t)
           /\ WriteRide(t, r, SeatTaken(p))
           /\ Goto(t, "accept.req")
        \/ /\ ~HasSeat(p, tx[t].user)
           /\ Return(t)
           /\ UNCHANGED rides
     /\ UNCHANGED <<reqs, clock, raced>>

(* Mutant of Accept_Req: the second UPDATE does not ask for `pending'.      *)
Accept_Req_Unguarded(t) ==
  LET q == tx[t].req
      v == ReqSeen(t, q)
  IN /\ tx[t].pc = "accept.req"
     /\ Free(reqs[q], t)
     /\ WriteReq(t, q, [v EXCEPT !.status = "accepted"])
     /\ LastNote(t, Note(v.passenger, "accepted", tx[t].ride))
     /\ UNCHANGED <<rides, clock, raced>>

Accept_Req(t) ==
  LET q == tx[t].req
      v == ReqSeen(t, q)
  IN /\ tx[t].pc = "accept.req"
     /\ \/ /\ v.status = "pending" /\ Free(reqs[q], t)
           /\ WriteReq(t, q, [v EXCEPT !.status = "accepted"])
        \/ v.status # "pending" /\ UNCHANGED reqs
     /\ LastNote(t, Note(v.passenger, "accepted", tx[t].ride))
     /\ UNCHANGED <<rides, clock, raced>>

-----------------------------------------------------------------------------
(* declineRequest: one guarded UPDATE.                                     *)

Decline_Req(t) ==
  \E u \in Users, q \in Asked :
    LET v == ReqSeen(t, q)
    IN /\ Arrives(t, u, "declineRequest")
       /\ v.status = "pending" /\ DriverOf(t, q) = u
       /\ Free(reqs[q], t)
       /\ WriteReq(t, q, [v EXCEPT !.status = "declined"])
       /\ tx' = [tx EXCEPT ![t] = [Opened("commit", u, v.ride, q) EXCEPT
                                  !.out = {Note(v.passenger, "declined", v.ride)}]]
       /\ UNCHANGED <<rides, clock, raced>>

-----------------------------------------------------------------------------
(* cancelSeatRequest.  Whether a seat goes back is decided by the status   *)
(* the first statement read, not by the row the second one changed.        *)

(* A connection that read the request as accepted will return its seat.    *)
Returning(t, q) == tx[t].seen = "accepted" /\ tx[t].req = q

Leave_Read(t) ==
  \E q \in Asked :
    LET v == ReqSeen(t, q)
    IN /\ Arrives(t, v.passenger, "cancelSeatRequest")
       /\ v.status \in LiveReq
       /\ tx' = [tx EXCEPT ![t] = [Opened("leave.req", v.passenger, v.ride, q)
                                     EXCEPT !.seen = v.status]]
       /\ raced' = IF v.status = "accepted" /\ \E s \in Tx : Returning(s, q)
                     THEN raced \cup {v.ride} ELSE raced
       /\ UNCHANGED <<rides, reqs, clock>>

(* Mutant of AfterLeave: a seat goes back for a pending request too.        *)
AfterLeave_Always(t) == "leave.ride"
AfterLeave(t) == IF tx[t].seen = "accepted" THEN "leave.ride" ELSE "commit"

Leave_Req(t) ==
  LET q == tx[t].req
      v == ReqSeen(t, q)
  IN /\ tx[t].pc = "leave.req"
     /\ \/ /\ v.status \in LiveReq /\ Free(reqs[q], t)
           /\ WriteReq(t, q, [v EXCEPT !.status = "cancelled"])
        \/ v.status \notin LiveReq /\ UNCHANGED reqs
     /\ Goto(t, AfterLeave(t))
     /\ UNCHANGED <<rides, clock, raced>>

(* Mutant of SeatReturned: the ride is put back on the board.              *)
SeatReturned_Reopens(p) ==
  [p EXCEPT !.available = IF p.available < p.total THEN p.available + 1 ELSE p.total,
            !.status = "active"]
SeatReturned(p) ==
  [p EXCEPT !.available = IF p.available < p.total THEN p.available + 1 ELSE p.total,
            !.status = IF @ = "full" THEN "active" ELSE @]

Leave_Ride(t) ==
  LET r == tx[t].ride
  IN /\ tx[t].pc = "leave.ride"
     /\ Free(rides[r], t)
     /\ WriteRide(t, r, SeatReturned(RideSeen(t, r)))
     /\ Goto(t, "commit")
     /\ UNCHANGED <<reqs, clock, raced>>

-----------------------------------------------------------------------------
(* editRide: only the departure matters here, and it must lie ahead.  An   *)
(* occurrence moved onto another one of its offer fails on the index.      *)

Editable(p, u) == p.author = u /\ p.status = "active"

Edit_Ride(t) ==
  \E u \in Users, r \in Posted, d \in Departures :
    LET p == RideSeen(t, r)
    IN /\ Arrives(t, u, "editRide")
       /\ Editable(p, u) /\ Free(rides[r], t)
       /\ d # p.depart => SlotHolders(t, p.root, d) = {} /\ ~SlotTaken(t, p.root, d)
       /\ WriteRide(t, r, [p EXCEPT !.depart = d])
       /\ Begin(t, "commit", u, r, Nothing)
       /\ UNCHANGED <<reqs, clock, raced>>

-----------------------------------------------------------------------------
(* cancelRide: the ride is called off, then the riders of that moment are  *)
(* told, then the requests of a later moment are closed, row by row.       *)

Open(p, u) == p.author = u /\ p.status \in OpenRide

CallOff_Ride(t) ==
  \E u \in Users, r \in Posted :
    LET p == RideSeen(t, r)
    IN /\ Arrives(t, u, "cancelRide")
       /\ Open(p, u) /\ Free(rides[r], t)
       /\ WriteRide(t, r, [p EXCEPT !.status = "cancelled"])
       /\ Begin(t, "callOff.riders", u, r, Nothing)
       /\ UNCHANGED <<reqs, clock, raced>>

(* Mutant of LiveOn: only the riders still waiting.                         *)
LiveOn_Pending(t, r) == {q \in Reqs : LET v == ReqSeen(t, q)
                                      IN v # Absent /\ v.ride = r /\ v.status = "pending"}
LiveOn(t, r) == {q \in Reqs : LET v == ReqSeen(t, q)
                              IN v # Absent /\ v.ride = r /\ v.status \in LiveReq}

(* Mutant of CallOff_Riders: the riders are looked up after the closing.    *)
CallOff_Riders_Late(t) ==
  /\ tx[t].pc = "callOff.riders"
  /\ Goto(t, "callOff.snapshot")
  /\ UNCHANGED <<rides, reqs, clock, raced>>

CallOff_Riders(t) ==
  /\ tx[t].pc = "callOff.riders"
  /\ tx' = [tx EXCEPT ![t].pc = "callOff.snapshot",
                      ![t].out = {Note(ReqSeen(t, q).passenger, "cancelled", tx[t].ride) :
                                    q \in LiveOn(t, tx[t].ride)}]
  /\ UNCHANGED <<rides, reqs, clock, raced>>

CallOff_Snapshot(t) ==
  /\ tx[t].pc = "callOff.snapshot"
  /\ tx' = [tx EXCEPT ![t].pc = "callOff.reqs", ![t].todo = LiveOn(t, tx[t].ride)]
  /\ UNCHANGED <<rides, reqs, clock, raced>>

CallOff_Req(t) ==
  /\ tx[t].pc = "callOff.reqs"
  /\ \E q \in tx[t].todo :
       LET v == ReqSeen(t, q)
       IN /\ \/ /\ v.status \in LiveReq /\ Free(reqs[q], t)
                /\ WriteReq(t, q, [v EXCEPT !.status = "cancelled"])
             \/ v.status \notin LiveReq /\ UNCHANGED reqs
          /\ tx' = [tx EXCEPT ![t].todo = @ \ {q}]
  /\ UNCHANGED <<rides, clock, raced>>

-----------------------------------------------------------------------------
(* removeRide: a moderator's removal, from any status; the seat requests   *)
(* stay as they are.  (The reports it resolves are no part of this ledger.)*)

Remove_Ride(t) ==
  \E u \in Moderators, r \in Posted :
    LET p == RideSeen(t, r)
    IN /\ Arrives(t, u, "removeRide")
       /\ ~p.removed /\ Free(rides[r], t)
       /\ WriteRide(t, r, [p EXCEPT !.status = "cancelled", !.removed = TRUE])
       /\ Begin(t, "commit", u, r, Nothing)
       /\ UNCHANGED <<reqs, clock, raced>>

-----------------------------------------------------------------------------
(* sweepRides (auth_rides_sweep): complete, then expire, then spawn.  Each *)
(* UPDATE picks its rows from a snapshot and looks again at the newest     *)
(* version of a row it had to wait for -- at the row, not at the snapshot's*)
(* EXISTS over the seat requests.                                          *)

Due(p, now) ==
  /\ p # Absent
  /\ p.status \in OpenRide /\ ~p.removed
  /\ p.depart + CompleteAfter <= now

Accepted(r) == {q \in Reqs : LET v == reqs[q].committed
                             IN v # Absent /\ v.ride = r /\ v.status = "accepted"}

(* Mutant of DueRides: a full ride is not picked.                           *)
DueRides_Active(t) ==
  {r \in Rides : Due(RideSeen(t, r), tx[t].at) /\ RideSeen(t, r).status = "active"}
DueRides(t) == {r \in Rides : Due(RideSeen(t, r), tx[t].at)}

Scan(t, pc, rows) == tx' = [tx EXCEPT ![t].pc = pc, ![t].todo = rows]

(* now() of the sweep is the start of its transaction.                     *)
Sweep_Start(t) ==
  /\ Arrives(t, Scheduler, "sweepRides")
  /\ tx' = [tx EXCEPT ![t] = [Opened("sweep.complete", Scheduler, Nothing, Nothing)
                                EXCEPT !.at = clock]]
  /\ UNCHANGED <<rides, reqs, clock, raced>>

Sweep_Complete(t) ==
  /\ tx[t].pc = "sweep.complete"
  /\ Scan(t, "sweep.completing", {r \in DueRides(t) : Accepted(r) # {}})
  /\ UNCHANGED <<rides, reqs, clock, raced>>

SweepOutcome(pc) == IF pc = "sweep.completing" THEN "completed" ELSE "expired"

(* Mutant of Sweep_EndRow: the newest version is not looked at again.       *)
Sweep_EndRow_Stale(t) ==
  /\ tx[t].pc \in {"sweep.completing", "sweep.expiring"}
  /\ \E r \in tx[t].todo :
       /\ Free(rides[r], t)
       /\ WriteRide(t, r, [RideSeen(t, r) EXCEPT !.status = SweepOutcome(tx[t].pc)])
       /\ tx' = [tx EXCEPT ![t].todo = @ \ {r}]
  /\ UNCHANGED <<reqs, clock, raced>>

Sweep_EndRow(t) ==
  /\ tx[t].pc \in {"sweep.completing", "sweep.expiring"}
  /\ \E r \in tx[t].todo :
       LET p == RideSeen(t, r)
       IN /\ \/ /\ Due(p, tx[t].at) /\ Free(rides[r], t)
                /\ WriteRide(t, r, [p EXCEPT !.status = SweepOutcome(tx[t].pc)])
             \/ ~Due(p, tx[t].at) /\ UNCHANGED rides
          /\ tx' = [tx EXCEPT ![t].todo = @ \ {r}]
  /\ UNCHANGED <<reqs, clock, raced>>

Sweep_Expire(t) ==
  /\ tx[t].pc = "sweep.completing" /\ tx[t].todo = {}
  /\ Scan(t, "sweep.expiring", DueRides(t))
  /\ UNCHANGED <<rides, reqs, clock, raced>>

(* Mutant of Sweep_Ended: every ended recurring offer, whoever ended it.    *)
Sweep_Ended_Any(t) ==
  /\ tx[t].pc = "sweep.expiring" /\ tx[t].todo = {}
  /\ Scan(t, "sweep.spawning",
          {r \in Rides : LET p == RideSeen(t, r)
                         IN p # Absent /\ p.recurring /\ p.status \in {"completed", "expired"}})
  /\ UNCHANGED <<rides, reqs, clock, raced>>

(* The recurring offers this transaction has just ended.                   *)
Sweep_Ended(t) ==
  /\ tx[t].pc = "sweep.expiring" /\ tx[t].todo = {}
  /\ Scan(t, "sweep.spawning",
          {r \in Rides : /\ rides[r].holder = t
                         /\ rides[r].written.recurring
                         /\ rides[r].written.status \in {"completed", "expired"}})
  /\ UNCHANGED <<rides, reqs, clock, raced>>

(* Every hour of the model is a slot of every recurrence.                  *)
NextSlot(p, now) == IF p.depart > now THEN p.depart + 1 ELSE now + 1
RootOf(p, r) == IF p.root = Nothing THEN r ELSE p.root

Sweep_Spawn(t) ==
  /\ tx[t].pc = "sweep.spawning"
  /\ \E r \in tx[t].todo :
       LET p == RideSeen(t, r)
           root == RootOf(p, r)
           d == NextSlot(p, tx[t].at)
       IN /\ SlotHolders(t, root, d) = {}
          /\ \/ /\ ~SlotTaken(t, root, d)
                /\ \E n \in Issued(rides, Rides) :
                     WriteRide(t, n, Offer(p.author, p.total, d, TRUE, root))
             \/ SlotTaken(t, root, d) /\ UNCHANGED rides
          /\ tx' = [tx EXCEPT ![t].todo = @ \ {r}]
  /\ UNCHANGED <<reqs, clock, raced>>

-----------------------------------------------------------------------------
(* The end of a transaction.                                               *)

LastPCs == {"commit", "callOff.reqs", "sweep.spawning"}
Finished(t) == tx[t].pc \in LastPCs /\ tx[t].todo = {}

(* Rows and notifications become visible together.                         *)
Commit(t) ==
  /\ Finished(t)
  /\ rides' = [r \in Rides |-> Published(rides[r], t)]
  /\ reqs' = [q \in Reqs |-> Published(reqs[q], t)]
  /\ Return(t)
  /\ UNCHANGED <<clock, raced>>

(* The process or its connection dies before the commit.                   *)
Abort(t) ==
  /\ "abort" \in Ops
  /\ tx[t].pc # "idle"
  /\ Rollback(t)

(* The transactions without whose end t cannot go on.                      *)
RideUpdatePCs == {"accept.ride", "leave.ride"}
ReqUpdatePCs == {"accept.req", "leave.req"}
BusyRows(t, rows) ==
  IF \E x \in tx[t].todo : Free(rows[x], t) THEN {} ELSE {rows[x].holder : x \in tx[t].todo}

BlockedBy(t) ==
  LET pc == tx[t].pc
  IN CASE pc \in RideUpdatePCs -> {rides[tx[t].ride].holder} \ {NoTx, t}
       [] pc \in ReqUpdatePCs -> {reqs[tx[t].req].holder} \ {NoTx, t}
       [] pc = "callOff.reqs" -> BusyRows(t, reqs)
       [] pc \in {"sweep.completing", "sweep.expiring"} -> BusyRows(t, rides)
       [] pc = "request.insert" -> AskHolders(t, tx[t].ride, tx[t].user)
       [] pc = "sweep.spawning" ->
            UNION {SlotHolders(t, RootOf(RideSeen(t, r), r),
                               NextSlot(RideSeen(t, r), tx[t].at)) : r \in tx[t].todo}
       [] OTHER -> {}

(* A cycle of waits: the database ends one member of it.                   *)
Deadlocked(t) ==
  \E S \in SUBSET Tx : /\ t \in S
                       /\ \A s \in S : /\ BlockedBy(s) \cap S # {}
                                       /\ \E w \in S : s \in BlockedBy(w)

DeadlockVictim(t) == Deadlocked(t) /\ Rollback(t)

Tick ==
  /\ clock < MaxTime
  /\ clock' = clock + 1
  /\ UNCHANGED <<rides, reqs, tx, raced>>

Arrival(t) ==
  \/ Create_Insert(t) \/ Edit_Ride(t) \/ CallOff_Ride(t) \/ Remove_Ride(t)
  \/ Request_Ride(t) \/ Accept_Read(t) \/ Decline_Req(t) \/ Leave_Read(t)
  \/ Sweep_Start(t)

Statement(t) ==
  \/ Request_Live(t) \/ Request_Insert(t) \/ Request_Duplicate(t)
  \/ Accept_Ride(t) \/ Accept_Req(t)
  \/ Leave_Req(t) \/ Leave_Ride(t)
  \/ CallOff_Riders(t) \/ CallOff_Snapshot(t) \/ CallOff_Req(t)
  \/ Sweep_Complete(t) \/ Sweep_EndRow(t) \/ Sweep_Expire(t)
  \/ Sweep_Ended(t) \/ Sweep_Spawn(t)

Run(t) == Statement(t) \/ Commit(t) \/ DeadlockVictim(t)

Next == Tick \/ \E t \in Tx : Arrival(t) \/ Run(t) \/ Abort(t)

Spec == Init /\ [][Next]_vars

(* A transaction is executed until it ends: a lock is granted in the order *)
(* of arrival, so a statement that can run again and again does run.       *)
Progress == \A t \in Tx : SF_vars(Run(t))

FairSpec == Spec /\ Progress

(* The hourly cron of docs/runbooks/rides-sweep.md starts sweep after sweep.*)
SweptSpec == FairSpec /\ SF_vars(\E t \in Tx : Sweep_Start(t))

-----------------------------------------------------------------------------
(* What the ledger promises.                                               *)

TypeOK ==
  /\ rides \in [Rides -> RowsOf(Ride \cup {Absent})]
  /\ reqs \in [Reqs -> RowsOf(Request \cup {Absent})]
  /\ tx \in [Tx -> Transaction]
  /\ clock \in Nat
  /\ raced \in SUBSET Rides

(* In every version of a ride row, committed or still being written, the   *)
(* free seats lie between none and all, and the status tells whether there *)
(* is one: `active' has a seat to give and `full' has none, however takes, *)
(* returns, edits, removals and sweeps follow one another.                 *)
Consistent(p) ==
  \/ p = Absent
  \/ /\ p.available <= p.total
     /\ p.status = "active" => p.available > 0
     /\ p.status = "full" => p.available = 0
LedgerOK == \A r \in Rides : Consistent(rides[r].committed) /\ Consistent(rides[r].written)

(* A passenger holds at most one live request on a ride, although the      *)
(* check of requestSeat reads before it inserts (ride_seat_requests_one_open_uq). *)
OneLiveRequest ==
  \A p, q \in Reqs :
    LET v == reqs[p].committed
        w == reqs[q].committed
    IN /\ v # Absent /\ w # Absent
       /\ v.status \in LiveReq /\ w.status \in LiveReq
       /\ v.ride = w.ride /\ v.passenger = w.passenger
       => p = q

(* A recurring offer is on the board at most once: its next occurrence     *)
(* appears only when the last one is over, however sweeps overlap.         *)
OneLiveOccurrence ==
  \A r, s \in Rides :
    LET p == rides[r].committed
        o == rides[s].committed
    IN /\ p # Absent /\ o # Absent
       /\ p.status \in OpenRide /\ o.status \in OpenRide
       /\ RootOf(p, r) = RootOf(o, s)
       => r = s

(* Accepted seats and seats still on offer never add up to more than the   *)
(* car has: no seat is promised twice, now or by a later accept, except on *)
(* a ride where somebody cancelled one seat twice at once.                 *)
NoOversell ==
  \A r \in Rides \ raced :
    LET p == rides[r].committed
    IN p # Absent => Cardinality(Accepted(r)) + p.available <= p.total

(* A request only moves along pending -> accepted, declined or cancelled,  *)
(* and accepted -> cancelled; declined and cancelled are final, also when  *)
(* driver and passenger decide at the same moment.                         *)
ReqEdges == {<<"pending", "accepted">>, <<"pending", "declined">>,
             <<"pending", "cancelled">>, <<"accepted", "cancelled">>}
RequestLifecycle ==
  [][\A q \in Reqs :
       LET v == reqs[q].committed
           w == reqs'[q].committed
       IN v # Absent /\ w # v => /\ w.ride = v.ride /\ w.passenger = v.passenger
                                 /\ <<v.status, w.status>> \in ReqEdges]_vars

(* A ride that ended stays ended: no returned seat, edit or sweep reopens  *)
(* it, and only a moderator's removal changes it again.                    *)
EndedStaysEnded ==
  [][\A r \in Rides :
       LET p == rides[r].committed
           o == rides'[r].committed
       IN p # Absent /\ p.status \notin OpenRide
            => o.status = p.status \/ (o.removed /\ ~p.removed /\ o.status = "cancelled")]_vars

(* The sweep ends a ride only when the departure it has at that moment is  *)
(* past the window, even if the driver moved it while the sweep ran.       *)
EndsOnlyWhenDue ==
  [][\A r \in Rides :
       LET p == rides[r].committed
           o == rides'[r].committed
       IN /\ p # Absent /\ p.status \in OpenRide
          /\ o.status \in {"completed", "expired"}
          => o.depart = p.depart /\ o.depart + CompleteAfter <= clock]_vars

(* Nobody is left waiting at the kerb: every passenger whose accepted seat  *)
(* the commit of a call-off takes away is told by that call-off, although   *)
(* the riders are read by one statement and their requests closed by a later*)
(* one.                                                                     *)
AcceptedRidersTold ==
  [][\A t \in Tx, q \in Reqs :
       LET v == reqs[q].committed
       IN /\ tx[t].pc = "callOff.reqs" /\ reqs[q].holder = t
          /\ v # Absent /\ v.status = "accepted"
          /\ reqs'[q].committed.status = "cancelled"
          => Note(v.passenger, "cancelled", v.ride) \in tx[t].out]_vars

(* Every transaction ends, whatever rows its statements wait for: a cycle  *)
(* of waits (a driver calling off against a rider leaving) is broken.      *)
EveryCallEnds == \A t \in Tx : tx[t].pc # "idle" ~> tx[t].pc = "idle"

(* No ride stays on the board past its window: sweeps that run again and   *)
(* again complete or expire it, whatever holds its row when they come by.  *)
DueRidesEnd ==
  \A r \in Rides : Due(rides[r].committed, clock) ~> ~Due(rides[r].committed, clock)

-----------------------------------------------------------------------------
(* The ledger implements the booking promise.  A ride counts as open while *)
(* its status is; a rider has a seat while the request is accepted.        *)

PhaseOf(p) ==
  IF p = Absent THEN "none"
  ELSE IF p.removed THEN "down"
  ELSE IF p.status \in OpenRide THEN "open"
  ELSE IF p.status = "cancelled" THEN "off" ELSE "over"

Booking == INSTANCE SeatBooking WITH
  Riders <- Users,
  phase <- [r \in Rides |-> PhaseOf(rides[r].committed)],
  seats <- [r \in Rides |-> IF rides[r].committed = Absent THEN 0
                            ELSE rides[r].committed.total],
  booked <- [r \in Rides |-> {reqs[q].committed.passenger : q \in Accepted(r)}],
  disputed <- raced

BookingSpec == Booking!Spec
=============================================================================
