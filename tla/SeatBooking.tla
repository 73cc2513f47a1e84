---------------------------- MODULE SeatBooking -----------------------------
(***************************************************************************)
(* What the rides module promises its members, without rows, requests or   *)
(* transactions: who has a seat on which ride.  docs/design-rides.md, Seat *)
(* request flow and Lifecycle.                                             *)
(***************************************************************************)
EXTENDS Naturals, FiniteSets

CONSTANTS Rides, Riders

VARIABLES phase,   \* per ride: none yet, open, over, off (its driver) or down
          seats,   \* per ride: the seats its driver offered
          booked,  \* per ride: the riders with an accepted seat
          disputed \* the rides whose free seats are not known any more

vars == <<phase, seats, booked, disputed>>

Init ==
  /\ phase = [r \in Rides |-> "none"]
  /\ seats = [r \in Rides |-> 0]
  /\ booked = [r \in Rides |-> {}]
  /\ disputed = {}

(* A seat is given on an open ride with a seat left, to one rider at a time.*)
Book(r, u) ==
  /\ phase[r] = "open"
  /\ u \notin booked[r]
  /\ r \in disputed \/ Cardinality(booked[r]) < seats[r]
  /\ booked' = [booked EXCEPT ![r] = @ \cup {u}]
  /\ UNCHANGED <<phase, seats, disputed>>

(* A rider may give the seat back at any time.                             *)
Release(r, u) ==
  /\ u \in booked[r]
  /\ booked' = [booked EXCEPT ![r] = @ \ {u}]
  /\ UNCHANGED <<phase, seats, disputed>>

(* A rider who is giving the seat back gives the same one back once more:  *)
(* from then on this ride may take more riders than it has seats.          *)
Dispute(r, u) ==
  /\ u \in booked[r]
  /\ disputed' = disputed \cup {r}
  /\ UNCHANGED <<phase, seats, booked>>

(* A ride its driver calls off carries nobody any more.                    *)
CallOff(r) ==
  /\ phase[r] = "open"
  /\ phase' = [phase EXCEPT ![r] = "off"]
  /\ booked' = [booked EXCEPT ![r] = {}]
  /\ UNCHANGED <<seats, disputed>>

(* A moderator may take any ride down; its riders are not touched.         *)
Remove(r) ==
  /\ phase[r] \notin {"none", "down"}
  /\ phase' = [phase EXCEPT ![r] = "down"]
  /\ UNCHANGED <<seats, booked, disputed>>

(* Rides end and rides are posted (the next occurrences, or a new offer).  *)
Settle(ended, new) ==
  /\ \A r \in ended : phase[r] = "open"
  /\ \A r \in new : phase[r] = "none"
  /\ phase' = [r \in Rides |-> IF r \in ended THEN "over"
                               ELSE IF r \in new THEN "open" ELSE phase[r]]
  /\ \A r \in Rides : IF r \in new THEN seats'[r] \in Nat \ {0} ELSE seats'[r] = seats[r]
  /\ UNCHANGED <<booked, disputed>>

Next ==
  \/ \E r \in Rides : \/ \E u \in Riders : Book(r, u) \/ Release(r, u) \/ Dispute(r, u)
                      \/ CallOff(r) \/ Remove(r)
  \/ \E ended, new \in SUBSET Rides : Settle(ended, new)

Spec == Init /\ [][Next]_vars
=============================================================================
