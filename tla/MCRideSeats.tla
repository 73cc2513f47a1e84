----------------------------- MODULE MCRideSeats ----------------------------
(* Small instances of RideSeats for TLC.                                   *)
EXTENDS RideSeats, TLC

CONSTANTS ann, bob

NoBlocks == {}
AnyOrder == {}
Ascending == {<<1, 2>>, <<1, 3>>, <<2, 3>>}

SeatOps == {"createRidePost", "requestSeat", "acceptRequest", "declineRequest",
            "cancelSeatRequest", "cancelRide", "removeRide", "abort"}
SweepOps == {"createRidePost", "editRide", "requestSeat", "acceptRequest",
             "cancelSeatRequest", "cancelRide", "removeRide", "sweepRides"}

OneCall == [op \in SweepOps \cup SeatOps |-> 1]
AskTwice == [OneCall EXCEPT !["requestSeat"] = 2]
BothTwice == [AskTwice EXCEPT !["cancelSeatRequest"] = 2]
SweepTwice == [OneCall EXCEPT !["sweepRides"] = 2]

(* Users, row identities and connections are interchangeable.              *)
Symmetric == Permutations(Users) \cup Permutations(Rides) \cup Permutations(Reqs) \cup Permutations(Tx)
=============================================================================
