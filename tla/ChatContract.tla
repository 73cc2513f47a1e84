---------------------------- MODULE ChatContract ----------------------------
(***************************************************************************)
(* What a pair of members is promised about talking to each other          *)
(* (packages/modules/messages): a first message is a request, the other one*)
(* accepts or declines it, a declined requester waits Bar before asking    *)
(* again, and an open chat never closes.                                   *)
(***************************************************************************)
EXTENDS Integers

CONSTANTS Users, Nobody, Bar

VARIABLES chat,   \* [status, by, since] of the pair
          clock

Ask(u) ==
  /\ \/ chat.status = "none"
     \/ chat.status = "declined" /\ (chat.by = u => chat.since + Bar <= clock)
  /\ chat' \in [status : {"pending"}, by : {u}, since : 0..clock]

Answer(verdict) ==
  /\ chat.status = "pending"
  /\ chat' \in [status : {verdict}, by : {chat.by}, since : 0..clock]

Init ==
  /\ chat = [status |-> "none", by |-> Nobody, since |-> 0]
  /\ clock = 0

Next ==
  /\ clock' \in {clock, clock + 1}
  /\ \/ UNCHANGED chat
     \/ Answer("active") \/ Answer("declined")
     \/ \E u \in Users : Ask(u)

Spec == Init /\ [][Next]_<<chat, clock>>
=============================================================================
