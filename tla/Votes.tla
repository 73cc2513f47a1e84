------------------------------- MODULE Votes -------------------------------
(***************************************************************************)
(* Votes, polls and karma of the communities (packages/modules/            *)
(* communities): votePost and voteComment, votePoll, and the definer       *)
(* communities_karma_vote that moves an author's karma in the transaction  *)
(* of the vote.  Every statement is a step of its own.                     *)
(*                                                                         *)
(* The gates in front of a vote (verified, not banned, permission, limits) *)
(* and moderation are outside: the items are live and unlocked.  A karma   *)
(* row here is the sum of its post and comment halves, as readers add them.*)
(***************************************************************************)
EXTENDS Integers, FiniteSetsExt, RowStore

CONSTANTS Users,      \* the members of one tenant
          Items,      \* posts and comments
          Author,     \* who wrote each item
          Anonymous,  \* the items written anonymously
          MayVote,    \* the <<user, item>> the gates let through, per day
          Options,    \* the options of one poll
          Electors,   \* the users its gates let through
          Nothing,    \* no row, or SQL null
          Cap,        \* karmaVotePerDayCap
          MaxDay,     \* bound: the last day of the clock
          Reach       \* bound: votes go to authors with public karma up to this

VARIABLES votes,    \* post_votes and comment_votes, 0 where there is no row
          tally,    \* up_votes and down_votes of the items
          ledger,   \* karma_ledger, per voter, author and day
          karma,    \* community_karma
          ballots,  \* poll_votes
          counts,   \* poll_options.vote_count
          tx,       \* per connection: the transaction it runs
          clock,    \* the UTC day
          raced     \* history: the items somebody had two votes on at once

vars == <<votes, tally, ledger, karma, ballots, counts, tx, clock, raced>>

ASSUME AuthorAssumption == Author \in [Items -> Users] /\ Anonymous \subseteq Items
ASSUME GatesAssumption ==
  MayVote \in [0..MaxDay -> SUBSET (Users \X Items)] /\ Electors \subseteq Users
ASSUME MembersAssumption == IsFiniteSet(Users)
ASSUME NothingAssumption == Nothing \notin Users \cup Items \cup Options
ASSUME CapAssumption == Cap \in Nat \ {0} /\ MaxDay \in Nat /\ Reach \in Nat

Values == {-1, 0, 1}
Days == 0..MaxDay
Authors == {Author[i] : i \in Items}

Statements == {"vote.row", "vote.tally", "vote.ledger", "vote.karma",
               "poll.count", "commit"}

(* What a connection remembers: its caller, the item and the vote, the     *)
(* vote it read before, the karma it applies, the option and its now().    *)
Transaction ==
  [pc : Statements \cup {"idle"}, user : Users \cup {Nothing},
   item : Items \cup {Nothing}, value : Values, seen : Values, applied : -2..2,
   option : Options \cup {Nothing}, day : Days]

Idle == [pc |-> "idle", user |-> Nothing, item |-> Nothing, value |-> 0, seen |-> 0,
         applied |-> 0, option |-> Nothing, day |-> 0]

Init ==
  /\ votes = [k \in Users \X Items |-> Stored(0)]
  /\ tally = [i \in Items |-> Stored([up |-> 0, down |-> 0])]
  /\ ledger = [k \in Users \X Authors \X Days |-> Stored(0)]
  /\ karma = [a \in Authors |-> Stored([own |-> 0, public |-> 0])]
  /\ ballots = [u \in Users |-> Stored(Nothing)]
  /\ counts = [o \in Options |-> Stored(0)]
  /\ tx = [t \in Tx |-> Idle]
  /\ clock = 0
  /\ raced = {}

-----------------------------------------------------------------------------
Goto(t, pc) == tx' = [tx EXCEPT ![t].pc = pc]
Return(t) == tx' = [tx EXCEPT ![t] = Idle]

Rollback(t) ==
  /\ votes' = RestoredAll(votes, t) /\ tally' = RestoredAll(tally, t)
  /\ ledger' = RestoredAll(ledger, t) /\ karma' = RestoredAll(karma, t)
  /\ ballots' = RestoredAll(ballots, t) /\ counts' = RestoredAll(counts, t)
  /\ Return(t)
  /\ UNCHANGED <<clock, raced>>

Commit(t) ==
  /\ tx[t].pc = "commit"
  /\ votes' = PublishedAll(votes, t) /\ tally' = PublishedAll(tally, t)
  /\ ledger' = PublishedAll(ledger, t) /\ karma' = PublishedAll(karma, t)
  /\ ballots' = PublishedAll(ballots, t) /\ counts' = PublishedAll(counts, t)
  /\ Return(t)
  /\ UNCHANGED <<clock, raced>>

-----------------------------------------------------------------------------
(* votePost and voteComment                                                *)

(* The item and the caller's own vote are read without a lock; nobody votes*)
(* on what they wrote, and a vote that changes nothing returns here.  A    *)
(* raced item gets no further vote (bound: its tallies may drift for ever).*)
Vote_Read(t) ==
  \E u \in Users, i \in Items, v \in Values :
    /\ tx[t].pc = "idle"
    /\ <<u, i>> \in MayVote[clock] /\ u # Author[i] /\ i \notin raced
    /\ karma[Author[i]].committed.public \in -Reach..Reach
    /\ votes[<<u, i>>].committed # v
    /\ tx' = [tx EXCEPT ![t] = [Idle EXCEPT !.pc = "vote.row", !.user = u, !.item = i,
                 !.value = v, !.seen = votes[<<u, i>>].committed, !.day = clock]]
    /\ raced' = IF \E s \in Tx : tx[s].user = u /\ tx[s].item = i
                  THEN raced \cup {i} ELSE raced
    /\ UNCHANGED <<votes, tally, ledger, karma, ballots, counts, clock>>

(* DELETE, UPDATE or INSERT, by what was read.  The first two pass over a  *)
(* row that is gone; the key refuses an insert beside one that has come.   *)
Vote_Row(t) ==
  LET r == tx[t]
      k == <<r.user, r.item>>
      row == votes[k]
  IN /\ r.pc = "vote.row"
     /\ \/ /\ r.seen # 0 /\ View(row, t) = 0
           /\ Goto(t, "vote.tally")
           /\ UNCHANGED <<votes, tally, ledger, karma, ballots, counts, clock, raced>>
        \/ /\ Free(row, t) /\ (r.seen = 0) = (View(row, t) = 0)
           /\ votes' = [votes EXCEPT ![k] = Put(@, t, r.value)]
           /\ Goto(t, "vote.tally")
           /\ UNCHANGED <<tally, ledger, karma, ballots, counts, clock, raced>>
        \/ /\ Free(row, t) /\ r.seen = 0 /\ View(row, t) # 0
           /\ Rollback(t)

(* Mutant of Moved: a vote is counted, the one it replaces is not taken out.*)
Moved_AddOnly(n, previous, next) ==
  [up |-> n.up + (IF next = 1 THEN 1 ELSE 0), down |-> n.down + (IF next = -1 THEN 1 ELSE 0)]

One(b) == IF b THEN 1 ELSE 0

Moved(n, previous, next) ==
  [up |-> n.up + One(next = 1) - One(previous = 1),
   down |-> n.down + One(next = -1) - One(previous = -1)]

Vote_Tally(t) ==
  LET r == tx[t]
  IN /\ r.pc = "vote.tally"
     /\ Free(tally[r.item], t)
     /\ tally' = [tally EXCEPT ![r.item] = Put(@, t, Moved(View(@, t), r.seen, r.value))]
     /\ Goto(t, "vote.ledger")
     /\ UNCHANGED <<votes, ledger, karma, ballots, counts, clock, raced>>

-----------------------------------------------------------------------------
(* communities_karma_vote                                                  *)

Clamped(n) == IF n > Cap THEN Cap ELSE IF n < -Cap THEN -Cap ELSE n

(* Mutant of Applied: each vote is clamped, the running total is not.      *)
Applied_PerVote(points, change) == Clamped(change)

Applied(points, change) == Clamped(points + change) - points

(* The voter's row of the day is inserted if missing and locked; nothing   *)
(* more happens when the clamped total does not move.                      *)
Vote_Ledger(t) ==
  LET r == tx[t]
      k == <<r.user, Author[r.item], r.day>>
      n == Applied(View(ledger[k], t), r.value - r.seen)
  IN /\ r.pc = "vote.ledger"
     /\ Free(ledger[k], t)
     /\ ledger' = [ledger EXCEPT ![k] = Put(@, t, View(@, t) + n)]
     /\ tx' = [tx EXCEPT ![t].pc = IF n = 0 THEN "commit" ELSE "vote.karma",
                         ![t].applied = n]
     /\ UNCHANGED <<votes, tally, karma, ballots, counts, clock, raced>>

(* Mutant of Earned: the public total counts what was written anonymously. *)
Earned_AllPublic(k, i, n) == [own |-> k.own + n, public |-> k.public + n]

Earned(k, i, n) ==
  [own |-> k.own + n, public |-> IF i \in Anonymous THEN k.public ELSE k.public + n]

Vote_Karma(t) ==
  LET r == tx[t]
      a == Author[r.item]
  IN /\ r.pc = "vote.karma"
     /\ Free(karma[a], t)
     /\ karma' = [karma EXCEPT ![a] = Put(@, t, Earned(View(@, t), r.item, r.applied))]
     /\ Goto(t, "commit")
     /\ UNCHANGED <<votes, tally, ledger, ballots, counts, clock, raced>>

-----------------------------------------------------------------------------
(* votePoll                                                                *)

(* INSERT .. ON CONFLICT DO NOTHING on (post, user): waits for an insert in*)
(* flight and answers `exists' when there is a ballot, changing nothing.   *)
Poll_Ballot(t) ==
  \E u \in Electors, o \in Options :
    /\ tx[t].pc = "idle"
    /\ Free(ballots[u], t) /\ View(ballots[u], t) = Nothing
    /\ ballots' = [ballots EXCEPT ![u] = Put(@, t, o)]
    /\ tx' = [tx EXCEPT ![t] = [Idle EXCEPT !.pc = "poll.count", !.user = u,
                                            !.option = o, !.day = clock]]
    /\ UNCHANGED <<votes, tally, ledger, karma, counts, clock, raced>>

Poll_Count(t) ==
  LET o == tx[t].option
  IN /\ tx[t].pc = "poll.count"
     /\ Free(counts[o], t)
     /\ counts' = [counts EXCEPT ![o] = Put(@, t, View(@, t) + 1)]
     /\ Goto(t, "commit")
     /\ UNCHANGED <<votes, tally, ledger, karma, ballots, clock, raced>>

-----------------------------------------------------------------------------
(* The connection dies, or the statement fails.                            *)
Abort(t) == tx[t].pc # "idle" /\ Rollback(t)

Tick ==
  /\ clock < MaxDay
  /\ clock' = clock + 1
  /\ UNCHANGED <<votes, tally, ledger, karma, ballots, counts, tx, raced>>

Run(t) ==
  \/ Vote_Read(t) \/ Vote_Row(t) \/ Vote_Tally(t) \/ Vote_Ledger(t) \/ Vote_Karma(t)
  \/ Poll_Ballot(t) \/ Poll_Count(t)
  \/ Commit(t) \/ Abort(t)

Next == Tick \/ \E t \in Tx : Run(t)

Spec == Init /\ [][Next]_vars

-----------------------------------------------------------------------------
TypeOK ==
  /\ votes \in [Users \X Items -> RowsOf(Values)]
  /\ tally \in [Items -> RowsOf([up : Int, down : Int])]
  /\ ledger \in [Users \X Authors \X Days -> RowsOf(-Cap..Cap)]
  /\ karma \in [Authors -> RowsOf([own : Int, public : Int])]
  /\ ballots \in [Users -> RowsOf(Options \cup {Nothing})]
  /\ counts \in [Options -> RowsOf(Nat)]
  /\ tx \in [Tx -> Transaction] /\ clock \in Days /\ raced \in SUBSET Items

Voting(i, v) == Cardinality({u \in Users : votes[<<u, i>>].committed = v})

(* The tallies an item shows are the votes on it, whatever votes of        *)
(* different people overlap ("the tallies on the item move by the          *)
(* difference, atomically") -- as long as nobody raced a vote of their own.*)
TallyIsVotes ==
  \A i \in Items \ raced :
    tally[i].committed = [up |-> Voting(i, 1), down |-> Voting(i, -1)]

Points == [k \in DOMAIN ledger |-> ledger[k].committed]

(* An author's karma is what the ledgers gave them, every vote counted once*)
(* although the same voter may be moving two of their items at once.       *)
KarmaIsLedger ==
  \A a \in Authors :
    karma[a].committed.own = SumFunctionOnSet(Points, {k \in DOMAIN ledger : k[2] = a})

(* In one day no voter takes an author further than the cap: what the votes*)
(* cast that day moved adds up to at most Cap ("the net karma one voter may*)
(* give one author in a day, so a pair of accounts cannot inflate each     *)
(* other").  With one voter and one author, karma itself is bounded.       *)
CapHolds ==
  \A a \in Authors :
    LET voters == {u \in Users : \E d \in Days : ledger[<<u, a, d>>].committed # 0}
        most == Cap * (clock + 1) * Cardinality(voters)
    IN karma[a].committed.own \in -most..most

(* The public number of an author stands still while an anonymous item of  *)
(* theirs is voted on.                                                     *)
PublicMovesBySigned ==
  [][\A a \in Authors :
       karma'[a].committed.public # karma[a].committed.public
         => \E t \in Tx : /\ tx[t].pc = "commit" /\ tx'[t].pc = "idle"
                          /\ tx[t].item \in Items \ Anonymous
                          /\ Author[tx[t].item] = a]_vars

(* An option's count is the number of ballots for it: a person who sends   *)
(* two is counted once ("a second vote is `exists'").                      *)
PollCountsBallots ==
  \A o \in Options :
    counts[o].committed = Cardinality({u \in Users : ballots[u].committed = o})

(* Every counter the pages show beside its rows is the number of its rows: *)
(* tallies of items and of poll options (TallyIsVotes, PollCountsBallots). *)
CountersTell == TypeOK /\ TallyIsVotes /\ PollCountsBallots

(* Karma is earned, vote by vote, and within the cap of the day            *)
(* (KarmaIsLedger, CapHolds).                                              *)
KarmaEarned == KarmaIsLedger /\ CapHolds
=============================================================================
