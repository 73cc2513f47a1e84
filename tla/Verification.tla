---------------------------- MODULE Verification ----------------------------
(***************************************************************************)
(* Who is verified in a university (packages/modules/identity): a person   *)
(* off its mail domain asks with their name and roll number, an approver   *)
(* decides the request or verifies the member by hand, and signing in from *)
(* the domain verifies at once.  decideRequest takes the request's row and *)
(* then the membership, the other two the membership and then the request. *)
(*                                                                         *)
(* One tenant; an action is a statement.  Who may approve is a constant:   *)
(* the permission is checked before these steps.  Standings, roles and the *)
(* audit lines of memberships are not here (TenantGrants has the first     *)
(* two).                                                                   *)
(***************************************************************************)
EXTENDS Integers, FiniteSetsExt, RowStore

CONSTANTS Users,
          Approvers,  \* those who hold approve-verifications
          OnDomain,   \* the users whose mail domain the tenant lists at times
          Requests,   \* bound: the rows of verification_requests
          PerWindow,  \* REQUESTS_PER_WINDOW; the instance is one window long
          Nothing,    \* SQL null, or no such row
          Absent      \* no row yet

VARIABLES members,   \* tenant_memberships: how each person is verified
          requests,  \* verification_requests
          details,   \* whether verification_request_details has the row
          identity,  \* tenant_member_identity: the request it was copied from
          log,       \* audit_log: the lines about requests
          tx         \* per connection: the transaction it runs

vars == <<members, requests, details, identity, log, tx>>

People == Users \cup Approvers

ASSUME PeopleAssumption ==
  /\ OnDomain \subseteq Users
  /\ {Nothing, Absent} \cap (People \cup Requests) = {} /\ Nothing # Absent
ASSUME BoundsAssumption ==
  Requests \subseteq Nat /\ IsFiniteSet(Requests) /\ PerWindow \in Nat

Member == {"domain", "admin", "unverified"}
Closed == {"approved", "rejected", "superseded"}
Request == [user : Users, status : {"pending"} \cup Closed, by : People \cup {Nothing}]
Line == {"requested"} \cup Closed

ASSUME AbsentAssumption == Absent \notin Member \cup Request

Statements == {"ask.count", "ask.open", "ask.insert", "decide.lock", "decide.update",
               "verify.member", "verify.capture", "sign.domain", "sign.join",
               "sign.read", "supersede.scan", "supersede.row", "commit"}

(* What a connection remembers: its caller, the person and the request the *)
(* call is about, the decision, and the audit lines it inserted.           *)
Transaction ==
  [pc : Statements \cup {"idle"}, user : People \cup {Nothing},
   of : Users \cup {Nothing}, req : Requests \cup {Nothing},
   to : {"approved", "rejected", Nothing}, lines : SUBSET (Line \X Requests \X People)]

Idle == [pc |-> "idle", user |-> Nothing, of |-> Nothing, req |-> Nothing,
         to |-> Nothing, lines |-> {}]

Init ==
  /\ members = [u \in Users |-> Stored(Absent)]
  /\ requests = [r \in Requests |-> Stored(Absent)]
  /\ details = [r \in Requests |-> Stored(FALSE)]
  /\ identity = [u \in Users |-> Stored(Nothing)]
  /\ log = {}
  /\ tx = [t \in Tx |-> Idle]

-----------------------------------------------------------------------------
tables == <<members, requests, details, identity, log>>

Seen(t, r) == View(requests[r], t)
Goto(t, pc) == tx' = [tx EXCEPT ![t].pc = pc]
Return(t) == tx' = [tx EXCEPT ![t] = Idle]

Begin(t, first) ==
  /\ tx[t].pc = "idle"
  /\ tx' = [tx EXCEPT ![t] = first]
  /\ UNCHANGED tables

Commit(t) ==
  /\ tx[t].pc = "commit"
  /\ members' = PublishedAll(members, t) /\ requests' = PublishedAll(requests, t)
  /\ details' = PublishedAll(details, t) /\ identity' = PublishedAll(identity, t)
  /\ log' = log \cup tx[t].lines
  /\ Return(t)

Rollback(t) ==
  /\ members' = RestoredAll(members, t) /\ requests' = RestoredAll(requests, t)
  /\ details' = RestoredAll(details, t) /\ identity' = RestoredAll(identity, t)
  /\ Return(t)
  /\ UNCHANGED log

(* Mutant of Purges: only decisions purge, as they did before migration    *)
(* 0030.                                                                   *)
Purges_Decided(status) == status \in {"approved", "rejected"}

(* The trigger on leaving `pending'.                                       *)
Purges(status) == status # "pending"

(* UPDATE of a request, with its trigger and the audit line that follows.  *)
Close(t, r, status, pc) ==
  /\ requests' = [requests EXCEPT ![r] =
                    Put(@, t, [Seen(t, r) EXCEPT !.status = status, !.by = tx[t].user])]
  /\ details' = IF Purges(status) THEN [details EXCEPT ![r] = Put(@, t, FALSE)] ELSE details
  /\ tx' = [tx EXCEPT ![t].pc = pc, ![t].lines = @ \cup {<<status, r, tx[t].user>>}]

-----------------------------------------------------------------------------
(* requestVerification                                                     *)

Pending(v, u) == v # Absent /\ v.user = u /\ v.status = "pending"
PendingOf(t, u) == {r \in Requests : Pending(Seen(t, r), u)}
RowsBy(t, u) == {r \in Requests : Seen(t, r) # Absent /\ Seen(t, r).user = u}
Unverified(v) == v \in {Absent, "unverified"}

Fresh == {r \in Requests : requests[r] = Stored(Absent)}
Asking == {t \in Tx : tx[t].pc \in {"ask.count", "ask.open", "ask.insert"}}

(* The membership is read by a transaction of its own.  A call is made     *)
(* only while a row identity is left for its request.                      *)
Ask_Member(t) ==
  \E u \in Users :
    /\ Unverified(View(members[u], t))
    /\ Cardinality(Fresh) > Cardinality(Asking)
    /\ Begin(t, [Idle EXCEPT !.pc = "ask.count", !.user = u, !.of = u])

Ask_Count(t) ==
  /\ tx[t].pc = "ask.count"
  /\ IF Cardinality(RowsBy(t, tx[t].of)) >= PerWindow THEN Return(t) ELSE Goto(t, "ask.open")
  /\ UNCHANGED tables

Ask_Open(t) ==
  /\ tx[t].pc = "ask.open"
  /\ IF PendingOf(t, tx[t].of) # {} THEN Return(t) ELSE Goto(t, "ask.insert")
  /\ UNCHANGED tables

(* The transactions that are making or ending an entry of                  *)
(* verification_requests_one_open_uq for u: the insert waits for them, not *)
(* for one that has merely locked a pending request.                       *)
AskHolders(t, u) ==
  {requests[r].holder : r \in {q \in Requests :
      /\ Pending(requests[q].committed, u) \/ Pending(requests[q].written, u)
      /\ requests[q].committed # requests[q].written}} \ {NoTx, t}

Ask_Insert(t) ==
  LET u == tx[t].of
      r == Min(Fresh)
  IN /\ tx[t].pc = "ask.insert"
     /\ AskHolders(t, u) = {}
     /\ \/ /\ PendingOf(t, u) # {}
           /\ Return(t)
           /\ UNCHANGED <<requests, details>>
        \/ /\ PendingOf(t, u) = {}
           /\ requests' = [requests EXCEPT ![r] =
                             Put(@, t, [user |-> u, status |-> "pending", by |-> Nothing])]
           /\ details' = [details EXCEPT ![r] = Put(@, t, TRUE)]
           /\ tx' = [tx EXCEPT ![t].pc = "commit", ![t].lines = {<<"requested", r, u>>}]
     /\ UNCHANGED <<members, identity, log>>

-----------------------------------------------------------------------------
(* decideRequest.  The page may be old: the request may be of any status.  *)

Decide_Begin(t) ==
  \E a \in Approvers, to \in {"approved", "rejected"},
     r \in {q \in Requests : requests[q].committed # Absent} :
    Begin(t, [Idle EXCEPT !.pc = "decide.lock", !.user = a,
                          !.of = Seen(t, r).user, !.req = r, !.to = to])

AfterLock(t) == IF tx[t].to = "approved" THEN "verify.member" ELSE "decide.update"

MayDecide(t, v) == v.user # tx[t].user /\ v.status = "pending"

(* Mutant of Decide_Lock: SELECT without FOR UPDATE.                       *)
Decide_Lock_Plain(t) ==
  /\ tx[t].pc = "decide.lock"
  /\ IF MayDecide(t, Seen(t, tx[t].req)) THEN Goto(t, AfterLock(t)) ELSE Return(t)
  /\ UNCHANGED tables

Decide_Lock(t) ==
  LET r == tx[t].req
      v == Seen(t, r)
  IN /\ tx[t].pc = "decide.lock"
     /\ Free(requests[r], t)
     /\ \/ /\ MayDecide(t, v)
           /\ requests' = [requests EXCEPT ![r] = Put(@, t, v)]
           /\ Goto(t, AfterLock(t))
        \/ /\ ~MayDecide(t, v)
           /\ Return(t)
           /\ UNCHANGED requests
     /\ UNCHANGED <<members, details, identity, log>>

Decide_Update(t) ==
  /\ tx[t].pc = "decide.update"
  /\ Free(requests[tx[t].req], t)
  /\ Close(t, tx[t].req, tx[t].to, "commit")
  /\ UNCHANGED <<members, identity, log>>

-----------------------------------------------------------------------------
(* auth_verify_member, on the way of an approval or of verifyMember: the   *)
(* membership is inserted or verified, a verified one left as it is; then  *)
(* the name and roll number of a pending request are kept.                 *)

Verify_Begin(t) ==
  \E a \in Approvers, u \in Users :
    a # u /\ Begin(t, [Idle EXCEPT !.pc = "verify.member", !.user = a, !.of = u])

Verified(v) == IF Unverified(v) THEN "admin" ELSE v

Verify_Member(t) ==
  LET u == tx[t].of
  IN /\ tx[t].pc = "verify.member"
     /\ Free(members[u], t)
     /\ members' = [members EXCEPT ![u] = Put(@, t, Verified(View(members[u], t)))]
     /\ Goto(t, "verify.capture")
     /\ UNCHANGED <<requests, details, identity, log>>

AfterCapture(t) == IF tx[t].req = Nothing THEN "supersede.scan" ELSE "decide.update"

Verify_Capture(t) ==
  LET u == tx[t].of
      kept == {r \in PendingOf(t, u) : View(details[r], t)}
  IN /\ tx[t].pc = "verify.capture"
     /\ Free(identity[u], t)
     /\ identity' = IF kept = {} THEN identity
                    ELSE [identity EXCEPT ![u] = Put(@, t, Max(kept))]
     /\ Goto(t, AfterCapture(t))
     /\ UNCHANGED <<members, requests, details, log>>

-----------------------------------------------------------------------------
(* ensureDomainMembership, at every sign-in.  The tenant's join policy may  *)
(* list the domain today or not.  An insert that runs into the membership  *)
(* waits for its writer and then does nothing.                             *)

Sign_Begin(t) ==
  \E u \in Users, first \in {"sign.domain", "sign.join"} :
    /\ first = "sign.domain" => u \in OnDomain
    /\ Begin(t, [Idle EXCEPT !.pc = first, !.user = u, !.of = u])

Sign_Domain(t) ==
  LET u == tx[t].of
  IN /\ tx[t].pc = "sign.domain"
     /\ Free(members[u], t)
     /\ members' = IF Unverified(View(members[u], t))
                   THEN [members EXCEPT ![u] = Put(@, t, "domain")]
                   ELSE members
     /\ Goto(t, "sign.join")
     /\ UNCHANGED <<requests, details, identity, log>>

Sign_Join(t) ==
  LET u == tx[t].of
  IN /\ tx[t].pc = "sign.join"
     /\ Free(members[u], t)
     /\ members' = IF View(members[u], t) = Absent
                   THEN [members EXCEPT ![u] = Put(@, t, "unverified")]
                   ELSE members
     /\ Goto(t, "sign.read")
     /\ UNCHANGED <<requests, details, identity, log>>

Sign_Read(t) ==
  /\ tx[t].pc = "sign.read"
  /\ Goto(t, IF View(members[tx[t].of], t) = "domain"
             THEN "supersede.scan" ELSE "commit")
  /\ UNCHANGED tables

-----------------------------------------------------------------------------
(* supersedePending: an UPDATE that finds its row in a snapshot, waits for *)
(* it, and looks again whether it is pending.                              *)

Supersede_Scan(t) ==
  LET R == PendingOf(t, tx[t].of)
  IN /\ tx[t].pc = "supersede.scan"
     /\ IF R = {} THEN Goto(t, "commit")
        ELSE \E r \in R : tx' = [tx EXCEPT ![t].pc = "supersede.row", ![t].req = r]
     /\ UNCHANGED tables

(* Mutant of Supersede_Row: a request that was decided meanwhile is waited *)
(* for without end.                                                        *)
Supersede_Row_Insists(t) ==
  LET r == tx[t].req
  IN /\ tx[t].pc = "supersede.row"
     /\ Seen(t, r).status = "pending" /\ Free(requests[r], t)
     /\ Close(t, r, "superseded", "commit")
     /\ UNCHANGED <<members, identity, log>>

Supersede_Row(t) ==
  LET r == tx[t].req
  IN /\ tx[t].pc = "supersede.row"
     /\ \/ /\ Seen(t, r).status = "pending" /\ Free(requests[r], t)
           /\ Close(t, r, "superseded", "commit")
        \/ /\ Seen(t, r).status # "pending"
           /\ Goto(t, "commit")
           /\ UNCHANGED <<requests, details>>
     /\ UNCHANGED <<members, identity, log>>

-----------------------------------------------------------------------------
(* The connection dies, or the process does.                               *)
Abort(t) == tx[t].pc # "idle" /\ Rollback(t)

(* The transactions without whose end t cannot go on.                      *)
BlockedBy(t) ==
  LET pc == tx[t].pc
      u == tx[t].of
      holders == CASE pc \in {"verify.member", "sign.domain", "sign.join"} -> {members[u].holder}
                   [] pc \in {"decide.lock", "decide.update", "supersede.row"} ->
                        {requests[tx[t].req].holder}
                   [] pc = "verify.capture" -> {identity[u].holder}
                   [] pc = "ask.insert" -> AskHolders(t, u)
                   [] OTHER -> {}
  IN holders \ {NoTx, t}

(* A cycle of waits: the database ends one member of it.                   *)
DeadlockVictim(t) ==
  /\ \E S \in SUBSET Tx : t \in S /\ \A s \in S : \E w \in S : BlockedBy(w) = {s}
  /\ Rollback(t)

Arrival(t) == Ask_Member(t) \/ Decide_Begin(t) \/ Verify_Begin(t) \/ Sign_Begin(t)

Statement(t) ==
  \/ Ask_Count(t) \/ Ask_Open(t) \/ Ask_Insert(t)
  \/ Decide_Lock(t) \/ Decide_Update(t)
  \/ Verify_Member(t) \/ Verify_Capture(t)
  \/ Sign_Domain(t) \/ Sign_Join(t) \/ Sign_Read(t)
  \/ Supersede_Scan(t) \/ Supersede_Row(t)

Run(t) == Statement(t) \/ Commit(t) \/ DeadlockVictim(t)

Next == \E t \in Tx : Arrival(t) \/ Run(t) \/ Abort(t)

Spec == Init /\ [][Next]_vars

(* A transaction is executed until it ends; locks are granted in the order *)
(* of arrival.                                                             *)
FairSpec == Spec /\ \A t \in Tx : SF_vars(Run(t))

-----------------------------------------------------------------------------
TypeOK ==
  /\ members \in [Users -> RowsOf(Member \cup {Absent})]
  /\ requests \in [Requests -> RowsOf(Request \cup {Absent})]
  /\ details \in [Requests -> RowsOf(BOOLEAN)]
  /\ identity \in [Users -> RowsOf(Requests \cup {Nothing})]
  /\ log \subseteq Line \X Requests \X People
  /\ tx \in [Tx -> Transaction]

Row(r) == requests[r].committed
IsVerified(u) == ~Unverified(members[u].committed)

OneOpen ==
  \A r, s \in Requests : \A u \in Users : Pending(Row(r), u) /\ Pending(Row(s), u) => r = s

(* "The PII cannot outlive the one job it exists for", and is there for it.*)
DetailsWhilePending ==
  \A r \in Requests : details[r].committed = (Row(r) # Absent /\ Row(r).status = "pending")

(* Whoever was approved is verified, and the name and roll number checked  *)
(* were copied before the purge; what is copied is their own, and its      *)
(* request waits no more.                                                  *)
ApprovedAreKnown ==
  /\ \A r \in Requests :
       Row(r) # Absent /\ Row(r).status = "approved"
         => IsVerified(Row(r).user) /\ identity[Row(r).user].committed # Nothing
  /\ \A u \in Users, r \in Requests :
       identity[u].committed = r
         => IsVerified(u) /\ Row(r).user = u /\ Row(r).status # "pending"

(* The audit log tells of each request who asked and how it ended.         *)
LogTellsVerdicts ==
  \A r \in Requests :
    {l \in log : l[2] = r} =
      IF Row(r) = Absent THEN {}
      ELSE {<<"requested", r, Row(r).user>>}
             \cup (IF Row(r).status = "pending" THEN {} ELSE {<<Row(r).status, r, Row(r).by>>})

(* Every row has its type, each person one open request (OneOpen), each    *)
(* request its details exactly while it waits (DetailsWhilePending), each  *)
(* approval its member and identity (ApprovedAreKnown) and each verdict    *)
(* its line (LogTellsVerdicts), however asking, deciding, verifying by     *)
(* hand and signing in overlap.                                            *)
VerificationInv ==
  TypeOK /\ OneOpen /\ DetailsWhilePending /\ ApprovedAreKnown /\ LogTellsVerdicts

(* A verdict is given once, by somebody else than the asker, and stands; a *)
(* verified member stays verified in the way they first were.              *)
VerdictsStand ==
  [][/\ \A r \in Requests :
          LET v == requests[r].committed
              w == requests'[r].committed
          IN v # Absent /\ w # v =>
               /\ v.status = "pending" /\ w.user = v.user
               /\ w.status \in {"approved", "rejected"} => w.by # w.user
     /\ \A u \in Users : IsVerified(u) => members'[u].committed = members[u].committed]_vars

(* Every call ends, although approvals take the request before the member  *)
(* and the other ways the member before the request.                       *)
EveryCallEnds == \A t \in Tx : tx[t].pc # "idle" ~> tx[t].pc = "idle"
=============================================================================
