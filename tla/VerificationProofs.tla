------------------------- MODULE VerificationProofs -------------------------
(***************************************************************************)
(* Theorems about Verification for every number of people, requests and    *)
(* connections: each person has one open request, its details are there    *)
(* exactly while it waits, whoever was approved is verified and known, the *)
(* audit log tells every verdict, and a verdict stands.                    *)
(*                                                                         *)
(* An approval copies the request it has locked, which is the only one its *)
(* transaction sees pending.  Verifying by hand copies a request it has not*)
(* locked: whatever becomes of that one, it waits no more when the         *)
(* transaction commits, since supersedePending looks after the copy.       *)
(***************************************************************************)
EXTENDS Verification, RowStoreProofs, FiniteSetTheorems

MemberMoves == {e \in Member \X Member : Unverified(e[1]) \/ e[2] = e[1]}

(* A request is closed once, by somebody else than the asker if decided.   *)
RequestMove(v, w) ==
  \/ v = w
  \/ /\ v.status = "pending" /\ w.user = v.user /\ w.status \in Closed
     /\ w.status \in {"approved", "rejected"} => w.by # w.user
RequestMoves == {e \in Request \X Request : RequestMove(e[1], e[2])}

CopyMoves == Requests \X Requests

(* The keys of verification_requests_one_open_uq.                          *)
OpenRequestsOf(u) == {v \in Request : Pending(v, u)}

Waiting(v) == v # Absent /\ v.status = "pending"

RowsInv ==
  /\ members = [u \in Users |-> members[u]]
  /\ \A u \in Users : RowInv(members[u], Member, MemberMoves, Absent)
  /\ requests = [r \in Requests |-> requests[r]]
  /\ \A r \in Requests : RowInv(requests[r], Request, RequestMoves, Absent)
  /\ identity = [u \in Users |-> identity[u]]
  /\ \A u \in Users : RowInv(identity[u], Requests, CopyMoves, Nothing)
  /\ details \in [Requests -> RowsOf(BOOLEAN)]

IndexInv ==
  \A u \in Users : \A r, s \in Requests :
    r # s => OneEntry(requests[r], requests[s], OpenRequestsOf(u))

(* The details of a request are written by whoever opens or closes it.     *)
GoesWith(row, detail) ==
  /\ detail.committed = TRUE <=> Waiting(row.committed)
  /\ detail.written = TRUE <=> Waiting(row.written)
  /\ detail.holder \in {NoTx, row.holder}
  /\ Quiet(detail)

DetailsInv == \A r \in Requests : GoesWith(requests[r], details[r])

(* Only an open request, or the place of a new one, is ever locked.        *)
HeldInv ==
  \A r \in Requests : requests[r].holder # NoTx =>
    requests[r].committed = Absent \/ Waiting(requests[r].committed)

OwnedBy(r, u) == requests[r].committed \in Request /\ requests[r].committed.user = u

KnownInv ==
  /\ \A r \in Requests :
       LET v == requests[r].committed
       IN v # Absent /\ v.status = "approved" =>
            ~Unverified(members[v.user].committed) /\ identity[v.user].committed \in Requests
  /\ \A u \in Users :
       LET r == identity[u].committed
       IN r \in Requests => /\ ~Unverified(members[u].committed) /\ OwnedBy(r, u)
                            /\ requests[r].committed.status # "pending"

(* The lines about request r, and those its history calls for.             *)
LinesOf(lines, r) == {l \in lines : l[2] = r}
History(v, r) ==
  IF v = Absent THEN {}
  ELSE {<<"requested", r, v.user>>}
         \cup (IF v.status = "pending" THEN {} ELSE {<<v.status, r, v.by>>})

LogInv ==
  /\ log \subseteq Line \X Requests \X People
  /\ \A r \in Requests : LinesOf(log, r) = History(requests[r].committed, r)

(* There is a row identity for each request being made.                    *)
CountInv ==
  /\ IsFiniteSet(Fresh) /\ IsFiniteSet(Asking)
  /\ Cardinality(Asking) <= Cardinality(Fresh)

(* The decisions that have locked their request.                           *)
Locking(t) ==
  \/ tx[t].pc = "decide.update"
  \/ tx[t].pc \in {"verify.member", "verify.capture"} /\ tx[t].req # Nothing

Locked(t) ==
  LET row == requests[tx[t].req]
  IN /\ tx[t].req \in Requests /\ row.holder = t /\ row.committed = row.written
     /\ Pending(row.written, tx[t].of)
     /\ tx[t].of # tx[t].user /\ tx[t].to \in {"approved", "rejected"}

MakesMember(t, u) == members[u].holder = t /\ ~Unverified(members[u].written)

ClosedFor(t, r, u) ==
  View(requests[r], t) \in Request /\ View(requests[r], t).user = u
  /\ View(requests[r], t).status # "pending"

(* The copy t has made of a request of u.                                  *)
Copied(t, u) ==
  LET r == identity[u].written
  IN /\ u = tx[t].of /\ MakesMember(t, u) /\ OwnedBy(r, u)
     /\ \/ tx[t].pc = "decide.update" /\ r = tx[t].req
        \/ tx[t].pc = "supersede.scan"
        \/ tx[t].pc = "supersede.row" /\ (r = tx[t].req \/ ClosedFor(t, r, u))
        \/ tx[t].pc = "commit" /\ ClosedFor(t, r, u)

RequestHeld(t, r) ==
  /\ \/ Locking(t) /\ r = tx[t].req
     \/ tx[t].pc = "commit"
  /\ LinesOf(tx[t].lines, r) \cup History(requests[r].committed, r) = History(requests[r].written, r)
  /\ requests[r].written.status = "approved" =>
       LET u == requests[r].written.user
       IN MakesMember(t, u) /\ identity[u].holder = t

(* What a connection knows, and what it holds.                             *)
TxInv(t) ==
  /\ tx[t].pc # "idle" => tx[t].user \in People /\ tx[t].of \in Users
  /\ tx[t].pc = "decide.lock" => tx[t].to \in {"approved", "rejected"}
  /\ tx[t].pc \in {"decide.lock", "supersede.row"}
       => tx[t].req \in Requests /\ OwnedBy(tx[t].req, tx[t].of)
  /\ Locking(t) => Locked(t)
  /\ tx[t].pc = "verify.capture" => MakesMember(t, tx[t].of)
  /\ tx[t].pc = "decide.update" /\ tx[t].to = "approved"
       => MakesMember(t, tx[t].of) /\ identity[tx[t].of].holder = t
  /\ \A u \in Users : identity[u].holder = t => Copied(t, u)
  /\ \A r \in Requests : IF requests[r].holder = t THEN RequestHeld(t, r)
                         ELSE LinesOf(tx[t].lines, r) = {}

Inv ==
  /\ RowsInv /\ IndexInv /\ DetailsInv /\ HeldInv /\ KnownInv /\ LogInv /\ CountInv
  /\ tx \in [Tx -> Transaction]
  /\ \A t \in Tx : TxInv(t)

-----------------------------------------------------------------------------
(* Types, and the order of the moves.                                      *)

LEMMA RequestTypes ==
  /\ Absent \notin Request
  /\ \A v \in Request : v.user \in Users /\ v.status \in {"pending"} \cup Closed
  /\ \A v \in Request, s \in Closed, p \in People :
       LET w == [v EXCEPT !.status = s, !.by = p]
       IN w \in Request /\ w.status = s /\ w.by = p /\ w.user = v.user
  /\ \A u \in Users :
       LET w == [user |-> u, status |-> "pending", by |-> Nothing]
       IN w \in Request /\ w.status = "pending" /\ w.user = u
<1> USE DEF Request, Closed
<1>1. Absent \notin Request
  BY AbsentAssumption
<1>2. \A v \in Request : v.user \in Users /\ v.status \in {"pending"} \cup Closed
  OBVIOUS
<1>3. \A v \in Request, s \in Closed, p \in People :
        LET w == [v EXCEPT !.status = s, !.by = p]
        IN w \in Request /\ w.status = s /\ w.by = p /\ w.user = v.user
  OBVIOUS
<1>4. \A u \in Users :
        LET w == [user |-> u, status |-> "pending", by |-> Nothing]
        IN w \in Request /\ w.status = "pending" /\ w.user = u
  OBVIOUS
<1> QED
  BY <1>1, <1>2, <1>3, <1>4

LEMMA MemberTypes ==
  /\ Absent \notin Member /\ "unverified" \in Member /\ "domain" \in Member
  /\ ~Unverified("domain")
  /\ \A v \in Member \cup {Absent} : Verified(v) \in Member /\ ~Unverified(Verified(v))
  /\ \A v \in Member \cup {Absent} : Verified(v) = v \/ Unverified(v)
  BY AbsentAssumption DEF Member, Verified, Unverified

LEMMA MemberOrder ==
  /\ \A v \in Member : <<v, v>> \in MemberMoves
  /\ \A u, v, w \in Member : <<u, v>> \in MemberMoves /\ <<v, w>> \in MemberMoves
                               => <<u, w>> \in MemberMoves
  BY DEF MemberMoves

LEMMA RequestOrder ==
  /\ \A v, w : <<v, w>> \in RequestMoves <=> v \in Request /\ w \in Request /\ RequestMove(v, w)
  /\ \A v \in Request : <<v, v>> \in RequestMoves
  /\ \A u, v, w \in Request : <<u, v>> \in RequestMoves /\ <<v, w>> \in RequestMoves
                                => <<u, w>> \in RequestMoves
<1>1. \A v, w : <<v, w>> \in RequestMoves <=> v \in Request /\ w \in Request /\ RequestMove(v, w)
  BY DEF RequestMoves
<1>2. \A u, v, w \in Request : RequestMove(u, v) /\ RequestMove(v, w) => RequestMove(u, w)
  BY DEF RequestMove, Closed
<1> QED
  BY <1>1, <1>2 DEF RequestMove

LEMMA CopyOrder ==
  /\ \A v, w \in Requests : <<v, w>> \in CopyMoves
  /\ \A v \in Requests : <<v, v>> \in CopyMoves
  /\ \A u, v, w \in Requests : <<u, v>> \in CopyMoves /\ <<v, w>> \in CopyMoves
                                 => <<u, w>> \in CopyMoves
  BY DEF CopyMoves

LEMMA IdleType ==
  Idle \in Transaction /\ Idle.pc = "idle" /\ Idle.lines = {} /\ Idle.req = Nothing
  BY DEF Idle, Transaction

LEMMA GotoType ==
  ASSUME Inv, NEW t \in Tx, NEW pc \in Statements
  PROVE  LET x == [tx[t] EXCEPT !.pc = pc]
         IN /\ x \in Transaction /\ x.pc = pc /\ x.user = tx[t].user /\ x.of = tx[t].of
            /\ x.req = tx[t].req /\ x.to = tx[t].to /\ x.lines = tx[t].lines
  BY DEF Inv, Transaction

-----------------------------------------------------------------------------
(* What a step of transaction t does to the tables.                        *)

MembersStep(t) ==
  /\ members' = [u \in Users |-> members'[u]]
  /\ \A u \in Users : RowChange(members[u], members'[u], t, Member, MemberMoves)

RequestsStep(t) ==
  /\ requests' = [r \in Requests |-> requests'[r]]
  /\ \A r \in Requests : RowChange(requests[r], requests'[r], t, Request, RequestMoves)

IdentityStep(t) ==
  /\ identity' = [u \in Users |-> identity'[u]]
  /\ \A u \in Users : RowChange(identity[u], identity'[u], t, Requests, CopyMoves)

RowsStep(t) ==
  /\ MembersStep(t) /\ RequestsStep(t) /\ IdentityStep(t)
  /\ details' \in [Requests -> RowsOf(BOOLEAN)]

TxStep(t) ==
  /\ tx' \in [Tx -> Transaction]
  /\ \A s \in Tx \ {t} : tx'[s] = tx[s]
  /\ TxInv(t)'

(* The statements commit nothing.                                          *)
Calm ==
  /\ \A u \in Users : members'[u].committed = members[u].committed
  /\ \A r \in Requests : requests'[r].committed = requests[r].committed
  /\ \A u \in Users : identity'[u].committed = identity[u].committed
  /\ log' = log

LEMMA RowsPreserved == ASSUME Inv, NEW t \in Tx, RowsStep(t) PROVE RowsInv'
<1>1. \A u \in Users : RowInv(members'[u], Member, MemberMoves, Absent)
  BY RowPreserved, MemberOrder DEF Inv, RowsInv, RowsStep, MembersStep
<1>2. \A r \in Requests : RowInv(requests'[r], Request, RequestMoves, Absent)
  BY RowPreserved, RequestOrder DEF Inv, RowsInv, RowsStep, RequestsStep
<1>3. \A u \in Users : RowInv(identity'[u], Requests, CopyMoves, Nothing)
  BY RowPreserved, CopyOrder DEF Inv, RowsInv, RowsStep, IdentityStep
<1> QED
  BY <1>1, <1>2, <1>3 DEF RowsInv, RowsStep, MembersStep, RequestsStep, IdentityStep

(* A request that is there stays its asker's, and a closed one stays as it *)
(* is.                                                                     *)
LEMMA OwnedKept ==
  ASSUME Inv, NEW t \in Tx, RequestsStep(t), NEW r \in Requests, NEW u, OwnedBy(r, u)
  PROVE  /\ OwnedBy(r, u)'
         /\ requests[r].committed.status # "pending"
              => requests'[r].committed = requests[r].committed
<1> DEFINE v == requests[r].committed
           w == requests'[r].committed
<1>1. <<v, w>> \in RequestMoves
  BY RequestOrder, CommitMoves DEF Inv, RowsInv, RequestsStep, OwnedBy
<1>2. v \in Request /\ w \in Request /\ RequestMove(v, w)
  BY <1>1, RequestOrder
<1> HIDE DEF v, w
<1>3. w.user = v.user /\ (v.status # "pending" => w = v)
  BY <1>2 DEF RequestMove
<1> QED
  BY <1>2, <1>3 DEF OwnedBy, v, w

LEMMA OthersRequest ==
  ASSUME Inv, NEW t \in Tx, RequestsStep(t), NEW r \in Requests, NEW s \in Tx \ {t}
  PROVE  /\ requests'[r].holder = s <=> requests[r].holder = s
         /\ requests[r].holder = s => requests'[r] = requests[r]
  BY OthersRow DEF RequestsStep

LEMMA ClosedKept ==
  ASSUME Inv, NEW t \in Tx, RequestsStep(t), NEW s \in Tx \ {t}, NEW r \in Requests,
         NEW u, ClosedFor(s, r, u)
  PROVE  ClosedFor(s, r, u)'
<1>1. CASE requests[r].holder = s
  BY <1>1, OthersRequest DEF ClosedFor, View
<1>2. CASE requests[r].holder # s
  <2>1. OwnedBy(r, u) /\ requests[r].committed.status # "pending"
    BY <1>2 DEF ClosedFor, View, OwnedBy
  <2>2. requests'[r].committed = requests[r].committed /\ requests'[r].holder # s
    BY <1>2, <2>1, OwnedKept, OthersRequest
  <2> QED
    BY <1>2, <2>2 DEF ClosedFor, View
<1> QED
  BY <1>1, <1>2

LEMMA OthersKept ==
  ASSUME Inv, NEW t \in Tx, RowsStep(t), NEW s \in Tx \ {t}, tx'[s] = tx[s]
  PROVE  TxInv(s)'
<1>1. TxInv(s) /\ tx[s] \in Transaction
  BY DEF Inv
<1>2. \A u \in Users : /\ members[u].holder = s => members'[u] = members[u]
                       /\ identity'[u].holder = s <=> identity[u].holder = s
                       /\ identity[u].holder = s => identity'[u] = identity[u]
  <2>1. ASSUME NEW u \in Users
        PROVE  /\ members[u].holder = s => members'[u] = members[u]
               /\ identity'[u].holder = s <=> identity[u].holder = s
               /\ identity[u].holder = s => identity'[u] = identity[u]
    <3>1. PICK x, y : x = members[u] /\ y = members'[u]
      OBVIOUS
    <3>2. PICK z, w : z = identity[u] /\ w = identity'[u]
      OBVIOUS
    <3>3. RowChange(x, y, t, Member, MemberMoves) /\ RowChange(z, w, t, Requests, CopyMoves)
      BY <3>1, <3>2 DEF RowsStep, MembersStep, IdentityStep
    <3>4. (x.holder = s => y = x) /\ (w.holder = s <=> z.holder = s) /\ (z.holder = s => w = z)
      BY <3>3, OthersRow
    <3> QED
      BY <3>1, <3>2, <3>4
  <2> QED
    BY <2>1
<1>3. \A r \in Requests : /\ requests'[r].holder = s <=> requests[r].holder = s
                          /\ requests[r].holder = s => requests'[r] = requests[r]
  BY OthersRequest DEF RowsStep
<1>4. \A r \in Requests, u \in Users : OwnedBy(r, u) => OwnedBy(r, u)'
  BY OwnedKept DEF RowsStep
<1>5. \A r \in Requests, u \in Users : ClosedFor(s, r, u) => ClosedFor(s, r, u)'
  BY ClosedKept DEF RowsStep
<1>6. \A u \in Users : MakesMember(s, u) => MakesMember(s, u)'
  BY <1>2 DEF MakesMember
<1>7. Locking(s)' => Locking(s)
  BY DEF Locking
<1>8. Locking(s) => Locked(s)'
  <2>1. Locking(s) => Locked(s)
    BY <1>1 DEF TxInv
  <2> QED
    BY <1>3, <2>1 DEF Locked
<1>9. ASSUME NEW u \in Users, identity[u].holder = s PROVE Copied(s, u)'
  <2>1. PICK r \in Requests : r = identity[u].written
    BY <1>9, NoTxAssumption DEF Inv, RowsInv, RowInv
  <2>2. r = identity'[u].written
    BY <1>2, <1>9, <2>1
  <2>3. Copied(s, u)
    BY <1>1, <1>9 DEF TxInv
  <2> QED
    BY <1>4, <1>5, <1>6, <2>1, <2>2, <2>3 DEF Copied
<1>10. ASSUME NEW r \in Requests, requests[r].holder = s PROVE RequestHeld(s, r)'
  <2>1. RequestHeld(s, r) /\ requests'[r] = requests[r]
    BY <1>1, <1>3, <1>10 DEF TxInv
  <2>2. requests[r].written \in Request
    BY <1>10, NoTxAssumption DEF Inv, RowsInv, RowInv
  <2>3. requests[r].written.user \in Users
    BY <2>2, RequestTypes
  <2> QED
    BY <1>2, <1>6, <2>1, <2>3 DEF RequestHeld, Locking
<1>11. /\ tx'[s].pc \in {"decide.lock", "supersede.row"}
             => tx'[s].req \in Requests /\ OwnedBy(tx[s].req, tx[s].of)'
       /\ tx'[s].pc # "idle" => tx'[s].user \in People /\ tx'[s].of \in Users
       /\ tx'[s].pc = "verify.capture" => MakesMember(s, tx[s].of)'
       /\ tx'[s].pc = "decide.update" /\ tx'[s].to = "approved"
            => MakesMember(s, tx[s].of)' /\ identity'[tx'[s].of].holder = s
       /\ tx'[s].pc = "decide.lock" => tx'[s].to \in {"approved", "rejected"}
  <2>1. PICK of, req : of = tx[s].of /\ req = tx[s].req
    OBVIOUS
  <2>2. /\ tx[s].pc # "idle" => tx[s].user \in People /\ of \in Users
        /\ tx[s].pc = "decide.lock" => tx[s].to \in {"approved", "rejected"}
        /\ tx[s].pc \in {"decide.lock", "supersede.row"} => req \in Requests /\ OwnedBy(req, of)
        /\ tx[s].pc = "verify.capture" => MakesMember(s, of)
        /\ tx[s].pc = "decide.update" /\ tx[s].to = "approved"
             => MakesMember(s, of) /\ identity[of].holder = s
    BY <1>1, <2>1 DEF TxInv
  <2>3. /\ of \in Users /\ req \in Requests /\ OwnedBy(req, of) => OwnedBy(req, of)'
        /\ of \in Users /\ MakesMember(s, of) => MakesMember(s, of)'
        /\ of \in Users /\ identity[of].holder = s => identity'[of].holder = s
    BY <1>2, <1>4, <1>6
  <2>4. tx'[s].pc = tx[s].pc /\ of = tx'[s].of /\ req = tx'[s].req
        /\ tx'[s].user = tx[s].user /\ tx'[s].to = tx[s].to
    BY <2>1
  <2> QED
    BY <2>2, <2>3, <2>4
<1>12. \A u \in Users : identity'[u].holder = s => Copied(s, u)'
  BY <1>2, <1>9
<1>13. \A r \in Requests : IF requests'[r].holder = s THEN RequestHeld(s, r)'
                           ELSE LinesOf(tx'[s].lines, r) = {}
  BY <1>1, <1>3, <1>10 DEF TxInv
<1>14. Locking(s)' => Locked(s)'
  BY <1>7, <1>8
<1> QED
  BY <1>11, <1>12, <1>13, <1>14 DEF TxInv

(* What a statement keeps, once its rows and its transaction are in order. *)
LEMMA StatementStep ==
  ASSUME Inv, NEW t \in Tx, RowsStep(t), Calm, TxStep(t),
         IndexInv', DetailsInv', HeldInv', CountInv'
  PROVE  Inv'
<1>1. RowsInv'
  BY RowsPreserved
<1>2. KnownInv'
  <2>1. ASSUME NEW r \in Requests, requests[r].committed # Absent
        PROVE  requests[r].committed.user \in Users
    BY <2>1, RequestTypes DEF Inv, RowsInv, RowInv, RowsOf
  <2>2. KnownInv
    BY DEF Inv
  <2> QED
    BY <2>1, <2>2 DEF KnownInv, OwnedBy, Calm
<1>3. LogInv'
  BY DEF Inv, LogInv, Calm
<1>4. ASSUME NEW s \in Tx PROVE TxInv(s)'
  BY OthersKept DEF TxStep
<1> QED
  BY <1>1, <1>2, <1>3, <1>4 DEF Inv, TxStep

(* A step that changes what t does next.                                   *)
LEMMA TxMoves ==
  ASSUME Inv, NEW t \in Tx, NEW x \in Transaction, tx' = [tx EXCEPT ![t] = x]
  PROVE  tx' \in [Tx -> Transaction] /\ tx'[t] = x /\ \A s \in Tx \ {t} : tx'[s] = tx[s]
  BY DEF Inv

Asks == {"ask.count", "ask.open", "ask.insert"}

(* No step but an insert takes a row identity, and a call takes its own.   *)
LEMMA CountKept ==
  ASSUME Inv, NEW t \in Tx, NEW x \in Transaction, tx' = [tx EXCEPT ![t] = x],
         \A r \in Requests : requests[r] = Stored(Absent) => requests'[r] = requests[r],
         x.pc \in Asks => tx[t].pc \in Asks
  PROVE  CountInv'
<1>1. IsFiniteSet(Fresh) /\ IsFiniteSet(Asking) /\ Cardinality(Asking) <= Cardinality(Fresh)
  BY DEF Inv, CountInv
<1>2. IsFiniteSet(Fresh') /\ Cardinality(Fresh) <= Cardinality(Fresh')
  <2>1. Fresh \subseteq Fresh' /\ Fresh' \subseteq Requests
    BY DEF Fresh
  <2>2. IsFiniteSet(Fresh')
    BY <2>1, BoundsAssumption, FS_Subset
  <2> QED
    BY <2>1, <2>2, FS_Subset
<1>3. IsFiniteSet(Asking') /\ Cardinality(Asking') <= Cardinality(Asking)
  <2>1. Asking' \subseteq Asking
    BY TxMoves DEF Asking, Asks
  <2> QED
    BY <1>1, <2>1, FS_Subset
<1>4. /\ Cardinality(Asking) \in Nat /\ Cardinality(Fresh) \in Nat
      /\ Cardinality(Asking') \in Nat /\ Cardinality(Fresh') \in Nat
  BY <1>1, <1>2, <1>3, FS_CardinalityType
<1> QED
  BY <1>1, <1>2, <1>3, <1>4 DEF CountInv

LEMMA SameRequests ==
  ASSUME Inv, NEW t \in Tx, UNCHANGED <<requests, details>>
  PROVE  RequestsStep(t) /\ IndexInv' /\ DetailsInv' /\ HeldInv' /\ details' \in [Requests -> RowsOf(BOOLEAN)]
<1>1. RequestsStep(t) /\ details' \in [Requests -> RowsOf(BOOLEAN)]
  BY DEF Inv, RowsInv, RequestsStep, RowChange
<1>2. IndexInv' /\ DetailsInv' /\ HeldInv'
  BY DEF Inv, IndexInv, DetailsInv, HeldInv
<1> QED
  BY <1>1, <1>2

LEMMA SameMembers == ASSUME Inv, NEW t \in Tx, UNCHANGED members PROVE MembersStep(t)
  BY DEF Inv, RowsInv, MembersStep, RowChange

LEMMA SameIdentity == ASSUME Inv, NEW t \in Tx, UNCHANGED identity PROVE IdentityStep(t)
  BY DEF Inv, RowsInv, IdentityStep, RowChange

(* Where a connection holds neither a request nor an identity.             *)
PlainPCs == {"idle", "decide.lock", "sign.domain", "sign.join", "sign.read"} \cup Asks

LEMMA PlainHolds ==
  ASSUME Inv, NEW t \in Tx, tx[t].pc \in PlainPCs
  PROVE  /\ \A r \in Requests : requests[r].holder # t /\ LinesOf(tx[t].lines, r) = {}
         /\ \A u \in Users : identity[u].holder # t
<1>1. TxInv(t)
  BY DEF Inv
<1>2. \A u \in Users : identity[u].holder # t
  BY <1>1 DEF TxInv, Copied, PlainPCs, Asks
<1>3. \A r \in Requests : ~RequestHeld(t, r)
  BY DEF RequestHeld, Locking, PlainPCs, Asks
<1> QED
  BY <1>1, <1>2, <1>3 DEF TxInv

(* A step of a connection that holds neither, and takes neither.           *)
LEMMA PlainStep ==
  ASSUME Inv, NEW t \in Tx, NEW x \in Transaction, tx' = [tx EXCEPT ![t] = x],
         tx[t].pc \in PlainPCs,
         x.pc \in PlainPCs \cup {"verify.member", "supersede.scan", "commit"},
         UNCHANGED <<requests, details, identity, log>>, MembersStep(t),
         \A u \in Users : members'[u].committed = members[u].committed,
         \A r \in Requests : LinesOf(x.lines, r) = {},
         x.pc # "idle" => x.user \in People /\ x.of \in Users,
         x.pc = "decide.lock" => /\ x.to \in {"approved", "rejected"}
                                 /\ x.req \in Requests /\ OwnedBy(x.req, x.of),
         x.pc = "verify.member" => x.req = Nothing,
         CountInv'
  PROVE  RowsStep(t) /\ Inv'
<1>1. RowsStep(t)
  BY SameRequests, SameIdentity DEF RowsStep
<1>2. Calm
  BY DEF Calm
<1>3. tx' \in [Tx -> Transaction] /\ tx'[t] = x /\ \A s \in Tx \ {t} : tx'[s] = tx[s]
  BY TxMoves
<1>4. TxInv(t)'
  <2>1. ~Locking(t)'
    BY <1>3 DEF Locking, PlainPCs, Asks
  <2>2. /\ \A r \in Requests : requests'[r].holder # t /\ LinesOf(tx'[t].lines, r) = {}
        /\ \A u \in Users : identity'[u].holder # t
    BY <1>3, PlainHolds
  <2>3. /\ tx'[t].pc # "idle" => tx'[t].user \in People /\ tx'[t].of \in Users
        /\ tx'[t].pc = "decide.lock" => tx'[t].to \in {"approved", "rejected"}
    BY <1>3
  <2>4. tx'[t].pc \notin {"supersede.row", "decide.update", "verify.capture"}
    BY <1>3 DEF PlainPCs, Asks
  <2>5. tx'[t].pc = "decide.lock" => tx'[t].req \in Requests /\ OwnedBy(tx[t].req, tx[t].of)'
    BY <1>3 DEF OwnedBy
  <2> QED
    BY <2>1, <2>2, <2>3, <2>4, <2>5 DEF TxInv
<1> QED
  BY <1>1, <1>2, <1>3, <1>4, SameRequests, StatementStep DEF TxStep

(* The request a page shows is a row.                                      *)
LEMMA RequestRows ==
  ASSUME Inv, NEW t \in Tx, NEW r \in Requests
  PROVE  /\ View(requests[r], t) \in Request \cup {Absent}
         /\ requests[r].committed \in Request \cup {Absent}
         /\ requests[r].holder \in Tx \cup {NoTx}
         /\ requests[r].holder = NoTx => requests[r].written = requests[r].committed
         /\ requests[r].holder # t => View(requests[r], t) = requests[r].committed
  BY DEF Inv, RowsInv, RowInv, RowsOf, View

LEMMA ArrivalStep ==
  ASSUME Inv, NEW t \in Tx, Arrival(t) PROVE RowsStep(t) /\ Inv'
<1>1. tx[t].pc = "idle" /\ UNCHANGED tables
  BY DEF Arrival, Ask_Member, Decide_Begin, Verify_Begin, Sign_Begin, Begin
<1>2. UNCHANGED <<members, requests, details, identity, log>>
  BY <1>1 DEF tables
<1>3. \A r \in Requests : LinesOf({}, r) = {}
  BY DEF LinesOf
<1>4. CASE Ask_Member(t)
  <2>1. PICK u \in Users : tx' = [tx EXCEPT ![t] = [Idle EXCEPT !.pc = "ask.count", !.user = u, !.of = u]]
    BY <1>4 DEF Ask_Member, Begin
  <2> DEFINE x == [Idle EXCEPT !.pc = "ask.count", !.user = u, !.of = u]
  <2>2. x \in Transaction /\ x.pc = "ask.count" /\ x.user = u /\ x.of = u /\ x.lines = {}
    BY DEF Idle, Transaction, Statements, People
  <2> HIDE DEF x
  <2>3. CountInv'
    <3>1. Cardinality(Fresh) > Cardinality(Asking) /\ IsFiniteSet(Fresh) /\ IsFiniteSet(Asking)
      BY <1>4 DEF Ask_Member, Inv, CountInv
    <3>2. Fresh' = Fresh
      BY <1>2 DEF Fresh
    <3>3. Asking' \subseteq Asking \cup {t}
      BY <2>1, <2>2, TxMoves DEF Asking, x
    <3>4. /\ IsFiniteSet(Asking \cup {t}) /\ Cardinality(Asking \cup {t}) <= Cardinality(Asking) + 1
      <4>1. /\ IsFiniteSet(Asking \cup {t})
            /\ Cardinality(Asking \cup {t}) =
                 IF t \in Asking THEN Cardinality(Asking) ELSE Cardinality(Asking) + 1
        BY <3>1, FS_AddElement
      <4>2. Cardinality(Asking) \in Nat
        BY <3>1, FS_CardinalityType
      <4> QED
        BY <4>1, <4>2
    <3>5. IsFiniteSet(Asking') /\ Cardinality(Asking') <= Cardinality(Asking \cup {t})
      BY <3>3, <3>4, FS_Subset
    <3>6. /\ Cardinality(Asking) \in Nat /\ Cardinality(Fresh) \in Nat
          /\ Cardinality(Asking') \in Nat /\ Cardinality(Asking \cup {t}) \in Nat
      BY <3>1, <3>4, <3>5, FS_CardinalityType
    <3>7. Cardinality(Asking') <= Cardinality(Fresh)
      BY <3>1, <3>4, <3>5, <3>6
    <3> QED
      BY <3>1, <3>2, <3>5, <3>7 DEF CountInv
  <2>4. tx' = [tx EXCEPT ![t] = x]
    BY <2>1 DEF x
  <2>5. PICK y \in Transaction : y = x
    BY <2>2
  <2> QED
    BY <1>1, <1>2, <1>3, <2>2, <2>3, <2>4, <2>5, SameMembers, PlainStep DEF PlainPCs, Asks, People
<1>5. ASSUME NEW x \in Transaction, tx' = [tx EXCEPT ![t] = x], x.lines = {},
             x.pc \in {"decide.lock", "verify.member", "sign.domain", "sign.join"},
             x.user \in People, x.of \in Users, x.pc = "verify.member" => x.req = Nothing,
             x.pc = "decide.lock" => /\ x.to \in {"approved", "rejected"}
                                     /\ x.req \in Requests /\ OwnedBy(x.req, x.of)
      PROVE  RowsStep(t) /\ Inv'
  <2>1. CountInv'
    BY <1>2, <1>5, CountKept DEF Asks
  <2> QED
    BY <1>1, <1>2, <1>3, <1>5, <2>1, SameMembers, PlainStep DEF PlainPCs
<1>6. CASE Decide_Begin(t)
  <2>1. PICK a \in Approvers, to \in {"approved", "rejected"}, r \in Requests :
          /\ requests[r].committed # Absent
          /\ tx' = [tx EXCEPT ![t] = [Idle EXCEPT !.pc = "decide.lock", !.user = a,
                                                  !.of = Seen(t, r).user, !.req = r, !.to = to]]
    BY <1>6 DEF Decide_Begin, Begin
  <2>2. PICK u : u = Seen(t, r).user
    OBVIOUS
  <2>3. u \in Users /\ OwnedBy(r, u)
    <3>1. requests[r].committed \in Request /\ Seen(t, r) = requests[r].committed
      BY <1>1, <2>1, RequestRows, PlainHolds DEF PlainPCs, Seen
    <3> QED
      BY <2>2, <3>1, RequestTypes DEF OwnedBy
  <2>4. PICK x : x = [Idle EXCEPT !.pc = "decide.lock", !.user = a, !.of = u, !.req = r, !.to = to]
    OBVIOUS
  <2>5. /\ x \in Transaction /\ x.pc = "decide.lock" /\ x.user = a /\ x.of = u /\ x.req = r
        /\ x.to = to /\ x.lines = {}
    BY <2>3, <2>4 DEF Idle, Transaction, Statements, People
  <2>6. tx' = [tx EXCEPT ![t] = x]
    BY <2>1, <2>2, <2>4
  <2> QED
    BY <1>5, <2>3, <2>5, <2>6 DEF People
<1>7. CASE Verify_Begin(t)
  <2>1. PICK a \in Approvers, u \in Users :
          tx' = [tx EXCEPT ![t] = [Idle EXCEPT !.pc = "verify.member", !.user = a, !.of = u]]
    BY <1>7 DEF Verify_Begin, Begin
  <2>2. PICK x : x = [Idle EXCEPT !.pc = "verify.member", !.user = a, !.of = u]
    OBVIOUS
  <2>3. /\ x \in Transaction /\ x.pc = "verify.member" /\ x.user = a /\ x.of = u
        /\ x.req = Nothing /\ x.lines = {}
    BY <2>2 DEF Idle, Transaction, Statements, People
  <2> QED
    BY <1>5, <2>1, <2>2, <2>3 DEF People
<1>8. CASE Sign_Begin(t)
  <2>1. PICK u \in Users, first \in {"sign.domain", "sign.join"} :
          tx' = [tx EXCEPT ![t] = [Idle EXCEPT !.pc = first, !.user = u, !.of = u]]
    BY <1>8 DEF Sign_Begin, Begin
  <2>2. PICK x : x = [Idle EXCEPT !.pc = first, !.user = u, !.of = u]
    OBVIOUS
  <2>3. x \in Transaction /\ x.pc = first /\ x.user = u /\ x.of = u /\ x.lines = {}
    BY <2>2 DEF Idle, Transaction, Statements, People
  <2> QED
    BY <1>5, <2>1, <2>2, <2>3 DEF People
<1> QED
  BY <1>4, <1>6, <1>7, <1>8 DEF Arrival

(* A statement that goes on, or returns, without having written a request. *)
LEMMA PlainGoes ==
  ASSUME Inv, NEW t \in Tx, tx[t].pc \in PlainPCs \ {"idle"},
         UNCHANGED <<requests, details, identity, log>>, MembersStep(t),
         \A u \in Users : members'[u].committed = members[u].committed,
         \/ Return(t)
         \/ \E pc \in {"ask.open", "ask.insert", "sign.join", "sign.read",
                       "supersede.scan", "commit"} :
              Goto(t, pc) /\ (pc \in Asks => tx[t].pc \in Asks)
  PROVE  RowsStep(t) /\ Inv'
<1>1. TxInv(t)
  BY DEF Inv
<1>2. \A r \in Requests : LinesOf(tx[t].lines, r) = {}
  BY PlainHolds
<1>3. CASE Return(t)
  <2>1. tx' = [tx EXCEPT ![t] = Idle] /\ \A r \in Requests : LinesOf(Idle.lines, r) = {}
    BY <1>3, IdleType DEF Return, LinesOf
  <2>2. Idle \in Transaction /\ Idle.pc \in PlainPCs /\ Idle.pc \notin Asks /\ Idle.pc = "idle"
    BY IdleType DEF PlainPCs, Asks
  <2>3. CountInv'
    BY <2>1, <2>2, CountKept
  <2> QED
    BY <2>1, <2>2, <2>3, PlainStep
<1>4. ASSUME NEW pc \in {"ask.open", "ask.insert", "sign.join", "sign.read",
                         "supersede.scan", "commit"},
             Goto(t, pc), pc \in Asks => tx[t].pc \in Asks
      PROVE  RowsStep(t) /\ Inv'
  <2>1. PICK x : x = [tx[t] EXCEPT !.pc = pc]
    OBVIOUS
  <2>2. /\ x \in Transaction /\ x.pc = pc /\ x.user = tx[t].user /\ x.of = tx[t].of
        /\ x.lines = tx[t].lines
    <3>1. pc \in Statements
      BY <1>4 DEF Statements
    <3> QED
      BY <2>1, <3>1, GotoType
  <2>3. tx' = [tx EXCEPT ![t] = x]
    BY <1>4, <2>1 DEF Goto, Inv
  <2>4. CountInv'
    BY <1>4, <2>2, <2>3, CountKept
  <2>5. x.user \in People /\ x.of \in Users
    BY <1>1, <2>2 DEF TxInv
  <2> QED
    BY <1>2, <1>4, <2>2, <2>3, <2>4, <2>5, PlainStep DEF PlainPCs, Asks
<1> QED
  BY <1>3, <1>4

(* A statement rewrites one row of one table.                              *)
PutsMember(t, u, v) == members' = [members EXCEPT ![u] = Put(@, t, v)]
PutsRequest(t, r, v) == requests' = [requests EXCEPT ![r] = Put(@, t, v)]
PutsDetail(t, r, b) == details' = [details EXCEPT ![r] = Put(@, t, b)]
PutsIdentity(t, u, r) == identity' = [identity EXCEPT ![u] = Put(@, t, r)]

(* A membership is inserted or verified.                                   *)
LEMMA MembersPut ==
  ASSUME Inv, NEW t \in Tx, NEW u \in Users, NEW v \in Member, Free(members[u], t),
         PutsMember(t, u, v),
         Unverified(View(members[u], t)) \/ v = View(members[u], t)
  PROVE  /\ MembersStep(t) /\ \A w \in Users : members'[w].committed = members[w].committed
         /\ members'[u].holder = t /\ members'[u].written = v
<1>1. members = [w \in Users |-> members[w]]
  BY DEF Inv, RowsInv
<1>2. /\ members' = [w \in Users |-> members'[w]]
      /\ members'[u] = Put(members[u], t, v)
      /\ \A w \in Users \ {u} : members'[w] = members[w]
  BY <1>1 DEF PutsMember
<1>3. View(members[u], t) \in Member => <<View(members[u], t), v>> \in MemberMoves
  BY DEF MemberMoves
<1>4. RowChange(members[u], members'[u], t, Member, MemberMoves)
  BY <1>2, <1>3 DEF RowChange
<1>5. \A w \in Users \ {u} : RowChange(members[w], members'[w], t, Member, MemberMoves)
  BY <1>2 DEF RowChange
<1>6. /\ members'[u].committed = members[u].committed /\ members'[u].written = v
      /\ members'[u].holder = t
  BY <1>2 DEF Put
<1> QED
  BY <1>2, <1>4, <1>5, <1>6 DEF MembersStep

LEMMA PlainStatements ==
  ASSUME Inv, NEW t \in Tx,
         \/ Ask_Count(t) \/ Ask_Open(t) \/ Sign_Domain(t) \/ Sign_Join(t) \/ Sign_Read(t)
  PROVE  RowsStep(t) /\ Inv'
<1>1. CASE Ask_Count(t) \/ Ask_Open(t) \/ Sign_Read(t)
  <2>1. tx[t].pc \in {"ask.count", "ask.open", "sign.read"}
        /\ UNCHANGED <<members, requests, details, identity, log>>
    BY <1>1 DEF Ask_Count, Ask_Open, Sign_Read, tables
  <2>2. \/ Return(t)
        \/ \E pc \in {"ask.open", "ask.insert", "sign.join", "sign.read",
                      "supersede.scan", "commit"} :
             Goto(t, pc) /\ (pc \in Asks => tx[t].pc \in Asks)
    BY <1>1 DEF Ask_Count, Ask_Open, Sign_Read, Asks
  <2>3. tx[t].pc \in PlainPCs \ {"idle"}
    BY <2>1 DEF PlainPCs, Asks
  <2> QED
    BY <2>1, <2>2, <2>3, SameMembers, PlainGoes
<1>2. CASE Sign_Domain(t) \/ Sign_Join(t)
  <2>1. /\ tx[t].pc \in {"sign.domain", "sign.join"} /\ UNCHANGED <<requests, details, identity, log>>
        /\ \E pc \in {"sign.join", "sign.read"} : Goto(t, pc)
    BY <1>2 DEF Sign_Domain, Sign_Join
  <2>2. PICK u : u = tx[t].of
    OBVIOUS
  <2>3. u \in Users
    BY <2>1, <2>2 DEF Inv, TxInv
  <2>4. \/ UNCHANGED members
        \/ \E v \in Member : /\ Free(members[u], t) /\ Unverified(View(members[u], t))
                             /\ PutsMember(t, u, v)
    BY <1>2, <2>2, MemberTypes DEF Sign_Domain, Sign_Join, Unverified, PutsMember
  <2>5. MembersStep(t) /\ \A w \in Users : members'[w].committed = members[w].committed
    <3>1. CASE UNCHANGED members
      BY <3>1, SameMembers
    <3>2. CASE \E v \in Member : /\ Free(members[u], t) /\ Unverified(View(members[u], t))
                                 /\ PutsMember(t, u, v)
      BY <2>3, <3>2, MembersPut
    <3> QED
      BY <2>4, <3>1, <3>2
  <2>6. tx[t].pc \in PlainPCs \ {"idle"}
    BY <2>1 DEF PlainPCs, Asks
  <2>7. \E pc \in {"ask.open", "ask.insert", "sign.join", "sign.read",
                   "supersede.scan", "commit"} :
          Goto(t, pc) /\ (pc \in Asks => tx[t].pc \in Asks)
    BY <2>1 DEF Asks
  <2> QED
    BY <2>1, <2>5, <2>6, <2>7, PlainGoes
<1> QED
  BY <1>1, <1>2

LEMMA GivesUp ==
  ASSUME Inv, NEW t \in Tx, tx[t].pc \in {"ask.insert", "decide.lock"}, Return(t),
         UNCHANGED <<members, requests, details, identity, log>>
  PROVE  RowsStep(t) /\ Inv'
<1>1. tx[t].pc \in PlainPCs \ {"idle"}
  BY DEF PlainPCs, Asks
<1> QED
  BY <1>1, SameMembers, PlainGoes

(* The members of a key of the index are what a transaction sees pending.  *)
LEMMA PendingSeen ==
  ASSUME Inv, NEW t \in Tx, NEW u \in Users
  PROVE  /\ \A r \in Requests : r \in PendingOf(t, u) <=> View(requests[r], t) \in OpenRequestsOf(u)
         /\ \A r, q \in PendingOf(t, u) : r = q
<1>1. \A r \in Requests : r \in PendingOf(t, u) <=> View(requests[r], t) \in OpenRequestsOf(u)
  <2>1. ASSUME NEW r \in Requests
        PROVE  r \in PendingOf(t, u) <=> View(requests[r], t) \in OpenRequestsOf(u)
    <3>1. View(requests[r], t) \in Request \cup {Absent}
      BY RequestRows
    <3> QED
      BY <3>1, RequestTypes DEF PendingOf, OpenRequestsOf, Pending, Seen
  <2> QED
    BY <2>1
<1>2. ASSUME NEW r \in PendingOf(t, u), NEW q \in PendingOf(t, u), r # q PROVE FALSE
  <2>1. r \in Requests /\ q \in Requests
    BY DEF PendingOf
  <2>2. OneEntry(requests[r], requests[q], OpenRequestsOf(u))
    BY <1>2, <2>1 DEF Inv, IndexInv
  <2>3. View(requests[r], t) \in OpenRequestsOf(u) /\ View(requests[q], t) \in OpenRequestsOf(u)
    BY <1>1, <2>1
  <2> QED
    BY <2>2, <2>3, EntrySeen
<1> QED
  BY <1>1, <1>2

LEMMA QuietRequests == Inv => \A r \in Requests : Quiet(requests[r])
  BY DEF Inv, RowsInv, RowInv, Quiet

(* A request is inserted, locked or closed.                                *)
LEMMA RequestPut ==
  ASSUME Inv, NEW t \in Tx, NEW r \in Requests, NEW v \in Request, Free(requests[r], t),
         View(requests[r], t) \in Request => <<View(requests[r], t), v>> \in RequestMoves,
         PutsRequest(t, r, v)
  PROVE  /\ RequestsStep(t)
         /\ \A q \in Requests : requests'[q].committed = requests[q].committed
         /\ \A q \in Requests \ {r} : requests'[q] = requests[q]
         /\ requests'[r] = Put(requests[r], t, v)
         /\ requests'[r].holder = t /\ requests'[r].written = v
<1>1. requests = [q \in Requests |-> requests[q]]
  BY DEF Inv, RowsInv
<1>2. /\ requests' = [q \in Requests |-> requests'[q]]
      /\ requests'[r] = Put(requests[r], t, v)
      /\ \A q \in Requests \ {r} : requests'[q] = requests[q]
  BY <1>1 DEF PutsRequest
<1>3. RowChange(requests[r], requests'[r], t, Request, RequestMoves)
  BY <1>2, RequestTypes DEF RowChange
<1>4. \A q \in Requests \ {r} : RowChange(requests[q], requests'[q], t, Request, RequestMoves)
  BY <1>2 DEF RowChange
<1>5. /\ requests'[r].committed = requests[r].committed /\ requests'[r].written = v
      /\ requests'[r].holder = t
  BY <1>2 DEF Put
<1> QED
  BY <1>2, <1>3, <1>4, <1>5 DEF RequestsStep

LEMMA DetailPut ==
  ASSUME Inv, NEW t \in Tx, NEW r \in Requests, NEW b \in BOOLEAN,
         PutsDetail(t, r, b)
  PROVE  /\ details' \in [Requests -> RowsOf(BOOLEAN)]
         /\ \A q \in Requests \ {r} : details'[q] = details[q]
         /\ details'[r].committed = details[r].committed /\ details'[r].written = b
         /\ details'[r].holder = t
<1>1. details \in [Requests -> RowsOf(BOOLEAN)]
  BY DEF Inv, RowsInv
<1>2. PICK d : d = Put(details[r], t, b)
  OBVIOUS
<1>3. d \in RowsOf(BOOLEAN)
  BY <1>1, <1>2, PutTyped
<1>4. details' = [details EXCEPT ![r] = d]
  BY <1>2 DEF PutsDetail
<1>5. details'[r] = d /\ \A q \in Requests \ {r} : details'[q] = details[q]
  BY <1>1, <1>4
<1>6. d.committed = details[r].committed /\ d.written = b /\ d.holder = t
  BY <1>2 DEF Put
<1> QED
  BY <1>1, <1>3, <1>4, <1>5, <1>6

(* The keys of the index: a request that stops waiting, or is only locked, *)
(* makes no entry.                                                         *)
LEMMA EntriesKept ==
  ASSUME Inv, NEW t \in Tx, NEW r \in Requests, NEW v \in Request, Free(requests[r], t),
         v.status = "pending" => View(requests[r], t) = v,
         requests' = [requests EXCEPT ![r] = Put(@, t, v)]
  PROVE  IndexInv'
<1>1. requests = [q \in Requests |-> requests[q]]
  BY DEF Inv, RowsInv
<1>2. requests'[r] = Put(requests[r], t, v) /\ \A q \in Requests \ {r} : requests'[q] = requests[q]
  BY <1>1
<1>3. ASSUME NEW u \in Users, NEW q \in Requests
      PROVE  Touches(requests[q], requests'[q], t, OpenRequestsOf(u))
  BY <1>2 DEF Touches, OpenRequestsOf, Pending
<1> QED
  BY <1>3, QuietRequests, EntryTouched DEF IndexInv, Inv

LEMMA AskInserts ==
  ASSUME Inv, NEW t \in Tx, Ask_Insert(t) PROVE RowsStep(t) /\ Inv'
<1>3. PICK u, r, v : /\ u = tx[t].of /\ r = Min(Fresh)
                     /\ v = [user |-> u, status |-> "pending", by |-> Nothing]
  OBVIOUS
<1>1. CASE PendingOf(t, u) # {} /\ Return(t) /\ UNCHANGED <<requests, details>>
  BY <1>1, <1>3, GivesUp DEF Ask_Insert
<1>2. CASE /\ PendingOf(t, u) = {}
           /\ requests' = [requests EXCEPT ![r] = Put(@, t, v)]
           /\ details' = [details EXCEPT ![r] = Put(@, t, TRUE)]
           /\ tx' = [tx EXCEPT ![t].pc = "commit", ![t].lines = {<<"requested", r, u>>}]
  <2>1. /\ tx[t].pc = "ask.insert" /\ AskHolders(t, u) = {}
        /\ UNCHANGED <<members, identity, log>>
    BY <1>3 DEF Ask_Insert
  <2>2. u \in Users /\ tx[t].user \in People
    BY <1>3, <2>1 DEF Inv, TxInv
  <2>3. r \in Fresh /\ r \in Requests /\ requests[r] = Stored(Absent)
    <3>1. IsFiniteSet(Fresh) /\ IsFiniteSet(Asking) /\ Cardinality(Asking) <= Cardinality(Fresh)
      BY DEF Inv, CountInv
    <3>2. t \in Asking
      BY <2>1 DEF Asking
    <3>3. Fresh # {}
      <4>1. Cardinality(Asking) # 0 /\ Cardinality(Asking) \in Nat
        BY <3>1, <3>2, FS_EmptySet, FS_CardinalityType
      <4> QED
        BY <3>1, <4>1, FS_EmptySet, FS_CardinalityType
    <3>4. Fresh \subseteq Nat
      BY BoundsAssumption DEF Fresh
    <3> QED
      BY <1>3, <3>3, <3>4, LeastFree DEF Fresh
  <2>4. v \in Request /\ v.status = "pending" /\ v.user = u
    BY <1>3, <2>2, RequestTypes
  <2>5. /\ requests[r].committed = Absent /\ requests[r].written = Absent
        /\ requests[r].holder = NoTx /\ Free(requests[r], t) /\ View(requests[r], t) = Absent
    BY <2>3, NoTxAssumption DEF Stored, Free, View
  <2>6. /\ RequestsStep(t)
        /\ \A q \in Requests : requests'[q].committed = requests[q].committed
        /\ \A q \in Requests \ {r} : requests'[q] = requests[q]
        /\ requests'[r] = Put(requests[r], t, v)
        /\ requests'[r].holder = t /\ requests'[r].written = v
    <3>1. View(requests[r], t) \notin Request
      BY <2>5, RequestTypes
    <3>2. PutsRequest(t, r, v)
      BY <1>2 DEF PutsRequest
    <3>3. /\ r \in Requests /\ v \in Request /\ Free(requests[r], t)
          /\ View(requests[r], t) \in Request => <<View(requests[r], t), v>> \in RequestMoves
      BY <2>3, <2>4, <2>5, <3>1
    <3> QED
      BY <3>2, <3>3, RequestPut
  <2>7. /\ details' \in [Requests -> RowsOf(BOOLEAN)]
        /\ \A q \in Requests \ {r} : details'[q] = details[q]
        /\ details'[r].committed = details[r].committed /\ details'[r].written = TRUE
        /\ details'[r].holder = t
    <3>1. PutsDetail(t, r, TRUE)
      BY <1>2 DEF PutsDetail
    <3> QED
      BY <2>3, <3>1, DetailPut
  <2>8. RowsStep(t) /\ Calm
    BY <2>1, <2>6, <2>7, SameMembers, SameIdentity DEF RowsStep, Calm
  <2>9. \A q \in Requests : requests[q].holder # t /\ LinesOf(tx[t].lines, q) = {}
    BY <2>1, PlainHolds DEF PlainPCs, Asks
  <2>10. IndexInv'
    <3>1. ASSUME NEW w \in Users, NEW q \in Requests \ {r}
          PROVE  OneEntry(requests'[r], requests'[q], OpenRequestsOf(w))
      <4>5. PICK K : K = OpenRequestsOf(w)
        OBVIOUS
      <4>1. /\ OneEntry(requests[r], requests[q], K) /\ Quiet(requests[r]) /\ Quiet(requests[q])
            /\ requests'[q] = requests[q]
        BY <2>3, <2>6, <4>5, QuietRequests DEF Inv, IndexInv
      <4>2. CASE w = u
        <5>1. Absent \notin K
          BY <4>5, RequestTypes DEF OpenRequestsOf
        <5>2. View(requests[q], t) \notin K
          BY <1>2, <2>2, <4>2, <4>5, PendingSeen
        <5>3. requests[q].committed \in K \/ requests[q].written \in K
                => requests[q].holder \in {NoTx, t}
          <6> SUFFICES ASSUME requests[q].committed \in K \/ requests[q].written \in K,
                              requests[q].holder \notin {NoTx, t}
                       PROVE  FALSE
            OBVIOUS
          <6>1. requests[q].committed = requests[q].written
            BY <2>1, <4>2, <4>5 DEF AskHolders, OpenRequestsOf
          <6>2. View(requests[q], t) = requests[q].committed
            BY DEF View
          <6> QED
            BY <5>2, <6>1, <6>2
        <5>4. OneEntry(Put(requests[r], t, v), requests[q], K)
          BY <2>5, <4>1, <5>1, <5>2, <5>3, EntryMade
        <5> QED
          BY <2>6, <4>1, <4>5, <5>4
      <4>3. CASE w # u
        <5>1. v \notin K
          BY <2>4, <4>3, <4>5 DEF OpenRequestsOf, Pending
        <5>2. Touches(requests[r], requests'[r], t, K) /\ Touches(requests[q], requests'[q], t, K)
          BY <2>5, <2>6, <4>1, <5>1 DEF Touches
        <5> QED
          BY <4>1, <4>5, <5>2, EntryTouched
      <4> QED
        BY <4>2, <4>3, <4>5
    <3>2. ASSUME NEW w \in Users, NEW p \in Requests, NEW q \in Requests, p # q
          PROVE  OneEntry(requests'[p], requests'[q], OpenRequestsOf(w))
      <4>1. CASE p = r
        BY <3>1, <3>2, <4>1
      <4>2. CASE q = r
        BY <3>1, <3>2, <4>2, EntrySymmetry
      <4>3. CASE p # r /\ q # r
        BY <2>6, <3>2, <4>3 DEF Inv, IndexInv
      <4> QED
        BY <4>1, <4>2, <4>3
    <3> QED
      BY <3>2 DEF IndexInv
  <2>11. DetailsInv'
    <3>1. \A q \in Requests : GoesWith(requests[q], details[q])
      BY DEF Inv, DetailsInv
    <3>2. GoesWith(requests'[r], details'[r])
      <4>1. Waiting(v)
        BY <2>4, RequestTypes DEF Waiting
      <4> QED
        BY <2>3, <2>6, <2>7, <3>1, <4>1, NoTxAssumption DEF GoesWith, Quiet
    <3> QED
      BY <2>6, <2>7, <3>1, <3>2 DEF DetailsInv
  <2>12. HeldInv'
    BY <2>3, <2>5, <2>6 DEF HeldInv, Inv
  <2>13. PICK x : x = [tx[t] EXCEPT !.pc = "commit", !.lines = {<<"requested", r, u>>}]
    OBVIOUS
  <2>14. /\ x \in Transaction /\ x.pc = "commit" /\ x.user = tx[t].user /\ x.of = u
         /\ x.lines = {<<"requested", r, u>>}
    <3>1. {<<"requested", r, u>>} \in SUBSET (Line \X Requests \X People)
      BY <2>2, <2>3 DEF Line, People
    <3> QED
      BY <1>3, <2>13, <3>1 DEF Inv, Transaction, Statements
  <2>15. tx' = [tx EXCEPT ![t] = x] /\ tx'[t] = x
    BY <1>2, <2>13 DEF Inv
  <2>16. TxStep(t)
    <3>1. tx' \in [Tx -> Transaction] /\ \A s \in Tx \ {t} : tx'[s] = tx[s]
      BY <2>14, <2>15, TxMoves
    <3>2. TxInv(t)'
      <4>1. \A w \in Users : identity'[w].holder # t
        BY <2>1, PlainHolds DEF PlainPCs, Asks
      <4>2. ASSUME NEW q \in Requests, q # r
            PROVE  requests'[q].holder # t /\ LinesOf(x.lines, q) = {}
        BY <2>6, <2>9, <2>14, <4>2 DEF LinesOf
      <4>3. RequestHeld(t, r)'
        <5>1. LinesOf(x.lines, r) = {<<"requested", r, u>>}
          BY <2>14 DEF LinesOf
        <5>2. History(v, r) = {<<"requested", r, u>>} /\ History(Absent, r) = {}
          BY <2>4, RequestTypes DEF History
        <5>3. v.status # "approved"
          BY <2>4
        <5>4. requests'[r].committed = Absent
          BY <2>3, <2>5, <2>6
        <5> QED
          BY <2>6, <2>14, <2>15, <5>1, <5>2, <5>3, <5>4 DEF RequestHeld
      <4>4. ~Locking(t)'
        BY <2>14, <2>15 DEF Locking
      <4> QED
        BY <2>2, <2>6, <2>14, <2>15, <4>1, <4>2, <4>3, <4>4 DEF TxInv
    <3> QED
      BY <3>1, <3>2 DEF TxStep
  <2>17. CountInv'
    <3>1. IsFiniteSet(Fresh) /\ IsFiniteSet(Asking) /\ Cardinality(Asking) <= Cardinality(Fresh)
      BY DEF Inv, CountInv
    <3>2. Fresh' = Fresh \ {r}
      <4>1. requests'[r] # Stored(Absent)
        BY <2>6, NoTxAssumption DEF Stored
      <4> QED
        BY <2>3, <2>6, <4>1 DEF Fresh
    <3>3. Asking' = Asking \ {t} /\ t \in Asking
      BY <2>1, <2>14, <2>15, TxMoves DEF Asking
    <3>4. /\ IsFiniteSet(Fresh \ {r}) /\ Cardinality(Fresh \ {r}) = Cardinality(Fresh) - 1
          /\ IsFiniteSet(Asking \ {t}) /\ Cardinality(Asking \ {t}) = Cardinality(Asking) - 1
      BY <2>3, <3>1, <3>3, FS_RemoveElement
    <3>5. Cardinality(Asking) \in Nat /\ Cardinality(Fresh) \in Nat
      BY <3>1, FS_CardinalityType
    <3> QED
      BY <3>1, <3>2, <3>3, <3>4, <3>5 DEF CountInv
  <2> QED
    BY <2>8, <2>10, <2>11, <2>12, <2>16, <2>17, StatementStep
<1> QED
  BY <1>1, <1>2, <1>3 DEF Ask_Insert

LEMMA GotoStep ==
  ASSUME Inv, NEW t \in Tx, NEW pc \in Statements \ Asks, Goto(t, pc),
         \A r \in Requests : requests[r] = Stored(Absent) => requests'[r] = requests[r]
  PROVE  /\ tx' \in [Tx -> Transaction] /\ \A s \in Tx \ {t} : tx'[s] = tx[s]
         /\ tx'[t].pc = pc /\ tx'[t].user = tx[t].user /\ tx'[t].of = tx[t].of
         /\ tx'[t].req = tx[t].req /\ tx'[t].to = tx[t].to /\ tx'[t].lines = tx[t].lines
         /\ CountInv'
<1>1. PICK x : x = [tx[t] EXCEPT !.pc = pc]
  OBVIOUS
<1>2. /\ x \in Transaction /\ x.pc = pc /\ x.user = tx[t].user /\ x.of = tx[t].of
      /\ x.req = tx[t].req /\ x.to = tx[t].to /\ x.lines = tx[t].lines
  BY <1>1, GotoType
<1>3. tx' = [tx EXCEPT ![t] = x]
  BY <1>1 DEF Goto, Inv
<1>4. CountInv'
  BY <1>2, <1>3, CountKept
<1> QED
  BY <1>2, <1>3, <1>4, TxMoves

LEMMA DecideLocks ==
  ASSUME Inv, NEW t \in Tx, Decide_Lock(t) PROVE RowsStep(t) /\ Inv'
<1>1. PICK r, v, u : r = tx[t].req /\ v = Seen(t, r) /\ u = tx[t].of
  OBVIOUS
<1>2. CASE ~MayDecide(t, v) /\ Return(t) /\ UNCHANGED requests
  BY <1>1, <1>2, GivesUp DEF Decide_Lock
<1>3. CASE MayDecide(t, v) /\ requests' = [requests EXCEPT ![r] = Put(@, t, v)] /\ Goto(t, AfterLock(t))
  <2>1. /\ tx[t].pc = "decide.lock" /\ Free(requests[r], t)
        /\ UNCHANGED <<members, details, identity, log>>
    BY <1>1 DEF Decide_Lock
  <2>2. /\ r \in Requests /\ OwnedBy(r, u) /\ tx[t].user \in People /\ u \in Users
        /\ tx[t].to \in {"approved", "rejected"}
    BY <1>1, <2>1 DEF Inv, TxInv
  <2>3. /\ \A q \in Requests : requests[q].holder # t /\ LinesOf(tx[t].lines, q) = {}
        /\ \A w \in Users : identity[w].holder # t
    BY <2>1, PlainHolds DEF PlainPCs, Asks
  <2>4. /\ v = requests[r].committed /\ v \in Request /\ v.user = u /\ v.status = "pending"
        /\ u # tx[t].user /\ requests[r].holder = NoTx /\ requests[r].written = v
        /\ View(requests[r], t) = v /\ requests[r] # Stored(Absent)
    <3>1. v = requests[r].committed /\ v \in Request /\ v.user = u
      BY <1>1, <2>2, <2>3 DEF Seen, View, OwnedBy
    <3>2. requests[r].holder = NoTx /\ requests[r].written = v /\ View(requests[r], t) = v
      BY <2>1, <2>2, <2>3, <3>1, RequestRows DEF Free
    <3>3. requests[r] # Stored(Absent)
      <4>1. v # Absent
        BY <3>1, RequestTypes
      <4>2. Stored(Absent).committed = Absent
        BY DEF Stored
      <4> QED
        BY <3>1, <4>1, <4>2
    <3> QED
      BY <1>3, <3>1, <3>2, <3>3 DEF MayDecide
  <2>5. /\ RequestsStep(t)
        /\ \A q \in Requests : requests'[q].committed = requests[q].committed
        /\ \A q \in Requests \ {r} : requests'[q] = requests[q]
        /\ requests'[r].holder = t /\ requests'[r].written = v
    <3>1. <<v, v>> \in RequestMoves
      BY <2>4, RequestOrder
    <3>2. PutsRequest(t, r, v)
      BY <1>3 DEF PutsRequest
    <3> QED
      BY <2>1, <2>2, <2>4, <3>1, <3>2, RequestPut
  <2>6. RowsStep(t) /\ Calm
    BY <2>1, <2>5, SameMembers, SameIdentity DEF RowsStep, Calm, Inv, RowsInv
  <2>7. IndexInv'
    <3>1. requests' = [requests EXCEPT ![r] = Put(@, t, v)]
      BY <1>3
    <3> QED
      BY <2>1, <2>2, <2>4, <3>1, EntriesKept
  <2>8. DetailsInv'
    <3>1. \A q \in Requests : GoesWith(requests[q], details[q])
      BY DEF Inv, DetailsInv
    <3>2. requests'[r].committed = v /\ details'[r] = details[r]
      BY <2>1, <2>2, <2>4, <2>5
    <3>3. GoesWith(requests'[r], details'[r])
      BY <2>2, <2>4, <2>5, <3>1, <3>2, NoTxAssumption DEF GoesWith, Quiet
    <3> QED
      BY <2>1, <2>5, <3>1, <3>3 DEF DetailsInv
  <2>9. HeldInv'
    <3>1. requests'[r].committed = v /\ v # Absent
      BY <2>2, <2>4, <2>5, RequestTypes
    <3>2. Waiting(requests'[r].committed)
      BY <2>4, <3>1 DEF Waiting
    <3> QED
      BY <2>5, <3>2 DEF HeldInv, Inv
  <2>10. PICK pc : pc = AfterLock(t)
    OBVIOUS
  <2>11. /\ pc \in {"verify.member", "decide.update"}
         /\ pc = "decide.update" => tx[t].to # "approved"
    BY <2>2, <2>10 DEF AfterLock
  <2>12. /\ tx' \in [Tx -> Transaction] /\ \A s \in Tx \ {t} : tx'[s] = tx[s]
         /\ tx'[t].pc = pc /\ tx'[t].user = tx[t].user /\ tx'[t].of = u
         /\ tx'[t].req = r /\ tx'[t].to = tx[t].to /\ tx'[t].lines = tx[t].lines
         /\ CountInv'
    <3>1. pc \in Statements \ Asks /\ Goto(t, pc)
      BY <1>3, <2>10, <2>11 DEF Statements, Asks
    <3>2. \A q \in Requests : requests[q] = Stored(Absent) => requests'[q] = requests[q]
      BY <2>4, <2>5
    <3> QED
      BY <1>1, <3>1, <3>2, GotoStep
  <2>13. TxInv(t)'
    <3>1. Locking(t)' /\ Locked(t)'
      <4>1. r # Nothing
        BY <2>2, PeopleAssumption
      <4> QED
        <5>1. Locking(t)'
          BY <2>11, <2>12, <4>1 DEF Locking
        <5>2. v # Absent /\ requests'[r].committed = v
          BY <2>2, <2>4, <2>5, RequestTypes
        <5>3. Pending(v, u)
          BY <2>4, <5>2 DEF Pending
        <5> QED
          BY <2>2, <2>4, <2>5, <2>12, <5>1, <5>2, <5>3 DEF Locked
    <3>2. RequestHeld(t, r)'
      <4>1. LinesOf(tx'[t].lines, r) = {} /\ v.status # "approved" /\ requests'[r].committed = v
        BY <2>2, <2>3, <2>4, <2>5, <2>12
      <4> QED
        BY <2>5, <2>12, <3>1, <4>1 DEF RequestHeld
    <3>3. \A q \in Requests \ {r} : requests'[q].holder # t /\ LinesOf(tx'[t].lines, q) = {}
      BY <2>3, <2>5, <2>12
    <3>4. \A w \in Users : identity'[w].holder # t
      BY <2>1, <2>3
    <3> QED
      BY <2>2, <2>5, <2>11, <2>12, <3>1, <3>2, <3>3, <3>4 DEF TxInv
  <2> QED
    BY <2>6, <2>7, <2>8, <2>9, <2>12, <2>13, StatementStep DEF TxStep
<1> QED
  BY <1>1, <1>2, <1>3 DEF Decide_Lock

(* Where a connection holds no identity, and no request but the one it has *)
(* locked.                                                                 *)
LEMMA VerifyHolds ==
  ASSUME Inv, NEW t \in Tx, tx[t].pc \in {"verify.member", "verify.capture"}
  PROVE  /\ \A u \in Users : identity[u].holder # t
         /\ \A r \in Requests : requests[r].holder = t =>
              Locking(t) /\ r = tx[t].req /\ requests[r].written.status = "pending"
         /\ tx[t].user \in People /\ tx[t].of \in Users /\ (Locking(t) => Locked(t))
<1>1. TxInv(t)
  BY DEF Inv
<1>2. \A u \in Users : identity[u].holder # t
  BY <1>1 DEF TxInv, Copied
<1>3. tx[t].user \in People /\ tx[t].of \in Users /\ (Locking(t) => Locked(t))
  BY <1>1 DEF TxInv
<1>4. ASSUME NEW r \in Requests, requests[r].holder = t
      PROVE  Locking(t) /\ r = tx[t].req /\ requests[r].written.status = "pending"
  <2>1. Locking(t) /\ r = tx[t].req
    BY <1>1, <1>4 DEF TxInv, RequestHeld
  <2> QED
    BY <1>3, <2>1 DEF Locked, Pending
<1> QED
  BY <1>2, <1>3, <1>4

(* On the way of an approval the locked request stays locked.              *)
LEMMA LockKept ==
  ASSUME Inv, NEW t \in Tx, tx[t].pc \in {"verify.member", "verify.capture"},
         NEW pc \in {"verify.capture", "supersede.scan", "decide.update"},
         pc \in {"verify.capture", "decide.update"} \/ tx[t].req = Nothing,
         UNCHANGED requests, tx'[t].pc = pc, tx'[t].user = tx[t].user, tx'[t].of = tx[t].of,
         tx'[t].req = tx[t].req, tx'[t].to = tx[t].to, tx'[t].lines = tx[t].lines,
         pc = "decide.update" => tx[t].req # Nothing
  PROVE  /\ Locking(t)' => Locked(t)'
         /\ \A r \in Requests : IF requests'[r].holder = t THEN RequestHeld(t, r)'
                                ELSE LinesOf(tx'[t].lines, r) = {}
<1>1. Locking(t)' <=> Locking(t)
  BY DEF Locking
<1>2. Locking(t)' => Locked(t)'
  BY <1>1, VerifyHolds DEF Locked
<1>3. ASSUME NEW r \in Requests
      PROVE  IF requests'[r].holder = t THEN RequestHeld(t, r)' ELSE LinesOf(tx'[t].lines, r) = {}
  <2>1. CASE requests[r].holder = t
    <3>1. RequestHeld(t, r)
      BY <2>1 DEF Inv, TxInv
    <3>2. Locking(t) /\ r = tx[t].req /\ requests[r].written.status = "pending"
      BY <2>1, VerifyHolds
    <3> QED
      BY <1>1, <2>1, <3>1, <3>2 DEF RequestHeld
  <2>2. CASE requests[r].holder # t
    BY <2>2 DEF Inv, TxInv
  <2> QED
    BY <2>1, <2>2
<1> QED
  BY <1>2, <1>3

LEMMA MemberVerified ==
  ASSUME Inv, NEW t \in Tx, Verify_Member(t) PROVE RowsStep(t) /\ Inv'
<1>1. PICK u, v : u = tx[t].of /\ v = Verified(View(members[u], t))
  OBVIOUS
<1>2. /\ tx[t].pc = "verify.member" /\ Free(members[u], t) /\ Goto(t, "verify.capture")
      /\ members' = [members EXCEPT ![u] = Put(@, t, v)]
      /\ UNCHANGED <<requests, details, identity, log>>
  BY <1>1 DEF Verify_Member
<1>3. /\ \A w \in Users : identity[w].holder # t
      /\ tx[t].user \in People /\ u \in Users /\ (Locking(t) => Locked(t))
  BY <1>1, <1>2, VerifyHolds
<1>4. v \in Member /\ ~Unverified(v) /\ (Unverified(View(members[u], t)) \/ v = View(members[u], t))
  <2>1. View(members[u], t) \in Member \cup {Absent}
    BY <1>3 DEF Inv, RowsInv, RowInv, RowsOf, View
  <2> QED
    BY <1>1, <2>1, MemberTypes
<1>5. /\ MembersStep(t) /\ \A w \in Users : members'[w].committed = members[w].committed
      /\ members'[u].holder = t /\ members'[u].written = v
  <2>1. /\ u \in Users /\ v \in Member /\ Free(members[u], t)
        /\ PutsMember(t, u, v)
        /\ Unverified(View(members[u], t)) \/ v = View(members[u], t)
    BY <1>2, <1>3, <1>4 DEF PutsMember
  <2> QED
    BY <2>1, MembersPut
<1>6. RowsStep(t) /\ Calm
  BY <1>2, <1>5, SameRequests, SameIdentity DEF RowsStep, Calm
<1>7. /\ tx' \in [Tx -> Transaction] /\ \A s \in Tx \ {t} : tx'[s] = tx[s]
      /\ tx'[t].pc = "verify.capture" /\ tx'[t].user = tx[t].user /\ tx'[t].of = tx[t].of
      /\ tx'[t].req = tx[t].req /\ tx'[t].to = tx[t].to /\ tx'[t].lines = tx[t].lines
      /\ CountInv'
  BY <1>2, GotoStep DEF Statements, Asks
<1>8. /\ Locking(t)' => Locked(t)'
      /\ \A r \in Requests : IF requests'[r].holder = t THEN RequestHeld(t, r)'
                             ELSE LinesOf(tx'[t].lines, r) = {}
  BY <1>2, <1>7, LockKept
<1>9. TxInv(t)'
  <2>1. MakesMember(t, u)'
    BY <1>4, <1>5 DEF MakesMember
  <2>2. MakesMember(t, tx[t].of)'
    BY <1>1, <1>7, <2>1
  <2> QED
    BY <1>1, <1>2, <1>3, <1>7, <1>8, <2>2 DEF TxInv
<1> QED
  BY <1>2, <1>6, <1>7, <1>9, SameRequests, StatementStep DEF TxStep

LEMMA IdentityPut ==
  ASSUME Inv, NEW t \in Tx, NEW u \in Users, NEW r \in Requests, Free(identity[u], t),
         PutsIdentity(t, u, r)
  PROVE  /\ IdentityStep(t) /\ \A w \in Users : identity'[w].committed = identity[w].committed
         /\ \A w \in Users \ {u} : identity'[w] = identity[w]
         /\ identity'[u].holder = t /\ identity'[u].written = r
<1>1. identity = [w \in Users |-> identity[w]]
  BY DEF Inv, RowsInv
<1>2. /\ identity' = [w \in Users |-> identity'[w]]
      /\ identity'[u] = Put(identity[u], t, r)
      /\ \A w \in Users \ {u} : identity'[w] = identity[w]
  BY <1>1 DEF PutsIdentity
<1>3. RowChange(identity[u], identity'[u], t, Requests, CopyMoves)
  BY <1>2, CopyOrder DEF RowChange
<1>4. \A w \in Users \ {u} : RowChange(identity[w], identity'[w], t, Requests, CopyMoves)
  BY <1>2 DEF RowChange
<1>5. /\ identity'[u].committed = identity[u].committed /\ identity'[u].written = r
      /\ identity'[u].holder = t
  BY <1>2 DEF Put
<1> QED
  BY <1>2, <1>3, <1>4, <1>5 DEF IdentityStep

(* A request seen pending is a row of its asker's, and the only one.       *)
LEMMA PendingRow ==
  ASSUME Inv, NEW t \in Tx, NEW u \in Users, NEW r \in PendingOf(t, u)
  PROVE  /\ r \in Requests /\ View(requests[r], t) \in Request
         /\ View(requests[r], t).user = u /\ View(requests[r], t).status = "pending"
         /\ PendingOf(t, u) = {r}
<1>1. r \in Requests /\ PendingOf(t, u) = {r}
  BY PendingSeen DEF PendingOf
<1> QED
  BY <1>1, PendingSeen DEF OpenRequestsOf, Pending

LEMMA MaxOfOne == ASSUME NEW r \in Nat PROVE Max({r}) = r
  BY DEF Max

LEMMA IdentityCaptured ==
  ASSUME Inv, NEW t \in Tx, Verify_Capture(t) PROVE RowsStep(t) /\ Inv'
<1>1. PICK u, kept, pc : /\ u = tx[t].of /\ pc = AfterCapture(t)
                         /\ kept = {r \in PendingOf(t, u) : View(details[r], t)}
  OBVIOUS
<1>2. /\ tx[t].pc = "verify.capture" /\ Free(identity[u], t) /\ Goto(t, pc)
      /\ identity' = IF kept = {} THEN identity ELSE [identity EXCEPT ![u] = Put(@, t, Max(kept))]
      /\ UNCHANGED <<members, requests, details, log>>
  BY <1>1 DEF Verify_Capture
<1>3. /\ \A w \in Users : identity[w].holder # t
      /\ \A r \in Requests : requests[r].holder = t => Locking(t) /\ r = tx[t].req
      /\ tx[t].user \in People /\ u \in Users /\ (Locking(t) => Locked(t))
  BY <1>1, <1>2, VerifyHolds
<1>4. /\ pc \in {"supersede.scan", "decide.update"} /\ tx[t].req \in Requests \cup {Nothing}
      /\ pc = "supersede.scan" <=> tx[t].req = Nothing
      /\ tx[t].req # Nothing <=> Locking(t)
  BY <1>1, <1>2 DEF AfterCapture, Locking, Inv, Transaction
<1>5. /\ tx' \in [Tx -> Transaction] /\ \A s \in Tx \ {t} : tx'[s] = tx[s]
      /\ tx'[t].pc = pc /\ tx'[t].user = tx[t].user /\ tx'[t].of = tx[t].of
      /\ tx'[t].req = tx[t].req /\ tx'[t].to = tx[t].to /\ tx'[t].lines = tx[t].lines
      /\ CountInv'
  <2>1. pc \in Statements \ Asks
    BY <1>4 DEF Statements, Asks
  <2> QED
    BY <1>2, <2>1, GotoStep
<1>6. /\ Locking(t)' => Locked(t)'
      /\ \A r \in Requests : IF requests'[r].holder = t THEN RequestHeld(t, r)'
                             ELSE LinesOf(tx'[t].lines, r) = {}
  <2>1. /\ pc \in {"verify.capture", "supersede.scan", "decide.update"}
        /\ pc \in {"verify.capture", "decide.update"} \/ tx[t].req = Nothing
        /\ pc = "decide.update" => tx[t].req # Nothing
    BY <1>4
  <2> QED
    BY <1>2, <1>5, <2>1, LockKept
<1>7. MakesMember(t, u) /\ MakesMember(t, u)' /\ MakesMember(t, tx[t].of)'
  <2>1. MakesMember(t, u)
    BY <1>1, <1>2 DEF Inv, TxInv
  <2> QED
    BY <1>1, <1>2, <1>5, <2>1 DEF MakesMember
<1>8. CASE kept = {}
  <2>1. identity' = identity
    BY <1>2, <1>8
  <2>2. ~Locking(t)
    <3> SUFFICES ASSUME Locking(t) PROVE FALSE
      OBVIOUS
    <3>1. PICK r : r = tx[t].req
      OBVIOUS
    <3>2. r \in Requests /\ requests[r].holder = t /\ Pending(requests[r].written, u)
          /\ requests[r].committed = requests[r].written
      BY <1>1, <1>3, <3>1 DEF Locked
    <3>3. r \in PendingOf(t, u)
      BY <3>2 DEF PendingOf, Seen, View
    <3>4. details[r].committed = TRUE /\ details[r].written = TRUE
      BY <3>2 DEF Inv, DetailsInv, GoesWith, Waiting, Pending
    <3>5. View(details[r], t) = TRUE
      BY <3>4 DEF View
    <3> QED
      BY <1>1, <1>8, <3>3, <3>5
  <2>3. RowsStep(t) /\ Calm
    BY <1>2, <2>1, SameRequests, SameMembers, SameIdentity DEF RowsStep, Calm
  <2>4. TxInv(t)'
    BY <1>1, <1>3, <1>4, <1>5, <1>6, <1>7, <2>1, <2>2 DEF TxInv
  <2> QED
    BY <1>2, <1>5, <2>3, <2>4, SameRequests, StatementStep DEF TxStep
<1>9. CASE kept # {}
  <2>1. PICK r \in kept : TRUE
    BY <1>9
  <2>2. /\ r \in Requests /\ View(requests[r], t) \in Request /\ View(requests[r], t).user = u
        /\ PendingOf(t, u) = {r}
    BY <1>1, <1>3, <2>1, PendingRow
  <2>3. kept = {r} /\ Max(kept) = r
    BY <1>1, <2>1, <2>2, MaxOfOne, BoundsAssumption
  <2>4. identity' = [identity EXCEPT ![u] = Put(@, t, r)]
    BY <1>2, <1>9, <2>3
  <2>5. /\ IdentityStep(t) /\ \A w \in Users : identity'[w].committed = identity[w].committed
        /\ \A w \in Users \ {u} : identity'[w] = identity[w]
        /\ identity'[u].holder = t /\ identity'[u].written = r
    <3>1. u \in Users /\ r \in Requests /\ Free(identity[u], t)
      BY <1>2, <1>3, <2>2
    <3>2. PutsIdentity(t, u, r)
      BY <2>4 DEF PutsIdentity
    <3> QED
      BY <3>1, <3>2, IdentityPut
  <2>6. RowsStep(t) /\ Calm
    BY <1>2, <2>5, SameRequests, SameMembers DEF RowsStep, Calm
  <2>7. Locking(t) => r = tx[t].req /\ OwnedBy(r, u)
    <3> SUFFICES ASSUME Locking(t) PROVE r = tx[t].req /\ OwnedBy(r, u)
      OBVIOUS
    <3>1. PICK q : q = tx[t].req
      OBVIOUS
    <3>2. q \in Requests /\ requests[q].holder = t /\ Pending(requests[q].written, u)
          /\ requests[q].committed = requests[q].written
      BY <1>1, <1>3, <3>1 DEF Locked
    <3>3. q \in PendingOf(t, u)
      BY <3>2 DEF PendingOf, Seen, View
    <3> QED
      BY <2>2, <3>1, <3>2, <3>3 DEF OwnedBy, View
  <2>8. OwnedBy(r, u)
    <3>1. CASE requests[r].holder = t
      BY <1>3, <2>2, <2>7, <3>1
    <3>2. CASE requests[r].holder # t
      BY <2>2, <3>2 DEF OwnedBy, View
    <3> QED
      BY <3>1, <3>2
  <2>9. ASSUME NEW w \in Users, identity'[w].holder = t PROVE Copied(t, w)'
    <3>1. w = u
      BY <1>3, <2>5, <2>9
    <3>2. OwnedBy(r, u)'
      BY <1>2, <2>8 DEF OwnedBy
    <3>3. \/ tx'[t].pc = "decide.update" /\ r = tx'[t].req
          \/ tx'[t].pc = "supersede.scan"
      BY <1>4, <1>5, <2>7
    <3>4. identity'[u].written = r /\ u = tx'[t].of
      BY <1>1, <1>5, <2>5
    <3>5. Copied(t, u)'
      BY <1>7, <3>2, <3>3, <3>4 DEF Copied
    <3> QED
      BY <3>1, <3>5
  <2>10. TxInv(t)'
    <3>1. MakesMember(t, tx[t].of)' /\ identity'[tx'[t].of].holder = t
      BY <1>1, <1>5, <1>7, <2>5
    <3> QED
      BY <1>1, <1>3, <1>4, <1>5, <1>6, <2>9, <3>1 DEF TxInv
  <2> QED
    BY <1>2, <1>5, <2>6, <2>10, SameRequests, StatementStep DEF TxStep
<1> QED
  BY <1>8, <1>9

(* What t holds while it supersedes.                                       *)
LEMMA SupersedeHolds ==
  ASSUME Inv, NEW t \in Tx, tx[t].pc \in {"supersede.scan", "supersede.row"}
  PROVE  /\ \A r \in Requests : requests[r].holder # t /\ LinesOf(tx[t].lines, r) = {}
         /\ \A u \in Users : identity[u].holder = t => Copied(t, u)
         /\ tx[t].user \in People /\ tx[t].of \in Users
<1>1. TxInv(t)
  BY DEF Inv
<1>2. \A r \in Requests : ~RequestHeld(t, r)
  BY DEF RequestHeld, Locking
<1> QED
  BY <1>1, <1>2 DEF TxInv

(* After the copy, only tx changes: what was copied stays in hand.         *)
LEMMA StillCopied ==
  ASSUME Inv, NEW t \in Tx, NEW u \in Users, identity[u].holder = t,
         UNCHANGED <<members, requests, identity>>, tx'[t].of = tx[t].of, Copied(t, u),
         NEW r \in Requests, r = identity[u].written,
         \/ tx'[t].pc = "supersede.row" /\ (r = tx'[t].req \/ ClosedFor(t, r, u))
         \/ tx'[t].pc = "commit" /\ ClosedFor(t, r, u)
  PROVE  Copied(t, u)'
<1>1. r = identity'[u].written /\ u = tx'[t].of
  BY DEF Copied
<1>2. OwnedBy(r, u)' /\ MakesMember(t, u)'
  BY DEF Copied, OwnedBy, MakesMember
<1>3. ClosedFor(t, r, u)' <=> ClosedFor(t, r, u)
  BY DEF ClosedFor
<1> QED
  BY <1>1, <1>2, <1>3 DEF Copied

LEMMA SupersedeScans ==
  ASSUME Inv, NEW t \in Tx, Supersede_Scan(t) \/ (Supersede_Row(t) /\ UNCHANGED requests
                                                  /\ UNCHANGED details /\ Goto(t, "commit")
                                                  /\ Seen(t, tx[t].req).status # "pending")
  PROVE  RowsStep(t) /\ Inv'
<1>1. PICK u : u = tx[t].of
  OBVIOUS
<1>2. /\ tx[t].pc \in {"supersede.scan", "supersede.row"}
      /\ UNCHANGED <<members, requests, details, identity, log>>
  BY DEF Supersede_Scan, Supersede_Row, tables
<1>3. /\ \A r \in Requests : requests[r].holder # t /\ LinesOf(tx[t].lines, r) = {}
      /\ \A w \in Users : identity[w].holder = t => Copied(t, w)
      /\ tx[t].user \in People /\ u \in Users
  BY <1>1, <1>2, SupersedeHolds
<1>4. RowsStep(t) /\ Calm
  BY <1>2, SameRequests, SameMembers, SameIdentity DEF RowsStep, Calm
<1>5. ASSUME NEW w \in Users, identity[w].holder = t
      PROVE  /\ w = u /\ identity[w].written \in Requests /\ OwnedBy(identity[w].written, u)
             /\ tx[t].pc = "supersede.row" =>
                  identity[w].written = tx[t].req \/ ClosedFor(t, identity[w].written, u)
  <2>1. Copied(t, w)
    BY <1>3, <1>5
  <2>2. identity[w].written \in Requests
    BY <1>5, NoTxAssumption DEF Inv, RowsInv, RowInv
  <2> QED
    BY <1>1, <1>2, <2>1, <2>2 DEF Copied
<1>6. ASSUME NEW r \in Requests, OwnedBy(r, u), r \notin PendingOf(t, u) PROVE ClosedFor(t, r, u)
  <2>1. View(requests[r], t) = requests[r].committed /\ requests[r].committed \in Request
        /\ requests[r].committed.user = u
    BY <1>3, <1>6 DEF View, OwnedBy
  <2>2. View(requests[r], t).status # "pending"
    <3>1. View(requests[r], t) # Absent
      BY <2>1, AbsentAssumption
    <3>2. ~Pending(View(requests[r], t), u)
      BY <1>6 DEF PendingOf, Seen
    <3> QED
      BY <2>1, <3>1, <3>2 DEF Pending
  <2> QED
    BY <2>1, <2>2 DEF ClosedFor
<1>7. ASSUME NEW x \in Transaction, tx' = [tx EXCEPT ![t] = x], x.user = tx[t].user,
             x.of = tx[t].of, x.lines = tx[t].lines, x.pc \in {"supersede.row", "commit"},
             x.pc = "supersede.row" => x.req \in Requests /\ OwnedBy(x.req, u),
             \A w \in Users : identity[w].holder = t =>
               \/ x.pc = "supersede.row" /\ identity[w].written = x.req
               \/ ClosedFor(t, identity[w].written, u)
      PROVE  RowsStep(t) /\ Inv'
  <2>1. tx' \in [Tx -> Transaction] /\ tx'[t] = x /\ \A s \in Tx \ {t} : tx'[s] = tx[s]
    BY <1>7, TxMoves
  <2>2. CountInv'
    BY <1>2, <1>7, CountKept DEF Asks
  <2>3. ASSUME NEW w \in Users, identity'[w].holder = t PROVE Copied(t, w)'
    <3>1. identity[w].holder = t
      BY <1>2, <2>3
    <3>2. PICK r \in Requests : r = identity[w].written
      BY <1>5, <3>1
    <3>3. w = u /\ Copied(t, w)
      BY <1>3, <1>5, <3>1
    <3>4. \/ tx'[t].pc = "supersede.row" /\ (r = tx'[t].req \/ ClosedFor(t, r, w))
          \/ tx'[t].pc = "commit" /\ ClosedFor(t, r, w)
      BY <1>7, <2>1, <3>1, <3>2, <3>3
    <3>5. tx'[t].of = tx[t].of
      BY <1>7, <2>1
    <3> QED
      BY <1>2, <3>1, <3>2, <3>3, <3>4, <3>5, StillCopied
  <2>4. TxInv(t)'
    <3>1. ~Locking(t)'
      BY <1>7, <2>1 DEF Locking
    <3>2. \A r \in Requests : requests'[r].holder # t /\ LinesOf(tx'[t].lines, r) = {}
      BY <1>2, <1>3, <1>7, <2>1
    <3>3. tx'[t].pc \in {"decide.lock", "supersede.row"}
            => tx'[t].req \in Requests /\ OwnedBy(tx[t].req, tx[t].of)'
      <4>1. PICK r : r = x.req
        OBVIOUS
      <4>2. tx'[t].pc \in {"decide.lock", "supersede.row"} => r \in Requests /\ OwnedBy(r, u)'
        BY <1>2, <1>7, <2>1, <4>1 DEF OwnedBy
      <4> QED
        BY <1>1, <1>7, <2>1, <4>1, <4>2
    <3>4. /\ tx'[t].user \in People /\ tx'[t].of \in Users
          /\ tx'[t].pc \notin {"decide.lock", "verify.capture", "decide.update"}
      BY <1>1, <1>3, <1>7, <2>1
    <3> QED
      BY <2>3, <3>1, <3>2, <3>3, <3>4 DEF TxInv
  <2> QED
    BY <1>2, <1>4, <2>1, <2>2, <2>4, SameRequests, StatementStep DEF TxStep
<1>8. ASSUME NEW y, y = [tx[t] EXCEPT !.pc = "commit"]
      PROVE  /\ y \in Transaction /\ y.user = tx[t].user /\ y.of = tx[t].of
             /\ y.lines = tx[t].lines /\ y.pc = "commit"
  BY <1>8, GotoType DEF Statements
<1>9. CASE Supersede_Scan(t)
  <2>1. tx[t].pc = "supersede.scan"
    BY <1>9 DEF Supersede_Scan
  <2>2. CASE PendingOf(t, u) = {} /\ Goto(t, "commit")
    <3>1. PICK x : x = [tx[t] EXCEPT !.pc = "commit"]
      OBVIOUS
    <3>2. tx' = [tx EXCEPT ![t] = x]
      BY <2>2, <3>1 DEF Goto, Inv
    <3>3. \A w \in Users : identity[w].holder = t => ClosedFor(t, identity[w].written, u)
      BY <1>5, <1>6, <2>2
    <3> QED
      BY <1>7, <1>8, <3>1, <3>2, <3>3
  <2>3. ASSUME NEW r \in PendingOf(t, u),
               tx' = [tx EXCEPT ![t].pc = "supersede.row", ![t].req = r]
        PROVE  RowsStep(t) /\ Inv'
    <3>1. r \in Requests /\ PendingOf(t, u) = {r} /\ OwnedBy(r, u)
      <4>1. /\ r \in Requests /\ View(requests[r], t) \in Request
            /\ View(requests[r], t).user = u /\ PendingOf(t, u) = {r}
        BY <1>3, PendingRow
      <4> QED
        BY <1>3, <4>1 DEF View, OwnedBy
    <3>2. PICK x : x = [tx[t] EXCEPT !.pc = "supersede.row", !.req = r]
      OBVIOUS
    <3>3. /\ x \in Transaction /\ x.user = tx[t].user /\ x.of = tx[t].of
          /\ x.lines = tx[t].lines /\ x.pc = "supersede.row" /\ x.req = r
      BY <3>1, <3>2 DEF Inv, Transaction, Statements
    <3>4. tx' = [tx EXCEPT ![t] = x]
      BY <2>3, <3>2 DEF Inv
    <3>5. \A w \in Users : identity[w].holder = t =>
            identity[w].written = r \/ ClosedFor(t, identity[w].written, u)
      BY <1>5, <1>6, <3>1
    <3> QED
      BY <1>7, <3>1, <3>3, <3>4, <3>5
  <2> QED
    BY <1>1, <1>9, <2>2, <2>3 DEF Supersede_Scan
<1>10. CASE Supersede_Row(t) /\ Goto(t, "commit") /\ Seen(t, tx[t].req).status # "pending"
  <2>1. PICK x, r : x = [tx[t] EXCEPT !.pc = "commit"] /\ r = tx[t].req
    OBVIOUS
  <2>2. tx' = [tx EXCEPT ![t] = x] /\ tx[t].pc = "supersede.row"
    BY <1>10, <2>1 DEF Goto, Inv, Supersede_Row
  <2>3. r \in Requests /\ OwnedBy(r, u)
    BY <1>1, <2>1, <2>2 DEF Inv, TxInv
  <2>4. ClosedFor(t, r, u)
    BY <1>6, <1>10, <2>1, <2>3 DEF PendingOf, Pending
  <2>5. \A w \in Users : identity[w].holder = t => ClosedFor(t, identity[w].written, u)
    BY <1>5, <2>1, <2>2, <2>4
  <2> QED
    BY <1>7, <1>8, <2>1, <2>2, <2>5
<1> QED
  BY <1>9, <1>10

(* The request r of u, pending, is closed by t.                            *)
LEMMA RequestCloses ==
  ASSUME Inv, NEW t \in Tx, NEW u \in Users, NEW r \in Requests, NEW status \in Closed,
         tx[t].pc \in {"decide.update", "supersede.row"}, u = tx[t].of, r = tx[t].req,
         Free(requests[r], t), Seen(t, r) = requests[r].committed,
         OwnedBy(r, u), requests[r].committed.status = "pending",
         status \in {"approved", "rejected"} => tx[t].user # u,
         status = "approved" => MakesMember(t, u) /\ identity[u].holder = t,
         LinesOf(tx[t].lines, r) \subseteq History(requests[r].committed, r),
         \A q \in Requests \ {r} : requests[q].holder # t /\ LinesOf(tx[t].lines, q) = {},
         Close(t, r, status, "commit"), UNCHANGED <<members, identity, log>>
  PROVE  RowsStep(t) /\ Inv'
<1>1. PICK v, a : v = requests[r].committed /\ a = tx[t].user
  OBVIOUS
<1>2. PICK w : w = [v EXCEPT !.status = status, !.by = a]
  OBVIOUS
<1>3. TxInv(t) /\ a \in People
  BY <1>1 DEF Inv, TxInv
<1>4. v \in Request /\ v.user = u /\ v.status = "pending" /\ v # Absent
  BY <1>1, AbsentAssumption DEF OwnedBy
<1>5. w \in Request /\ w.user = u /\ w.status = status /\ w.by = a /\ w # Absent
  <2>1. w \in Request /\ w.user = u /\ w.status = status /\ w.by = a
    BY <1>2, <1>3, <1>4 DEF Request, Closed
  <2> QED
    BY <2>1, AbsentAssumption
<1>6. /\ requests' = [requests EXCEPT ![r] = Put(@, t, w)]
      /\ details' = [details EXCEPT ![r] = Put(@, t, FALSE)]
      /\ tx' = [tx EXCEPT ![t].pc = "commit", ![t].lines = @ \cup {<<status, r, a>>}]
  <2>1. Purges(status)
    BY DEF Purges, Closed
  <2> QED
    BY <1>1, <1>2, <2>1 DEF Close
<1>7. View(requests[r], t) = v
  BY <1>1 DEF Seen
<1>8. /\ RequestsStep(t)
      /\ \A q \in Requests : requests'[q].committed = requests[q].committed
      /\ \A q \in Requests \ {r} : requests'[q] = requests[q]
      /\ requests'[r].holder = t /\ requests'[r].written = w
  <2>1. <<v, w>> \in RequestMoves
    BY <1>1, <1>4, <1>5 DEF RequestMoves, RequestMove
  <2>2. PutsRequest(t, r, w)
    BY <1>6 DEF PutsRequest
  <2> QED
    <3>1. View(requests[r], t) \in Request => <<View(requests[r], t), w>> \in RequestMoves
      BY <1>7, <2>1
    <3>2. w \in Request
      BY <1>5
    <3> QED
      BY <2>2, <3>1, <3>2, RequestPut
<1>9. /\ details' \in [Requests -> RowsOf(BOOLEAN)]
      /\ \A q \in Requests \ {r} : details'[q] = details[q]
      /\ details'[r].committed = details[r].committed /\ details'[r].written = FALSE
      /\ details'[r].holder = t
  <2>1. PutsDetail(t, r, FALSE)
    BY <1>6 DEF PutsDetail
  <2> QED
    BY <2>1, DetailPut
<1>10. RowsStep(t) /\ Calm
  BY <1>8, <1>9, SameMembers, SameIdentity DEF RowsStep, Calm
<1>11. IndexInv'
  <2>1. requests' = [requests EXCEPT ![r] = Put(@, t, w)] /\ w.status # "pending"
    BY <1>5, <1>6 DEF Closed
  <2> QED
    BY <1>5, <2>1, EntriesKept
<1>12. DetailsInv'
  <2>1. \A q \in Requests : GoesWith(requests[q], details[q])
    BY DEF Inv, DetailsInv
  <2>2. ~Waiting(w)
    BY <1>5 DEF Waiting, Closed
  <2>3. GoesWith(requests'[r], details'[r])
    BY <1>8, <1>9, <2>1, <2>2, NoTxAssumption DEF GoesWith, Quiet
  <2> QED
    BY <1>8, <1>9, <2>1, <2>3 DEF DetailsInv
<1>13. HeldInv'
  <2>1. Waiting(requests'[r].committed)
    BY <1>1, <1>4, <1>8 DEF Waiting
  <2> QED
    BY <1>8, <2>1 DEF HeldInv, Inv
<1>14. PICK x : x = [tx[t] EXCEPT !.pc = "commit", !.lines = @ \cup {<<status, r, a>>}]
  OBVIOUS
<1>15. /\ x \in Transaction /\ x.pc = "commit" /\ x.user = a /\ x.of = u
       /\ x.lines = tx[t].lines \cup {<<status, r, a>>}
  <2>1. tx[t] \in Transaction
    BY DEF Inv
  <2>2. tx[t].lines \cup {<<status, r, a>>} \in SUBSET (Line \X Requests \X People)
    BY <1>3, <2>1 DEF Transaction, Line
  <2> QED
    BY <1>1, <1>14, <2>1, <2>2 DEF Transaction, Statements
<1>16. tx' = [tx EXCEPT ![t] = x]
  BY <1>6, <1>14 DEF Inv
<1>17. tx' \in [Tx -> Transaction] /\ tx'[t] = x /\ \A s \in Tx \ {t} : tx'[s] = tx[s]
  BY <1>15, <1>16, TxMoves
<1>18. CountInv'
  <2>1. requests[r] # Stored(Absent)
    BY <1>1, <1>4 DEF Stored
  <2>2. \A q \in Requests : requests[q] = Stored(Absent) => requests'[q] = requests[q]
    BY <1>8, <2>1
  <2> QED
    BY <1>15, <1>16, <2>2, CountKept DEF Asks
<1>19. TxInv(t)'
  <2>1. RequestHeld(t, r)'
    <3>1. LinesOf(x.lines, r) = LinesOf(tx[t].lines, r) \cup {<<status, r, a>>}
      BY <1>15 DEF LinesOf
    <3>2. History(v, r) = {<<"requested", r, u>>}
      BY <1>4 DEF History
    <3>3. History(w, r) = {<<"requested", r, u>>, <<status, r, a>>}
      BY <1>5 DEF History, Closed
    <3>4. LinesOf(x.lines, r) \cup History(v, r) = History(w, r)
      BY <1>1, <3>1, <3>2, <3>3
    <3>5. w.status = "approved" => MakesMember(t, u)' /\ identity'[u].holder = t
      BY <1>5 DEF MakesMember
    <3>6. requests'[r].committed = v /\ requests'[r].written = w /\ w.user = u
      BY <1>1, <1>5, <1>8
    <3>7. tx'[t].pc = "commit" /\ tx'[t].lines = x.lines
      BY <1>15, <1>17
    <3>8. w.status = "approved" => MakesMember(t, w.user)' /\ identity'[w.user].holder = t
      BY <3>5, <3>6
    <3> QED
      BY <3>4, <3>6, <3>7, <3>8 DEF RequestHeld, MakesMember
  <2>2. ASSUME NEW q \in Requests \ {r}
        PROVE  requests'[q].holder # t /\ LinesOf(tx'[t].lines, q) = {}
    <3>1. LinesOf(x.lines, q) = LinesOf(tx[t].lines, q)
      BY <1>15 DEF LinesOf
    <3> QED
      BY <1>8, <1>17, <3>1
  <2>3. ASSUME NEW m \in Users, identity'[m].holder = t PROVE Copied(t, m)'
    <3>1. Copied(t, m)
      BY <1>3, <2>3 DEF TxInv
    <3>2. PICK q \in Requests : q = identity[m].written
      BY <2>3, NoTxAssumption DEF Inv, RowsInv, RowInv
    <3>3. m = u /\ MakesMember(t, m) /\ OwnedBy(q, m) /\ (q = r \/ ClosedFor(t, q, m))
      BY <3>1, <3>2 DEF Copied
    <3>4. ClosedFor(t, q, m)'
      <4>1. CASE q = r
        BY <1>5, <1>8, <3>3, <4>1 DEF ClosedFor, View, Closed
      <4>2. CASE q # r
        BY <1>8, <3>3, <4>2 DEF ClosedFor
      <4> QED
        BY <4>1, <4>2
    <3>5. OwnedBy(q, m)' /\ MakesMember(t, m)' /\ m = tx'[t].of /\ tx'[t].pc = "commit"
          /\ q = identity'[m].written
      BY <1>8, <1>15, <1>17, <3>2, <3>3 DEF OwnedBy, MakesMember
    <3> QED
      BY <3>4, <3>5 DEF Copied
  <2>4. ~Locking(t)' /\ tx'[t].user \in People /\ tx'[t].of \in Users /\ tx'[t].pc = "commit"
    BY <1>3, <1>15, <1>17 DEF Locking
  <2> QED
    BY <1>8, <2>1, <2>2, <2>3, <2>4 DEF TxInv
<1> QED
  BY <1>10, <1>11, <1>12, <1>13, <1>17, <1>18, <1>19, StatementStep DEF TxStep

LEMMA RequestDecided ==
  ASSUME Inv, NEW t \in Tx, Decide_Update(t) PROVE RowsStep(t) /\ Inv'
<1>1. PICK r, u, to : r = tx[t].req /\ u = tx[t].of /\ to = tx[t].to
  OBVIOUS
<1>2. /\ tx[t].pc = "decide.update" /\ Free(requests[r], t) /\ Close(t, r, to, "commit")
      /\ UNCHANGED <<members, identity, log>>
  BY <1>1 DEF Decide_Update
<1>3. TxInv(t)
  BY DEF Inv
<1>4. Locked(t) /\ u \in Users
  BY <1>1, <1>2, <1>3 DEF TxInv, Locking
<1>5. /\ r \in Requests /\ requests[r].holder = t /\ requests[r].committed = requests[r].written
      /\ Pending(requests[r].written, u) /\ u # tx[t].user /\ to \in {"approved", "rejected"}
  BY <1>1, <1>4 DEF Locked
<1>6. /\ Seen(t, r) = requests[r].committed /\ requests[r].committed.status = "pending"
      /\ OwnedBy(r, u)
  <2>1. requests[r].written \in Request
    BY <1>5, NoTxAssumption DEF Inv, RowsInv, RowInv
  <2> QED
    BY <1>5, <2>1 DEF Seen, View, Pending, OwnedBy
<1>7. to = "approved" => MakesMember(t, u) /\ identity[u].holder = t
  BY <1>1, <1>2, <1>3 DEF TxInv
<1>8. \A q \in Requests \ {r} : requests[q].holder # t /\ LinesOf(tx[t].lines, q) = {}
  BY <1>1, <1>2, <1>3 DEF TxInv, RequestHeld
<1>9. LinesOf(tx[t].lines, r) \subseteq History(requests[r].committed, r)
  BY <1>3, <1>5 DEF TxInv, RequestHeld
<1>10. to \in Closed
  BY <1>5 DEF Closed
<1> QED
  BY <1>1, <1>2, <1>4, <1>5, <1>6, <1>7, <1>8, <1>9, <1>10, RequestCloses

LEMMA Supersedes ==
  ASSUME Inv, NEW t \in Tx, Supersede_Row(t) PROVE RowsStep(t) /\ Inv'
<1>1. PICK r, u : r = tx[t].req /\ u = tx[t].of
  OBVIOUS
<1>2. CASE Seen(t, r).status # "pending" /\ Goto(t, "commit") /\ UNCHANGED <<requests, details>>
  BY <1>1, <1>2, SupersedeScans
<1>3. CASE Seen(t, r).status = "pending" /\ Free(requests[r], t) /\ Close(t, r, "superseded", "commit")
  <2>1. tx[t].pc = "supersede.row" /\ UNCHANGED <<members, identity, log>>
    BY DEF Supersede_Row
  <2>2. r \in Requests /\ OwnedBy(r, u) /\ u \in Users
    BY <1>1, <2>1 DEF Inv, TxInv
  <2>3. \A q \in Requests : requests[q].holder # t /\ LinesOf(tx[t].lines, q) = {}
    BY <2>1, SupersedeHolds
  <2>4. Seen(t, r) = requests[r].committed /\ requests[r].committed.status = "pending"
    BY <1>3, <2>2, <2>3 DEF Seen, View
  <2>5. "superseded" \in Closed /\ LinesOf(tx[t].lines, r) \subseteq History(requests[r].committed, r)
    BY <2>2, <2>3 DEF Closed
  <2>6. PICK status : status = "superseded"
    OBVIOUS
  <2>7. /\ status \in Closed /\ ~(status \in {"approved", "rejected"}) /\ status # "approved"
        /\ Close(t, r, status, "commit") /\ Free(requests[r], t)
    BY <1>3, <2>5, <2>6
  <2>8. \A q \in Requests \ {r} : requests[q].holder # t /\ LinesOf(tx[t].lines, q) = {}
    BY <2>3
  <2> QED
    BY <1>1, <2>1, <2>2, <2>4, <2>5, <2>7, <2>8, RequestCloses
<1> QED
  BY <1>1, <1>2, <1>3 DEF Supersede_Row

-----------------------------------------------------------------------------
(* The end of a transaction.                                               *)

EndsTables(t) ==
  \/ /\ members' = PublishedAll(members, t) /\ requests' = PublishedAll(requests, t)
     /\ details' = PublishedAll(details, t) /\ identity' = PublishedAll(identity, t)
  \/ /\ members' = RestoredAll(members, t) /\ requests' = RestoredAll(requests, t)
     /\ details' = RestoredAll(details, t) /\ identity' = RestoredAll(identity, t)

(* What an end leaves of a row.                                            *)
LEMMA EndCases ==
  ASSUME NEW row, NEW new, NEW t \in Tx, new = Published(row, t) \/ new = Restored(row, t)
  PROVE  /\ new.holder # t
         /\ row.holder # t => new = row
         /\ row.holder = t => new.holder = NoTx /\ new.written = new.committed
         /\ row.holder = t /\ new = Published(row, t) => new.committed = row.written
         /\ new = Restored(row, t) => new.committed = row.committed
  BY NoTxAssumption DEF Published, Restored, Stored

LEMMA TablesEnd ==
  ASSUME Inv, NEW t \in Tx, EndsTables(t)
  PROVE  /\ RowsStep(t) /\ IndexInv' /\ DetailsInv' /\ HeldInv'
         /\ \A r \in Requests : requests'[r].holder # t
         /\ \A u \in Users : identity'[u].holder # t
         /\ \A r \in Requests : requests[r] = Stored(Absent) => requests'[r] = requests[r]
<1>1. /\ DOMAIN members = Users /\ DOMAIN requests = Requests
      /\ DOMAIN details = Requests /\ DOMAIN identity = Users
  BY DEF Inv, RowsInv
<1>2. /\ members' = [u \in Users |-> members'[u]] /\ requests' = [r \in Requests |-> requests'[r]]
      /\ details' = [r \in Requests |-> details'[r]] /\ identity' = [u \in Users |-> identity'[u]]
      /\ \A u \in Users :
           /\ members'[u] = Published(members[u], t) \/ members'[u] = Restored(members[u], t)
           /\ identity'[u] = Published(identity[u], t) \/ identity'[u] = Restored(identity[u], t)
      /\ \A r \in Requests :
           \/ /\ requests'[r] = Published(requests[r], t) /\ details'[r] = Published(details[r], t)
           \/ /\ requests'[r] = Restored(requests[r], t) /\ details'[r] = Restored(details[r], t)
      /\ \/ \A r \in Requests : requests'[r] = Published(requests[r], t)
         \/ \A r \in Requests : requests'[r] = Restored(requests[r], t)
  BY <1>1 DEF EndsTables, PublishedAll, RestoredAll
<1>3. MembersStep(t) /\ RequestsStep(t) /\ IdentityStep(t)
  BY <1>2 DEF MembersStep, RequestsStep, IdentityStep, RowChange
<1>4. \A r \in Requests : details'[r] \in RowsOf(BOOLEAN)
  BY <1>2, EndTyped DEF Inv, RowsInv
<1>5. RowsStep(t)
  BY <1>2, <1>3, <1>4 DEF RowsStep
<1>6. IndexInv'
  <2>1. ASSUME NEW u \in Users, NEW r \in Requests, NEW q \in Requests, r # q
        PROVE  OneEntry(requests'[r], requests'[q], OpenRequestsOf(u))
    <3>1. /\ OneEntry(requests[r], requests[q], OpenRequestsOf(u))
          /\ Quiet(requests[r]) /\ Quiet(requests[q])
      BY <2>1, QuietRequests DEF Inv, IndexInv
    <3> QED
      BY <1>2, <3>1, EntryEnds
  <2> QED
    BY <2>1 DEF IndexInv
<1>7. DetailsInv'
  <2>1. ASSUME NEW r \in Requests PROVE GoesWith(requests'[r], details'[r])
    <3>1. GoesWith(requests[r], details[r]) /\ Quiet(requests[r])
      BY QuietRequests DEF Inv, DetailsInv
    <3>2. PICK x, y, x1, y1 : x = requests[r] /\ y = details[r] /\ x1 = requests'[r] /\ y1 = details'[r]
      OBVIOUS
    <3>3. CASE x1 = Published(x, t) /\ y1 = Published(y, t)
      BY <3>1, <3>2, <3>3, NoTxAssumption DEF GoesWith, Quiet, Published, Stored
    <3>4. CASE x1 = Restored(x, t) /\ y1 = Restored(y, t)
      BY <3>1, <3>2, <3>4, NoTxAssumption DEF GoesWith, Quiet, Restored, Stored
    <3> QED
      BY <1>2, <3>2, <3>3, <3>4
  <2> QED
    BY <2>1 DEF DetailsInv
<1>8. \A r \in Requests : /\ requests'[r].holder # t
                          /\ requests[r].holder # t => requests'[r] = requests[r]
                          /\ requests[r].holder = t => requests'[r].holder = NoTx
  <2>1. ASSUME NEW r \in Requests
        PROVE  /\ requests'[r].holder # t
               /\ requests[r].holder # t => requests'[r] = requests[r]
               /\ requests[r].holder = t => requests'[r].holder = NoTx
    <3>1. PICK x, x1 : x = requests[r] /\ x1 = requests'[r]
      OBVIOUS
    <3>2. x1 = Published(x, t) \/ x1 = Restored(x, t)
      BY <1>2, <3>1
    <3>3. x1.holder # t /\ (x.holder # t => x1 = x) /\ (x.holder = t => x1.holder = NoTx)
      BY <3>2, EndCases
    <3> QED
      BY <3>1, <3>3
  <2> QED
    BY <2>1
<1>9. \A u \in Users : identity'[u].holder # t
  BY <1>2, EndCases
<1>10. HeldInv'
  BY <1>8 DEF HeldInv, Inv
<1>11. Stored(Absent).holder # t
  BY NoTxAssumption DEF Stored
<1> QED
  BY <1>5, <1>6, <1>7, <1>8, <1>9, <1>10, <1>11

LEMMA TxEnds ==
  ASSUME Inv, NEW t \in Tx, EndsTables(t), Return(t)
  PROVE  TxStep(t) /\ CountInv'
<1>1. tx' = [tx EXCEPT ![t] = Idle]
  BY DEF Return
<1>2. tx' \in [Tx -> Transaction] /\ tx'[t] = Idle /\ \A s \in Tx \ {t} : tx'[s] = tx[s]
  BY <1>1, IdleType, TxMoves
<1>3. CountInv'
  BY <1>1, IdleType, TablesEnd, CountKept DEF Asks
<1>4. TxInv(t)'
  <2>1. tx'[t].pc = "idle" /\ \A r \in Requests : LinesOf(tx'[t].lines, r) = {}
    BY <1>2, IdleType DEF LinesOf
  <2> QED
    BY <2>1, TablesEnd DEF TxInv, Locking
<1> QED
  BY <1>2, <1>3, <1>4 DEF TxStep

LEMMA RollbackStep ==
  ASSUME Inv, NEW t \in Tx, Rollback(t) PROVE RowsStep(t) /\ Inv'
<1>1. EndsTables(t) /\ Return(t) /\ log' = log
  BY DEF Rollback, EndsTables
<1>2. Calm
  <2>1. /\ \A u \in Users : /\ members'[u] = Restored(members[u], t)
                            /\ identity'[u] = Restored(identity[u], t)
        /\ \A r \in Requests : requests'[r] = Restored(requests[r], t)
    BY DEF Rollback, RestoredAll, Inv, RowsInv
  <2> QED
    BY <1>1, <2>1, EndCases DEF Calm
<1> QED
  BY <1>1, <1>2, TablesEnd, TxEnds, StatementStep

(* What a commit does to one row of each table.                            *)
LEMMA Publishes ==
  ASSUME Inv, NEW t \in Tx, Commit(t)
  PROVE  /\ \A u \in Users :
              /\ members[u].holder = t => members'[u].committed = members[u].written
              /\ members[u].holder # t => members'[u].committed = members[u].committed
              /\ identity[u].holder = t => identity'[u].committed = identity[u].written
              /\ identity[u].holder # t => identity'[u].committed = identity[u].committed
         /\ \A r \in Requests :
              /\ requests[r].holder = t => requests'[r].committed = requests[r].written
              /\ requests[r].holder # t => requests'[r].committed = requests[r].committed
<1>1. /\ \A u \in Users : /\ members'[u] = Published(members[u], t)
                          /\ identity'[u] = Published(identity[u], t)
      /\ \A r \in Requests : requests'[r] = Published(requests[r], t)
  BY DEF Commit, PublishedAll, Inv, RowsInv
<1>2. ASSUME NEW row, NEW new, new = Published(row, t)
      PROVE  /\ row.holder = t => new.committed = row.written
             /\ row.holder # t => new.committed = row.committed
  BY <1>2 DEF Published, Stored
<1> QED
  BY <1>1, <1>2

(* A member who is verified stays so.                                      *)
LEMMA MembersKept ==
  ASSUME Inv, NEW t \in Tx, MembersStep(t), NEW u \in Users,
         members[u].committed # Absent, ~Unverified(members[u].committed)
  PROVE  members'[u].committed = members[u].committed
<1>1. PICK x, y : x = members[u] /\ y = members'[u]
  OBVIOUS
<1>2. RowInv(x, Member, MemberMoves, Absent) /\ RowChange(x, y, t, Member, MemberMoves)
  BY <1>1 DEF Inv, RowsInv, MembersStep
<1>3. x.committed \in Member
  BY <1>1, <1>2 DEF RowInv, RowsOf
<1>4. <<x.committed, y.committed>> \in MemberMoves
  BY <1>2, <1>3, CommitMoves, MemberOrder
<1> QED
  BY <1>1, <1>4 DEF MemberMoves

LEMMA CommitStep ==
  ASSUME Inv, NEW t \in Tx, Commit(t) PROVE RowsStep(t) /\ Inv'
<1>1. /\ EndsTables(t) /\ Return(t) /\ log' = log \cup tx[t].lines /\ tx[t].pc = "commit"
  BY DEF Commit, EndsTables
<1>2. /\ RowsStep(t) /\ IndexInv' /\ DetailsInv' /\ HeldInv' /\ TxStep(t) /\ CountInv'
  BY <1>1, TablesEnd, TxEnds
<1>3. RowsInv'
  BY <1>2, RowsPreserved
<1>4. \A s \in Tx : TxInv(s)'
  BY <1>2, OthersKept DEF TxStep
<1>5. TxInv(t) /\ tx[t] \in Transaction
  BY DEF Inv
<1>6. ASSUME NEW u \in Users, MakesMember(t, u)
      PROVE  ~Unverified(members'[u].committed)
  BY <1>6, Publishes DEF MakesMember
<1>7. ASSUME NEW u \in Users, ~Unverified(members[u].committed)
      PROVE  ~Unverified(members'[u].committed)
  <2>1. members[u].committed # Absent
    BY <1>7 DEF Unverified
  <2> QED
    BY <1>2, <1>7, <2>1, MembersKept DEF RowsStep
<1>8. ASSUME NEW r \in Requests, requests[r].holder = t
      PROVE  RequestHeld(t, r) /\ requests[r].written \in Request
  <2>1. RequestHeld(t, r)
    BY <1>5, <1>8 DEF TxInv
  <2>2. requests[r].written \in Request
    BY <1>8, NoTxAssumption DEF Inv, RowsInv, RowInv
  <2> QED
    BY <2>1, <2>2
<1>9. ASSUME NEW u \in Users, identity[u].holder = t
      PROVE  /\ identity'[u].committed \in Requests /\ MakesMember(t, u)
             /\ OwnedBy(identity'[u].committed, u) /\ ClosedFor(t, identity'[u].committed, u)
  <2>1. Copied(t, u)
    BY <1>5, <1>9 DEF TxInv
  <2>2. identity[u].written \in Requests
    BY <1>9, NoTxAssumption DEF Inv, RowsInv, RowInv
  <2>3. identity'[u].committed = identity[u].written
    BY <1>9, Publishes
  <2> QED
    BY <1>1, <2>1, <2>2, <2>3 DEF Copied
<1>10. ASSUME NEW u \in Users, identity[u].committed \in Requests
       PROVE  identity'[u].committed \in Requests
  BY <1>9, <1>10, Publishes
<1>11. KnownInv'
  <2>1. ASSUME NEW r \in Requests, requests'[r].committed # Absent,
               requests'[r].committed.status = "approved"
        PROVE  /\ ~Unverified(members'[requests'[r].committed.user].committed)
               /\ identity'[requests'[r].committed.user].committed \in Requests
    <3>1. PICK v, u : v = requests'[r].committed /\ u = v.user
      OBVIOUS
    <3>2. v \in Request /\ u \in Users
      <4>1. v \in Request
        BY <1>3, <2>1, <3>1 DEF RowsInv, RowInv, RowsOf
      <4> QED
        BY <3>1, <4>1 DEF Request
    <3>3. CASE requests[r].holder = t
      <4>1. v = requests[r].written
        BY <3>1, <3>3, Publishes
      <4>2. MakesMember(t, u) /\ identity[u].holder = t
        BY <1>8, <2>1, <3>1, <3>3, <4>1 DEF RequestHeld
      <4> QED
        BY <1>6, <1>9, <3>1, <3>2, <4>2
    <3>4. CASE requests[r].holder # t
      <4>1. v = requests[r].committed
        BY <3>1, <3>4, Publishes
      <4>2. ~Unverified(members[u].committed) /\ identity[u].committed \in Requests
        BY <2>1, <3>1, <4>1 DEF Inv, KnownInv
      <4> QED
        BY <1>7, <1>10, <3>1, <3>2, <4>2
    <3> QED
      BY <3>3, <3>4
  <2>2. ASSUME NEW u \in Users, NEW r \in Requests, r = identity'[u].committed
        PROVE  /\ ~Unverified(members'[u].committed) /\ OwnedBy(r, u)'
               /\ requests'[r].committed.status # "pending"
    <3>1. CASE identity[u].holder = t
      <4>1. MakesMember(t, u) /\ OwnedBy(r, u) /\ ClosedFor(t, r, u)
        BY <1>9, <2>2, <3>1
      <4>2. requests'[r].committed = View(requests[r], t)
        BY Publishes DEF View
      <4> QED
        BY <1>6, <4>1, <4>2 DEF ClosedFor, OwnedBy
    <3>2. CASE identity[u].holder # t
      <4>1. r = identity[u].committed
        BY <2>2, <3>2, Publishes
      <4>2. /\ ~Unverified(members[u].committed) /\ OwnedBy(r, u)
            /\ requests[r].committed.status # "pending"
        BY <4>1 DEF Inv, KnownInv
      <4>3. OwnedBy(r, u)' /\ requests'[r].committed = requests[r].committed
        BY <1>2, <4>2, OwnedKept DEF RowsStep
      <4> QED
        BY <1>7, <4>2, <4>3
    <3> QED
      BY <3>1, <3>2
  <2>3. ASSUME NEW u \in Users, identity'[u].committed \in Requests
        PROVE  /\ ~Unverified(members'[u].committed) /\ OwnedBy(identity[u].committed, u)'
               /\ requests'[identity'[u].committed].committed.status # "pending"
    <3>1. PICK r \in Requests : r = identity'[u].committed
      BY <2>3
    <3>2. /\ ~Unverified(members'[u].committed) /\ OwnedBy(r, u)'
          /\ requests'[r].committed.status # "pending"
      BY <2>2, <3>1
    <3> QED
      BY <3>1, <3>2 DEF OwnedBy
  <2> QED
    BY <2>1, <2>3 DEF KnownInv
<1>12. LogInv'
  <2>1. log' \subseteq Line \X Requests \X People
    BY <1>1, <1>5 DEF Inv, LogInv, Transaction
  <2>2. ASSUME NEW r \in Requests
        PROVE  LinesOf(log', r) = History(requests'[r].committed, r)
    <3>1. LinesOf(log', r) = LinesOf(tx[t].lines, r) \cup LinesOf(log, r)
      BY <1>1 DEF LinesOf
    <3>2. LinesOf(log, r) = History(requests[r].committed, r)
      BY DEF Inv, LogInv
    <3>3. CASE requests[r].holder = t
      <4>1. RequestHeld(t, r) /\ requests'[r].committed = requests[r].written
        BY <1>8, <3>3, Publishes
      <4> QED
        BY <3>1, <3>2, <4>1 DEF RequestHeld
    <3>4. CASE requests[r].holder # t
      <4>1. LinesOf(tx[t].lines, r) = {} /\ requests'[r].committed = requests[r].committed
        BY <1>5, <3>4, Publishes DEF TxInv
      <4> QED
        BY <3>1, <3>2, <4>1
    <3> QED
      BY <3>3, <3>4
  <2> QED
    BY <2>1, <2>2 DEF LogInv
<1> QED
  BY <1>2, <1>3, <1>4, <1>11, <1>12 DEF Inv, TxStep

-----------------------------------------------------------------------------
LEMMA InvInit == Init => Inv
<1> SUFFICES ASSUME Init PROVE Inv
  OBVIOUS
<1>1. /\ \A u \in Users : /\ members[u] = Stored(Absent) /\ members[u].committed = Absent
                          /\ members[u].written = Absent /\ members[u].holder = NoTx
                          /\ identity[u] = Stored(Nothing) /\ identity[u].committed = Nothing
                          /\ identity[u].written = Nothing /\ identity[u].holder = NoTx
      /\ \A r \in Requests : /\ requests[r] = Stored(Absent) /\ requests[r].committed = Absent
                             /\ requests[r].written = Absent /\ requests[r].holder = NoTx
                             /\ details[r] = Stored(FALSE) /\ details[r].committed = FALSE
                             /\ details[r].written = FALSE /\ details[r].holder = NoTx
  BY DEF Init, Stored
<1>2. Absent \notin Member /\ Absent \notin Request /\ Nothing \notin Requests
  BY AbsentAssumption, PeopleAssumption
<1>3. RowsInv
  <2>1. /\ \A u \in Users : members[u] \in RowsOf(Member \cup {Absent})
        /\ \A u \in Users : identity[u] \in RowsOf(Requests \cup {Nothing})
        /\ \A r \in Requests : requests[r] \in RowsOf(Request \cup {Absent})
        /\ \A r \in Requests : details[r] \in RowsOf(BOOLEAN)
    BY <1>1, StoredTyped
  <2>2. /\ members = [u \in Users |-> members[u]] /\ identity = [u \in Users |-> identity[u]]
        /\ requests = [r \in Requests |-> requests[r]] /\ details = [r \in Requests |-> details[r]]
    BY DEF Init
  <2>3. \A u \in Users : RowInv(members[u], Member, MemberMoves, Absent)
    BY <1>1, <1>2, <2>1 DEF RowInv
  <2>4. \A u \in Users : RowInv(identity[u], Requests, CopyMoves, Nothing)
    BY <1>1, <1>2, <2>1 DEF RowInv
  <2>5. \A r \in Requests : RowInv(requests[r], Request, RequestMoves, Absent)
    BY <1>1, <1>2, <2>1 DEF RowInv
  <2> QED
    BY <2>1, <2>2, <2>3, <2>4, <2>5 DEF RowsInv
<1>4. IndexInv
  BY <1>1, <1>2 DEF IndexInv, OneEntry, OpenRequestsOf
<1>5. DetailsInv
  BY <1>1 DEF DetailsInv, GoesWith, Quiet, Waiting
<1>6. HeldInv /\ KnownInv
  BY <1>1, <1>2 DEF HeldInv, KnownInv
<1>7. LogInv
  BY <1>1 DEF LogInv, LinesOf, History, Init
<1>8. \A t \in Tx : tx[t] = Idle
  BY DEF Init
<1>9. CountInv
  <2>1. Asking = {}
    BY <1>8, IdleType DEF Asking
  <2>2. IsFiniteSet(Fresh)
    BY BoundsAssumption, FS_Subset DEF Fresh
  <2> QED
    BY <2>1, <2>2, FS_EmptySet, FS_CardinalityType DEF CountInv
<1>10. tx \in [Tx -> Transaction]
  BY IdleType DEF Init
<1>11. ASSUME NEW t \in Tx PROVE TxInv(t)
  <2>1. tx[t].pc = "idle" /\ \A r \in Requests : LinesOf(tx[t].lines, r) = {}
    BY <1>8, IdleType DEF LinesOf
  <2> QED
    BY <1>1, <2>1, NoTxAssumption DEF TxInv, Locking
<1> QED
  BY <1>3, <1>4, <1>5, <1>6, <1>7, <1>9, <1>10, <1>11 DEF Inv

LEMMA NextSteps == ASSUME Inv, Next PROVE Inv' /\ \E t \in Tx : RowsStep(t)
<1>1. PICK t \in Tx : Arrival(t) \/ Run(t) \/ Abort(t)
  BY DEF Next
<1>2. CASE Arrival(t)
  BY <1>2, ArrivalStep
<1>3. CASE Statement(t)
  BY <1>3, PlainStatements, AskInserts, DecideLocks, RequestDecided, MemberVerified,
     IdentityCaptured, SupersedeScans, Supersedes DEF Statement
<1>4. CASE Commit(t)
  BY <1>4, CommitStep
<1>5. CASE Rollback(t)
  BY <1>5, RollbackStep
<1> QED
  BY <1>1, <1>2, <1>3, <1>4, <1>5 DEF Run, DeadlockVictim, Abort

LEMMA InvStep == Inv /\ [Next]_vars => Inv'
<1> SUFFICES ASSUME Inv, [Next]_vars PROVE Inv'
  OBVIOUS
<1>1. CASE Next
  BY <1>1, NextSteps
<1>2. CASE UNCHANGED vars
  <2>1. /\ RowsInv' /\ IndexInv' /\ DetailsInv' /\ HeldInv' /\ LogInv' /\ CountInv'
    BY <1>2 DEF vars, Inv, RowsInv, IndexInv, DetailsInv, HeldInv, LogInv, CountInv, Fresh, Asking
  <2>2. KnownInv'
    BY <1>2 DEF vars, Inv, KnownInv, OwnedBy
  <2>3. ASSUME NEW t \in Tx PROVE TxInv(t)'
    <3>1. TxInv(t)
      BY DEF Inv
    <3> QED
      BY <1>2, <3>1 DEF vars, TxInv, OwnedBy, Locking, Locked, MakesMember, Copied, ClosedFor,
         RequestHeld
  <2> QED
    BY <1>2, <2>1, <2>2, <2>3 DEF Inv, vars
<1> QED
  BY <1>1, <1>2

(* The invariant of the proofs: what the tables agree on, and what each    *)
(* transaction knows and holds at each of its statements.                  *)
THEOREM Invariance == Spec => []Inv
<1>1. Init => Inv
  BY InvInit
<1>2. Inv /\ [Next]_vars => Inv'
  BY InvStep
<1> QED
  BY <1>1, <1>2, PTL DEF Spec

(* Every row has its type, each person one open request, each request its  *)
(* details exactly while it waits, each approval its member and identity   *)
(* and each verdict its audit line, however asking, deciding, verifying by *)
(* hand and signing in overlap.                                            *)
THEOREM VerifiedAreKnown == Spec => []VerificationInv
<1>1. Inv => VerificationInv
  <2> SUFFICES ASSUME Inv PROVE VerificationInv
    OBVIOUS
  <2>1. TypeOK
    <3>1. /\ \A u \in Users : members[u] \in RowsOf(Member \cup {Absent})
          /\ \A r \in Requests : requests[r] \in RowsOf(Request \cup {Absent})
          /\ \A u \in Users : identity[u] \in RowsOf(Requests \cup {Nothing})
      BY DEF Inv, RowsInv, RowInv
    <3> QED
      BY <3>1 DEF TypeOK, Inv, RowsInv, LogInv
  <2>2. OneOpen
    <3>1. ASSUME NEW r \in Requests, NEW q \in Requests, NEW u \in Users,
                 Pending(Row(r), u), Pending(Row(q), u), r # q
          PROVE  FALSE
      <4>1. OneEntry(requests[r], requests[q], OpenRequestsOf(u))
        BY <3>1 DEF Inv, IndexInv
      <4>2. requests[r].committed \in Request \cup {Absent}
            /\ requests[q].committed \in Request \cup {Absent}
        BY RequestRows DEF Inv, RowsInv, RowInv, RowsOf
      <4>3. requests[r].committed \in OpenRequestsOf(u) /\ requests[q].committed \in OpenRequestsOf(u)
        BY <3>1, <4>2 DEF OpenRequestsOf, Row, Pending
      <4> QED
        BY <4>1, <4>3 DEF OneEntry
    <3> QED
      BY <3>1 DEF OneOpen
  <2>3. DetailsWhilePending
    <3>1. ASSUME NEW r \in Requests
          PROVE  details[r].committed = (Row(r) # Absent /\ Row(r).status = "pending")
      <4>1. details[r].committed = TRUE <=> Row(r) # Absent /\ Row(r).status = "pending"
        BY DEF Inv, DetailsInv, GoesWith, Waiting, Row
      <4>2. details[r].committed \in BOOLEAN
        BY DEF Inv, RowsInv, RowsOf
      <4> QED
        BY <4>1, <4>2
    <3> QED
      BY <3>1 DEF DetailsWhilePending
  <2>4. ApprovedAreKnown
    <3>1. KnownInv /\ Nothing \notin Requests
      BY PeopleAssumption DEF Inv
    <3> QED
      BY <3>1 DEF ApprovedAreKnown, KnownInv, IsVerified, Row, OwnedBy
  <2>5. LogTellsVerdicts
    BY DEF Inv, LogInv, LinesOf, History, LogTellsVerdicts, Row
  <2> QED
    BY <2>1, <2>2, <2>3, <2>4, <2>5 DEF VerificationInv
<1> QED
  BY <1>1, Invariance, PTL

(* A verdict is given once, by somebody else than the asker, and stands; a *)
(* verified member stays verified in the way they first were.              *)
THEOREM VerdictsAreFinal == Spec => VerdictsStand
<1>1. ASSUME Inv, [Next]_vars
      PROVE  [/\ \A r \in Requests :
                   LET v == requests[r].committed
                       w == requests'[r].committed
                   IN v # Absent /\ w # v =>
                        /\ v.status = "pending" /\ w.user = v.user
                        /\ w.status \in {"approved", "rejected"} => w.by # w.user
              /\ \A u \in Users : IsVerified(u) => members'[u].committed = members[u].committed]_vars
  <2>1. CASE UNCHANGED vars
    BY <2>1
  <2>2. CASE Next
    <3>1. PICK t \in Tx : RowsStep(t)
      BY <1>1, <2>2, NextSteps
    <3>2. ASSUME NEW r \in Requests, NEW v, NEW w, v = requests[r].committed,
                 w = requests'[r].committed, v # Absent, w # v
          PROVE  /\ v.status = "pending" /\ w.user = v.user
                 /\ w.status \in {"approved", "rejected"} => w.by # w.user
      <4>1. PICK x, y : x = requests[r] /\ y = requests'[r]
        OBVIOUS
      <4>2. RowInv(x, Request, RequestMoves, Absent) /\ RowChange(x, y, t, Request, RequestMoves)
        BY <1>1, <3>1, <4>1 DEF Inv, RowsInv, RowsStep, RequestsStep
      <4>3. x.committed \in Request
        BY <3>2, <4>1, <4>2 DEF RowInv, RowsOf
      <4>4. <<x.committed, y.committed>> \in RequestMoves
        BY <4>2, <4>3, CommitMoves, RequestOrder
      <4> QED
        BY <3>2, <4>1, <4>4 DEF RequestMoves, RequestMove
    <3>3. ASSUME NEW u \in Users, IsVerified(u)
          PROVE  members'[u].committed = members[u].committed
      <4>1. ~Unverified(members[u].committed) /\ members[u].committed # Absent
        BY <3>3 DEF IsVerified, Unverified
      <4> QED
        BY <1>1, <3>1, <4>1, MembersKept DEF RowsStep
    <3> QED
      BY <3>2, <3>3
  <2> QED
    BY <1>1, <2>1, <2>2
<1> QED
  BY <1>1, Invariance, PTL DEF Spec, VerdictsStand
=============================================================================
