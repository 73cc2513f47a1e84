------------------------- MODULE TenantGrantsProofs -------------------------
(***************************************************************************)
(* Theorems about TenantGrants for every number of administrators, members,*)
(* tenants, sessions, grants and connections: an administrator has one open*)
(* grant, a grant ends once, every role was written under a grant into its *)
(* tenant, and the audit log tells who holds it.                           *)
(*                                                                         *)
(* A transaction works under a grant it read earlier: that the grant is    *)
(* into the right tenant stays true because no step changes more of a grant*)
(* than its status.  The line a transaction will log is true because it    *)
(* holds the lock of the role it is about.                                 *)
(***************************************************************************)
EXTENDS TenantGrants, RowStoreProofs

Ended == {"expired", "closed", "session_ended"}

GrantMove(v, w) ==
  \/ v = w
  \/ v.status = "open" /\ \E s \in Ended : w = [v EXCEPT !.status = s]
GrantMoves == {e \in Grant \X Grant : GrantMove(e[1], e[2])}

(* The keys of platform_tenant_grants_one_open_idx.                        *)
OpenGrantsOf(a) == {v \in Grant : v.status = "open" /\ AdminOf(v) = a}

GrantsInv ==
  /\ grants = [g \in Grants |-> grants[g]]
  /\ \A g \in Grants : RowInv(grants[g], Grant, GrantMoves, NoGrant)

IndexInv ==
  \A a \in Admins : \A g, h \in Grants :
    g # h => OneEntry(grants[g], grants[h], OpenGrantsOf(a))

(* g is a grant under which somebody else may write the membership k.      *)
Into(g, k) ==
  /\ grants[g].committed \in Grant
  /\ grants[g].committed.tenant = k[1]
  /\ AdminOf(grants[g].committed) # k[2]

LogInv ==
  /\ log \in [Memberships -> Line]
  /\ \A k \in Memberships :
       /\ log[k].held = roles[k].committed
       /\ log[k].grant = Nothing => log[k].held = (k[2] \in Founders)
       /\ log[k].grant # Nothing => Into(log[k].grant, k)

Standings == {"active", "suspended"}

TablesInv ==
  /\ roles \in [Memberships -> RowsOf(BOOLEAN)]
  /\ standing \in [Memberships -> RowsOf(Standings)]
  /\ sessions \subseteq Sessions /\ clock \in 0..MaxTime

RolePCs == {"role.grant", "role.count", "role.delete"}

(* What a connection knows, and what it holds.                             *)
TxInv(t) ==
  /\ tx[t].pc = "open.insert" => tx[t].session \in Sessions
  /\ tx[t].pc \in {"close.write", "cleanup.row"} => tx[t].grant \in Grants
  /\ tx[t].pc \in {"standing.count", "standing.write"}
       => tx[t].key \in Memberships /\ tx[t].to \in Standings
  /\ tx[t].pc \in RolePCs \/ tx[t].line # Nothing
       => tx[t].use \in Grants /\ tx[t].key \in Memberships /\ Into(tx[t].use, tx[t].key)
  /\ tx[t].line # Nothing
       => /\ tx[t].pc = "commit" /\ roles[tx[t].key].holder = t
          /\ roles[tx[t].key].written = (tx[t].line = "granted")
  /\ \A g \in Grants : grants[g].holder = t => tx[t].pc \in {"open.insert", "commit"}
  /\ \A k \in Memberships : /\ roles[k].holder = t => tx[t].line # Nothing /\ tx[t].key = k
                            /\ standing[k].holder = t => tx[t].pc = "commit"

Inv ==
  /\ GrantsInv /\ IndexInv /\ LogInv /\ TablesInv
  /\ tx \in [Tx -> Transaction]
  /\ \A t \in Tx : TxInv(t)

-----------------------------------------------------------------------------
(* The types of what the statements write.                                 *)

LEMMA GrantTypes ==
  /\ NoGrant \notin Grant /\ NoGrant.status = "none"
  /\ \A v \in Grant : v.status # "none" /\ v.session \in Sessions /\ AdminOf(v) \in Admins
  /\ \A v \in Grant, s \in Ended : /\ [v EXCEPT !.status = s] \in Grant
                                   /\ [v EXCEPT !.status = s].status = s
<1> USE PeopleAssumption DEF Grant
<1>1. NoGrant \notin Grant /\ NoGrant.status = "none"
  BY DEF NoGrant
<1>2. \A v \in Grant : v.status # "none" /\ v.session \in Sessions /\ AdminOf(v) \in Admins
  BY DEF AdminOf
<1>3. \A v \in Grant, s \in Ended : /\ [v EXCEPT !.status = s] \in Grant
                                    /\ [v EXCEPT !.status = s].status = s
  BY DEF Ended
<1> QED
  BY <1>1, <1>2, <1>3

LEMMA GrantMovesOrder ==
  /\ \A v \in Grant : <<v, v>> \in GrantMoves
  /\ \A u, v, w \in Grant : <<u, v>> \in GrantMoves /\ <<v, w>> \in GrantMoves
                              => <<u, w>> \in GrantMoves
<1>1. \A v, w : <<v, w>> \in GrantMoves <=> v \in Grant /\ w \in Grant /\ GrantMove(v, w)
  BY DEF GrantMoves
<1>2. \A v \in Grant : GrantMove(v, v)
  BY DEF GrantMove
<1>3. ASSUME NEW u \in Grant, NEW v \in Grant, NEW w \in Grant,
             GrantMove(u, v), GrantMove(v, w)
      PROVE  GrantMove(u, w)
  <2>1. u = v \/ v.status \in Ended
    <3>1. ASSUME NEW s \in Ended, v = [u EXCEPT !.status = s] PROVE v.status \in Ended
      BY <3>1, GrantTypes
    <3> QED
      BY <1>3, <3>1 DEF GrantMove
  <2>2. v.status \in Ended => v = w
    BY <1>3 DEF GrantMove, Ended
  <2> QED
    BY <1>3, <2>1, <2>2
<1> QED
  BY <1>1, <1>2, <1>3

LEMMA IdleType ==
  /\ Idle \in Transaction /\ Idle.pc = "idle" /\ Idle.line = Nothing
  BY DEF Idle, Transaction

-----------------------------------------------------------------------------
(* What a step of transaction t does.                                      *)

GrantsStep(t) ==
  /\ grants' = [g \in Grants |-> grants'[g]]
  /\ \A g \in Grants : RowChange(grants[g], grants'[g], t, Grant, GrantMoves)
  /\ IndexInv'

RolesStep(t) ==
  /\ roles' = [k \in Memberships |-> roles'[k]]
  /\ \A k \in Memberships : RowChange(roles[k], roles'[k], t, BOOLEAN, BOOLEAN \X BOOLEAN)
  /\ standing' = [k \in Memberships |-> standing'[k]]
  /\ \A k \in Memberships :
       RowChange(standing[k], standing'[k], t, Standings, Standings \X Standings)

TxStep(t) ==
  /\ tx' \in [Tx -> Transaction]
  /\ \A s \in Tx \ {t} : tx'[s] = tx[s]
  /\ TxInv(t)'

LogStep ==
  \/ log' = log /\ \A k \in Memberships : roles'[k].committed = roles[k].committed
  \/ LogInv'

(* A grant that was there is there, in the same tenant and for the same    *)
(* administrator.                                                          *)
LEMMA IntoKept ==
  ASSUME Inv, NEW t \in Tx, GrantsStep(t), NEW g \in Grants, NEW k, Into(g, k)
  PROVE  Into(g, k)'
<1> DEFINE v == grants[g].committed
           w == grants'[g].committed
<1>1. <<v, w>> \in GrantMoves
  BY GrantMovesOrder, CommitMoves DEF Inv, GrantsInv, GrantsStep, Into
<1>2. v \in Grant /\ w \in Grant /\ GrantMove(v, w)
  BY <1>1 DEF GrantMoves
<1> HIDE DEF v, w
<1>3. w.tenant = v.tenant /\ w.session = v.session
  BY <1>2 DEF GrantMove, Grant
<1> QED
  BY <1>2, <1>3 DEF Into, AdminOf, v, w

LEMMA StepPreservesInv ==
  ASSUME Inv, NEW t \in Tx, GrantsStep(t), RolesStep(t), TxStep(t), LogStep,
         sessions' \subseteq Sessions, clock' \in 0..MaxTime
  PROVE  Inv'
<1>1. GrantsInv'
  <2>1. ASSUME NEW g \in Grants PROVE RowInv(grants'[g], Grant, GrantMoves, NoGrant)
    BY RowPreserved, GrantMovesOrder DEF Inv, GrantsInv, GrantsStep
  <2> QED
    BY <2>1 DEF GrantsInv, GrantsStep
<1>2. TablesInv'
  <2>1. \A k \in Memberships : roles'[k] \in RowsOf(BOOLEAN)
    BY RowTyped DEF Inv, TablesInv, RolesStep
  <2>2. \A k \in Memberships : standing'[k] \in RowsOf(Standings)
    BY RowTyped DEF Inv, TablesInv, RolesStep, Standings
  <2> QED
    BY <2>1, <2>2 DEF TablesInv, RolesStep, Standings
<1>3. LogInv'
  <2>1. CASE log' = log /\ \A k \in Memberships : roles'[k].committed = roles[k].committed
    <3>1. \A k \in Memberships : log[k].grant # Nothing => log[k].grant \in Grants
      BY DEF Inv, LogInv, Line
    <3> QED
      BY <2>1, <3>1, IntoKept DEF Inv, LogInv
  <2> QED
    BY <2>1 DEF LogStep
<1>4. ASSUME NEW s \in Tx PROVE TxInv(s)'
  <2>1. CASE s = t
    BY <2>1 DEF TxStep
  <2>2. CASE s # t
    <3>1. tx'[s] = tx[s] /\ TxInv(s)
      BY <2>2 DEF TxStep, Inv
    <3>2. \A g \in Grants : grants'[g].holder = s => grants[g].holder = s
      BY <2>2, OthersRow DEF GrantsStep
    <3>3. \A k \in Memberships : /\ roles'[k].holder = s <=> roles[k].holder = s
                                 /\ roles[k].holder = s => roles'[k] = roles[k]
      <4>1. ASSUME NEW k \in Memberships
            PROVE  RowChange(roles[k], roles'[k], t, BOOLEAN, BOOLEAN \X BOOLEAN)
        BY DEF RolesStep
      <4> DEFINE E == BOOLEAN \X BOOLEAN
      <4> HIDE DEF E
      <4>2. ASSUME NEW k \in Memberships
            PROVE  /\ roles'[k].holder = s <=> roles[k].holder = s
                   /\ roles[k].holder = s => roles'[k] = roles[k]
        <5>1. RowChange(roles[k], roles'[k], t, BOOLEAN, E)
          BY <4>1 DEF E
        <5> QED
          BY <2>2, <5>1, OthersRow
      <4> QED
        BY <4>2
    <3>4. \A k \in Memberships : standing'[k].holder = s => standing[k].holder = s
      BY <2>2, OthersRow DEF RolesStep
    <3> QED
      BY <3>1, <3>2, <3>3, <3>4, IntoKept DEF TxInv
  <2> QED
    BY <2>1, <2>2
<1> QED
  BY <1>1, <1>2, <1>3, <1>4 DEF Inv, GrantsStep, TxStep

LEMMA InvInit == Init => Inv
<1> SUFFICES ASSUME Init PROVE Inv
  OBVIOUS
<1>1. \A g \in Grants : /\ grants[g].committed = NoGrant /\ grants[g].written = NoGrant
                        /\ grants[g].holder = NoTx
  BY DEF Init, Stored
<1>2. \A k \in Memberships : /\ roles[k].committed = (k[2] \in Founders)
                             /\ roles[k].holder = NoTx /\ standing[k].holder = NoTx
  BY DEF Init, Stored
<1>3. GrantsInv
  <2>1. \A g \in Grants : grants[g] \in RowsOf(Grant \cup {NoGrant})
    BY DEF Init, Stored, RowsOf
  <2> QED
    BY <1>1, <2>1, GrantTypes DEF GrantsInv, RowInv, Init
<1>4. IndexInv
  BY <1>1, GrantTypes DEF IndexInv, OneEntry, OpenGrantsOf
<1>5. TablesInv
  BY TimesAssumption DEF TablesInv, Standings, Init, Stored, RowsOf
<1>6. LogInv
  <2>1. log \in [Memberships -> Line]
    BY DEF Init, Line
  <2> QED
    BY <1>2, <2>1 DEF LogInv, Init
<1>7. tx \in [Tx -> Transaction] /\ \A t \in Tx : TxInv(t)
  BY <1>1, <1>2, IdleType, NoTxAssumption DEF TxInv, Init, RolePCs
<1> QED
  BY <1>3, <1>4, <1>5, <1>6, <1>7 DEF Inv

-----------------------------------------------------------------------------
(* The shapes of step the actions are made of.                             *)

LEMMA QuietGrants == Inv => \A g \in Grants : Quiet(grants[g])
  BY DEF Inv, GrantsInv, RowInv, Quiet

LEMMA GrantSeenType ==
  ASSUME Inv, NEW t \in Tx, NEW g \in Grants
  PROVE  /\ GrantSeen(t, g) \in Grant \cup {NoGrant}
         /\ GrantSeen(t, g).status # "none" => GrantSeen(t, g) \in Grant
  BY GrantTypes DEF Inv, GrantsInv, RowInv, RowsOf, GrantSeen, View

LEMMA SameGrants == ASSUME Inv, NEW t \in Tx, grants' = grants PROVE GrantsStep(t)
<1>1. IndexInv'
  BY DEF Inv, IndexInv
<1> QED
  BY <1>1 DEF Inv, GrantsInv, GrantsStep, RowChange

LEMMA SameRoles ==
  ASSUME Inv, NEW t \in Tx, roles' = roles, standing' = standing
  PROVE  RolesStep(t)
  BY DEF Inv, TablesInv, RolesStep, RowChange

(* UPDATE platform_tenant_grants: open grants are ended.                   *)
LEMMA EndGrants ==
  ASSUME Inv, NEW t \in Tx, NEW G \in SUBSET Grants, NEW status \in Ended, End(t, G, status)
  PROVE  GrantsStep(t)
<1> DEFINE new(g) == [GrantSeen(t, g) EXCEPT !.status = status]
<1>1. ASSUME NEW g \in Grants
      PROVE  \/ grants'[g] = grants[g]
             \/ /\ Free(grants[g], t) /\ grants'[g] = Put(grants[g], t, new(g))
                /\ new(g) \in Grant /\ new(g).status # "open"
                /\ <<GrantSeen(t, g), new(g)>> \in GrantMoves
  <2>1. CASE g \in G /\ GrantSeen(t, g).status = "open"
    <3>1. Free(grants[g], t) /\ grants'[g] = Put(grants[g], t, new(g))
      BY <2>1 DEF End
    <3>2. GrantSeen(t, g) \in Grant
      BY <2>1, GrantSeenType
    <3>3. new(g) \in Grant /\ new(g).status = status
      BY <3>2, GrantTypes
    <3>4. GrantMove(GrantSeen(t, g), new(g))
      BY <2>1 DEF GrantMove
    <3> QED
      BY <3>1, <3>2, <3>3, <3>4 DEF GrantMoves, Ended
  <2>2. CASE ~(g \in G /\ GrantSeen(t, g).status = "open")
    BY <2>2 DEF End
  <2> QED
    BY <2>1, <2>2
<1>2. grants' = [g \in Grants |-> grants'[g]]
  BY DEF End
<1> HIDE DEF new
<1>3. \A g \in Grants : RowChange(grants[g], grants'[g], t, Grant, GrantMoves)
  BY <1>1 DEF RowChange, GrantSeen
<1>4. ASSUME NEW a \in Admins, NEW g \in Grants
      PROVE  Touches(grants[g], grants'[g], t, OpenGrantsOf(a))
  BY <1>1 DEF Touches, OpenGrantsOf
<1>5. IndexInv'
  BY <1>4, QuietGrants, EntryTouched DEF IndexInv, Inv
<1> QED
  BY <1>2, <1>3, <1>5 DEF GrantsStep

(* The grants, roles and standings of a commit or a rollback.              *)
LEMMA AllRows ==
  ASSUME Inv, NEW t \in Tx,
         \/ /\ grants' = PublishedAll(grants, t) /\ roles' = PublishedAll(roles, t)
            /\ standing' = PublishedAll(standing, t)
         \/ /\ grants' = RestoredAll(grants, t) /\ roles' = RestoredAll(roles, t)
            /\ standing' = RestoredAll(standing, t)
  PROVE  /\ GrantsStep(t) /\ RolesStep(t)
         /\ \A g \in Grants : grants'[g].holder # t
         /\ \A k \in Memberships : roles'[k].holder # t /\ standing'[k].holder # t
<1>1. /\ DOMAIN grants = Grants /\ DOMAIN roles = Memberships /\ DOMAIN standing = Memberships
  BY DEF Inv, GrantsInv, TablesInv
<1>2. ASSUME NEW g \in Grants
      PROVE  /\ RowChange(grants[g], grants'[g], t, Grant, GrantMoves)
             /\ grants'[g].holder # t
  BY <1>1, NoTxAssumption
     DEF PublishedAll, RestoredAll, Published, Restored, Stored, RowChange
<1>3. ASSUME NEW k \in Memberships
      PROVE  /\ RowChange(roles[k], roles'[k], t, BOOLEAN, BOOLEAN \X BOOLEAN)
             /\ RowChange(standing[k], standing'[k], t, Standings, Standings \X Standings)
             /\ roles'[k].holder # t /\ standing'[k].holder # t
  BY <1>1, NoTxAssumption
     DEF PublishedAll, RestoredAll, Published, Restored, Stored, RowChange
<1>4. /\ grants' = [g \in Grants |-> grants'[g]] /\ roles' = [k \in Memberships |-> roles'[k]]
      /\ standing' = [k \in Memberships |-> standing'[k]]
  BY <1>1 DEF PublishedAll, RestoredAll
<1>5. IndexInv'
  <2>1. ASSUME NEW a \in Admins, NEW g \in Grants, NEW h \in Grants, g # h
        PROVE  OneEntry(grants'[g], grants'[h], OpenGrantsOf(a))
    <3>1. OneEntry(grants[g], grants[h], OpenGrantsOf(a))
      BY <2>1 DEF Inv, IndexInv
    <3>2. /\ OneEntry(Published(grants[g], t), Published(grants[h], t), OpenGrantsOf(a))
          /\ OneEntry(Restored(grants[g], t), Restored(grants[h], t), OpenGrantsOf(a))
      BY <3>1, QuietGrants, EntryEnds
    <3> QED
      BY <1>1, <3>2 DEF PublishedAll, RestoredAll
  <2> QED
    BY <2>1 DEF IndexInv
<1> QED
  BY <1>2, <1>3, <1>4, <1>5 DEF GrantsStep, RolesStep

(* A step that touches no table, of a transaction that holds nothing.      *)
LEMMA ReadOnly ==
  ASSUME Inv, NEW t \in Tx, UNCHANGED <<grants, roles, standing, log, clock>>,
         sessions' \subseteq Sessions, tx[t].pc \notin {"open.insert", "commit"},
         NEW x \in Transaction, tx' = [tx EXCEPT ![t] = x], x.line = Nothing,
         x.pc # "open.insert",
         x.pc \in {"close.write", "cleanup.row"} => x.grant \in Grants,
         x.pc \in {"standing.count", "standing.write"} => x.key \in Memberships /\ x.to \in Standings,
         x.pc \in RolePCs => x.use \in Grants /\ x.key \in Memberships /\ Into(x.use, x.key)
  PROVE  Inv'
<1>1. /\ \A g \in Grants : grants[g].holder # t
      /\ \A k \in Memberships : roles[k].holder # t /\ standing[k].holder # t
  BY DEF Inv, TxInv
<1>2. tx' \in [Tx -> Transaction] /\ tx'[t] = x /\ \A s \in Tx \ {t} : tx'[s] = tx[s]
  BY DEF Inv
<1>3. TxInv(t)'
  BY <1>1, <1>2 DEF TxInv, Into
<1>4. TxStep(t)
  BY <1>2, <1>3 DEF TxStep
<1> QED
  BY <1>4, SameGrants, SameRoles, StepPreservesInv DEF LogStep, Inv, TablesInv

-----------------------------------------------------------------------------
(* The actions that write no table.                                        *)

(* A call that goes on to its next statement.                              *)
LEMMA GotoType ==
  ASSUME Inv, NEW t \in Tx, NEW pc \in Statements
  PROVE  LET x == [tx[t] EXCEPT !.pc = pc]
         IN /\ x \in Transaction /\ x.pc = pc /\ x.session = tx[t].session
            /\ x.use = tx[t].use /\ x.key = tx[t].key /\ x.grant = tx[t].grant
            /\ x.to = tx[t].to /\ x.line = tx[t].line
  BY DEF Inv, Transaction

LEMMA Role_BeginStep == ASSUME Inv, NEW t \in Tx, Role_Begin(t) PROVE Inv'
<1>1. PICK g \in Grants, s \in Sessions, k \in Written, pc \in {"role.grant", "role.count"} :
        /\ Enters(t, g, s, k[1]) /\ k[2] # OwnerOf[s]
        /\ Begin(t, pc, [Idle EXCEPT !.use = g, !.key = k])
        /\ UNCHANGED <<sessions, grants, roles, standing, log, clock>>
  BY DEF Role_Begin
<1> DEFINE x == [[Idle EXCEPT !.use = g, !.key = k] EXCEPT !.pc = pc]
<1>2. k \in Memberships /\ pc \in Statements
  BY WrittenAssumption DEF Memberships, Statements
<1>3. /\ x \in Transaction /\ x.pc = pc /\ x.use = g /\ x.key = k /\ x.line = Nothing
      /\ tx[t].pc = "idle" /\ tx' = [tx EXCEPT ![t] = x]
  <2>1. tx[t].pc = "idle" /\ tx' = [tx EXCEPT ![t] = x]
    BY <1>1 DEF Begin
  <2>2. x \in Transaction /\ x.pc = pc /\ x.use = g /\ x.key = k /\ x.line = Nothing
    BY <1>2 DEF Idle, Transaction
  <2> QED
    BY <2>1, <2>2
<1>4. Into(g, k)
  <2>1. grants[g].holder # t
    BY <1>3 DEF Inv, TxInv
  <2>2. GrantSeen(t, g) = grants[g].committed
    BY <2>1 DEF GrantSeen, View
  <2>3. /\ GrantSeen(t, g) \in Grant /\ GrantSeen(t, g).session = s
        /\ GrantSeen(t, g).tenant = k[1]
    BY <1>1, GrantSeenType DEF Enters, Live
  <2> QED
    BY <1>1, <2>2, <2>3 DEF Into, AdminOf
<1> HIDE DEF x
<1>5. sessions' \subseteq Sessions
  BY <1>1 DEF Inv, TablesInv
<1> QED
  BY <1>1, <1>2, <1>3, <1>4, <1>5, ReadOnly

LEMMA Standing_BeginStep == ASSUME Inv, NEW t \in Tx, Standing_Begin(t) PROVE Inv'
<1>1. PICK k \in Written, to \in {"active", "suspended"},
           pc \in {"standing.write", "standing.count"} :
        /\ Begin(t, pc, [Idle EXCEPT !.key = k, !.to = to])
        /\ UNCHANGED <<sessions, grants, roles, standing, log, clock>>
  BY DEF Standing_Begin
<1> DEFINE x == [[Idle EXCEPT !.key = k, !.to = to] EXCEPT !.pc = pc]
<1>2. k \in Memberships /\ pc \in Statements /\ to \in Standings
  BY WrittenAssumption DEF Memberships, Statements, Standings
<1>3. /\ x \in Transaction /\ x.pc = pc /\ x.key = k /\ x.to = to /\ x.line = Nothing
      /\ tx[t].pc = "idle" /\ tx' = [tx EXCEPT ![t] = x]
  BY <1>1, <1>2 DEF Idle, Transaction, Begin
<1> HIDE DEF x
<1>4. sessions' \subseteq Sessions
  BY <1>1 DEF Inv, TablesInv
<1> QED
  BY <1>1, <1>2, <1>3, <1>4, ReadOnly DEF RolePCs

LEMMA CloseReadStep == ASSUME Inv, NEW t \in Tx, Close_Read(t) PROVE Inv'
<1>1. PICK g \in Grants :
        /\ Begin(t, "close.write", [Idle EXCEPT !.grant = g])
        /\ UNCHANGED <<sessions, grants, roles, standing, log, clock>>
  BY DEF Close_Read
<1> DEFINE x == [[Idle EXCEPT !.grant = g] EXCEPT !.pc = "close.write"]
<1>2. /\ x \in Transaction /\ x.pc = "close.write" /\ x.grant = g /\ x.line = Nothing
      /\ tx[t].pc = "idle" /\ tx' = [tx EXCEPT ![t] = x]
  BY <1>1 DEF Idle, Transaction, Begin, Statements
<1> HIDE DEF x
<1>3. sessions' \subseteq Sessions
  BY <1>1 DEF Inv, TablesInv
<1> QED
  BY <1>1, <1>2, <1>3, ReadOnly DEF RolePCs

LEMMA SignOutStep == ASSUME Inv, NEW t \in Tx, SignOut(t) PROVE Inv'
<1>1. PICK s \in sessions :
        /\ sessions' = sessions \ {s}
        /\ Begin(t, "cleanup.scan", [Idle EXCEPT !.session = s])
        /\ UNCHANGED <<grants, roles, standing, log, clock>>
  BY DEF SignOut
<1> DEFINE x == [[Idle EXCEPT !.session = s] EXCEPT !.pc = "cleanup.scan"]
<1>2. s \in Sessions /\ sessions' \subseteq Sessions
  BY <1>1 DEF Inv, TablesInv
<1>3. /\ x \in Transaction /\ x.pc = "cleanup.scan" /\ x.line = Nothing
      /\ tx[t].pc = "idle" /\ tx' = [tx EXCEPT ![t] = x]
  BY <1>1, <1>2 DEF Idle, Transaction, Begin, Statements
<1> HIDE DEF x
<1> QED
  BY <1>1, <1>2, <1>3, ReadOnly DEF RolePCs

LEMMA CleanupScanStep == ASSUME Inv, NEW t \in Tx, Cleanup_Scan(t) PROVE Inv'
<1>1. /\ tx[t].pc = "cleanup.scan" /\ UNCHANGED <<grants, roles, standing, log, clock>>
      /\ sessions' \subseteq Sessions /\ tx[t].line = Nothing
  BY DEF Cleanup_Scan, Inv, TablesInv, TxInv
<1>2. CASE Return(t)
  BY <1>1, <1>2, IdleType, ReadOnly DEF Return, RolePCs
<1>3. ASSUME NEW g \in Grants, tx' = [tx EXCEPT ![t].pc = "cleanup.row", ![t].grant = g]
      PROVE  Inv'
  <2> DEFINE x == [tx[t] EXCEPT !.pc = "cleanup.row", !.grant = g]
  <2>1. x \in Transaction /\ x.pc = "cleanup.row" /\ x.grant = g /\ x.line = tx[t].line
    BY DEF Inv, Transaction, Statements
  <2>2. tx' = [tx EXCEPT ![t] = x]
    BY <1>3
  <2> HIDE DEF x
  <2> QED
    BY <1>1, <2>1, <2>2, ReadOnly DEF RolePCs
<1> QED
  BY <1>2, <1>3 DEF Cleanup_Scan

(* The statements that only look, and the ones that find nothing to do.    *)
LEMMA LooksStep ==
  ASSUME Inv, NEW t \in Tx, NEW pc \in Statements, Goto(t, pc),
         UNCHANGED <<sessions, grants, roles, standing, log, clock>>,
         \/ tx[t].pc = "role.count" /\ pc = "role.delete"
         \/ tx[t].pc \in {"role.grant", "role.delete"} /\ pc = "commit"
         \/ tx[t].pc = "standing.count" /\ pc = "standing.write"
  PROVE  Inv'
<1> DEFINE x == [tx[t] EXCEPT !.pc = pc]
<1>1. /\ x \in Transaction /\ x.pc = pc /\ x.use = tx[t].use /\ x.key = tx[t].key
      /\ x.to = tx[t].to /\ x.line = tx[t].line
  BY GotoType
<1>2. tx' = [tx EXCEPT ![t] = x]
  BY DEF Goto
<1>3. TxInv(t) /\ tx[t].line = Nothing /\ sessions' \subseteq Sessions
  BY DEF Inv, TxInv, TablesInv
<1> HIDE DEF x
<1>4. /\ x.pc \in RolePCs => x.use \in Grants /\ x.key \in Memberships /\ Into(x.use, x.key)
      /\ x.pc \in {"standing.count", "standing.write"} => x.key \in Memberships /\ x.to \in Standings
      /\ x.pc \notin {"open.insert", "close.write", "cleanup.row"}
  BY <1>1, <1>3 DEF TxInv, RolePCs
<1> QED
  BY <1>1, <1>2, <1>3, <1>4, ReadOnly

-----------------------------------------------------------------------------
(* The actions that write.                                                 *)

(* A step that writes roles or standings only, or grants only.             *)
LEMMA RoleBecomesStep ==
  ASSUME Inv, NEW t \in Tx, NEW held \in BOOLEAN, tx[t].pc \in RolePCs, RoleBecomes(t, held),
         UNCHANGED <<sessions, grants, standing, log, clock>>
  PROVE  Inv'
<1> DEFINE k == tx[t].key
           line == IF held THEN "granted" ELSE "revoked"
           x == [tx[t] EXCEPT !.pc = "commit", !.line = line]
<1>1. /\ k \in Memberships /\ tx[t].use \in Grants /\ Into(tx[t].use, k)
      /\ tx[t].line = Nothing
      /\ \A g \in Grants : grants[g].holder # t
      /\ \A j \in Memberships : roles[j].holder # t /\ standing[j].holder # t
  BY DEF Inv, TxInv, RolePCs
<1>2. /\ Free(roles[k], t) /\ roles' = [roles EXCEPT ![k] = Put(roles[k], t, held)]
      /\ tx' = [tx EXCEPT ![t] = x]
  BY DEF RoleBecomes, Logged
<1>3. /\ x \in Transaction /\ x.pc = "commit" /\ x.line = line /\ x.use = tx[t].use
      /\ x.key = k
  BY DEF Inv, Transaction, Statements
<1>4. line # Nothing /\ (line = "granted") = held
  BY PeopleAssumption
<1> HIDE DEF x, line
<1>5. roles \in [Memberships -> RowsOf(BOOLEAN)]
  BY DEF Inv, TablesInv
<1>6. /\ roles'[k] = Put(roles[k], t, held) /\ \A j \in Memberships \ {k} : roles'[j] = roles[j]
      /\ roles' = [j \in Memberships |-> roles'[j]]
  BY <1>1, <1>2, <1>5
<1>7. /\ roles'[k].holder = t /\ roles'[k].committed = roles[k].committed
      /\ roles'[k].written = held
  BY <1>6 DEF Put
<1>8. RolesStep(t)
  <2>1. RowChange(roles[k], roles'[k], t, BOOLEAN, BOOLEAN \X BOOLEAN)
    <3>1. View(roles[k], t) \in BOOLEAN => <<View(roles[k], t), held>> \in BOOLEAN \X BOOLEAN
      OBVIOUS
    <3> QED
      BY <1>2, <1>6, <3>1 DEF RowChange
  <2>2. \A j \in Memberships : RowChange(roles[j], roles'[j], t, BOOLEAN, BOOLEAN \X BOOLEAN)
    BY <1>6, <2>1 DEF RowChange
  <2> QED
    BY <1>6, <2>2 DEF RolesStep, RowChange, Inv, TablesInv
<1>9. TxStep(t)
  <2>1. tx' \in [Tx -> Transaction] /\ tx'[t] = x /\ \A s \in Tx \ {t} : tx'[s] = tx[s]
    BY <1>2, <1>3 DEF Inv
  <2>2. TxInv(t)'
    BY <1>1, <1>3, <1>4, <1>6, <1>7, <2>1 DEF TxInv, Into
  <2> QED
    BY <2>1, <2>2 DEF TxStep
<1>10. LogStep
  BY <1>6, <1>7 DEF LogStep
<1> QED
  BY <1>8, <1>9, <1>10, SameGrants, StepPreservesInv DEF Inv, TablesInv

LEMMA RoleStep ==
  ASSUME Inv, NEW t \in Tx, Role_Grant(t) \/ Role_Delete(t) \/ Role_Count(t)
  PROVE  Inv'
<1>1. CASE Role_Grant(t)
  BY <1>1, RoleBecomesStep, LooksStep DEF Role_Grant, RolePCs, Statements
<1>2. CASE Role_Delete(t)
  BY <1>2, RoleBecomesStep, LooksStep DEF Role_Delete, RolePCs, Statements
<1>3. CASE Role_Count(t)
  BY <1>3, LooksStep DEF Role_Count, Statements
<1> QED
  BY <1>1, <1>2, <1>3

LEMMA Standing_WriteStep == ASSUME Inv, NEW t \in Tx, Standing_Write(t) PROVE Inv'
<1> DEFINE k == tx[t].key
           x == [tx[t] EXCEPT !.pc = "commit"]
<1>1. /\ k \in Memberships /\ tx[t].to \in Standings /\ tx[t].line = Nothing
      /\ \A g \in Grants : grants[g].holder # t
      /\ \A j \in Memberships : roles[j].holder # t /\ standing[j].holder # t
  BY DEF Inv, TxInv, Standing_Write
<1>2. /\ Free(standing[k], t)
      /\ standing' = [standing EXCEPT ![k] = Put(standing[k], t, tx[t].to)]
      /\ tx' = [tx EXCEPT ![t] = x]
      /\ UNCHANGED <<sessions, grants, roles, log, clock>>
  BY DEF Standing_Write, Goto
<1>3. x \in Transaction /\ x.pc = "commit" /\ x.line = Nothing
  BY <1>1, GotoType DEF Statements
<1> HIDE DEF x
<1>4. standing \in [Memberships -> RowsOf(Standings)]
  BY DEF Inv, TablesInv
<1>5. /\ standing'[k] = Put(standing[k], t, tx[t].to)
      /\ \A j \in Memberships \ {k} : standing'[j] = standing[j]
      /\ standing' = [j \in Memberships |-> standing'[j]]
  BY <1>1, <1>2, <1>4
<1>6. RolesStep(t)
  <2>1. RowChange(standing[k], standing'[k], t, Standings, Standings \X Standings)
    BY <1>1, <1>2, <1>5 DEF RowChange
  <2>2. \A j \in Memberships :
          RowChange(standing[j], standing'[j], t, Standings, Standings \X Standings)
    BY <1>5, <2>1 DEF RowChange
  <2> QED
    BY <1>2, <1>5, <2>2 DEF RolesStep, RowChange, Inv, TablesInv
<1>7. TxStep(t)
  <2>1. tx' \in [Tx -> Transaction] /\ tx'[t] = x /\ \A s \in Tx \ {t} : tx'[s] = tx[s]
    BY <1>2, <1>3 DEF Inv
  <2>2. TxInv(t)'
    BY <1>1, <1>2, <1>3, <2>1 DEF TxInv, RolePCs
  <2> QED
    BY <2>1, <2>2 DEF TxStep
<1> QED
  BY <1>2, <1>6, <1>7, SameGrants, StepPreservesInv DEF LogStep, Inv, TablesInv

(* Grants are written by a transaction that has no role line.              *)
LEMMA GrantsOnly ==
  ASSUME Inv, NEW t \in Tx, UNCHANGED <<sessions, roles, standing, log, clock>>, GrantsStep(t),
         tx[t].pc # "commit", NEW x \in Transaction, tx' = [tx EXCEPT ![t] = x],
         x.line = Nothing, x.pc \in {"commit", "open.insert"},
         x.pc = "open.insert" => x.session \in Sessions
  PROVE  Inv'
<1>1. tx[t].line = Nothing
  BY DEF Inv, TxInv
<1>2. \A k \in Memberships : roles[k].holder # t /\ standing[k].holder # t
  BY <1>1 DEF Inv, TxInv
<1>3. tx' \in [Tx -> Transaction] /\ tx'[t] = x /\ \A s \in Tx \ {t} : tx'[s] = tx[s]
  BY DEF Inv
<1>4. TxInv(t)'
  BY <1>2, <1>3 DEF TxInv, RolePCs
<1> QED
  BY <1>3, <1>4, SameRoles, StepPreservesInv DEF TxStep, LogStep, Inv, TablesInv

LEMMA Open_ExpireStep == ASSUME Inv, NEW t \in Tx, Open_Expire(t) PROVE Inv'
<1>1. PICK s \in sessions, G \in SUBSET Grants :
        /\ Begin(t, "open.insert", [Idle EXCEPT !.session = s, !.at = clock])
        /\ End(t, G, "expired")
        /\ UNCHANGED <<sessions, roles, standing, log, clock>>
  <2>1. \A s : {g \in OpenOf(t, OwnerOf[s]) : GrantSeen(t, g).expires <= clock} \in SUBSET Grants
    BY DEF OpenOf
  <2> QED
    BY <2>1 DEF Open_Expire
<1> DEFINE x == [[Idle EXCEPT !.session = s, !.at = clock] EXCEPT !.pc = "open.insert"]
<1>2. s \in Sessions /\ clock \in Nat
  BY TimesAssumption DEF Inv, TablesInv
<1>3. /\ x \in Transaction /\ x.pc = "open.insert" /\ x.session = s /\ x.line = Nothing
      /\ tx[t].pc = "idle" /\ tx' = [tx EXCEPT ![t] = x]
  BY <1>1, <1>2 DEF Idle, Transaction, Begin, Statements
<1> HIDE DEF x
<1> QED
  BY <1>1, <1>2, <1>3, EndGrants, GrantsOnly DEF Ended

LEMMA EndStep == ASSUME Inv, NEW t \in Tx, Close_Write(t) \/ Cleanup_Row(t) PROVE Inv'
<1>1. PICK status \in Ended :
        /\ End(t, {tx[t].grant}, status) /\ tx[t].pc \in {"close.write", "cleanup.row"}
        /\ Goto(t, "commit") /\ UNCHANGED <<sessions, roles, standing, log, clock>>
  BY DEF Close_Write, Cleanup_Row, Ended
<1>2. tx[t].grant \in Grants /\ tx[t].line = Nothing
  BY <1>1 DEF Inv, TxInv
<1>3. PICK x \in Transaction : x.pc = "commit" /\ x.line = Nothing /\ tx' = [tx EXCEPT ![t] = x]
  BY <1>1, <1>2, GotoType DEF Statements, Goto
<1> DEFINE G == {tx[t].grant}
<1>4. G \in SUBSET Grants /\ End(t, G, status)
  BY <1>1, <1>2
<1> HIDE DEF G
<1>5. GrantsStep(t) /\ tx[t].pc # "commit"
  BY <1>1, <1>4, EndGrants
<1>6. UNCHANGED <<sessions, roles, standing, log, clock>>
  BY <1>1
<1> QED
  BY <1>3, <1>5, <1>6, GrantsOnly

(* The insert goes through when the index has no entry of a, seen or in    *)
(* flight.                                                                 *)
LEMMA InsertGrants == ASSUME Inv, NEW t \in Tx, Open_Insert(t) PROVE GrantsStep(t)
<1> DEFINE a == OwnerOf[tx[t].session]
           new(n) == [session |-> tx[t].session, tenant |-> n,
                      expires |-> tx[t].at + Lifetime, status |-> "open"]
<1>1. PICK g \in Grants, n \in Tenants :
        /\ Holders(t, a) = {} /\ OpenOf(t, a) = {} /\ grants[g] = Stored(NoGrant)
        /\ grants' = [grants EXCEPT ![g] = Put(grants[g], t, new(n))]
  BY DEF Open_Insert
<1>2. /\ tx[t].session \in Sessions /\ tx[t].line = Nothing /\ tx[t].pc = "open.insert"
      /\ tx[t].at \in Nat
  BY DEF Open_Insert, Inv, TxInv, Transaction
<1>3. /\ new(n) \in Grant /\ AdminOf(new(n)) = a
  BY <1>2, TimesAssumption DEF Grant, AdminOf
<1> HIDE DEF new, a
<1>5. /\ grants[g].committed = NoGrant /\ grants[g].holder = NoTx
  BY <1>1 DEF Stored
<1>6. /\ grants'[g] = Put(grants[g], t, new(n)) /\ \A h \in Grants \ {g} : grants'[h] = grants[h]
      /\ grants' = [h \in Grants |-> grants'[h]]
  BY <1>1 DEF Inv, GrantsInv
<1>7. \A h \in Grants : RowChange(grants[h], grants'[h], t, Grant, GrantMoves)
  <2>1. View(grants[g], t) \notin Grant
    BY <1>1, GrantTypes DEF View, Stored
  <2>2. RowChange(grants[g], grants'[g], t, Grant, GrantMoves)
    BY <1>3, <1>5, <1>6, <2>1 DEF RowChange, Free
  <2>3. \A h \in Grants \ {g} : RowChange(grants[h], grants'[h], t, Grant, GrantMoves)
    BY <1>6 DEF RowChange
  <2> QED
    BY <2>2, <2>3
<1>8. IndexInv'
  <2> SUFFICES ASSUME NEW b \in Admins, NEW h \in Grants, h # g
               PROVE  /\ OneEntry(grants'[g], grants'[h], OpenGrantsOf(b))
                      /\ OneEntry(grants'[h], grants'[g], OpenGrantsOf(b))
    BY <1>6 DEF IndexInv, Inv
  <2>1. OneEntry(grants'[g], grants'[h], OpenGrantsOf(b))
    <3>1. CASE b = a
      <4>1. View(grants[h], t) \notin OpenGrantsOf(b)
        BY <1>1, <3>1 DEF OpenOf, OpenGrantsOf, GrantSeen
      <4>2. \A v \in {grants[h].committed, grants[h].written} :
              v \in OpenGrantsOf(b) => grants[h].holder \in {NoTx, t}
        BY <1>1, <3>1 DEF Holders, OpenGrantsOf
      <4>3. grants[g].committed \notin OpenGrantsOf(b)
        BY <1>5, GrantTypes DEF OpenGrantsOf
      <4> QED
        BY <1>6, <4>1, <4>2, <4>3, QuietGrants, EntryMade
    <3>2. CASE b # a
      <4>1. new(n) \notin OpenGrantsOf(b)
        BY <1>3, <3>2 DEF OpenGrantsOf
      <4>2. Touches(grants[g], grants'[g], t, OpenGrantsOf(b))
        BY <1>5, <1>6, <4>1 DEF Touches, Free
      <4>3. Touches(grants[h], grants'[h], t, OpenGrantsOf(b))
        BY <1>6 DEF Touches
      <4> QED
        BY <4>2, <4>3, QuietGrants, EntryTouched DEF Inv, IndexInv
    <3> QED
      BY <3>1, <3>2
  <2> QED
    BY <2>1, EntrySymmetry
<1> QED
  BY <1>6, <1>7, <1>8 DEF GrantsStep

LEMMA Open_InsertStep == ASSUME Inv, NEW t \in Tx, Open_Insert(t) PROVE Inv'
<1>1. /\ Goto(t, "commit") /\ tx[t].pc = "open.insert"
      /\ UNCHANGED <<sessions, roles, standing, log, clock>>
  BY DEF Open_Insert
<1>2. tx[t].line = Nothing
  BY <1>1 DEF Inv, TxInv
<1>3. PICK x \in Transaction : x.pc = "commit" /\ x.line = Nothing /\ tx' = [tx EXCEPT ![t] = x]
  BY <1>1, <1>2, GotoType DEF Statements, Goto
<1>4. GrantsStep(t) /\ tx[t].pc # "commit"
  BY <1>1, InsertGrants
<1>5. UNCHANGED <<sessions, roles, standing, log, clock>>
  BY <1>1
<1> QED
  BY <1>3, <1>4, <1>5, GrantsOnly

LEMMA RollbackStep == ASSUME Inv, NEW t \in Tx, Rollback(t) PROVE Inv'
<1>1. /\ GrantsStep(t) /\ RolesStep(t)
      /\ \A g \in Grants : grants'[g].holder # t
      /\ \A k \in Memberships : roles'[k].holder # t /\ standing'[k].holder # t
  BY AllRows DEF Rollback
<1>2. \A k \in Memberships : roles'[k].committed = roles[k].committed
  BY DEF Rollback, RestoredAll, Restored, Stored, Inv, TablesInv
<1>3. /\ tx' \in [Tx -> Transaction] /\ tx'[t] = Idle /\ \A s \in Tx \ {t} : tx'[s] = tx[s]
  BY IdleType DEF Rollback, Return, Inv
<1>4. TxInv(t)'
  BY <1>1, <1>3, IdleType DEF TxInv, RolePCs
<1> QED
  BY <1>1, <1>2, <1>3, <1>4, StepPreservesInv DEF TxStep, LogStep, Rollback, Inv, TablesInv

(* The line a commit inserts is true of the role it publishes, and names a *)
(* grant into the role's tenant.                                           *)
LEMMA CommitStep == ASSUME Inv, NEW t \in Tx, Commit(t) PROVE Inv'
<1>1. /\ GrantsStep(t) /\ RolesStep(t)
      /\ \A g \in Grants : grants'[g].holder # t
      /\ \A k \in Memberships : roles'[k].holder # t /\ standing'[k].holder # t
  BY AllRows DEF Commit
<1>2. ASSUME NEW k \in Memberships
      PROVE  roles'[k].committed = IF roles[k].holder = t THEN roles[k].written
                                   ELSE roles[k].committed
  BY DEF Commit, PublishedAll, Published, Stored, Inv, TablesInv
<1>3. /\ tx' \in [Tx -> Transaction] /\ tx'[t] = Idle /\ \A s \in Tx \ {t} : tx'[s] = tx[s]
  BY IdleType DEF Commit, Return, Inv
<1>4. TxInv(t)'
  BY <1>1, <1>3, IdleType DEF TxInv, RolePCs
<1>5. LogStep
  <2>1. CASE tx[t].line = Nothing
    <3>1. \A k \in Memberships : roles[k].holder # t
      BY <2>1 DEF Inv, TxInv
    <3> QED
      BY <1>2, <2>1, <3>1 DEF LogStep, Commit
  <2>2. CASE tx[t].line # Nothing
    <3>1. PICK j \in Memberships, use \in Grants :
          /\ j = tx[t].key /\ use = tx[t].use /\ Into(use, j)
          /\ roles[j].holder = t /\ roles[j].written = (tx[t].line = "granted")
          /\ \A k \in Memberships : roles[k].holder = t => k = j
      BY <2>2 DEF Inv, TxInv
    <3> DEFINE entry == [held |-> tx[t].line = "granted", grant |-> use]
    <3>2. log' = [log EXCEPT ![j] = entry] /\ log \in [Memberships -> Line]
      BY <2>2, <3>1 DEF Commit, Inv, LogInv
    <3>3. entry \in Line /\ entry.grant = use
      BY <3>1 DEF Line
    <3>4. entry.held = roles[j].written
      BY <3>1
    <3> HIDE DEF entry
    <3>5. /\ log' \in [Memberships -> Line] /\ log'[j] = entry
          /\ \A k \in Memberships \ {j} : log'[k] = log[k]
      BY <3>1, <3>2, <3>3
    <3>6. use # Nothing
      BY <3>1, PeopleAssumption
    <3>7. ASSUME NEW k \in Memberships
          PROVE  (/\ log[k].held = roles[k].committed
                  /\ log[k].grant = Nothing => log[k].held = (k[2] \in Founders)
                  /\ log[k].grant # Nothing => Into(log[k].grant, k))'
      <4>1. CASE k = j
        <5>1. log'[k].held = roles'[k].committed
          <6>1. roles'[j].committed = roles[j].written
            BY <1>2, <3>1
          <6> QED
            BY <3>4, <3>5, <4>1, <6>1
        <5>2. log'[k].grant = use /\ Into(use, k)'
          <6>1. Into(use, j)'
            BY <1>1, <3>1, IntoKept
          <6> QED
            BY <3>3, <3>5, <4>1, <6>1
        <5> QED
          BY <3>6, <5>1, <5>2
      <4>2. CASE k # j
        <5>1. log'[k] = log[k] /\ roles'[k].committed = roles[k].committed
          BY <1>2, <3>1, <3>5, <4>2
        <5>2. /\ log[k].held = roles[k].committed
              /\ log[k].grant = Nothing => log[k].held = (k[2] \in Founders)
              /\ log[k].grant # Nothing => Into(log[k].grant, k) /\ log[k].grant \in Grants
          BY DEF Inv, LogInv, Line
        <5> QED
          BY <1>1, <5>1, <5>2, IntoKept
      <4> QED
        BY <4>1, <4>2
    <3> QED
      BY <3>5, <3>7 DEF LogStep, LogInv
  <2> QED
    BY <2>1, <2>2
<1> QED
  BY <1>1, <1>3, <1>4, <1>5, StepPreservesInv DEF TxStep, Commit, Inv, TablesInv

LEMMA StandingCountStep == ASSUME Inv, NEW t \in Tx, Standing_Count(t) PROVE Inv'
  BY LooksStep DEF Standing_Count, Statements

LEMMA NextInv == Inv /\ [Next]_vars => Inv'
<1> SUFFICES ASSUME Inv, [Next]_vars PROVE Inv'
  OBVIOUS
<1>1. ASSUME clock' \in 0..MaxTime, UNCHANGED <<sessions, grants, roles, standing, log, tx>>
      PROVE  Inv'
  <2>1. GrantsInv' /\ IndexInv'
    BY <1>1 DEF Inv, GrantsInv, IndexInv
  <2>2. LogInv' /\ TablesInv' /\ \A t \in Tx : TxInv(t)'
    BY <1>1 DEF Inv, LogInv, TablesInv, TxInv, Into
  <2> QED
    BY <1>1, <2>1, <2>2 DEF Inv
<1>2. CASE Tick
  BY <1>1, <1>2, TimesAssumption DEF Tick, Inv, TablesInv
<1>3. CASE UNCHANGED vars
  BY <1>1, <1>3 DEF vars, Inv, TablesInv
<1>4. ASSUME NEW t \in Tx, Run(t) PROVE Inv'
  BY <1>4, Open_ExpireStep, Open_InsertStep, Role_BeginStep, RoleStep, Standing_BeginStep,
     StandingCountStep, Standing_WriteStep, CloseReadStep, EndStep, SignOutStep,
     CleanupScanStep, CommitStep, RollbackStep DEF Run
<1> QED
  BY <1>2, <1>3, <1>4 DEF Next

(* Every row keeps the discipline of its transactions, the index has one   *)
(* entry per administrator, and what a transaction knows of its grant and  *)
(* will log of a role is true, in every reachable state.                   *)
THEOREM Invariance == Spec => []Inv
  BY InvInit, NextInv, PTL DEF Spec

(* An administrator has one open grant (auth_open_tenant_grant and its     *)
(* index), and the audit log tells who holds each role, however openings,  *)
(* closings, sign-outs and role changes overlap.                           *)
THEOREM AuditTells == Spec => []AuditInv
<1>1. Inv => AuditInv
  <2> SUFFICES ASSUME Inv PROVE AuditInv
    OBVIOUS
  <2>1. TypeOK
    <3>1. \A g \in Grants : grants[g] \in RowsOf(Grant \cup {NoGrant})
      BY DEF Inv, GrantsInv, RowInv
    <3> QED
      BY <3>1 DEF Inv, GrantsInv, TablesInv, Standings, LogInv, TypeOK
  <2>2. OneOpenGrant
    <3> SUFFICES ASSUME NEW g \in Grants, NEW h \in Grants,
                        grants[g].committed.status = "open", grants[h].committed.status = "open",
                        AdminOf(grants[g].committed) = AdminOf(grants[h].committed), g # h
                 PROVE  FALSE
      BY DEF OneOpenGrant
    <3>1. grants[g].committed \in Grant /\ grants[h].committed \in Grant
      BY GrantTypes DEF Inv, GrantsInv, RowInv, RowsOf
    <3> DEFINE a == AdminOf(grants[g].committed)
    <3>2. a \in Admins /\ OneEntry(grants[g], grants[h], OpenGrantsOf(a))
      BY <3>1, GrantTypes DEF Inv, IndexInv
    <3> QED
      BY <3>1, <3>2 DEF OneEntry, OpenGrantsOf
  <2>3. AuditTellsRoles
    BY DEF Inv, LogInv, AuditTellsRoles
  <2> QED
    BY <2>1, <2>2, <2>3 DEF AuditInv
<1> QED
  BY <1>1, Invariance, PTL

(* Whoever is tenant_admin without having founded the tenant was made so,  *)
(* and whoever is not any more was stopped, under a grant into that very   *)
(* tenant and by somebody else (auth_set_membership_role).                 *)
THEOREM VisitorsWriteRoles == Spec => []RolesByVisitors
<1>1. Inv => RolesByVisitors
  <2> SUFFICES ASSUME Inv, NEW k \in Memberships
               PROVE  LET g == log[k].grant
                          v == grants[g].committed
                      IN /\ g = Nothing => roles[k].committed = (k[2] \in Founders)
                         /\ g # Nothing => v # NoGrant /\ v.tenant = k[1] /\ AdminOf(v) # k[2]
    BY DEF RolesByVisitors
  <2>1. PICK g : g = log[k].grant
    OBVIOUS
  <2>2. g = Nothing => roles[k].committed = (k[2] \in Founders)
    BY <2>1 DEF Inv, LogInv
  <2>3. g # Nothing => Into(g, k)
    BY <2>1 DEF Inv, LogInv
  <2> QED
    BY <2>1, <2>2, <2>3, GrantTypes DEF Into
<1> QED
  BY <1>1, Invariance, PTL

(* Whatever a transaction does, it changes grants along GrantMoves.        *)
LEMMA RunGrants == ASSUME Inv, NEW t \in Tx, Run(t) PROVE GrantsStep(t)
<1>1. CASE grants' = grants
  BY <1>1, SameGrants
<1>2. CASE \/ Role_Begin(t) \/ Role_Grant(t) \/ Role_Count(t) \/ Role_Delete(t)
           \/ Standing_Begin(t) \/ Standing_Count(t) \/ Standing_Write(t)
           \/ Close_Read(t) \/ SignOut(t) \/ Cleanup_Scan(t)
  BY <1>1, <1>2 DEF Role_Begin, Role_Grant, Role_Count, Role_Delete, Standing_Begin,
     Standing_Count, Standing_Write, Close_Read, SignOut, Cleanup_Scan
<1>3. CASE Open_Expire(t) \/ Close_Write(t) \/ Cleanup_Row(t)
  <2>1. PICK G \in SUBSET Grants, status \in Ended : End(t, G, status)
    <3>1. \A s : {g \in OpenOf(t, OwnerOf[s]) : GrantSeen(t, g).expires <= clock} \in SUBSET Grants
      BY DEF OpenOf
    <3>2. CASE Open_Expire(t)
      BY <3>1, <3>2 DEF Open_Expire, Ended
    <3>3. CASE Close_Write(t) \/ Cleanup_Row(t)
      <4>1. tx[t].grant \in Grants
        BY <3>3 DEF Close_Write, Cleanup_Row, Inv, TxInv
      <4>2. {tx[t].grant} \in SUBSET Grants
        BY <4>1
      <4> QED
        BY <3>3, <4>2 DEF Close_Write, Cleanup_Row, Ended
    <3> QED
      BY <1>3, <3>2, <3>3
  <2> QED
    BY <2>1, EndGrants
<1>4. CASE Commit(t) \/ Rollback(t)
  BY <1>4, AllRows DEF Commit, Rollback
<1> QED
  BY <1>2, <1>3, <1>4, InsertGrants DEF Run

(* What a step may make of a committed grant.                              *)
Ends(v, w) ==
  /\ v.status = "open" => \E s \in {"open", "expired", "closed", "session_ended"} :
                             w = [v EXCEPT !.status = s]
  /\ v.status \notin {"open", "none"} => w = v

(* A grant is ended once and never altered, whichever of its closers comes *)
(* first (auth_revoke_tenant_grant, revokeSession, the next visit).        *)
THEOREM GrantsEnd == Spec => GrantsEndOnce
<1>1. Inv /\ [Next]_vars
        => \A g \in Grants :
             LET v == grants[g].committed
                 w == grants'[g].committed
             IN /\ v.status = "open" => \E s \in {"open", "expired", "closed", "session_ended"} :
                                          w = [v EXCEPT !.status = s]
                /\ v.status \notin {"open", "none"} => w = v
  <2> SUFFICES ASSUME Inv, [Next]_vars, NEW g \in Grants
               PROVE  Ends(grants[g].committed, grants'[g].committed)
    BY DEF Ends
  <2>1. CASE grants'[g].committed = grants[g].committed
    <3>1. \A v \in Grant : v.status = "open" => v = [v EXCEPT !.status = "open"]
      BY DEF Grant
    <3>2. grants[g].committed \in Grant \cup {NoGrant}
      BY DEF Inv, GrantsInv, RowInv, RowsOf
    <3>3. grants[g].committed.status = "open"
            => grants[g].committed = [grants[g].committed EXCEPT !.status = "open"]
      BY <3>1, <3>2, GrantTypes
    <3> QED
      BY <2>1, <3>3 DEF Ends
  <2>2. ASSUME NEW t \in Tx, Run(t)
        PROVE  Ends(grants[g].committed, grants'[g].committed)
    <3>1. GrantsStep(t)
      BY <2>2, RunGrants
    <3>2. CASE grants[g].committed \in Grant
      <4>1. <<grants[g].committed, grants'[g].committed>> \in GrantMoves
        BY <3>1, <3>2, GrantMovesOrder, CommitMoves DEF Inv, GrantsInv, GrantsStep
      <4> QED
        BY <2>1, <4>1 DEF GrantMoves, GrantMove, Ended, Ends
    <3>3. CASE grants[g].committed = NoGrant
      BY <3>3, GrantTypes DEF Ends
    <3> QED
      BY <3>2, <3>3 DEF Inv, GrantsInv, RowInv, RowsOf
  <2> QED
    BY <2>1, <2>2 DEF Next, Tick, vars
<1> QED
  BY <1>1, Invariance, PTL DEF Spec, GrantsEndOnce
=============================================================================
