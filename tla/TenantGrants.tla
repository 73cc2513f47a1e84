---------------------------- MODULE TenantGrants ----------------------------
(***************************************************************************)
(* Visits of platform administrators to a university (packages/modules/    *)
(* identity, packages/db): for a stated reason and a short while an        *)
(* administrator opens a grant into one tenant, bound to their session,    *)
(* and every transaction they run there leaves a use row that says under   *)
(* which grant it acts.  Roles are written by such visitors only; standing *)
(* also by the tenant's own administrators.                                *)
(*                                                                         *)
(* Each database function is a transaction, an action one of its           *)
(* statements.  A call that is refused before it wrote has done nothing and*)
(* is left out.  Of the roles only tenant_admin is here; joining, verifying*)
(* and timed standings are not.                                            *)
(***************************************************************************)
EXTENDS Integers, FiniteSets, RowStore

CONSTANTS Admins,    \* the platform administrators
          Members,   \* users with a membership in every tenant
          Founders,  \* those who are tenant_admin from the start
          Tenants,
          Sessions,  \* the sessions of the platform administrators
          OwnerOf,   \* [session -> its administrator]
          Grants,    \* bound: the rows of platform_tenant_grants
          Nothing,   \* no row, or SQL null
          Lifetime,  \* how long a grant is open
          MaxTime,   \* bound: the last instant of the clock
          Written,   \* bound: the memberships that are written to
          Ops        \* bound: the operations of this instance

VARIABLES sessions,  \* which sessions are live
          grants,    \* platform_tenant_grants
          roles,     \* membership_roles: who is tenant_admin where
          standing,  \* tenant_memberships.status
          log,       \* audit_log: the last role line of each membership
          tx,        \* per connection: the transaction it runs
          clock

vars == <<sessions, grants, roles, standing, log, tx, clock>>

ASSUME PeopleAssumption ==
  /\ Founders \subseteq Members
  /\ OwnerOf \in [Sessions -> Admins]
  /\ Nothing \notin Admins \cup Members \cup Tenants \cup Sessions \cup Grants
                   \cup {"granted", "revoked"}
ASSUME WrittenAssumption == Written \subseteq Tenants \X Members
ASSUME TimesAssumption == Lifetime \in Nat \ {0} /\ MaxTime \in Nat

Memberships == Tenants \X Members

Grant == [session : Sessions, tenant : Tenants, expires : Nat,
          status : {"open", "expired", "closed", "session_ended"}]
NoGrant == [session |-> Nothing, tenant |-> Nothing, expires |-> 0, status |-> "none"]

AdminOf(g) == OwnerOf[g.session]

(* A role line: what it says, and the grant audit_log_stamp_grant put on it*)
Line == [held : BOOLEAN, grant : Grants \cup {Nothing}]

Statements == {"open.insert", "role.grant", "role.count", "role.delete",
               "standing.count", "standing.write", "close.write",
               "cleanup.scan", "cleanup.row", "commit"}

(* What a connection remembers: its session, the grant of its use row, the *)
(* membership and the grant it writes, the status to set, its role line,   *)
(* and when it began.                                                      *)
Transaction ==
  [pc : Statements \cup {"idle"}, session : Sessions \cup {Nothing},
   use : Grants \cup {Nothing}, key : Memberships \cup {Nothing},
   grant : Grants \cup {Nothing}, to : {"active", "suspended", Nothing},
   line : {"granted", "revoked", Nothing}, at : Nat]

Idle == [pc |-> "idle", session |-> Nothing, use |-> Nothing, key |-> Nothing,
         grant |-> Nothing, to |-> Nothing, line |-> Nothing, at |-> 0]

Init ==
  /\ sessions = Sessions
  /\ grants = [g \in Grants |-> Stored(NoGrant)]
  /\ roles = [k \in Memberships |-> Stored(k[2] \in Founders)]
  /\ standing = [k \in Memberships |-> Stored("active")]
  /\ log = [k \in Memberships |-> [held |-> k[2] \in Founders, grant |-> Nothing]]
  /\ tx = [t \in Tx |-> Idle]
  /\ clock = 0

-----------------------------------------------------------------------------
Begin(t, pc, r) == tx[t].pc = "idle" /\ tx' = [tx EXCEPT ![t] = [r EXCEPT !.pc = pc]]
Goto(t, pc) == tx' = [tx EXCEPT ![t].pc = pc]
Return(t) == tx' = [tx EXCEPT ![t] = Idle]

(* The lines of a transaction are rows it inserts.                         *)
Commit(t) ==
  /\ tx[t].pc = "commit"
  /\ grants' = PublishedAll(grants, t)
  /\ roles' = PublishedAll(roles, t) /\ standing' = PublishedAll(standing, t)
  /\ log' = IF tx[t].line = Nothing THEN log
            ELSE [log EXCEPT ![tx[t].key] =
                    [held |-> tx[t].line = "granted", grant |-> tx[t].use]]
  /\ Return(t)
  /\ UNCHANGED <<sessions, clock>>

(* The connection dies, or the function raises.                            *)
Rollback(t) ==
  /\ tx[t].pc # "idle"
  /\ grants' = RestoredAll(grants, t)
  /\ roles' = RestoredAll(roles, t) /\ standing' = RestoredAll(standing, t)
  /\ Return(t)
  /\ UNCHANGED <<sessions, log, clock>>

GrantSeen(t, g) == View(grants[g], t)

(* UPDATE platform_tenant_grants .. WHERE revoked_at IS NULL of the rows G:*)
(* it waits for each and looks at it again.                                *)
End(t, G, status) ==
  /\ \A g \in G : Free(grants[g], t)
  /\ grants' = [g \in Grants |->
       IF g \in G /\ GrantSeen(t, g).status = "open"
         THEN Put(grants[g], t, [GrantSeen(t, g) EXCEPT !.status = status])
         ELSE grants[g]]

-----------------------------------------------------------------------------
(* auth_open_tenant_grant closes what has expired, then inserts and enters.*)

OpenOf(t, a) ==
  {g \in Grants : GrantSeen(t, g).status = "open" /\ AdminOf(GrantSeen(t, g)) = a}

Open_Expire(t) ==
  \E s \in sessions :
    LET a == OwnerOf[s]
    IN /\ "openGrant" \in Ops
       /\ Begin(t, "open.insert", [Idle EXCEPT !.session = s, !.at = clock])
       /\ End(t, {g \in OpenOf(t, a) : GrantSeen(t, g).expires <= clock}, "expired")
       /\ UNCHANGED <<sessions, roles, standing, log, clock>>

(* platform_tenant_grants_one_open_idx: the transactions an insert waits   *)
(* for, which are writing an open grant of a.                              *)
Holders(t, a) ==
  {grants[g].holder : g \in {h \in Grants :
     \E v \in {grants[h].committed, grants[h].written} :
       v.status = "open" /\ AdminOf(v) = a}} \ {NoTx, t}

(* The session is looked at again, by auth_assume_tenant_grant.            *)
Open_Insert(t) ==
  \E g \in Grants, n \in Tenants :
    /\ tx[t].pc = "open.insert" /\ tx[t].session \in sessions
    /\ Holders(t, OwnerOf[tx[t].session]) = {} /\ OpenOf(t, OwnerOf[tx[t].session]) = {}
    /\ grants[g] = Stored(NoGrant)
    /\ grants' = [grants EXCEPT ![g] =
         Put(@, t, [session |-> tx[t].session, tenant |-> n,
                    expires |-> tx[t].at + Lifetime, status |-> "open"])]
    /\ Goto(t, "commit")
    /\ UNCHANGED <<sessions, roles, standing, log, clock>>

-----------------------------------------------------------------------------
(* withTenantMutation under a grant: auth_assume_tenant_grant finds the    *)
(* live grant of the caller's session.                                     *)

Live(t, g, s) ==
  /\ s \in sessions
  /\ GrantSeen(t, g).status = "open" /\ GrantSeen(t, g).session = s
  /\ GrantSeen(t, g).expires > clock

(* The tenants whose pages an administrator has been on.                   *)
Visited(a) ==
  {grants[g].committed.tenant : g \in {h \in Grants :
     grants[h].committed # NoGrant /\ AdminOf(grants[h].committed) = a}}

(* Mutant of Enters: the grant's tenant is not compared with the page's.   *)
Enters_Any(t, g, s, n) == Live(t, g, s) /\ n \in Visited(OwnerOf[s])

(* The grant the page was opened under may have been closed since, and     *)
(* another opened elsewhere.                                               *)
Enters(t, g, s, n) ==
  /\ Live(t, g, s) /\ n \in Visited(OwnerOf[s])
  /\ GrantSeen(t, g).tenant = n

(* auth_set_membership_role: a visitor writes any role but their own.      *)
Role_Begin(t) ==
  \E g \in Grants, s \in Sessions, k \in Written, pc \in {"role.grant", "role.count"} :
    /\ "setRole" \in Ops
    /\ Enters(t, g, s, k[1]) /\ k[2] # OwnerOf[s]
    /\ Begin(t, pc, [Idle EXCEPT !.use = g, !.key = k])
    /\ UNCHANGED <<sessions, grants, roles, standing, log, clock>>

Logged(t, line) == tx' = [tx EXCEPT ![t].pc = "commit", ![t].line = line]

RoleBecomes(t, held) ==
  LET k == tx[t].key
  IN /\ Free(roles[k], t)
     /\ roles' = [roles EXCEPT ![k] = Put(@, t, held)]
     /\ Logged(t, IF held THEN "granted" ELSE "revoked")

(* INSERT .. ON CONFLICT DO NOTHING                                        *)
Role_Grant(t) ==
  /\ tx[t].pc = "role.grant" /\ Free(roles[tx[t].key], t)
  /\ IF View(roles[tx[t].key], t)
       THEN Goto(t, "commit") /\ UNCHANGED roles
       ELSE RoleBecomes(t, TRUE)
  /\ UNCHANGED <<sessions, grants, standing, log, clock>>

HoldersOf(t, n) == {m \in Members : View(roles[<<n, m>>], t)}

Role_Count(t) ==
  /\ tx[t].pc = "role.count"
  /\ Cardinality(HoldersOf(t, tx[t].key[1])) > 1
  /\ Goto(t, "role.delete")
  /\ UNCHANGED <<sessions, grants, roles, standing, log, clock>>

(* Mutant of Role_Delete: a line is written though nothing was deleted.    *)
Role_Delete_Logged(t) ==
  /\ tx[t].pc = "role.delete"
  /\ IF View(roles[tx[t].key], t)
       THEN RoleBecomes(t, FALSE)
       ELSE Logged(t, "revoked") /\ UNCHANGED roles
  /\ UNCHANGED <<sessions, grants, standing, log, clock>>

Role_Delete(t) ==
  /\ tx[t].pc = "role.delete"
  /\ IF View(roles[tx[t].key], t)
       THEN RoleBecomes(t, FALSE)
       ELSE Goto(t, "commit") /\ UNCHANGED roles
  /\ UNCHANGED <<sessions, grants, standing, log, clock>>

-----------------------------------------------------------------------------
(* auth_write_standing, by a visitor or by an administrator of the tenant  *)
(* who is in good standing.                                                *)

InCharge(t, n, m) == View(roles[<<n, m>>], t) /\ View(standing[<<n, m>>], t) = "active"

Standing_Begin(t) ==
  \E k \in Written, to \in {"active", "suspended"} :
    /\ "standing" \in Ops
    /\ \/ \E g \in Grants, s \in Sessions : Enters(t, g, s, k[1]) /\ k[2] # OwnerOf[s]
       \/ \E m \in Members \ {k[2]} : InCharge(t, k[1], m)
    /\ Begin(t, IF to = "active" THEN "standing.write" ELSE "standing.count",
             [Idle EXCEPT !.key = k, !.to = to])
    /\ UNCHANGED <<sessions, grants, roles, standing, log, clock>>

Standing_Count(t) ==
  LET n == tx[t].key[1]
  IN /\ tx[t].pc = "standing.count"
     /\ \/ Cardinality({m \in Members : InCharge(t, n, m)}) > 1
        \/ ~View(roles[tx[t].key], t)
     /\ Goto(t, "standing.write")
     /\ UNCHANGED <<sessions, grants, roles, standing, log, clock>>

Standing_Write(t) ==
  LET k == tx[t].key
  IN /\ tx[t].pc = "standing.write" /\ Free(standing[k], t)
     /\ standing' = [standing EXCEPT ![k] = Put(@, t, tx[t].to)]
     /\ Goto(t, "commit")
     /\ UNCHANGED <<sessions, grants, roles, log, clock>>

-----------------------------------------------------------------------------
(* auth_revoke_tenant_grant: the administrator, another one, or one of the *)
(* tenant's own reads the grant, then ends it.                             *)
Close_Read(t) ==
  \E g \in Grants :
    LET v == GrantSeen(t, g)
    IN /\ "closeGrant" \in Ops
       /\ v.status = "open"
       /\ sessions # {} \/ \E m \in Members : InCharge(t, v.tenant, m)
       /\ Begin(t, "close.write", [Idle EXCEPT !.grant = g])
       /\ UNCHANGED <<sessions, grants, roles, standing, log, clock>>

(* Mutant of Close_Write: the row is not looked at again.                  *)
Close_Write_Blind(t) ==
  /\ tx[t].pc = "close.write" /\ Free(grants[tx[t].grant], t)
  /\ grants' = [grants EXCEPT ![tx[t].grant] =
       Put(@, t, [View(@, t) EXCEPT !.status = "closed"])]
  /\ Goto(t, "commit")
  /\ UNCHANGED <<sessions, roles, standing, log, clock>>

Close_Write(t) ==
  /\ tx[t].pc = "close.write"
  /\ End(t, {tx[t].grant}, "closed")
  /\ Goto(t, "commit")
  /\ UNCHANGED <<sessions, roles, standing, log, clock>>

(* revokeSession: the session ends in a transaction of its own; the grants *)
(* bound to it are ended in a second one, which may fail and be forgotten. *)
SignOut(t) ==
  \E s \in sessions :
    /\ "signOut" \in Ops
    /\ sessions' = sessions \ {s}
    /\ Begin(t, "cleanup.scan", [Idle EXCEPT !.session = s])
    /\ UNCHANGED <<grants, roles, standing, log, clock>>

Cleanup_Scan(t) ==
  LET G == {g \in Grants : /\ GrantSeen(t, g).status = "open"
                           /\ GrantSeen(t, g).session = tx[t].session}
  IN /\ tx[t].pc = "cleanup.scan"
     /\ IF G = {} THEN Return(t)
        ELSE \E g \in G : tx' = [tx EXCEPT ![t].pc = "cleanup.row", ![t].grant = g]
     /\ UNCHANGED <<sessions, grants, roles, standing, log, clock>>

Cleanup_Row(t) ==
  /\ tx[t].pc = "cleanup.row"
  /\ End(t, {tx[t].grant}, "session_ended")
  /\ Goto(t, "commit")
  /\ UNCHANGED <<sessions, roles, standing, log, clock>>

Tick == clock < MaxTime /\ clock' = clock + 1 /\ UNCHANGED <<sessions, grants, roles, standing, log, tx>>

Run(t) ==
  \/ Open_Expire(t) \/ Open_Insert(t)
  \/ Role_Begin(t) \/ Role_Grant(t) \/ Role_Count(t) \/ Role_Delete(t)
  \/ Standing_Begin(t) \/ Standing_Count(t) \/ Standing_Write(t)
  \/ Close_Read(t) \/ Close_Write(t)
  \/ SignOut(t) \/ Cleanup_Scan(t) \/ Cleanup_Row(t)
  \/ Commit(t) \/ Rollback(t)

Next == Tick \/ \E t \in Tx : Run(t)

Spec == Init /\ [][Next]_vars

-----------------------------------------------------------------------------
TypeOK ==
  /\ sessions \subseteq Sessions
  /\ grants \in [Grants -> RowsOf(Grant \cup {NoGrant})]
  /\ roles \in [Memberships -> RowsOf(BOOLEAN)]
  /\ standing \in [Memberships -> RowsOf({"active", "suspended"})]
  /\ log \in [Memberships -> Line]
  /\ tx \in [Tx -> Transaction] /\ clock \in 0..MaxTime

(* "Breadth is one tenant at a time": an administrator has one open grant, *)
(* however often they ask for one and from whichever session.              *)
OneOpenGrant ==
  \A g, h \in Grants :
    LET v == grants[g].committed
        w == grants[h].committed
    IN v.status = "open" /\ w.status = "open" /\ AdminOf(v) = AdminOf(w) => g = h

(* "A tenant grant may only be revoked, once, and never altered", by       *)
(* whichever of its closers, the sign-out and the next visit comes first.  *)
GrantsEndOnce ==
  [][\A g \in Grants :
       LET v == grants[g].committed
           w == grants'[g].committed
       IN /\ v.status = "open" => \E s \in {"open", "expired", "closed", "session_ended"} :
                                    w = [v EXCEPT !.status = s]
          /\ v.status \notin {"open", "none"} => w = v]_vars

(* Every role that has changed hands was written under a grant into that   *)
(* very tenant, and not for the visitor themselves.                        *)
RolesByVisitors ==
  \A k \in Memberships :
    LET g == log[k].grant
        v == grants[g].committed
    IN /\ g = Nothing => roles[k].committed = (k[2] \in Founders)
       /\ g # Nothing => v # NoGrant /\ v.tenant = k[1] /\ AdminOf(v) # k[2]

(* The audit log tells who holds which role, whatever was granted and      *)
(* revoked at once: "access that was not logged is not representable".     *)
AuditTellsRoles == \A k \in Memberships : log[k].held = roles[k].committed

(* Every row has its type, every administrator one open grant              *)
(* (OneOpenGrant) and every role its audit line (AuditTellsRoles).         *)
AuditInv == TypeOK /\ OneOpenGrant /\ AuditTellsRoles

(* "A tenant must keep at least one administrator", "never lock out the    *)
(* last active administrator".                                             *)
AdministratorLeft ==
  \A n \in Tenants : \E m \in Members :
    roles[<<n, m>>].committed /\ standing[<<n, m>>].committed = "active"
=============================================================================
