----------------------------- MODULE ItemClaims -----------------------------
(***************************************************************************)
(* Claims on one lost-and-found item (packages/modules/lost-found):        *)
(* confirmClaim and rejectClaim read the claim and the item without a lock *)
(* and then update by id, whatever the rows have become; withdrawing,      *)
(* expiry and the index on open claims look again.  A transaction of one   *)
(* statement is one step, taken when its row is free.                      *)
(*                                                                         *)
(* Posting, photos, claim threads and the report queue are not here; who is*)
(* verified or a moderator is checked before these steps.                  *)
(***************************************************************************)
EXTENDS Integers, FiniteSetsExt, RowStore

CONSTANTS Claimants,  \* the members who claim
          Claims,     \* bound: the rows of lf_claims
          Nothing,    \* no row, or SQL null
          Window,     \* expiryDays
          MaxTime     \* bound: the last day of the clock

VARIABLES item,    \* the row of lf_items
          claims,  \* lf_claims
          told,    \* the last notification of each claim's author
          tx,      \* per connection: the transaction it runs
          clock,
          raced    \* history: the claims of which two decisions at once disagreed

vars == <<item, claims, told, tx, clock, raced>>

ASSUME ClaimsAssumption ==
  /\ Claims \subseteq Nat
  /\ Nothing \notin Claims /\ Nothing \notin Claimants
  /\ Nothing \notin {"approved", "denied", "resolved"}
ASSUME TimesAssumption == {Window, MaxTime} \subseteq Nat

ItemStatus == {"open", "resolved", "withdrawn", "expired", "removed"}
ClaimStatus == {"pending", "approved", "denied", "withdrawn"}

Item ==
  {i \in [status : ItemStatus, via : Claims \cup {Nothing}, expires : Nat] :
     i.status \in {"open", "withdrawn", "expired"} => i.via = Nothing}
Claim == [by : Claimants, status : ClaimStatus]
NoClaim == [by |-> Nothing, status |-> "none"]

Statements == {"confirm.claim", "confirm.item", "confirm.others", "reject.claim",
               "open.insert", "commit"}

(* What a connection remembers: its caller (the reporter is Nothing) and   *)
(* the claim it read.                                                      *)
Transaction == [pc : Statements \cup {"idle"}, user : Claimants \cup {Nothing},
                claim : Claims \cup {Nothing}]

Idle == [pc |-> "idle", user |-> Nothing, claim |-> Nothing]

Init ==
  /\ item = Stored([status |-> "open", via |-> Nothing, expires |-> Window])
  /\ claims = [c \in Claims |-> Stored(NoClaim)]
  /\ told = [c \in Claims |-> Stored(Nothing)]
  /\ tx = [t \in Tx |-> Idle]
  /\ clock = 0
  /\ raced = {}

-----------------------------------------------------------------------------
Goto(t, pc) == tx' = [tx EXCEPT ![t].pc = pc]
Return(t) == tx' = [tx EXCEPT ![t] = Idle]

Commit(t) ==
  /\ tx[t].pc = "commit"
  /\ item' = Published(item, t) /\ claims' = PublishedAll(claims, t)
  /\ told' = PublishedAll(told, t)
  /\ Return(t)
  /\ UNCHANGED <<clock, raced>>

(* The connection dies, a deadlock picks it, or a refusal.                 *)
Rollback(t) ==
  /\ tx[t].pc # "idle"
  /\ item' = Restored(item, t) /\ claims' = RestoredAll(claims, t)
  /\ told' = RestoredAll(told, t)
  /\ Return(t)
  /\ UNCHANGED <<clock, raced>>

(* UPDATE lf_claims of one row, and the notification that goes with it.    *)
Decide(t, C, status, notice) ==
  /\ \A c \in C : Free(claims[c], t)
  /\ claims' = [c \in Claims |->
       IF c \in C THEN Put(claims[c], t, [View(claims[c], t) EXCEPT !.status = status])
       ELSE claims[c]]
  /\ told' = [c \in Claims |-> IF c \in C THEN Put(told[c], t, notice) ELSE told[c]]

-----------------------------------------------------------------------------
(* openClaim: the item is read, then the claim is inserted unless its      *)
(* author has a pending one, in which case nothing happens.                *)

Open_Read(t) ==
  \E u \in Claimants :
    /\ tx[t].pc = "idle"
    /\ View(item, t).status = "open"
    /\ tx' = [tx EXCEPT ![t] = [Idle EXCEPT !.pc = "open.insert", !.user = u]]
    /\ UNCHANGED <<item, claims, told, clock, raced>>

Pending(row, u) == row.by = u /\ row.status = "pending"

(* The entries of lf_claims_one_open_uq an insert of u runs into: committed*)
(* ones, and those a transaction in flight makes or ends.                  *)
Conflicts(t, u) ==
  {c \in Claims : Pending(claims[c].committed, u) \/ Pending(claims[c].written, u)}

Insert(t) ==
  LET fresh == {c \in Claims : claims[c] = Stored(NoClaim)}
  IN /\ tx[t].pc = "open.insert" /\ fresh # {}
     /\ claims' = [claims EXCEPT ![Min(fresh)] =
                     Put(@, t, [by |-> tx[t].user, status |-> "pending"])]
     /\ Goto(t, "commit")
     /\ UNCHANGED <<item, told, clock, raced>>

Open_Insert(t) == Conflicts(t, tx[t].user) = {} /\ Insert(t)

-----------------------------------------------------------------------------
(* confirmClaim                                                            *)

Deciding == {t \in Tx : tx[t].pc # "idle" /\ tx[t].user = Nothing}

(* A transaction that writes the item confirms; the others reject.         *)
ConfirmPCs == {"confirm.claim", "confirm.item", "confirm.others"}
Confirming(t) == tx[t].pc \in ConfirmPCs \/ (tx[t].pc = "commit" /\ item.holder = t)

(* The decisions in progress that disagree with one of claim c: a confirm  *)
(* of another claim with its confirm, a confirm and a reject of the claim. *)
Opposing(c, confirms) ==
  {s \in Deciding : IF tx[s].claim = c THEN Confirming(s) # confirms
                    ELSE Confirming(s) /\ confirms}

(* Mutant of Decidable: decided claims are decided again.                  *)
Decidable_Again(t, c) ==
  /\ tx[t].pc = "idle"
  /\ View(claims[c], t) # NoClaim

Decidable(t, c) ==
  /\ tx[t].pc = "idle"
  /\ View(claims[c], t).status = "pending"

Decides(t, c, pc) ==
  /\ tx' = [tx EXCEPT ![t] = [Idle EXCEPT !.pc = pc, !.claim = c]]
  /\ raced' = raced \cup UNION {{c, tx[s].claim} : s \in Opposing(c, pc = "confirm.claim")}
  /\ UNCHANGED <<item, claims, told, clock>>

(* Mutant of Confirm_Read: the item's status is not looked at.             *)
Confirm_Read_AnyItem(t) ==
  \E c \in Claims : Decidable(t, c) /\ Decides(t, c, "confirm.claim")

Confirm_Read(t) ==
  \E c \in Claims :
    Decidable(t, c) /\ View(item, t).status = "open" /\ Decides(t, c, "confirm.claim")

Confirm_Claim(t) ==
  /\ tx[t].pc = "confirm.claim"
  /\ Decide(t, {tx[t].claim}, "approved", "approved")
  /\ Goto(t, "confirm.item")
  /\ UNCHANGED <<item, clock, raced>>

Confirm_Item(t) ==
  /\ tx[t].pc = "confirm.item"
  /\ Free(item, t)
  /\ item' = Put(item, t, [View(item, t) EXCEPT !.status = "resolved", !.via = tx[t].claim])
  /\ Goto(t, "confirm.others")
  /\ UNCHANGED <<claims, told, clock, raced>>

Others(t) ==
  {c \in Claims \ {tx[t].claim} : View(claims[c], t).status = "pending"}

Confirm_Others(t) ==
  /\ tx[t].pc = "confirm.others"
  /\ Decide(t, Others(t), "denied", "resolved")
  /\ Goto(t, "commit")
  /\ UNCHANGED <<item, clock, raced>>

(* rejectClaim, on an item of any status.                                  *)
Reject_Read(t) == \E c \in Claims : Decidable(t, c) /\ Decides(t, c, "reject.claim")

(* Mutant of Reject_Claim: the claimant is not told.                       *)
Reject_Claim_Silent(t) ==
  /\ tx[t].pc = "reject.claim"
  /\ Decide(t, {tx[t].claim}, "denied", Nothing)
  /\ Goto(t, "commit")
  /\ UNCHANGED <<item, clock, raced>>

Reject_Claim(t) ==
  /\ tx[t].pc = "reject.claim"
  /\ Decide(t, {tx[t].claim}, "denied", "denied")
  /\ Goto(t, "commit")
  /\ UNCHANGED <<item, clock, raced>>

-----------------------------------------------------------------------------
(* Transactions of one statement                                           *)

WithdrawClaim(t) ==
  \E c \in Claims :
    /\ tx[t].pc = "idle"
    /\ View(claims[c], t).status = "pending" /\ Free(claims[c], t)
    /\ claims' = [claims EXCEPT ![c] = Stored([@.committed EXCEPT !.status = "withdrawn"])]
    /\ UNCHANGED <<item, told, tx, clock, raced>>

(* withdrawItem, extendItem and expireOpenItems change an open item only;  *)
(* removeItem an item of any status.                                       *)
ItemBecomes(t, new) ==
  /\ tx[t].pc = "idle" /\ Free(item, t)
  /\ item' = Stored(new)
  /\ UNCHANGED <<claims, told, tx, clock, raced>>

WithdrawItem(t) ==
  /\ View(item, t).status = "open"
  /\ ItemBecomes(t, [item.committed EXCEPT !.status = "withdrawn"])

ExtendItem(t) ==
  /\ View(item, t).status = "open"
  /\ ItemBecomes(t, [item.committed EXCEPT !.expires = clock + Window])

ExpireItem(t) ==
  /\ View(item, t).status = "open" /\ View(item, t).expires <= clock
  /\ ItemBecomes(t, [item.committed EXCEPT !.status = "expired"])

RemoveItem(t) == ItemBecomes(t, [item.committed EXCEPT !.status = "removed"])

Tick == clock < MaxTime /\ clock' = clock + 1 /\ UNCHANGED <<item, claims, told, tx, raced>>

Run(t) ==
  \/ Open_Read(t) \/ Open_Insert(t)
  \/ Confirm_Read(t) \/ Confirm_Claim(t) \/ Confirm_Item(t) \/ Confirm_Others(t)
  \/ Reject_Read(t) \/ Reject_Claim(t) \/ WithdrawClaim(t)
  \/ WithdrawItem(t) \/ ExtendItem(t) \/ ExpireItem(t) \/ RemoveItem(t)
  \/ Commit(t) \/ Rollback(t)

Next == Tick \/ \E t \in Tx : Run(t)

Spec == Init /\ [][Next]_vars

-----------------------------------------------------------------------------
TypeOK ==
  /\ item \in RowsOf(Item)
  /\ claims \in [Claims -> RowsOf(Claim \cup {NoClaim})]
  /\ told \in [Claims -> RowsOf({"approved", "denied", "resolved", Nothing})]
  /\ tx \in [Tx -> Transaction] /\ clock \in 0..MaxTime
  /\ raced \in SUBSET Claims

(* A person has one pending claim on the item, however often the form is   *)
(* sent (lf_claims_one_open_uq).                                           *)
OnePending ==
  \A c, d \in Claims : \A u \in Claimants :
    Pending(claims[c].committed, u) /\ Pending(claims[d].committed, u) => c = d

(* The item is given to one person: the claim it was resolved by is the    *)
(* approved one and the only one, although its author may be withdrawing   *)
(* it, others claiming, a moderator or the sweep closing the item, and the *)
(* reporter confirming it again or rejecting others, while the reporter    *)
(* confirms.  Only decisions at once that disagree are beyond it.          *)
GivenOnce ==
  \A c \in Claims \ raced :
    LET approved == claims[c].committed.status = "approved"
    IN /\ approved = (item.committed.via = c)
       /\ approved => \A d \in Claims \ {c} : claims[d].committed.status # "approved"

(* Every row has its type, everybody one pending claim (OnePending), and   *)
(* the item one taker (GivenOnce).                                         *)
GivenInv == TypeOK /\ OnePending /\ GivenOnce

(* A decision of the reporter is final ...                                 *)
DecisionsStand ==
  [][\A c \in Claims \ raced :
       claims[c].committed.status \in {"approved", "denied"}
         => claims'[c].committed = claims[c].committed]_vars

(* ... and known: whoever's claim the reporter decided was told how, also  *)
(* those who lost to another claim.                                        *)
DecidedAreTold ==
  \A c \in Claims :
    /\ (claims[c].committed.status = "approved") = (told[c].committed = "approved")
    /\ (claims[c].committed.status = "denied") = (told[c].committed \in {"denied", "resolved"})
=============================================================================
