-------------------------- MODULE ItemClaimsProofs --------------------------
(***************************************************************************)
(* Theorems about ItemClaims for every number of claimants, claims and     *)
(* connections, however the reporter's decisions overlap: whoever was      *)
(* decided is told, everybody has one pending claim, the item is given once*)
(* and a decision stands, but for the claims of decisions that disagreed   *)
(* while both were in progress (raced), since confirmClaim and rejectClaim *)
(* do not look again at the claim they read.                               *)
(*                                                                         *)
(* What the two do not check again stays true for lack of anybody who would*)
(* change it: who else decides a claim read pending is in progress with    *)
(* this decision, and agrees with it or is remembered; and so is who gives *)
(* the item to another claim.                                              *)
(***************************************************************************)
EXTENDS ItemClaims, RowStoreProofs

Moves == Claim \X Claim

(* The keys of lf_claims_one_open_uq.                                      *)
PendingClaims(u) == {v \in Claim : Pending(v, u)}

(* What a claimant whose claim is v was told.                              *)
Tells(v, notice) ==
  /\ v.status = "approved" <=> notice = "approved"
  /\ v.status = "denied" <=> notice \in {"denied", "resolved"}

Notices == {"approved", "denied", "resolved", Nothing}

ClaimsInv ==
  /\ claims = [c \in Claims |-> claims[c]]
  /\ \A c \in Claims : RowInv(claims[c], Claim, Moves, NoClaim)

IndexInv ==
  \A u \in Claimants : \A c, d \in Claims :
    c # d => OneEntry(claims[c], claims[d], PendingClaims(u))

(* A notification is written by whoever decides its claim.                 *)
Heard(row, notice) ==
  /\ Tells(row.committed, notice.committed)
  /\ Tells(row.written, notice.written)
  /\ notice.holder \in {NoTx, row.holder}
  /\ Quiet(notice)

ToldInv ==
  /\ told \in [Claims -> RowsOf(Notices)]
  /\ \A c \in Claims : Heard(claims[c], told[c])

ItemInv == item \in RowsOf(Item) /\ Quiet(item) /\ clock \in 0..MaxTime

(* What a connection knows, and what it holds.                             *)
TxInv(t) ==
  /\ tx[t].pc = "open.insert" => tx[t].user \in Claimants
  /\ tx[t].pc \in ConfirmPCs \cup {"reject.claim"} => tx[t].user = Nothing /\ tx[t].claim \in Claims
  /\ tx[t].pc \in {"confirm.claim", "reject.claim"} => claims[tx[t].claim].committed \in Claim
  /\ tx[t].pc \in {"idle", "open.insert", "confirm.claim", "reject.claim"}
       => item.holder # t /\ \A c \in Claims : claims[c].holder # t

Inv ==
  /\ ClaimsInv /\ IndexInv /\ ToldInv /\ ItemInv
  /\ tx \in [Tx -> Transaction]
  /\ \A t \in Tx : TxInv(t)

-----------------------------------------------------------------------------
(* What was decided, by decisions that agree.                              *)

Approving(t) ==
  /\ claims[tx[t].claim].holder = t
  /\ claims[tx[t].claim].written.status = "approved"

(* What t has written over a claim: its own, or a decision.                *)
Written(t, c) ==
  \/ tx[t].user # Nothing /\ claims[c].committed = NoClaim /\ claims[c].written.status = "pending"
  \/ /\ tx[t].user = Nothing /\ claims[c].written.status = "approved"
     /\ c = tx[t].claim /\ Confirming(t)
  \/ /\ tx[t].user = Nothing /\ claims[c].written.status = "denied"
     /\ Confirming(t) <=> c # tx[t].claim

HoldsInv(t) ==
  /\ t \in Deciding => tx[t].claim \in Claims
  /\ tx[t].pc = "confirm.others" => item.holder = t
  /\ tx[t].pc \in {"confirm.item", "confirm.others"} => Approving(t)
  /\ item.holder = t => /\ tx[t].pc \in {"confirm.others", "commit"} /\ tx[t].user = Nothing
                        /\ Approving(t) /\ item.written.via = tx[t].claim
  /\ \A c \in Claims : claims[c].holder = t => Written(t, c)

(* What a decision read and does not check again.                          *)
ReadInv(t) ==
  t \in Deciding =>
    /\ ~Confirming(t) /\ tx[t].claim \notin raced
         => claims[tx[t].claim].committed.status # "approved"
    /\ Confirming(t) => item.committed.via \in {Nothing, tx[t].claim} \cup raced
    /\ Confirming(t) /\ tx[t].claim \notin raced
         => /\ claims[tx[t].claim].committed.status # "denied"
            /\ \A d \in Claims \ {tx[t].claim} : claims[d].committed.status # "approved"

(* Decisions in progress that disagree are remembered.                     *)
Disagree(s, t) ==
  \/ tx[s].claim = tx[t].claim /\ ~(Confirming(s) <=> Confirming(t))
  \/ tx[s].claim # tx[t].claim /\ Confirming(s) /\ Confirming(t)

RacedInv ==
  /\ raced \in SUBSET Claims
  /\ \A s, t \in Deciding : Disagree(s, t) => tx[s].claim \in raced

(* A decided claim is at most written again as it was.                     *)
Settled ==
  \A c \in Claims \ raced :
    claims[c].committed.status \in {"approved", "denied"}
      => claims[c].written = claims[c].committed

Taken ==
  \A c \in Claims : claims[c].committed.status = "approved" => item.committed.via # Nothing

StrongInv ==
  /\ Inv /\ RacedInv /\ Settled /\ Taken /\ GivenOnce
  /\ \A t \in Tx : HoldsInv(t) /\ ReadInv(t)

-----------------------------------------------------------------------------
(* Types, and what a step of transaction t does.                           *)

LEMMA ClaimTypes ==
  /\ NoClaim \notin Claim /\ NoClaim.status = "none"
  /\ \A v \in Claim : v.status \in ClaimStatus /\ v.by \in Claimants
  /\ \A v \in Claim, s \in ClaimStatus : /\ [v EXCEPT !.status = s] \in Claim
                                         /\ [v EXCEPT !.status = s].status = s
<1>1. NoClaim \notin Claim /\ NoClaim.status = "none"
  BY ClaimsAssumption DEF Claim, NoClaim
<1>2. \A v \in Claim : v.status \in ClaimStatus /\ v.by \in Claimants
  BY DEF Claim
<1>3. \A v \in Claim, s \in ClaimStatus : /\ [v EXCEPT !.status = s] \in Claim
                                          /\ [v EXCEPT !.status = s].status = s
  BY DEF Claim
<1> QED
  BY <1>1, <1>2, <1>3

LEMMA MovesOrder ==
  /\ \A v \in Claim : <<v, v>> \in Moves
  /\ \A u, v, w \in Claim : <<u, v>> \in Moves /\ <<v, w>> \in Moves => <<u, w>> \in Moves
  /\ \A v, w \in Claim : <<v, w>> \in Moves
  BY DEF Moves

LEMMA IdleType == Idle \in Transaction /\ Idle.pc = "idle" /\ Idle.user = Nothing
  BY DEF Idle, Transaction

LEMMA GotoType ==
  ASSUME Inv, NEW t \in Tx, NEW pc \in Statements
  PROVE  LET x == [tx[t] EXCEPT !.pc = pc]
         IN x \in Transaction /\ x.pc = pc /\ x.user = tx[t].user /\ x.claim = tx[t].claim
  BY DEF Inv, Transaction

(* A statement of a transaction, its end, or a transaction of one statement*)
ClaimChange(row, new, t) ==
  \/ RowChange(row, new, t, Claim, Moves)
  \/ row.holder = NoTx /\ row.committed \in Claim /\ \E v \in Claim : new = Stored(v)

LEMMA ClaimChanged ==
  ASSUME NEW t \in Tx, NEW row, NEW new, ClaimChange(row, new, t),
         RowInv(row, Claim, Moves, NoClaim)
  PROVE  /\ RowInv(new, Claim, Moves, NoClaim)
         /\ row.committed \in Claim => new.committed \in Claim
         /\ \A s \in Tx \ {t} : /\ new.holder = s <=> row.holder = s
                                /\ row.holder = s => new = row
<1>1. CASE RowChange(row, new, t, Claim, Moves)
  BY <1>1, MovesOrder, RowPreserved, CommittedKept, OthersRow
<1>2. ASSUME NEW v \in Claim, new = Stored(v), row.holder = NoTx
      PROVE  /\ RowInv(new, Claim, Moves, NoClaim)
             /\ row.committed \in Claim => new.committed \in Claim
             /\ \A s \in Tx \ {t} : /\ new.holder = s <=> row.holder = s
                                    /\ row.holder = s => new = row
  BY <1>2, MovesOrder, NoTxAssumption DEF RowInv, RowsOf, Stored
<1> QED
  BY <1>1, <1>2 DEF ClaimChange

ClaimsStep(t) ==
  /\ claims' = [c \in Claims |-> claims'[c]]
  /\ \A c \in Claims : ClaimChange(claims[c], claims'[c], t)
  /\ IndexInv' /\ ToldInv'

ItemStep(t) ==
  /\ ItemInv'
  /\ \A s \in Tx \ {t} : /\ item'.holder = s <=> item.holder = s
                         /\ item.holder = s => item' = item

TxStep(t) ==
  /\ tx' \in [Tx -> Transaction]
  /\ \A s \in Tx \ {t} : tx'[s] = tx[s]
  /\ TxInv(t)'

LEMMA OthersClaim ==
  ASSUME Inv, NEW t \in Tx, ClaimsStep(t), NEW c \in Claims
  PROVE  /\ claims[c].committed \in Claim => claims'[c].committed \in Claim
         /\ \A s \in Tx \ {t} : /\ claims'[c].holder = s <=> claims[c].holder = s
                                /\ claims[c].holder = s => claims'[c] = claims[c]
  BY ClaimChanged DEF Inv, ClaimsInv, ClaimsStep

LEMMA StepPreservesInv ==
  ASSUME Inv, NEW t \in Tx, ClaimsStep(t), ItemStep(t), TxStep(t)
  PROVE  Inv'
<1>1. ClaimsInv'
  <2>1. ASSUME NEW c \in Claims PROVE RowInv(claims'[c], Claim, Moves, NoClaim)
    BY ClaimChanged DEF Inv, ClaimsInv, ClaimsStep
  <2> QED
    BY <2>1 DEF ClaimsInv, ClaimsStep
<1>2. ASSUME NEW s \in Tx PROVE TxInv(s)'
  <2>1. CASE s = t
    BY <2>1 DEF TxStep
  <2>2. CASE s # t
    <3>1. tx'[s] = tx[s] /\ TxInv(s)
      BY <2>2 DEF TxStep, Inv
    <3>2. \A c \in Claims : /\ claims[c].committed \in Claim => claims'[c].committed \in Claim
                            /\ claims'[c].holder = s => claims[c].holder = s
      BY <2>2, OthersClaim
    <3>3. item'.holder = s => item.holder = s
      BY <2>2 DEF ItemStep
    <3> QED
      BY <3>1, <3>2, <3>3 DEF TxInv, ConfirmPCs
  <2> QED
    BY <2>1, <2>2
<1> QED
  BY <1>1, <1>2 DEF Inv, ClaimsStep, ItemStep, TxStep

LEMMA InvInit == Init => Inv
<1> SUFFICES ASSUME Init PROVE Inv
  OBVIOUS
<1>1. \A c \in Claims : /\ claims[c].committed = NoClaim /\ claims[c].written = NoClaim
                        /\ claims[c].holder = NoTx /\ told[c].holder = NoTx
                        /\ told[c].committed = Nothing /\ told[c].written = Nothing
  BY DEF Init, Stored
<1>2. ClaimsInv
  <2>1. \A c \in Claims : claims[c] \in RowsOf(Claim \cup {NoClaim})
    BY DEF Init, Stored, RowsOf
  <2> QED
    BY <1>1, <2>1, ClaimTypes DEF ClaimsInv, RowInv, Init
<1>3. IndexInv
  BY <1>1, ClaimTypes DEF IndexInv, OneEntry, PendingClaims
<1>4. ToldInv
  <2>1. told \in [Claims -> RowsOf(Notices)]
    BY DEF Init, Stored, RowsOf, Notices
  <2>2. Tells(NoClaim, Nothing)
    BY ClaimsAssumption, ClaimTypes DEF Tells
  <2> QED
    BY <1>1, <2>1, <2>2 DEF ToldInv, Heard, Quiet
<1>5. ItemInv /\ item.holder = NoTx
  <2>1. [status |-> "open", via |-> Nothing, expires |-> Window] \in Item
    BY TimesAssumption DEF Item, ItemStatus
  <2> QED
    BY <2>1, TimesAssumption DEF ItemInv, Init, Stored, RowsOf, Quiet
<1>6. tx \in [Tx -> Transaction] /\ \A t \in Tx : TxInv(t)
  BY <1>1, <1>5, IdleType, NoTxAssumption DEF TxInv, Init, ConfirmPCs
<1> QED
  BY <1>2, <1>3, <1>4, <1>5, <1>6 DEF Inv

-----------------------------------------------------------------------------
(* The shapes of step the actions are made of.                             *)

LEMMA QuietClaims == Inv => \A c \in Claims : Quiet(claims[c])
  BY DEF Inv, ClaimsInv, RowInv, Quiet

LEMMA SameClaims ==
  ASSUME Inv, NEW t \in Tx, UNCHANGED <<claims, told>> PROVE ClaimsStep(t)
<1>1. IndexInv' /\ ToldInv'
  BY DEF Inv, IndexInv, ToldInv
<1> QED
  BY <1>1 DEF Inv, ClaimsInv, ClaimsStep, ClaimChange, RowChange

LEMMA SameItem == ASSUME Inv, NEW t \in Tx, UNCHANGED <<item, clock>> PROVE ItemStep(t)
  BY DEF Inv, ItemInv, ItemStep

(* A step that changes what t does next.                                   *)
LEMMA TxMoves ==
  ASSUME Inv, NEW t \in Tx, NEW x \in Transaction, tx' = [tx EXCEPT ![t] = x]
  PROVE  tx' \in [Tx -> Transaction] /\ tx'[t] = x /\ \A s \in Tx \ {t} : tx'[s] = tx[s]
  BY DEF Inv

(* The claims a statement decides are rows.                                *)
LEMMA DecidedRows ==
  ASSUME Inv, NEW t \in Tx
  PROVE  /\ tx[t].pc \in {"confirm.claim", "reject.claim"}
              => View(claims[tx[t].claim], t) \in Claim
         /\ \A c \in Claims : View(claims[c], t).status = "pending" => View(claims[c], t) \in Claim
<1>1. tx[t].pc \in {"confirm.claim", "reject.claim"} => View(claims[tx[t].claim], t) \in Claim
  BY DEF Inv, TxInv, View, ConfirmPCs
<1>2. \A c \in Claims : View(claims[c], t).status = "pending" => View(claims[c], t) \in Claim
  BY ClaimTypes DEF Inv, ClaimsInv, RowInv, RowsOf, View
<1> QED
  BY <1>1, <1>2

LEMMA ReadsStep ==
  ASSUME Inv, NEW t \in Tx, Open_Read(t) \/ Confirm_Read(t) \/ Reject_Read(t)
  PROVE  Inv'
<1>1. PICK x \in Transaction :
        /\ tx' = [tx EXCEPT ![t] = x]
        /\ \/ x.pc = "open.insert" /\ x.user \in Claimants
           \/ /\ x.pc \in {"confirm.claim", "reject.claim"}
              /\ x.user = Nothing /\ x.claim \in Claims /\ claims[x.claim].committed \in Claim
  <2>1. CASE Open_Read(t)
    <3>1. PICK u \in Claimants : tx' = [tx EXCEPT ![t] = [Idle EXCEPT !.pc = "open.insert", !.user = u]]
      BY <2>1 DEF Open_Read
    <3>2. /\ [Idle EXCEPT !.pc = "open.insert", !.user = u] \in Transaction
          /\ [Idle EXCEPT !.pc = "open.insert", !.user = u].pc = "open.insert"
          /\ [Idle EXCEPT !.pc = "open.insert", !.user = u].user = u
      BY DEF Idle, Transaction, Statements
    <3> QED
      BY <3>1, <3>2
  <2>2. CASE Confirm_Read(t) \/ Reject_Read(t)
    <3>1. PICK c \in Claims, pc \in {"confirm.claim", "reject.claim"} :
            /\ tx' = [tx EXCEPT ![t] = [Idle EXCEPT !.pc = pc, !.claim = c]]
            /\ tx[t].pc = "idle" /\ View(claims[c], t).status = "pending"
      BY <2>2 DEF Confirm_Read, Reject_Read, Decidable, Decides
    <3>2. /\ [Idle EXCEPT !.pc = pc, !.claim = c] \in Transaction
          /\ [Idle EXCEPT !.pc = pc, !.claim = c].pc = pc
          /\ [Idle EXCEPT !.pc = pc, !.claim = c].user = Nothing
          /\ [Idle EXCEPT !.pc = pc, !.claim = c].claim = c
      BY DEF Idle, Transaction, Statements
    <3>3. claims[c].committed \in Claim
      <4>1. View(claims[c], t) = claims[c].committed
        BY <3>1 DEF Inv, TxInv, View
      <4> QED
        BY <3>1, <4>1, DecidedRows
    <3> QED
      BY <3>1, <3>2, <3>3
  <2> QED
    BY <2>1, <2>2
<1>2. UNCHANGED <<item, claims, told, clock>> /\ tx[t].pc = "idle"
  BY DEF Open_Read, Confirm_Read, Reject_Read, Decidable, Decides
<1>3. TxStep(t)
  <2>1. TxInv(t)'
    BY <1>1, <1>2, TxMoves DEF Inv, TxInv, ConfirmPCs
  <2> QED
    BY <1>1, <2>1, TxMoves DEF TxStep
<1> QED
  BY <1>2, <1>3, SameClaims, SameItem, StepPreservesInv

(* Rows of the claims are decided, and their authors told.                 *)
LEMMA DecideClaims ==
  ASSUME Inv, NEW t \in Tx, NEW C \in SUBSET Claims, NEW status, NEW notice,
         \/ status = "approved" /\ notice = "approved"
         \/ status = "denied" /\ notice \in {"denied", "resolved"},
         \A c \in C : View(claims[c], t) \in Claim, Decide(t, C, status, notice)
  PROVE  ClaimsStep(t)
<1> DEFINE new(c) == [View(claims[c], t) EXCEPT !.status = status]
<1>1. /\ \A c \in C : /\ Free(claims[c], t) /\ claims'[c] = Put(claims[c], t, new(c))
                      /\ told'[c] = Put(told[c], t, notice)
      /\ \A c \in Claims \ C : claims'[c] = claims[c] /\ told'[c] = told[c]
      /\ claims' = [c \in Claims |-> claims'[c]] /\ told' = [c \in Claims |-> told'[c]]
  BY DEF Decide
<1>2. \A c \in C : new(c) \in Claim /\ new(c).status = status
  <2>1. status \in ClaimStatus
    BY DEF ClaimStatus
  <2> QED
    BY <2>1, ClaimTypes
<1> HIDE DEF new
<1>3. \A c \in Claims : ClaimChange(claims[c], claims'[c], t)
  BY <1>1, <1>2, MovesOrder DEF ClaimChange, RowChange
<1>4. IndexInv'
  <2>1. ASSUME NEW u \in Claimants, NEW c \in Claims
        PROVE  Touches(claims[c], claims'[c], t, PendingClaims(u))
    BY <1>1, <1>2 DEF Touches, PendingClaims, Pending
  <2> QED
    BY <2>1, QuietClaims, EntryTouched DEF IndexInv, Inv
<1>5. ToldInv'
  <2>1. ASSUME NEW c \in Claims PROVE told'[c] \in RowsOf(Notices) /\ Heard(claims'[c], told'[c])
    <3>1. told[c] \in RowsOf(Notices) /\ Heard(claims[c], told[c])
      BY DEF Inv, ToldInv
    <3>2. CASE c \in C
      <4>1. /\ claims'[c].committed = claims[c].committed /\ claims'[c].written = new(c)
            /\ claims'[c].holder = t
            /\ told'[c].committed = told[c].committed /\ told'[c].written = notice
            /\ told'[c].holder = t /\ told'[c] \in RowsOf(Notices)
        <5>1. claims'[c] = Put(claims[c], t, new(c)) /\ told'[c] = Put(told[c], t, notice)
          BY <1>1, <3>2
        <5>2. notice \in Notices
          BY DEF Notices
        <5>3. told'[c] \in RowsOf(Notices)
          BY <3>1, <5>1, <5>2, PutTyped
        <5> QED
          BY <5>1, <5>3 DEF Put
      <4>2. Tells(new(c), notice)
        BY <1>2, <3>2 DEF Tells
      <4> QED
        BY <3>1, <4>1, <4>2, NoTxAssumption DEF Heard, Quiet
    <3>3. CASE c \notin C
      BY <1>1, <3>1, <3>3
    <3> QED
      BY <3>2, <3>3
  <2> QED
    BY <1>1, <2>1 DEF ToldInv
<1> QED
  BY <1>1, <1>3, <1>4, <1>5 DEF ClaimsStep

LEMMA DecisionClaims ==
  ASSUME Inv, NEW t \in Tx, Confirm_Claim(t) \/ Confirm_Others(t) \/ Reject_Claim(t)
  PROVE  ClaimsStep(t)
<1>1. CASE Confirm_Claim(t) \/ Reject_Claim(t)
  <2> DEFINE C == {tx[t].claim}
  <2>1. C \in SUBSET Claims /\ \A c \in C : View(claims[c], t) \in Claim
    BY <1>1, DecidedRows DEF Confirm_Claim, Reject_Claim, Inv, TxInv, ConfirmPCs
  <2>2. Decide(t, C, "approved", "approved") \/ Decide(t, C, "denied", "denied")
    BY <1>1 DEF Confirm_Claim, Reject_Claim
  <2> HIDE DEF C
  <2> QED
    BY <2>1, <2>2, DecideClaims
<1>2. CASE Confirm_Others(t)
  <2> DEFINE C == Others(t)
  <2>1. C \in SUBSET Claims /\ \A c \in C : View(claims[c], t) \in Claim
    BY DecidedRows DEF Others
  <2>2. Decide(t, C, "denied", "resolved")
    BY <1>2 DEF Confirm_Others
  <2> HIDE DEF C
  <2> QED
    BY <2>1, <2>2, DecideClaims
<1> QED
  BY <1>1, <1>2

(* A decision goes on with the claim it read, to a statement that looks at *)
(* it no more.                                                             *)
LEMMA DecisionTx ==
  ASSUME Inv, NEW t \in Tx,
         Confirm_Claim(t) \/ Confirm_Item(t) \/ Confirm_Others(t) \/ Reject_Claim(t)
  PROVE  /\ TxStep(t) /\ tx[t].claim \in Claims /\ tx'[t].claim = tx[t].claim
         /\ tx[t].user = Nothing /\ tx'[t].user = Nothing
         /\ Confirm_Claim(t) => tx'[t].pc = "confirm.item"
         /\ Confirm_Item(t) => tx'[t].pc = "confirm.others"
         /\ Confirm_Others(t) \/ Reject_Claim(t) => tx'[t].pc = "commit"
<1>1. tx[t].user = Nothing /\ tx[t].claim \in Claims
  BY DEF Confirm_Claim, Confirm_Item, Confirm_Others, Reject_Claim, Inv, TxInv, ConfirmPCs
<1>2. PICK pc \in {"confirm.item", "confirm.others", "commit"} :
        /\ Goto(t, pc)
        /\ Confirm_Claim(t) => pc = "confirm.item"
        /\ Confirm_Item(t) => pc = "confirm.others"
        /\ Confirm_Others(t) \/ Reject_Claim(t) => pc = "commit"
  BY DEF Confirm_Claim, Confirm_Item, Confirm_Others, Reject_Claim
<1>3. PICK x \in Transaction : tx' = [tx EXCEPT ![t] = x] /\ x.pc = pc /\ x.user = tx[t].user
                               /\ x.claim = tx[t].claim
  BY <1>2, GotoType DEF Goto, Statements
<1>4. tx' \in [Tx -> Transaction] /\ tx'[t] = x /\ \A s \in Tx \ {t} : tx'[s] = tx[s]
  BY <1>3, TxMoves
<1>5. TxInv(t)'
  BY <1>1, <1>3, <1>4 DEF TxInv, ConfirmPCs
<1> QED
  BY <1>1, <1>2, <1>3, <1>4, <1>5 DEF TxStep

LEMMA DecisionStep ==
  ASSUME Inv, NEW t \in Tx, Confirm_Claim(t) \/ Confirm_Others(t) \/ Reject_Claim(t)
  PROVE  Inv'
<1>1. UNCHANGED <<item, clock>>
  BY DEF Confirm_Claim, Confirm_Others, Reject_Claim
<1> QED
  BY <1>1, DecisionTx, DecisionClaims, SameItem, StepPreservesInv

LEMMA InsertClaims == ASSUME Inv, NEW t \in Tx, Open_Insert(t) PROVE ClaimsStep(t)
<1> DEFINE u == tx[t].user
           new == [by |-> u, status |-> "pending"]
<1>1. PICK c \in Claims :
        claims[c] = Stored(NoClaim) /\ claims' = [claims EXCEPT ![c] = Put(claims[c], t, new)]
  <2> DEFINE fresh == {d \in Claims : claims[d] = Stored(NoClaim)}
  <2>1. Min(fresh) \in fresh
    <3>1. fresh \in SUBSET Nat /\ fresh # {}
      BY ClaimsAssumption DEF Open_Insert, Insert
    <3> HIDE DEF fresh
    <3> QED
      BY <3>1, LeastFree
  <2> QED
    BY <2>1 DEF Open_Insert, Insert
<1>2. UNCHANGED told /\ Conflicts(t, u) = {} /\ u \in Claimants
  BY DEF Open_Insert, Insert, Inv, TxInv
<1>3. new \in Claim /\ new.status = "pending"
  BY <1>2 DEF Claim, ClaimStatus
<1> HIDE DEF new, u
<1>4. /\ claims'[c] = Put(claims[c], t, new)
      /\ \A d \in Claims \ {c} : claims'[d] = claims[d]
      /\ claims' = [d \in Claims |-> claims'[d]]
  BY <1>1 DEF Inv, ClaimsInv
<1>5. claims[c].committed = NoClaim /\ claims[c].written = NoClaim /\ claims[c].holder = NoTx
  BY <1>1 DEF Stored
<1>6. \A d \in Claims : ClaimChange(claims[d], claims'[d], t)
  <2>1. ClaimChange(claims[c], claims'[c], t)
    BY <1>3, <1>4, <1>5, MovesOrder, ClaimTypes, NoTxAssumption
       DEF ClaimChange, RowChange, Free, View
  <2> QED
    BY <1>4, <2>1 DEF ClaimChange, RowChange
<1>7. IndexInv'
  <2> SUFFICES ASSUME NEW a \in Claimants, NEW d \in Claims, d # c
               PROVE  /\ OneEntry(claims'[c], claims'[d], PendingClaims(a))
                      /\ OneEntry(claims'[d], claims'[c], PendingClaims(a))
    BY <1>4 DEF IndexInv, Inv
  <2>1. OneEntry(claims'[c], claims'[d], PendingClaims(a))
    <3>1. CASE a = u
      <4>1. claims[d].committed \notin PendingClaims(a) /\ claims[d].written \notin PendingClaims(a)
        BY <1>2, <3>1 DEF Conflicts, PendingClaims
      <4>2. claims[c].committed \notin PendingClaims(a)
        BY <1>5, ClaimTypes DEF PendingClaims
      <4> QED
        BY <1>4, <4>1, <4>2, QuietClaims, EntryMade DEF View
    <3>2. CASE a # u
      <4>1. new \notin PendingClaims(a)
        BY <3>2 DEF PendingClaims, Pending, new
      <4>2. Touches(claims[c], claims'[c], t, PendingClaims(a))
        BY <1>4, <1>5, <4>1 DEF Touches, Free
      <4>3. Touches(claims[d], claims'[d], t, PendingClaims(a))
        BY <1>4 DEF Touches
      <4> QED
        BY <4>2, <4>3, QuietClaims, EntryTouched DEF Inv, IndexInv
    <3> QED
      BY <3>1, <3>2
  <2> QED
    BY <2>1, EntrySymmetry
<1>8. ToldInv'
  <2>1. Heard(claims'[c], told[c])
    <3>1. Heard(claims[c], told[c])
      BY DEF Inv, ToldInv
    <3>2. claims'[c].committed = NoClaim /\ claims'[c].written = new /\ claims'[c].holder = t
      BY <1>4, <1>5 DEF Put
    <3> QED
      BY <1>3, <1>5, <3>1, <3>2, ClaimTypes DEF Heard, Tells
  <2> QED
    BY <1>2, <1>4, <2>1 DEF ToldInv, Inv
<1> QED
  BY <1>4, <1>6, <1>7, <1>8 DEF ClaimsStep

LEMMA Open_InsertStep == ASSUME Inv, NEW t \in Tx, Open_Insert(t) PROVE Inv'
<1>1. PICK x \in Transaction : tx' = [tx EXCEPT ![t] = x] /\ x.pc = "commit"
  BY GotoType DEF Open_Insert, Insert, Goto, Statements
<1>2. UNCHANGED <<item, clock>>
  BY DEF Open_Insert, Insert
<1>3. TxStep(t)
  <2>1. TxInv(t)'
    BY <1>1, TxMoves DEF TxInv, ConfirmPCs
  <2> QED
    BY <1>1, <2>1, TxMoves DEF TxStep
<1> QED
  BY <1>2, <1>3, InsertClaims, SameItem, StepPreservesInv

(* confirmClaim's second statement, over whatever the item has become.     *)
LEMMA Confirm_ItemItem ==
  ASSUME Inv, NEW t \in Tx, Confirm_Item(t)
  PROVE  /\ ItemStep(t) /\ item'.holder = t /\ item'.committed = item.committed
         /\ item'.written.via = tx[t].claim
<1> DEFINE new == [View(item, t) EXCEPT !.status = "resolved", !.via = tx[t].claim]
<1>1. new \in Item /\ new.via = tx[t].claim
  <2>1. tx[t].claim \in Claims /\ View(item, t) \in Item
    BY DEF Confirm_Item, Inv, TxInv, ConfirmPCs, ItemInv, RowsOf, View
  <2> QED
    BY <2>1 DEF Item, ItemStatus
<1>2. item' = Put(item, t, new) /\ Free(item, t) /\ clock' = clock
  BY DEF Confirm_Item
<1> HIDE DEF new
<1>3. item' \in RowsOf(Item)
  BY <1>1, <1>2, PutTyped DEF Inv, ItemInv
<1>4. item'.holder = t /\ item'.committed = item.committed /\ item'.written = new
  BY <1>2 DEF Put
<1> QED
  BY <1>1, <1>2, <1>3, <1>4, NoTxAssumption DEF ItemStep, ItemInv, Quiet, Free, Inv

LEMMA Confirm_ItemStep == ASSUME Inv, NEW t \in Tx, Confirm_Item(t) PROVE Inv'
  BY Confirm_ItemItem, DecisionTx, SameClaims, StepPreservesInv DEF Confirm_Item

(* The transactions of one statement.                                      *)
LEMMA IdleHoldsNothing ==
  ASSUME Inv, NEW t \in Tx, tx[t].pc = "idle"
  PROVE  /\ item.holder # t /\ View(item, t) = item.committed
         /\ \A c \in Claims : claims[c].holder # t /\ View(claims[c], t) = claims[c].committed
  BY DEF Inv, TxInv, View

LEMMA SameTx == ASSUME Inv, NEW t \in Tx, tx[t].pc = "idle", tx' = tx,
                       \A c \in Claims : claims'[c].holder = t => claims[c].holder = t,
                       item'.holder = t => item.holder = t
                PROVE  TxStep(t)
  BY DEF Inv, TxStep, TxInv, ConfirmPCs

LEMMA WithdrawClaimStep == ASSUME Inv, NEW t \in Tx, WithdrawClaim(t) PROVE Inv' /\ ClaimsStep(t)
<1>1. PICK c \in Claims :
        /\ tx[t].pc = "idle" /\ View(claims[c], t).status = "pending" /\ Free(claims[c], t)
        /\ claims' = [claims EXCEPT ![c] =
                        Stored([claims[c].committed EXCEPT !.status = "withdrawn"])]
        /\ UNCHANGED <<item, told, tx, clock>>
  BY DEF WithdrawClaim
<1> DEFINE new == [claims[c].committed EXCEPT !.status = "withdrawn"]
<1>2. claims[c].holder = NoTx /\ View(claims[c], t) = claims[c].committed
  BY <1>1, IdleHoldsNothing DEF Free
<1>3. claims[c].committed \in Claim /\ claims[c].committed.status = "pending"
  BY <1>1, <1>2, DecidedRows
<1>4. new \in Claim /\ new.status = "withdrawn"
  BY <1>3, ClaimTypes DEF ClaimStatus
<1> HIDE DEF new
<1>5. /\ claims'[c] = Stored(new) /\ \A d \in Claims \ {c} : claims'[d] = claims[d]
      /\ claims' = [d \in Claims |-> claims'[d]]
  BY <1>1 DEF Inv, ClaimsInv, new
<1>6. \A d \in Claims : ClaimChange(claims[d], claims'[d], t)
  BY <1>2, <1>3, <1>4, <1>5 DEF ClaimChange, RowChange
<1>7. IndexInv'
  <2>1. ASSUME NEW u \in Claimants, NEW d \in Claims
        PROVE  Touches(claims[d], claims'[d], t, PendingClaims(u))
    BY <1>2, <1>4, <1>5 DEF Touches, PendingClaims, Pending
  <2> QED
    BY <2>1, QuietClaims, EntryTouched DEF IndexInv, Inv
<1>8. ToldInv'
  <2>1. Heard(claims'[c], told[c])
    <3>1. Heard(claims[c], told[c])
      BY DEF Inv, ToldInv
    <3>2. claims'[c].committed = new /\ claims'[c].written = new /\ claims'[c].holder = NoTx
      BY <1>5 DEF Stored
    <3>3. claims[c].written = claims[c].committed
      BY <1>2, QuietClaims DEF Quiet
    <3> QED
      BY <1>2, <1>3, <1>4, <3>1, <3>2, <3>3 DEF Heard, Tells
  <2> QED
    BY <1>1, <1>5, <2>1 DEF ToldInv, Inv
<1>9. ClaimsStep(t)
  BY <1>5, <1>6, <1>7, <1>8 DEF ClaimsStep
<1>10. \A d \in Claims : claims'[d].holder = t => claims[d].holder = t
  BY <1>5, NoTxAssumption DEF Stored
<1> QED
  BY <1>1, <1>9, <1>10, SameItem, SameTx, StepPreservesInv

(* What becomes of the item keeps its taker.                               *)
LEMMA ItemActions ==
  ASSUME Inv, NEW t \in Tx, WithdrawItem(t) \/ ExtendItem(t) \/ ExpireItem(t) \/ RemoveItem(t)
  PROVE  /\ ItemStep(t) /\ TxStep(t) /\ UNCHANGED <<claims, told, tx>>
         /\ tx[t].pc = "idle" /\ item'.committed.via = item.committed.via
         /\ item'.holder = NoTx /\ item.holder = NoTx
<1>1. PICK new \in Item : ItemBecomes(t, new) /\ new.via = item.committed.via
  <2>1. item.committed \in Item /\ clock + Window \in Nat
    BY TimesAssumption DEF Inv, ItemInv, RowsOf
  <2>2. /\ [item.committed EXCEPT !.status = "removed"] \in Item
        /\ [item.committed EXCEPT !.status = "removed"].via = item.committed.via
    BY <2>1 DEF Item, ItemStatus
  <2>3. item.committed.status = "open" =>
          /\ [item.committed EXCEPT !.status = "withdrawn"] \in Item
          /\ [item.committed EXCEPT !.status = "withdrawn"].via = item.committed.via
          /\ [item.committed EXCEPT !.status = "expired"] \in Item
          /\ [item.committed EXCEPT !.status = "expired"].via = item.committed.via
          /\ [item.committed EXCEPT !.expires = clock + Window] \in Item
          /\ [item.committed EXCEPT !.expires = clock + Window].via = item.committed.via
    BY <2>1 DEF Item, ItemStatus
  <2>4. tx[t].pc = "idle" => View(item, t) = item.committed
    BY IdleHoldsNothing
  <2> QED
    BY <2>2, <2>3, <2>4 DEF WithdrawItem, ExtendItem, ExpireItem, RemoveItem, ItemBecomes
<1>2. /\ tx[t].pc = "idle" /\ item.holder = NoTx /\ UNCHANGED <<claims, told, tx, clock>>
      /\ item' = Stored(new)
  BY <1>1, IdleHoldsNothing DEF ItemBecomes, Free
<1>3. item'.committed = new /\ item'.written = new /\ item'.holder = NoTx
  BY <1>2 DEF Stored
<1>4. ItemStep(t)
  <2>1. item' \in RowsOf(Item)
    BY <1>2, StoredTyped
  <2> QED
    BY <1>2, <1>3, <2>1, NoTxAssumption DEF ItemStep, ItemInv, Quiet, Inv
<1>5. TxStep(t)
  BY <1>2, <1>3, SameTx, NoTxAssumption
<1> QED
  BY <1>1, <1>2, <1>3, <1>4, <1>5

LEMMA ItemActionsStep ==
  ASSUME Inv, NEW t \in Tx, WithdrawItem(t) \/ ExtendItem(t) \/ ExpireItem(t) \/ RemoveItem(t)
  PROVE  Inv'
  BY ItemActions, SameClaims, StepPreservesInv

(* COMMIT and ROLLBACK, all tables at once.                                *)
LEMMA Ends ==
  ASSUME Inv, NEW t \in Tx, Commit(t) \/ Rollback(t)
  PROVE  ClaimsStep(t) /\ ItemStep(t) /\ TxStep(t)
<1>1. DOMAIN claims = Claims /\ DOMAIN told = Claims
  BY DEF Inv, ClaimsInv, ToldInv
<1>2. \/ /\ item' = Published(item, t) /\ UNCHANGED clock
         /\ \A c \in Claims : claims'[c] = Published(claims[c], t) /\ told'[c] = Published(told[c], t)
      \/ /\ item' = Restored(item, t) /\ UNCHANGED clock
         /\ \A c \in Claims : claims'[c] = Restored(claims[c], t) /\ told'[c] = Restored(told[c], t)
  BY <1>1 DEF Commit, Rollback, PublishedAll, RestoredAll
<1>3. /\ claims' = [c \in Claims |-> claims'[c]] /\ told' = [c \in Claims |-> told'[c]]
      /\ tx' = [tx EXCEPT ![t] = Idle]
  BY <1>1 DEF Commit, Rollback, PublishedAll, RestoredAll, Return
<1>4. IndexInv'
  <2>1. ASSUME NEW u \in Claimants, NEW c \in Claims, NEW d \in Claims, c # d
        PROVE  OneEntry(claims'[c], claims'[d], PendingClaims(u))
    <3>1. OneEntry(claims[c], claims[d], PendingClaims(u))
      BY <2>1 DEF Inv, IndexInv
    <3>2. /\ OneEntry(Published(claims[c], t), Published(claims[d], t), PendingClaims(u))
          /\ OneEntry(Restored(claims[c], t), Restored(claims[d], t), PendingClaims(u))
      BY <3>1, QuietClaims, EntryEnds
    <3> QED
      BY <1>2, <3>2
  <2> QED
    BY <2>1 DEF IndexInv
<1>5. ToldInv'
  <2>1. ASSUME NEW c \in Claims PROVE told'[c] \in RowsOf(Notices) /\ Heard(claims'[c], told'[c])
    <3>1. told[c] \in RowsOf(Notices) /\ Heard(claims[c], told[c]) /\ Quiet(claims[c])
      BY QuietClaims DEF Inv, ToldInv
    <3>2. told'[c] \in RowsOf(Notices)
      BY <1>2, <3>1, EndTyped
    <3>3. Heard(Published(claims[c], t), Published(told[c], t))
      BY <3>1, NoTxAssumption DEF Heard, Quiet, Published, Stored
    <3>4. Heard(Restored(claims[c], t), Restored(told[c], t))
      BY <3>1, NoTxAssumption DEF Heard, Quiet, Restored, Stored
    <3> QED
      BY <1>2, <3>2, <3>3, <3>4
  <2> QED
    BY <1>3, <2>1 DEF ToldInv
<1>6. ClaimsStep(t)
  <2>1. \A c \in Claims : ClaimChange(claims[c], claims'[c], t)
    BY <1>2 DEF ClaimChange, RowChange
  <2> QED
    BY <1>3, <1>4, <1>5, <2>1 DEF ClaimsStep
<1>7. ItemStep(t) /\ item'.holder # t
  <2>1. item' \in RowsOf(Item)
    BY <1>2, EndTyped DEF Inv, ItemInv
  <2>2. Quiet(item') /\ item'.holder # t
    BY <1>2, NoTxAssumption DEF Inv, ItemInv, Quiet, Published, Restored, Stored
  <2>3. \A s \in Tx \ {t} : /\ item'.holder = s <=> item.holder = s
                            /\ item.holder = s => item' = item
    BY <1>2, NoTxAssumption DEF Published, Restored, Stored
  <2> QED
    <3>1. clock' \in 0..MaxTime
      BY <1>2 DEF Inv, ItemInv
    <3>2. ItemInv'
      BY <2>1, <2>2, <3>1 DEF ItemInv
    <3> QED
      BY <2>2, <2>3, <3>2 DEF ItemStep
<1>8. \A c \in Claims : claims'[c].holder # t
  <2>1. \A row : Published(row, t).holder # t /\ Restored(row, t).holder # t
    BY NoTxAssumption DEF Published, Restored, Stored
  <2> QED
    BY <1>2, <2>1
<1>9. TxStep(t)
  <2>1. TxInv(t)'
    BY <1>3, <1>7, <1>8, IdleType, TxMoves DEF TxInv, ConfirmPCs
  <2> QED
    BY <1>3, <2>1, IdleType, TxMoves DEF TxStep
<1> QED
  BY <1>6, <1>7, <1>9

LEMMA NextInv == Inv /\ [Next]_vars => Inv'
<1> SUFFICES ASSUME Inv, [Next]_vars PROVE Inv'
  OBVIOUS
<1>1. ASSUME clock' \in 0..MaxTime, UNCHANGED <<item, claims, told, tx>> PROVE Inv'
  <2>1. ClaimsInv' /\ IndexInv' /\ ToldInv' /\ ItemInv' /\ \A t \in Tx : TxInv(t)'
    BY <1>1 DEF Inv, ClaimsInv, IndexInv, ToldInv, ItemInv, TxInv
  <2> QED
    BY <1>1, <2>1 DEF Inv
<1>2. CASE Tick
  BY <1>1, <1>2, TimesAssumption DEF Tick, Inv, ItemInv
<1>3. CASE UNCHANGED vars
  BY <1>1, <1>3 DEF vars, Inv, ItemInv
<1>4. ASSUME NEW t \in Tx, Run(t) PROVE Inv'
  BY <1>4, ReadsStep, Open_InsertStep, DecisionStep, Confirm_ItemStep, WithdrawClaimStep,
     ItemActionsStep, Ends, StepPreservesInv DEF Run
<1> QED
  BY <1>2, <1>3, <1>4 DEF Next

(* Every row keeps the discipline of its transactions, the index has one   *)
(* entry per claimant, and a claim and its notification are written by the *)
(* same transaction, in every reachable state.                             *)
THEOREM Invariance == Spec => []Inv
  BY InvInit, NextInv, PTL DEF Spec

(* Whoever's claim was decided was told how, also those who lost to another*)
(* claim, however many decisions run at once (confirmClaim, rejectClaim).  *)
THEOREM AllAreTold == Spec => []DecidedAreTold
<1>1. Inv => DecidedAreTold
  BY DEF Inv, ToldInv, Heard, Tells, DecidedAreTold
<1> QED
  BY <1>1, Invariance, PTL

-----------------------------------------------------------------------------
(* What was decided, by decisions that agree.                              *)

(* What s decides, and whether it confirms, does not change.               *)
Goes(s) ==
  s \in Deciding' => /\ s \in Deciding /\ tx'[s].claim = tx[s].claim
                     /\ Confirming(s)' <=> Confirming(s)

(* Nothing committed is decided, nor a decision taken back.                *)
Still ==
  /\ item'.committed.via = item.committed.via
  /\ \A c \in Claims :
       /\ claims'[c].committed.status = "approved" <=> claims[c].committed.status = "approved"
       /\ claims'[c].committed.status = "denied" <=> claims[c].committed.status = "denied"

LEMMA OthersGo ==
  ASSUME NEW t \in Tx, ItemStep(t), TxStep(t), NEW s \in Tx \ {t}
  PROVE  Goes(s) /\ (s \in Deciding' <=> s \in Deciding) /\ (Confirming(s)' <=> Confirming(s))
         /\ tx'[s] = tx[s]
<1>1. tx'[s] = tx[s] /\ (item'.holder = s <=> item.holder = s)
  BY DEF ItemStep, TxStep
<1> QED
  BY <1>1 DEF Goes, Deciding, Confirming, ConfirmPCs

LEMMA OthersHold ==
  ASSUME StrongInv, NEW t \in Tx, ClaimsStep(t), ItemStep(t), TxStep(t), NEW s \in Tx \ {t}
  PROVE  HoldsInv(s)'
<1>1. /\ tx'[s] = tx[s] /\ HoldsInv(s)
      /\ s \in Deciding' <=> s \in Deciding
      /\ Confirming(s)' <=> Confirming(s)
  BY OthersGo DEF StrongInv
<1>2. /\ item'.holder = s <=> item.holder = s
      /\ item.holder = s => item' = item
  BY DEF ItemStep
<1>3. \A c \in Claims : /\ claims'[c].holder = s <=> claims[c].holder = s
                        /\ claims[c].holder = s => claims'[c] = claims[c]
  BY OthersClaim DEF StrongInv
<1>4. \/ tx[s].pc \in {"confirm.item", "confirm.others"}
      \/ item.holder = s
      => s \in Deciding /\ tx[s].claim \in Claims
  BY <1>1 DEF StrongInv, Inv, TxInv, HoldsInv, ConfirmPCs, Deciding
<1>5. Approving(s) /\ tx[s].claim \in Claims => Approving(s)'
  BY <1>1, <1>3 DEF Approving
<1>6. /\ s \in Deciding' => tx'[s].claim \in Claims
      /\ tx'[s].pc = "confirm.others" => item'.holder = s
      /\ tx'[s].pc \in {"confirm.item", "confirm.others"} => Approving(s)'
  BY <1>1, <1>2, <1>4, <1>5 DEF HoldsInv
<1>7. item'.holder = s => /\ tx'[s].pc \in {"confirm.others", "commit"} /\ tx'[s].user = Nothing
                          /\ Approving(s)' /\ item'.written.via = tx'[s].claim
  BY <1>1, <1>2, <1>4, <1>5 DEF HoldsInv
<1>8. \A c \in Claims : claims'[c].holder = s => Written(s, c)'
  BY <1>1, <1>3 DEF HoldsInv, Written
<1> QED
  BY <1>6, <1>7, <1>8 DEF HoldsInv

LEMMA ReadKept ==
  ASSUME StrongInv, Still, raced \subseteq raced', NEW s \in Tx, Goes(s)
  PROVE  ReadInv(s)'
<1> SUFFICES ASSUME s \in Deciding' PROVE ReadInv(s)'
  BY DEF ReadInv
<1>1. /\ s \in Deciding /\ tx'[s].claim = tx[s].claim /\ tx[s].claim \in Claims
      /\ Confirming(s)' <=> Confirming(s)
      /\ ReadInv(s)
  BY DEF Goes, StrongInv, HoldsInv
<1> QED
  BY <1>1 DEF ReadInv, Still

LEMMA RacedKept ==
  ASSUME RacedInv, raced' = raced, \A s \in Tx : Goes(s) PROVE RacedInv'
<1>1. \A s \in Deciding' : /\ s \in Deciding /\ tx'[s].claim = tx[s].claim
                           /\ Confirming(s)' <=> Confirming(s)
  BY DEF Deciding, Goes
<1> QED
  BY <1>1 DEF RacedInv, Disagree

LEMMA GivenKept ==
  ASSUME StrongInv, Still, raced \subseteq raced' PROVE GivenOnce' /\ Taken'
<1>1. GivenOnce'
  BY DEF StrongInv, Still, GivenOnce
<1>2. Taken'
  BY DEF StrongInv, Still, Taken
<1> QED
  BY <1>1, <1>2

(* A step that neither begins nor commits a decision.                      *)
LEMMA StillStep ==
  ASSUME StrongInv, NEW t \in Tx, ClaimsStep(t), ItemStep(t), TxStep(t), Still,
         raced' = raced, Goes(t), HoldsInv(t)', Settled'
  PROVE  StrongInv'
<1>1. \A s \in Tx : Goes(s)
  BY OthersGo
<1>2. \A s \in Tx : HoldsInv(s)' /\ ReadInv(s)'
  BY <1>1, OthersHold, ReadKept
<1>3. Inv' /\ RacedInv' /\ GivenOnce' /\ Taken'
  BY <1>1, StepPreservesInv, RacedKept, GivenKept DEF StrongInv
<1> QED
  BY <1>2, <1>3 DEF StrongInv

(* The statements commit nothing.                                          *)
Calm ==
  /\ item'.committed = item.committed
  /\ \A c \in Claims : claims'[c].committed = claims[c].committed

LEMMA CalmStep ==
  ASSUME StrongInv, NEW t \in Tx, ClaimsStep(t), ItemStep(t), TxStep(t), Calm, raced' = raced,
         Goes(t), HoldsInv(t)',
         \A c \in Claims \ raced :
           claims[c].committed.status \in {"approved", "denied"}
             => claims'[c].written \in {claims[c].written, claims[c].committed}
  PROVE  StrongInv'
<1>1. Still
  BY DEF Calm, Still
<1>2. Settled'
  BY DEF StrongInv, Settled, Calm
<1> QED
  BY <1>1, <1>2, StillStep

LEMMA IdleGoes ==
  ASSUME NEW t \in Tx, tx'[t] = tx[t], tx[t].pc = "idle" PROVE t \notin Deciding' /\ Goes(t)
  BY DEF Deciding, Goes

LEMMA Open_ReadStrong == ASSUME StrongInv, NEW t \in Tx, Open_Read(t) PROVE StrongInv'
<1>1. /\ UNCHANGED <<item, claims, told, clock, raced>> /\ tx[t].pc = "idle"
      /\ item.holder # t /\ \A c \in Claims : claims[c].holder # t
  BY IdleHoldsNothing DEF Open_Read, StrongInv
<1>2. PICK u \in Claimants : tx' = [tx EXCEPT ![t] = [Idle EXCEPT !.pc = "open.insert", !.user = u]]
  BY DEF Open_Read
<1> DEFINE x == [Idle EXCEPT !.pc = "open.insert", !.user = u]
<1>3. x \in Transaction /\ x.pc = "open.insert" /\ x.user = u
  BY DEF Idle, Transaction, Statements
<1> HIDE DEF x
<1>4. tx' \in [Tx -> Transaction] /\ tx'[t] = x /\ \A s \in Tx \ {t} : tx'[s] = tx[s]
  BY <1>2, <1>3, TxMoves DEF StrongInv, x
<1>5. TxStep(t)
  <2>1. TxInv(t)'
    BY <1>1, <1>3, <1>4 DEF TxInv, ConfirmPCs
  <2> QED
    BY <1>4, <2>1 DEF TxStep
<1>6. t \notin Deciding' /\ Goes(t)
  BY <1>3, <1>4, ClaimsAssumption DEF Deciding, Goes
<1>7. HoldsInv(t)'
  BY <1>1, <1>3, <1>4, <1>6 DEF HoldsInv
<1> QED
  BY <1>1, <1>5, <1>6, <1>7, SameClaims, SameItem, CalmStep DEF Calm, StrongInv

(* A decision is told from those in progress as it begins: whichever of    *)
(* them disagrees is remembered together with it.                          *)
LEMMA Remembers ==
  ASSUME StrongInv, NEW t \in Tx, NEW c \in Claims, NEW pc \in {"confirm.claim", "reject.claim"},
         Decides(t, c, pc)
  PROVE  /\ raced \subseteq raced' /\ raced' \in SUBSET Claims
         /\ \A s \in Deciding :
              \/ tx[s].claim = c /\ ~(Confirming(s) <=> pc = "confirm.claim")
              \/ tx[s].claim # c /\ Confirming(s) /\ pc = "confirm.claim"
              => c \in raced' /\ tx[s].claim \in raced'
<1> DEFINE O == Opposing(c, pc = "confirm.claim")
<1>1. raced' = raced \cup UNION {{c, tx[s].claim} : s \in O}
  BY DEF Decides
<1>2. O \in SUBSET Deciding
  BY DEF Opposing
<1>3. \A s \in Deciding :
        \/ tx[s].claim = c /\ ~(Confirming(s) <=> pc = "confirm.claim")
        \/ tx[s].claim # c /\ Confirming(s) /\ pc = "confirm.claim"
        => s \in O
  BY DEF Opposing
<1> HIDE DEF O
<1>4. \A s \in O : tx[s].claim \in Claims
  BY <1>2 DEF StrongInv, HoldsInv, Deciding
<1>5. \A s \in O : c \in raced' /\ tx[s].claim \in raced'
  BY <1>1
<1>6. raced' \in SUBSET Claims /\ raced \subseteq raced'
  BY <1>1, <1>4 DEF StrongInv, RacedInv
<1> QED
  BY <1>3, <1>5, <1>6

LEMMA DecidesStrong ==
  ASSUME StrongInv, NEW t \in Tx, Confirm_Read(t) \/ Reject_Read(t) PROVE StrongInv'
<1>1. PICK c \in Claims, pc \in {"confirm.claim", "reject.claim"} :
        /\ Decides(t, c, pc) /\ tx[t].pc = "idle" /\ View(claims[c], t).status = "pending"
        /\ pc = "confirm.claim" => View(item, t).status = "open"
  BY DEF Confirm_Read, Reject_Read, Decidable
<1>2. /\ UNCHANGED <<item, claims, told, clock>>
      /\ item.holder # t /\ View(item, t) = item.committed
      /\ \A d \in Claims : claims[d].holder # t /\ View(claims[d], t) = claims[d].committed
  BY <1>1, IdleHoldsNothing DEF Decides, StrongInv
<1> DEFINE x == [Idle EXCEPT !.pc = pc, !.claim = c]
<1>3. x \in Transaction /\ x.pc = pc /\ x.user = Nothing /\ x.claim = c
  BY DEF Idle, Transaction, Statements
<1>4. tx' = [tx EXCEPT ![t] = x]
  BY <1>1 DEF Decides
<1> HIDE DEF x
<1>5. tx' \in [Tx -> Transaction] /\ tx'[t] = x /\ \A s \in Tx \ {t} : tx'[s] = tx[s]
  BY <1>3, <1>4, TxMoves DEF StrongInv
<1>6. claims[c].committed \in Claim /\ claims[c].committed.status = "pending"
  BY <1>1, <1>2, DecidedRows DEF StrongInv
<1>7. /\ t \in Deciding' /\ t \notin Deciding
      /\ Confirming(t)' <=> pc = "confirm.claim"
  BY <1>1, <1>3, <1>5 DEF Deciding, Confirming, ConfirmPCs
<1>8. TxStep(t) /\ ClaimsStep(t) /\ ItemStep(t)
  <2>1. TxInv(t)'
    BY <1>2, <1>3, <1>5, <1>6 DEF TxInv, ConfirmPCs
  <2> QED
    BY <1>2, <1>5, <2>1, SameClaims, SameItem DEF TxStep, StrongInv
<1>9. HoldsInv(t)'
  BY <1>2, <1>3, <1>5 DEF HoldsInv
<1>10. ReadInv(t)'
  <2>1. pc = "confirm.claim" => item.committed.via = Nothing
    BY <1>1, <1>2 DEF StrongInv, Inv, ItemInv, RowsOf, Item
  <2>2. pc = "confirm.claim" => \A d \in Claims : claims[d].committed.status # "approved"
    BY <2>1 DEF StrongInv, Taken
  <2> QED
    BY <1>2, <1>3, <1>5, <1>6, <1>7, <2>1, <2>2 DEF ReadInv
<1>11. /\ raced \subseteq raced' /\ raced' \in SUBSET Claims
       /\ \A s \in Deciding :
            \/ tx[s].claim = c /\ ~(Confirming(s) <=> pc = "confirm.claim")
            \/ tx[s].claim # c /\ Confirming(s) /\ pc = "confirm.claim"
            => c \in raced' /\ tx[s].claim \in raced'
  BY <1>1, Remembers
<1>12. RacedInv'
  <2>1. \A s \in Deciding' \ {t} : /\ s \in Deciding /\ tx'[s].claim = tx[s].claim
                                   /\ Confirming(s)' <=> Confirming(s)
    BY <1>8, OthersGo DEF Deciding, Goes
  <2>2. tx'[t].claim = c
    BY <1>3, <1>5
  <2>3. ASSUME NEW s \in Deciding', NEW r \in Deciding', Disagree(s, r)'
        PROVE  tx'[s].claim \in raced'
    <3>1. CASE s # t /\ r # t
      BY <1>11, <2>1, <2>3, <3>1 DEF StrongInv, RacedInv, Disagree
    <3>2. CASE s = t /\ r # t
      BY <1>7, <1>11, <2>1, <2>2, <2>3, <3>2 DEF Disagree
    <3>3. CASE s # t /\ r = t
      BY <1>7, <1>11, <2>1, <2>2, <2>3, <3>3 DEF Disagree
    <3>4. CASE s = t /\ r = t
      BY <2>3, <3>4 DEF Disagree
    <3> QED
      BY <3>1, <3>2, <3>3, <3>4
  <2> QED
    BY <1>11, <2>3 DEF RacedInv
<1>13. Still /\ Settled'
  BY <1>2, <1>11 DEF Still, Settled, StrongInv
<1>14. \A s \in Tx : HoldsInv(s)' /\ ReadInv(s)'
  BY <1>8, <1>9, <1>10, <1>11, <1>13, OthersGo, OthersHold, ReadKept
<1>15. Inv' /\ GivenOnce' /\ Taken'
  BY <1>8, <1>11, <1>13, StepPreservesInv, GivenKept DEF StrongInv
<1> QED
  BY <1>12, <1>13, <1>14, <1>15 DEF StrongInv

LEMMA InsertStrong == ASSUME StrongInv, NEW t \in Tx, Open_Insert(t) PROVE StrongInv'
<1>1. PICK c \in Claims, v \in Claim :
        /\ claims[c] = Stored(NoClaim) /\ v.status = "pending"
        /\ claims' = [claims EXCEPT ![c] = Put(claims[c], t, v)]
  <2> DEFINE fresh == {d \in Claims : claims[d] = Stored(NoClaim)}
  <2>1. Min(fresh) \in fresh
    <3>1. fresh \in SUBSET Nat /\ fresh # {}
      BY ClaimsAssumption DEF Open_Insert, Insert
    <3> HIDE DEF fresh
    <3> QED
      BY <3>1, LeastFree
  <2>2. tx[t].user \in Claimants
    BY DEF Open_Insert, Insert, StrongInv, Inv, TxInv
  <2>3. /\ [by |-> tx[t].user, status |-> "pending"] \in Claim
        /\ [by |-> tx[t].user, status |-> "pending"].status = "pending"
    BY <2>2 DEF Claim, ClaimStatus
  <2> QED
    BY <2>1, <2>3 DEF Open_Insert, Insert
<1>2. PICK x \in Transaction :
        /\ tx' = [tx EXCEPT ![t] = x] /\ x.pc = "commit" /\ x.user # Nothing
        /\ UNCHANGED <<item, told, clock, raced>>
  <2>1. tx[t].user # Nothing
    BY ClaimsAssumption DEF Open_Insert, Insert, StrongInv, Inv, TxInv
  <2>2. Goto(t, "commit") /\ UNCHANGED <<item, told, clock, raced>>
    BY DEF Open_Insert, Insert
  <2>3. tx' = [tx EXCEPT ![t] = [tx[t] EXCEPT !.pc = "commit"]]
    BY <2>2 DEF Goto
  <2>4. /\ [tx[t] EXCEPT !.pc = "commit"] \in Transaction
        /\ [tx[t] EXCEPT !.pc = "commit"].pc = "commit"
        /\ [tx[t] EXCEPT !.pc = "commit"].user = tx[t].user
    BY DEF StrongInv, Inv, TxInv, Transaction, Statements
  <2> QED
    BY <2>1, <2>2, <2>3, <2>4, Zenon
<1>3. tx' \in [Tx -> Transaction] /\ tx'[t] = x /\ \A s \in Tx \ {t} : tx'[s] = tx[s]
  BY <1>2, TxMoves DEF StrongInv
<1>4. /\ item.holder # t /\ \A d \in Claims : claims[d].holder # t
  BY DEF Open_Insert, Insert, StrongInv, Inv, TxInv
<1>5. /\ claims'[c] = Put(claims[c], t, v) /\ \A d \in Claims \ {c} : claims'[d] = claims[d]
  BY <1>1 DEF StrongInv, Inv, ClaimsInv
<1>6. claims'[c].committed = NoClaim /\ claims'[c].written = v /\ claims[c].committed = NoClaim
  BY <1>1, <1>5 DEF Put, Stored
<1>7. ClaimsStep(t) /\ ItemStep(t)
  BY <1>2, InsertClaims, SameItem DEF StrongInv
<1>8. TxStep(t)
  <2>1. TxInv(t)'
    BY <1>2, <1>3 DEF TxInv, ConfirmPCs
  <2> QED
    BY <1>3, <2>1 DEF TxStep
<1>9. t \notin Deciding' /\ Goes(t)
  BY <1>2, <1>3 DEF Deciding, Goes
<1>10. HoldsInv(t)'
  <2>1. \A d \in Claims : claims'[d].holder = t => d = c
    BY <1>4, <1>5
  <2>2. Written(t, c)'
    BY <1>1, <1>2, <1>3, <1>6 DEF Written
  <2> QED
    BY <1>2, <1>3, <1>4, <1>9, <2>1, <2>2 DEF HoldsInv
<1>11. Calm
  BY <1>2, <1>5, <1>6 DEF Calm
<1>12. \A d \in Claims : \/ claims'[d].written = claims[d].written
                         \/ claims[d].committed.status \notin {"approved", "denied"}
  BY <1>5, <1>6, ClaimTypes
<1> QED
  BY <1>2, <1>7, <1>8, <1>9, <1>10, <1>11, <1>12, CalmStep

(* What a decision writes; a claim already so decided it writes as it was. *)
LEMMA DecidedClaims ==
  ASSUME Inv, NEW t \in Tx, NEW C \in SUBSET Claims, NEW status \in {"approved", "denied"},
         NEW notice, \A c \in C : View(claims[c], t) \in Claim, Decide(t, C, status, notice)
  PROVE  /\ \A c \in C :
              /\ claims'[c].committed = claims[c].committed
              /\ claims'[c].written.status = status /\ claims'[c].holder = t
              /\ claims[c].holder # t /\ claims[c].committed.status = status
                   => claims'[c].written = claims[c].committed
         /\ \A c \in Claims \ C : claims'[c] = claims[c]
<1> DEFINE new(c) == [View(claims[c], t) EXCEPT !.status = status]
<1>1. /\ \A c \in C : claims'[c] = Put(claims[c], t, new(c))
      /\ \A c \in Claims \ C : claims'[c] = claims[c]
  BY DEF Decide
<1>2. \A c \in C : new(c).status = status
  BY ClaimTypes DEF ClaimStatus
<1>3. \A c \in C : claims[c].holder # t /\ claims[c].committed.status = status
                     => new(c) = claims[c].committed
  BY DEF View, Claim
<1> HIDE DEF new
<1>4. ASSUME NEW c \in C
      PROVE  /\ claims'[c].committed = claims[c].committed
             /\ claims'[c].written.status = status /\ claims'[c].holder = t
             /\ claims[c].holder # t /\ claims[c].committed.status = status
                  => claims'[c].written = claims[c].committed
  <2>1. claims'[c] = Put(claims[c], t, new(c)) /\ new(c).status = status
    BY <1>1, <1>2
  <2> QED
    BY <1>3, <2>1 DEF Put
<1> QED
  BY <1>1, <1>4

(* A decision confirms to its end, or rejects.                             *)
LEMMA DecisionGoes ==
  ASSUME StrongInv, NEW t \in Tx,
         Confirm_Claim(t) \/ Confirm_Item(t) \/ Confirm_Others(t) \/ Reject_Claim(t)
  PROVE  /\ t \in Deciding /\ t \in Deciding' /\ Goes(t) /\ raced' = raced /\ HoldsInv(t)
         /\ tx[t].claim \in Claims /\ tx'[t].claim = tx[t].claim
         /\ tx[t].user = Nothing /\ tx'[t].user = Nothing /\ TxStep(t)
         /\ Confirming(t)' <=> Confirming(t)
         /\ Confirming(t) <=> ~Reject_Claim(t)
<1>1. /\ TxStep(t) /\ tx[t].claim \in Claims /\ tx'[t].claim = tx[t].claim
      /\ tx[t].user = Nothing /\ tx'[t].user = Nothing
      /\ Confirm_Claim(t) => tx'[t].pc = "confirm.item"
      /\ Confirm_Item(t) => tx'[t].pc = "confirm.others"
      /\ Confirm_Others(t) \/ Reject_Claim(t) => tx'[t].pc = "commit"
  BY DecisionTx DEF StrongInv
<1>2. t \in Deciding /\ t \in Deciding'
  BY <1>1 DEF Confirm_Claim, Confirm_Item, Confirm_Others, Reject_Claim, Deciding
<1>3. HoldsInv(t) /\ raced' = raced
  BY DEF StrongInv, Confirm_Claim, Confirm_Item, Confirm_Others, Reject_Claim
<1>4. /\ Reject_Claim(t) => item'.holder # t /\ tx[t].pc = "reject.claim"
      /\ Confirm_Others(t) => item'.holder = t
  BY <1>3 DEF Reject_Claim, Confirm_Others, StrongInv, Inv, TxInv, HoldsInv
<1>5. /\ Confirming(t)' <=> Confirming(t)
      /\ Confirming(t) <=> ~Reject_Claim(t)
  BY <1>1, <1>4 DEF Confirm_Claim, Confirm_Item, Confirm_Others, Confirming, ConfirmPCs
<1> QED
  BY <1>1, <1>2, <1>3, <1>5 DEF Goes

(* The first statement of a decision, over a claim decided alike at most.  *)
LEMMA FirstStrong ==
  ASSUME StrongInv, NEW t \in Tx, Confirm_Claim(t) \/ Reject_Claim(t) PROVE StrongInv'
<1> DEFINE C == {tx[t].claim}
           status == IF Confirm_Claim(t) THEN "approved" ELSE "denied"
<1>1. /\ t \in Deciding /\ Goes(t) /\ raced' = raced
      /\ tx[t].claim \in Claims /\ tx'[t].claim = tx[t].claim
      /\ tx[t].user = Nothing /\ tx'[t].user = Nothing /\ TxStep(t)
      /\ Confirming(t)' <=> Confirming(t)
      /\ Confirming(t) <=> ~Reject_Claim(t)
  BY DecisionGoes
<1>2. /\ tx[t].pc \in {"confirm.claim", "reject.claim"} /\ Decide(t, C, status, status)
      /\ UNCHANGED <<item, clock>> /\ status \in {"approved", "denied"}
      /\ status = "approved" <=> Confirming(t)
      /\ tx[t].pc = "confirm.claim" <=> Confirming(t)
  BY <1>1 DEF Confirm_Claim, Reject_Claim
<1>3. C \in SUBSET Claims /\ \A c \in C : View(claims[c], t) \in Claim
  BY <1>1, <1>2, DecidedRows DEF StrongInv
<1>4. tx'[t].pc \in {"confirm.item", "commit"} /\ (tx'[t].pc = "confirm.item" <=> Confirming(t))
  BY <1>1, <1>2, DecisionTx DEF StrongInv
<1>5. tx[t].claim \in C /\ \A c \in C : c = tx[t].claim
  OBVIOUS
<1> HIDE DEF C, status
<1>6. /\ \A c \in C :
           /\ claims'[c].committed = claims[c].committed
           /\ claims'[c].written.status = status /\ claims'[c].holder = t
           /\ claims[c].holder # t /\ claims[c].committed.status = status
                => claims'[c].written = claims[c].committed
      /\ \A c \in Claims \ C : claims'[c] = claims[c]
  BY <1>2, <1>3, DecidedClaims DEF StrongInv
<1>7. item.holder # t /\ \A c \in Claims : claims[c].holder # t
  BY <1>2 DEF StrongInv, Inv, TxInv
<1>8. HoldsInv(t)'
  <2>1. Confirming(t) => Approving(t)'
    BY <1>1, <1>2, <1>5, <1>6 DEF Approving
  <2>2. \A c \in Claims : claims'[c].holder = t => Written(t, c)'
    BY <1>1, <1>2, <1>5, <1>6, <1>7 DEF Written
  <2> QED
    BY <1>1, <1>2, <1>4, <1>7, <2>1, <2>2 DEF HoldsInv
<1>9. tx[t].claim \notin raced /\ claims[tx[t].claim].committed.status \in {"approved", "denied"}
        => claims[tx[t].claim].committed.status = status
  BY <1>1, <1>2 DEF StrongInv, ReadInv
<1>10. \A c \in Claims \ raced :
         claims[c].committed.status \in {"approved", "denied"}
           => claims'[c].written \in {claims[c].written, claims[c].committed}
  BY <1>5, <1>6, <1>7, <1>9
<1>11. Calm
  BY <1>2, <1>6 DEF Calm
<1> QED
  BY <1>1, <1>2, <1>8, <1>10, <1>11, DecisionClaims, SameItem, CalmStep DEF StrongInv

LEMMA Confirm_OthersStrong == ASSUME StrongInv, NEW t \in Tx, Confirm_Others(t) PROVE StrongInv'
<1> DEFINE C == Others(t)
<1>1. /\ Goes(t) /\ raced' = raced /\ HoldsInv(t)
      /\ tx[t].claim \in Claims /\ tx'[t].claim = tx[t].claim
      /\ tx[t].user = Nothing /\ tx'[t].user = Nothing /\ TxStep(t)
      /\ Confirming(t)' <=> Confirming(t)
      /\ Confirming(t)
  BY DecisionGoes DEF Confirm_Others, Reject_Claim
<1>2. /\ tx[t].pc = "confirm.others" /\ Decide(t, C, "denied", "resolved")
      /\ UNCHANGED <<item, clock>> /\ tx'[t].pc = "commit"
  BY DecisionTx DEF Confirm_Others, StrongInv
<1>3. C \in SUBSET Claims /\ \A c \in C : View(claims[c], t) \in Claim
  BY DecidedRows DEF StrongInv, Others
<1>4. \A c \in C : claims[c].committed.status \notin {"approved", "denied"}
  <2>1. \A c \in C : c \in Claims /\ View(claims[c], t).status = "pending"
    BY DEF Others
  <2>2. \A c \in C : claims[c].holder # t
    BY <1>1, <2>1 DEF HoldsInv, Written, View
  <2> QED
    BY <2>1, <2>2 DEF View
<1>5. tx[t].claim \notin C
  BY DEF Others
<1> HIDE DEF C
<1>6. /\ \A c \in C : /\ claims'[c].committed = claims[c].committed
                      /\ claims'[c].written.status = "denied" /\ claims'[c].holder = t
      /\ \A c \in Claims \ C : claims'[c] = claims[c]
  BY <1>2, <1>3, DecidedClaims DEF StrongInv
<1>7. HoldsInv(t)'
  <2>1. item'.holder = t /\ item'.written.via = tx[t].claim /\ Approving(t)
    BY <1>1, <1>2 DEF HoldsInv
  <2>2. Approving(t)'
    BY <1>1, <1>5, <1>6, <2>1 DEF Approving
  <2>3. ASSUME NEW c \in Claims, claims'[c].holder = t PROVE Written(t, c)'
    <3>1. CASE c \in C
      BY <1>1, <1>5, <1>6, <3>1 DEF Written
    <3>2. CASE c \notin C
      BY <1>1, <1>6, <2>3, <3>2 DEF HoldsInv, Written
    <3> QED
      BY <3>1, <3>2
  <2> QED
    BY <1>1, <1>2, <2>1, <2>2, <2>3 DEF HoldsInv
<1>8. Calm
  BY <1>2, <1>6 DEF Calm
<1>9. \A c \in Claims : claims'[c].written = claims[c].written
                        \/ claims[c].committed.status \notin {"approved", "denied"}
  BY <1>4, <1>6
<1> QED
  BY <1>1, <1>2, <1>7, <1>8, <1>9, DecisionClaims, SameItem, CalmStep DEF StrongInv

LEMMA Confirm_ItemStrong == ASSUME StrongInv, NEW t \in Tx, Confirm_Item(t) PROVE StrongInv'
<1>1. /\ Goes(t) /\ raced' = raced /\ HoldsInv(t)
      /\ tx[t].claim \in Claims /\ tx'[t].claim = tx[t].claim
      /\ tx[t].user = Nothing /\ tx'[t].user = Nothing /\ TxStep(t)
      /\ Confirming(t)' <=> Confirming(t)
  BY DecisionGoes
<1>2. tx[t].pc = "confirm.item" /\ UNCHANGED <<claims, told, clock>> /\ tx'[t].pc = "confirm.others"
  BY DecisionTx DEF Confirm_Item, StrongInv
<1>3. /\ ItemStep(t) /\ item'.holder = t /\ item'.committed = item.committed
      /\ item'.written.via = tx[t].claim
  BY Confirm_ItemItem DEF StrongInv
<1>4. HoldsInv(t)'
  <2>1. Approving(t)'
    BY <1>1, <1>2 DEF HoldsInv, Approving
  <2>2. \A c \in Claims : claims'[c].holder = t => Written(t, c)'
    BY <1>1, <1>2 DEF Written, HoldsInv
  <2> QED
    BY <1>1, <1>2, <1>3, <2>1, <2>2 DEF HoldsInv
<1>5. Calm
  BY <1>2, <1>3 DEF Calm
<1> QED
  BY <1>1, <1>2, <1>3, <1>4, <1>5, SameClaims, CalmStep DEF StrongInv

LEMMA WithdrawClaimStrong == ASSUME StrongInv, NEW t \in Tx, WithdrawClaim(t) PROVE StrongInv'
<1>1. PICK c \in Claims :
        /\ tx[t].pc = "idle" /\ View(claims[c], t).status = "pending" /\ Free(claims[c], t)
        /\ claims' = [claims EXCEPT ![c] =
                        Stored([claims[c].committed EXCEPT !.status = "withdrawn"])]
        /\ UNCHANGED <<item, told, tx, clock, raced>>
  BY DEF WithdrawClaim
<1> DEFINE new == [claims[c].committed EXCEPT !.status = "withdrawn"]
<1>2. /\ claims[c].committed \in Claim /\ claims[c].committed.status = "pending"
      /\ item.holder # t /\ \A d \in Claims : claims[d].holder # t
  BY <1>1, IdleHoldsNothing, DecidedRows DEF StrongInv
<1>3. new.status = "withdrawn"
  BY <1>2, ClaimTypes DEF ClaimStatus
<1> HIDE DEF new
<1>4. /\ claims'[c] = Stored(new) /\ \A d \in Claims \ {c} : claims'[d] = claims[d]
  BY <1>1 DEF StrongInv, Inv, ClaimsInv, new
<1>5. claims'[c].committed = new /\ claims'[c].holder = NoTx
  BY <1>4 DEF Stored
<1>6. ClaimsStep(t) /\ ItemStep(t)
  BY <1>1, WithdrawClaimStep, SameItem DEF StrongInv
<1>7. \A d \in Claims : claims'[d].holder # t
  BY <1>2, <1>4, <1>5, NoTxAssumption
<1>8. TxStep(t)
  BY <1>1, <1>2, <1>7, SameTx DEF StrongInv
<1>9. t \notin Deciding' /\ Goes(t)
  BY <1>1, IdleGoes
<1>10. HoldsInv(t)'
  BY <1>1, <1>2, <1>7, <1>9 DEF HoldsInv
<1>11. Still /\ Settled'
  <2>1. Still
    BY <1>1, <1>2, <1>3, <1>4, <1>5 DEF Still
  <2>2. Settled'
    BY <1>1, <1>3, <1>4, <1>5 DEF StrongInv, Settled
  <2> QED
    BY <2>1, <2>2
<1> QED
  BY <1>1, <1>6, <1>8, <1>9, <1>10, <1>11, StillStep

LEMMA ItemActionsStrong ==
  ASSUME StrongInv, NEW t \in Tx,
         WithdrawItem(t) \/ ExtendItem(t) \/ ExpireItem(t) \/ RemoveItem(t)
  PROVE  StrongInv'
<1>1. /\ ItemStep(t) /\ TxStep(t) /\ UNCHANGED <<claims, told, tx>>
      /\ tx[t].pc = "idle" /\ item'.committed.via = item.committed.via
      /\ item'.holder = NoTx /\ item.holder = NoTx
  BY ItemActions DEF StrongInv
<1>2. raced' = raced
  BY DEF WithdrawItem, ExtendItem, ExpireItem, RemoveItem, ItemBecomes
<1>3. \A c \in Claims : claims[c].holder # t
  BY <1>1, IdleHoldsNothing DEF StrongInv
<1>4. t \notin Deciding' /\ Goes(t)
  BY <1>1, IdleGoes
<1>5. HoldsInv(t)'
  BY <1>1, <1>3, <1>4, NoTxAssumption DEF HoldsInv
<1>6. Still /\ Settled' /\ ClaimsStep(t)
  BY <1>1, <1>2, SameClaims DEF Still, Settled, StrongInv
<1> QED
  BY <1>1, <1>2, <1>4, <1>5, <1>6, StillStep

(* A transaction that ends holds nothing and decides nothing more.         *)
LEMMA EndedHoldsNothing ==
  ASSUME Inv, NEW t \in Tx, Commit(t) \/ Rollback(t)
  PROVE  /\ HoldsInv(t)' /\ t \notin Deciding' /\ Goes(t) /\ raced' = raced
         /\ ClaimsStep(t) /\ ItemStep(t) /\ TxStep(t)
<1>1. ClaimsStep(t) /\ ItemStep(t) /\ TxStep(t)
  BY Ends
<1>2. tx'[t].pc = "idle" /\ raced' = raced
  BY IdleType DEF Commit, Rollback, Return, Inv
<1>3. item'.holder # t /\ \A c \in Claims : claims'[c].holder # t
  BY <1>1, <1>2 DEF TxStep, TxInv
<1>4. t \notin Deciding' /\ Goes(t)
  BY <1>2 DEF Deciding, Goes
<1> QED
  BY <1>1, <1>2, <1>3, <1>4 DEF HoldsInv

LEMMA RollbackStrong == ASSUME StrongInv, NEW t \in Tx, Rollback(t) PROVE StrongInv'
<1>1. \A c \in Claims : claims'[c] = Restored(claims[c], t)
  BY DEF Rollback, RestoredAll, StrongInv, Inv, ClaimsInv
<1>2. \A row : /\ Restored(row, t).committed = row.committed
               /\ Restored(row, t).written \in {row.committed, row.written}
  BY DEF Restored, Stored
<1>3. /\ item'.committed = item.committed
      /\ \A c \in Claims : /\ claims'[c].committed = claims[c].committed
                           /\ claims'[c].written \in {claims[c].committed, claims[c].written}
  BY <1>1, <1>2 DEF Rollback
<1>4. Calm
  BY <1>3 DEF Calm
<1> QED
  BY <1>3, <1>4, EndedHoldsNothing, CalmStep DEF StrongInv

(* What a commit publishes: the pending claim of an opener, or one         *)
(* decision, with the item if it is a confirmation.                        *)
LEMMA Publishes ==
  ASSUME StrongInv, NEW t \in Tx, Commit(t)
  PROVE  /\ \A c \in Claims :
              /\ claims[c].holder # t => claims'[c] = claims[c]
              /\ claims[c].holder = t => /\ claims'[c].committed = claims[c].written
                                         /\ claims'[c].written = claims[c].written
                                         /\ Written(t, c)
         /\ Confirming(t) => /\ t \in Deciding /\ item'.committed.via = tx[t].claim
                             /\ claims[tx[t].claim].holder = t
                             /\ claims'[tx[t].claim].committed.status = "approved"
         /\ ~Confirming(t) => item'.committed = item.committed
<1>1. /\ tx[t].pc = "commit" /\ item' = Published(item, t) /\ HoldsInv(t)
      /\ \A c \in Claims : claims'[c] = Published(claims[c], t)
  BY DEF Commit, PublishedAll, StrongInv, Inv, ClaimsInv
<1>2. \A row : /\ row.holder # t => Published(row, t) = row
               /\ row.holder = t => /\ Published(row, t).committed = row.written
                                    /\ Published(row, t).written = row.written
  BY DEF Published, Stored
<1>3. \A c \in Claims :
        /\ claims[c].holder # t => claims'[c] = claims[c]
        /\ claims[c].holder = t => /\ claims'[c].committed = claims[c].written
                                   /\ claims'[c].written = claims[c].written
                                   /\ Written(t, c)
  BY <1>1, <1>2 DEF HoldsInv
<1>4. Confirming(t) <=> item.holder = t
  BY <1>1 DEF Confirming, ConfirmPCs
<1>5. item.holder = t => /\ t \in Deciding /\ Approving(t) /\ item.written.via = tx[t].claim
                         /\ tx[t].claim \in Claims
  BY <1>1 DEF HoldsInv, Deciding
<1>6. /\ item.holder = t => item'.committed = item.written
      /\ item.holder # t => item'.committed = item.committed
  BY <1>1, <1>2
<1>7. Confirming(t) => /\ claims[tx[t].claim].holder = t
                       /\ claims'[tx[t].claim].committed.status = "approved"
  BY <1>3, <1>4, <1>5 DEF Approving
<1> QED
  BY <1>3, <1>4, <1>5, <1>6, <1>7

(* Decisions in progress that agree with the one committed.                *)
LEMMA CommitReads ==
  ASSUME StrongInv, NEW t \in Tx, Commit(t), NEW s \in Tx \ {t} PROVE ReadInv(s)'
<1>1. /\ raced' = raced /\ tx'[s] = tx[s]
      /\ s \in Deciding' <=> s \in Deciding
      /\ Confirming(s)' <=> Confirming(s)
  BY EndedHoldsNothing, OthersGo DEF StrongInv
<1> SUFFICES ASSUME s \in Deciding PROVE ReadInv(s)'
  BY <1>1 DEF ReadInv
<1>2. tx[s].claim \in Claims /\ ReadInv(s)
  BY DEF StrongInv, HoldsInv
<1>3. t \in Deciding /\ Disagree(s, t) => tx[s].claim \in raced /\ tx[t].claim \in raced
  BY DEF StrongInv, RacedInv, Disagree
<1>4. \A c \in Claims :
        \/ claims'[c].committed = claims[c].committed
        \/ claims'[c].committed.status = "pending"
        \/ /\ t \in Deciding /\ claims'[c].committed.status = "approved"
           /\ c = tx[t].claim /\ Confirming(t)
        \/ /\ t \in Deciding /\ claims'[c].committed.status = "denied"
           /\ Confirming(t) <=> c # tx[t].claim
  BY Publishes DEF Written, Commit, Deciding
<1>5. ~Confirming(s) /\ tx[s].claim \notin raced
        => claims'[tx[s].claim].committed.status # "approved"
  BY <1>2, <1>3, <1>4 DEF ReadInv, Disagree
<1>6. Confirming(s) => item'.committed.via \in {Nothing, tx[s].claim} \cup raced
  BY <1>2, <1>3, Publishes DEF ReadInv, Disagree
<1>7. Confirming(s) /\ tx[s].claim \notin raced
        => /\ claims'[tx[s].claim].committed.status # "denied"
           /\ \A d \in Claims \ {tx[s].claim} : claims'[d].committed.status # "approved"
  BY <1>2, <1>3, <1>4 DEF ReadInv, Disagree
<1> QED
  BY <1>1, <1>5, <1>6, <1>7 DEF ReadInv

LEMMA CommitGives == ASSUME StrongInv, NEW t \in Tx, Commit(t) PROVE GivenOnce' /\ Taken'
<1>1. raced' = raced
  BY DEF Commit
<1>2. \A c \in Claims :
        /\ claims[c].holder # t => claims'[c].committed = claims[c].committed
        /\ claims[c].holder = t =>
             \/ tx[t].user # Nothing /\ claims[c].committed.status = "none"
                  /\ claims'[c].committed.status = "pending"
             \/ /\ claims'[c].committed.status = "approved" /\ c = tx[t].claim /\ Confirming(t)
             \/ /\ tx[t].user = Nothing /\ claims'[c].committed.status = "denied"
                /\ Confirming(t) <=> c # tx[t].claim
  BY Publishes, ClaimTypes DEF Written
<1>3. CASE Confirming(t)
  <2> DEFINE e == tx[t].claim
  <2>1. /\ e \in Claims /\ item'.committed.via = e /\ e # Nothing
        /\ claims'[e].committed.status = "approved"
        /\ item.committed.via \in {Nothing, e} \cup raced
        /\ e \notin raced => \A d \in Claims \ {e} : claims[d].committed.status # "approved"
    BY <1>3, Publishes, ClaimsAssumption DEF StrongInv, HoldsInv, ReadInv
  <2>2. \A d \in Claims \ {e} : claims'[d].committed.status = "approved"
                                 => claims[d].committed.status = "approved"
    BY <1>2
  <2> HIDE DEF e
  <2>3. \A d \in Claims \ (raced \cup {e}) : claims[d].committed.status # "approved"
    BY <2>1, ClaimsAssumption DEF StrongInv, GivenOnce
  <2>4. GivenOnce'
    BY <1>1, <2>1, <2>2, <2>3 DEF GivenOnce
  <2> QED
    BY <2>1, <2>4 DEF Taken
<1>4. CASE ~Confirming(t)
  <2>1. item'.committed = item.committed
    BY <1>4, Publishes
  <2>2. \A c \in Claims : claims'[c].committed.status = "approved"
                          => claims[c].committed.status = "approved"
    BY <1>2, <1>4
  <2>3. ASSUME NEW c \in Claims \ raced, claims[c].committed.status = "approved"
        PROVE  claims'[c].committed.status = "approved"
    <3>1. claims[c].holder = t => claims[c].written = claims[c].committed
      BY <2>3 DEF StrongInv, Settled
    <3> QED
      BY <2>3, <3>1, Publishes
  <2>4. GivenOnce'
    BY <1>1, <2>1, <2>2, <2>3 DEF GivenOnce, StrongInv
  <2> QED
    BY <2>1, <2>2, <2>4 DEF Taken, StrongInv
<1> QED
  BY <1>3, <1>4

LEMMA CommitStrong == ASSUME StrongInv, NEW t \in Tx, Commit(t) PROVE StrongInv'
<1>1. /\ HoldsInv(t)' /\ t \notin Deciding' /\ Goes(t) /\ raced' = raced
      /\ ClaimsStep(t) /\ ItemStep(t) /\ TxStep(t)
  BY EndedHoldsNothing DEF StrongInv
<1>2. \A s \in Tx : Goes(s)
  BY <1>1, OthersGo
<1>3. ReadInv(t)'
  BY <1>1 DEF ReadInv
<1>4. \A s \in Tx : HoldsInv(s)' /\ ReadInv(s)'
  BY <1>1, <1>3, OthersHold, CommitReads
<1>5. Settled'
  BY <1>1, Publishes DEF StrongInv, Settled
<1>6. Inv' /\ RacedInv'
  BY <1>1, <1>2, StepPreservesInv, RacedKept DEF StrongInv
<1> QED
  BY <1>4, <1>5, <1>6, CommitGives DEF StrongInv

LEMMA StrongInit == Init => StrongInv
<1> SUFFICES ASSUME Init PROVE StrongInv
  OBVIOUS
<1>1. \A c \in Claims : claims[c].committed = NoClaim /\ claims[c].holder = NoTx
  BY DEF Init, Stored
<1>2. item.committed.via = Nothing /\ item.holder = NoTx /\ raced = {}
  BY DEF Init, Stored
<1>3. \A t \in Tx : tx[t].pc = "idle"
  BY IdleType DEF Init
<1>4. RacedInv /\ Settled /\ Taken /\ GivenOnce
  BY <1>1, <1>2, <1>3, ClaimTypes, ClaimsAssumption
     DEF RacedInv, Deciding, Settled, Taken, GivenOnce
<1>5. \A t \in Tx : HoldsInv(t) /\ ReadInv(t)
  BY <1>1, <1>2, <1>3, NoTxAssumption DEF HoldsInv, ReadInv, Deciding
<1> QED
  BY <1>4, <1>5, InvInit DEF StrongInv

LEMMA StrongNext == StrongInv /\ [Next]_vars => StrongInv'
<1> SUFFICES ASSUME StrongInv, [Next]_vars PROVE StrongInv'
  OBVIOUS
<1>1. CASE Tick \/ UNCHANGED vars
  <2>1. UNCHANGED <<item, claims, told, tx, raced>>
    BY <1>1 DEF Tick, vars
  <2>2. Inv'
    BY NextInv DEF StrongInv
  <2>3. RacedInv' /\ Settled' /\ Taken' /\ GivenOnce'
    BY <2>1 DEF StrongInv, RacedInv, Disagree, Deciding, Confirming, Settled, Taken, GivenOnce
  <2>4. \A t \in Tx : HoldsInv(t)' /\ ReadInv(t)'
    BY <2>1 DEF StrongInv, HoldsInv, ReadInv, Written, Approving, Deciding, Confirming
  <2> QED
    BY <2>2, <2>3, <2>4 DEF StrongInv
<1>2. ASSUME NEW t \in Tx, Run(t) PROVE StrongInv'
  BY <1>2, Open_ReadStrong, InsertStrong, DecidesStrong, FirstStrong, Confirm_ItemStrong,
     Confirm_OthersStrong, WithdrawClaimStrong, ItemActionsStrong, CommitStrong, RollbackStrong
     DEF Run
<1> QED
  BY <1>1, <1>2 DEF Next

(* A decision that nobody in progress disagrees with finds what it read at *)
(* most decided as it decides itself, and the item with no other taker, in *)
(* every reachable state and however many decisions run at once.           *)
THEOREM StrongInvariance == Spec => []StrongInv
  BY StrongInit, StrongNext, PTL DEF Spec

(* The item is given to one person, who is the one approved, and everybody *)
(* has one pending claim (openClaim, confirmClaim).                        *)
THEOREM GivenToOne == Spec => []GivenInv
<1>1. StrongInv => GivenInv
  <2> SUFFICES ASSUME StrongInv PROVE GivenInv
    OBVIOUS
  <2>1. TypeOK
    <3>1. \A c \in Claims : claims[c] \in RowsOf(Claim \cup {NoClaim})
      BY DEF StrongInv, Inv, ClaimsInv, RowInv
    <3> QED
      BY <3>1 DEF StrongInv, Inv, ClaimsInv, ToldInv, ItemInv, RacedInv, Notices, TypeOK
  <2>2. OnePending
    <3> SUFFICES ASSUME NEW c \in Claims, NEW d \in Claims, NEW u \in Claimants, c # d,
                        Pending(claims[c].committed, u), Pending(claims[d].committed, u)
                 PROVE  FALSE
      BY DEF OnePending
    <3>1. claims[c].committed \in PendingClaims(u) /\ claims[d].committed \in PendingClaims(u)
      BY ClaimTypes DEF StrongInv, Inv, ClaimsInv, RowInv, RowsOf, Pending, PendingClaims
    <3> QED
      BY <3>1 DEF StrongInv, Inv, IndexInv, OneEntry
  <2>3. GivenOnce
    BY DEF StrongInv
  <2> QED
    BY <2>1, <2>2, <2>3 DEF GivenInv
<1>2. Spec => []StrongInv
  BY StrongInvariance
<1> QED
  BY <1>1, <1>2, PTL

(* And a decision, once committed, stands.                                 *)
THEOREM DecisionsAreFinal == Spec => DecisionsStand
<1>1. StrongInv /\ [Next]_vars =>
        \A c \in Claims \ raced :
          claims[c].committed.status \in {"approved", "denied"}
            => claims'[c].committed = claims[c].committed
  <2> SUFFICES ASSUME StrongInv, [Next]_vars, NEW c \in Claims \ raced,
                      claims[c].committed.status \in {"approved", "denied"}
               PROVE  claims'[c].committed = claims[c].committed
    OBVIOUS
  <2>1. claims[c].written = claims[c].committed
    BY DEF StrongInv, Settled
  <2>2. ASSUME NEW t \in Tx, Run(t) PROVE claims'[c].committed = claims[c].committed
    <3>1. DOMAIN claims = Claims /\ claims = [d \in Claims |-> claims[d]]
      BY DEF StrongInv, Inv, ClaimsInv
    <3>2. CASE Commit(t) \/ Rollback(t)
      BY <2>1, <3>1, <3>2, NoTxAssumption
         DEF Commit, Rollback, PublishedAll, RestoredAll, Published, Restored, Stored
    <3>3. CASE WithdrawClaim(t)
      <4>1. tx[t].pc = "idle"
        BY <3>3 DEF WithdrawClaim
      <4>2. View(claims[c], t) = claims[c].committed
        BY <4>1, IdleHoldsNothing DEF StrongInv
      <4> QED
        BY <3>1, <3>3, <4>2 DEF WithdrawClaim
    <3>4. CASE Confirm_Claim(t) \/ Confirm_Others(t) \/ Reject_Claim(t)
      BY <3>4 DEF Confirm_Claim, Confirm_Others, Reject_Claim, Decide, Put
    <3>5. CASE Open_Insert(t)
      BY <3>1, <3>5 DEF Open_Insert, Insert, Put
    <3>6. CASE UNCHANGED claims
      BY <3>6
    <3> QED
      BY <2>2, <3>2, <3>3, <3>4, <3>5, <3>6
         DEF Run, Open_Read, Confirm_Read, Reject_Read, Decides, Confirm_Item, WithdrawItem,
             ExtendItem, ExpireItem, RemoveItem, ItemBecomes
  <2> QED
    BY <2>2 DEF Next, Tick, vars
<1>2. Spec => []StrongInv
  BY StrongInvariance
<1> QED
  BY <1>1, <1>2, PTL DEF Spec, DecisionsStand
=============================================================================
