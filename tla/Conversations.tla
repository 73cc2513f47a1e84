---------------------------- MODULE Conversations ----------------------------
(***************************************************************************)
(* Direct messages between one pair of members (packages/modules/messages):*)
(* the request that opens a conversation, its answer, the messages in it,  *)
(* and how they disappear.                                                 *)
(*                                                                         *)
(* startConversation and sendMessage hold the pair's row from the statement*)
(* that locks it to their commit, a step of its own; between the two they  *)
(* touch that row and a fresh message only.  A transaction of one statement*)
(* is one step, taken when the rows are free: until then nobody saw it.    *)
(*                                                                         *)
(* Message texts, replies, read and typing markers, delete-for-me and the  *)
(* reports are not here, nor the block and membership checks of the route. *)
(***************************************************************************)
EXTENDS Integers, FiniteSetsExt, RowStore

CONSTANTS Users,     \* the two participants
          Nobody,    \* no participant, or SQL null
          Slots,     \* bound: the messages the conversation can hold
          Bar,       \* REREQUEST_BLOCK_DAYS
          Life,      \* 24 hours
          Grace,     \* afterViewingGraceSeconds
          Window,    \* editWindowMinutes and deleteEveryoneWindowMinutes
          MaxTime    \* bound: the last moment of the clock

VARIABLES conv,   \* the pair's row of msg_conversations
          msgs,   \* msg_messages
          tx,     \* per connection: the transaction it runs
          clock,
          held    \* history: the messages that came with the pending request

vars == <<conv, msgs, tx, clock, held>>

ASSUME NobodyAssumption == Nobody \notin Users
ASSUME SlotsAssumption == Slots \subseteq Nat
ASSUME TimesAssumption == {Bar, Life, Grace, Window, MaxTime} \subseteq Nat

Time == 0..MaxTime
Never == -1
Status == {"none", "pending", "active", "declined"}
Ephemerality == {"never", "after_24h", "after_viewing"}

Conversation ==
  {c \in [status : Status, by : Users \cup {Nobody}, since : Time, mode : Ephemerality] :
     (c.by = Nobody) = (c.status = "none")}
NoConversation == [status |-> "none", by |-> Nobody, since |-> 0, mode |-> "never"]

Message == [sender : Users \cup {Nobody}, at : Time, expires : Nat \cup {Never},
            viewed : BOOLEAN, deleted : BOOLEAN, body : {"sent", "edited", ""}]
NoMessage == [sender |-> Nobody, at |-> 0, expires |-> Never,
              viewed |-> FALSE, deleted |-> FALSE, body |-> ""]

(* What a connection remembers between statements: its caller and now().   *)
Transaction == [pc : {"idle", "insert", "stamp", "commit"},
                user : Users \cup {Nobody}, now : Time]

Idle == [pc |-> "idle", user |-> Nobody, now |-> 0]

Init ==
  /\ conv = Stored(NoConversation)
  /\ msgs = [i \in Slots |-> Stored(NoMessage)]
  /\ tx = [t \in Tx |-> Idle]
  /\ clock = 0
  /\ held = {}

-----------------------------------------------------------------------------
Goes(t, pc, u, now) == tx' = [tx EXCEPT ![t] = [pc |-> pc, user |-> u, now |-> now]]
Return(t) == tx' = [tx EXCEPT ![t] = Idle]

(* A transaction may have waited since now() for the row its first         *)
(* statement needs: it is started with that statement, at any time passed. *)
Begun(t, now) == tx[t].pc = "idle" /\ now \in 0..clock

Live(i) == msgs[i].committed # NoMessage

(* The conversation and the messages after a commit, and what the pending  *)
(* request holds then.                                                     *)
Becomes(c, m) ==
  LET said == {i \in Slots : m[i].committed # NoMessage /\ ~Live(i)}
  IN /\ conv' = c /\ msgs' = m
     /\ held' = IF c.committed.status # "pending" THEN {}
                ELSE said \cup (IF conv.committed.status = "pending" THEN held ELSE {})

Commit(t) ==
  /\ tx[t].pc = "commit"
  /\ Becomes(Published(conv, t), PublishedAll(msgs, t))
  /\ Return(t)
  /\ UNCHANGED clock

(* The connection dies, or the operation refuses.                          *)
Rollback(t) ==
  /\ tx[t].pc # "idle"
  /\ conv' = Restored(conv, t) /\ msgs' = RestoredAll(msgs, t)
  /\ Return(t)
  /\ UNCHANGED <<clock, held>>

-----------------------------------------------------------------------------
(* insertMessage, and the insert of sendMessage: only a message of an open *)
(* chat is given an expiry.                                                *)

Said(u, now, c) ==
  [sender |-> u, at |-> now, viewed |-> FALSE, deleted |-> FALSE, body |-> "sent",
   expires |-> IF c.status = "active" /\ c.mode = "after_24h" THEN now + Life ELSE Never]

Say(t, u, now, c) ==
  LET fresh == {i \in Slots : msgs[i] = Stored(NoMessage)}
  IN /\ fresh # {} /\ Free(conv, t)
     /\ conv' = Put(conv, t, c)
     /\ msgs' = [msgs EXCEPT ![Min(fresh)] = Put(@, t, Said(u, now, c))]
     /\ Goes(t, "commit", u, 0)
     /\ UNCHANGED <<clock, held>>

Opened(c, now) == [c EXCEPT !.status = "active", !.since = now]

Asked(u, now, mode) == [status |-> "pending", by |-> u, since |-> now, mode |-> mode]

(* A declined requester asks again after the bar, by the server's clock.   *)
Barred(c, u) == c.by = u /\ c.since + Bar > clock

(* startConversation on a row it found and locked: a message into the open *)
(* chat, the recipient's message that accepts, or a request made again.    *)
Start_Locked(t) ==
  \E u \in Users, now \in Time :
    LET c == View(conv, t)
    IN /\ Begun(t, now)
       /\ \/ c.status = "active" /\ Say(t, u, now, c)
          \/ c.status = "pending" /\ c.by # u /\ Say(t, u, now, Opened(c, now))
          \/ c.status = "declined" /\ ~Barred(c, u)
             /\ \E mode \in Ephemerality : Say(t, u, now, Asked(u, now, mode))

(* ... and when there is no row: the insert waits for another one and does *)
(* nothing when that commits.                                              *)
Start_Absent(t) ==
  \E u \in Users, now \in Time :
    /\ Begun(t, now)
    /\ View(conv, t).status = "none"
    /\ Goes(t, "insert", u, now)
    /\ UNCHANGED <<conv, msgs, clock, held>>

(* Mutant of Start_Insert: the row another request created is overwritten. *)
Start_Insert_Upsert(t) ==
  LET r == tx[t]
  IN /\ r.pc = "insert"
     /\ \E mode \in Ephemerality : Say(t, r.user, r.now, Asked(r.user, r.now, mode))

Start_Insert(t) ==
  LET r == tx[t]
  IN /\ r.pc = "insert" /\ View(conv, t).status = "none"
     /\ \E mode \in Ephemerality : Say(t, r.user, r.now, Asked(r.user, r.now, mode))

(* Mutant of HasRoom: one message more than the request's own is let in.   *)
HasRoom_OneMore(t, c) ==
  Cardinality({i \in Slots : View(msgs[i], t) # NoMessage /\ View(msgs[i], t).at >= c.since}) <= 1

(* sendMessage: a pending request holds the one message of its requester,  *)
(* and the recipient's message accepts it.                                 *)
HasRoom(t, c) == ~\E i \in Slots : View(msgs[i], t) # NoMessage /\ View(msgs[i], t).at >= c.since

Send_Locked(t) ==
  \E u \in Users, now \in Time :
    LET c == View(conv, t)
    IN /\ Begun(t, now)
       /\ \/ c.status = "active" /\ Say(t, u, now, c)
          \/ c.status = "pending" /\ c.by = u /\ HasRoom(t, c) /\ Say(t, u, now, c)
          \/ c.status = "pending" /\ c.by # u /\ Say(t, u, now, Opened(c, now))

-----------------------------------------------------------------------------
(* acceptRequest and declineRequest: one guarded UPDATE each               *)

Change(t, c) ==
  /\ Free(conv, t)
  /\ Becomes(Stored(c), msgs)
  /\ Return(t)
  /\ UNCHANGED clock

Accept(t) ==
  \E u \in Users, now \in Time :
    LET c == View(conv, t)
    IN /\ Begun(t, now)
       /\ c.status = "pending" /\ c.by # u
       /\ \E i \in Slots : View(msgs[i], t) # NoMessage
       /\ Change(t, Opened(c, now))

Decline(t) ==
  \E u \in Users, now \in Time :
    LET c == View(conv, t)
    IN /\ Begun(t, now)
       /\ c.status = "pending" /\ c.by # u
       /\ Change(t, [c EXCEPT !.status = "declined", !.since = now])

(* setEphemerality, whatever the status.                                   *)
SetEphemerality(t) ==
  \E u \in Users, mode \in Ephemerality :
    /\ Begun(t, clock)
    /\ View(conv, t).status # "none"
    /\ Change(t, [View(conv, t) EXCEPT !.mode = mode])

-----------------------------------------------------------------------------
(* Messages after they are sent                                            *)

Rewrite(t, S, F(_)) ==
  /\ \A i \in S : Free(msgs[i], t)
  /\ msgs' = [i \in Slots |-> IF i \in S THEN Stored(F(msgs[i].committed)) ELSE msgs[i]]
  /\ Return(t)
  /\ UNCHANGED <<conv, clock, held>>

(* markRead reads the status; the definer looks at the mode for itself.    *)
Read_Status(t) ==
  \E u \in Users, now \in Time :
    /\ Begun(t, now)
    /\ View(conv, t).status = "active"
    /\ Goes(t, "stamp", u, now)
    /\ UNCHANGED <<conv, msgs, clock, held>>

Unseen(m, u) == m.sender \in Users \ {u} /\ ~m.viewed /\ ~m.deleted

(* auth_msg_stamp_viewed: the first view starts the grace.                 *)
Read_Stamp(t) ==
  LET r == tx[t]
      Viewed(m) == [m EXCEPT !.viewed = TRUE, !.expires = r.now + Grace]
  IN /\ r.pc = "stamp"
     /\ View(conv, t).mode = "after_viewing"
     /\ Rewrite(t, {i \in Slots : Unseen(View(msgs[i], t), r.user)}, Viewed)

Mine(m, u, now) == m.sender = u /\ ~m.deleted /\ m.at + Window > now

Edited(m) == [m EXCEPT !.body = "edited"]

(* Mutant of Edit: a deleted message can be edited.                        *)
Edit_Deleted(t) ==
  \E u \in Users, i \in Slots :
    Begun(t, clock) /\ View(msgs[i], t).sender = u /\ Rewrite(t, {i}, Edited)

Edit(t) ==
  \E u \in Users, now \in Time, i \in Slots :
    Begun(t, now) /\ Mine(View(msgs[i], t), u, now) /\ Rewrite(t, {i}, Edited)

Cleared(m) == [m EXCEPT !.deleted = TRUE, !.body = ""]

DeleteForEveryone(t) ==
  \E u \in Users, now \in Time, i \in Slots :
    Begun(t, now) /\ Mine(View(msgs[i], t), u, now) /\ Rewrite(t, {i}, Cleared)

(* auth_msg_resolve_reports with `removed'.                                *)
Remove(t) ==
  \E i \in Slots :
    /\ Begun(t, clock) /\ View(msgs[i], t) # NoMessage
    /\ Rewrite(t, {i}, Cleared)

(* auth_msg_expire.                                                        *)
Lapsed(m, now) == m.expires # Never /\ m.expires <= now

Expire(t) ==
  \E now \in Time :
    LET due == {i \in Slots : Lapsed(View(msgs[i], t), now)}
        Swept(m) == NoMessage
    IN Begun(t, now) /\ due # {} /\ Rewrite(t, due, Swept)

-----------------------------------------------------------------------------
Tick == clock < MaxTime /\ clock' = clock + 1 /\ UNCHANGED <<conv, msgs, tx, held>>

Run(t) ==
  \/ Start_Locked(t) \/ Start_Absent(t) \/ Start_Insert(t) \/ Send_Locked(t)
  \/ Accept(t) \/ Decline(t) \/ SetEphemerality(t)
  \/ Read_Status(t) \/ Read_Stamp(t) \/ Edit(t) \/ DeleteForEveryone(t) \/ Remove(t) \/ Expire(t)
  \/ Commit(t) \/ Rollback(t)

Next == Tick \/ \E t \in Tx : Run(t)

Spec == Init /\ [][Next]_vars

-----------------------------------------------------------------------------
TypeOK ==
  /\ conv \in RowsOf(Conversation)
  /\ msgs \in [Slots -> RowsOf(Message)]
  /\ tx \in [Tx -> Transaction]
  /\ clock \in Time /\ held \in SUBSET Slots

(* The pair's row keeps ChatContract, whoever's calls overlap: two first   *)
(* messages at once, a message against a decline, an answer against an     *)
(* answer.  A decline holds for the bar, and nothing closes an open chat.  *)
Promise == INSTANCE ChatContract WITH
  chat <- [status |-> conv.committed.status, by |-> conv.committed.by,
           since |-> conv.committed.since]

ContractSpec == Promise!Spec

(* A request in the recipient's list holds exactly one message of its      *)
(* requester ("a request never exists without a message", "one message per *)
(* request"), also when it was declined and made again.                    *)
OneMessagePerRequest ==
  conv.committed.status = "pending" =>
    \E i \in Slots : held = {i} /\ msgs[i].committed.sender = conv.committed.by

(* "A pending request never expires": until the chat is open no message has*)
(* an expiry, although its mode may be set and both may be opening it.     *)
RequestsDoNotExpire ==
  conv.committed.status # "active" =>
    \A i \in Slots : Live(i) => msgs[i].committed.expires = Never

(* A request waits, with its one message, for as long as it takes          *)
(* (OneMessagePerRequest, RequestsDoNotExpire).                            *)
RequestsWait == TypeOK /\ OneMessagePerRequest /\ RequestsDoNotExpire

(* A deleted message never says anything again: no edit that was already   *)
(* waiting for it puts a text back.                                        *)
DeletedStaysEmpty ==
  [][\A i \in Slots : msgs[i].committed.deleted /\ Live(i)' =>
       msgs'[i].committed.deleted /\ msgs'[i].committed.body = ""]_vars
=============================================================================
