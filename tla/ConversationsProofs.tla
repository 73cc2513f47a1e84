------------------------- MODULE ConversationsProofs ------------------------
(***************************************************************************)
(* Theorems about Conversations for every number of messages, connections  *)
(* and every length of the bar, the windows and the clock: a request waits *)
(* with its one message, a deleted message stays empty, and the pair's row *)
(* keeps ChatContract.                                                     *)
(*                                                                         *)
(* Whatever is in flight belongs to the one transaction that holds the     *)
(* pair's row, so what it looked at before its insert is still so when it  *)
(* commits.                                                                *)
(***************************************************************************)
EXTENDS Conversations, RowStoreProofs

(* What a statement may write over the pair's row c: a message into an open*)
(* chat, an answer, or a request, the bar respected.                       *)
Opening(c, w) ==
  \/ c.status = "active" /\ w = c
  \/ /\ c.status = "pending"
     /\ \E now \in 0..clock : w = Opened(c, now)
  \/ /\ c.status \in {"none", "declined"}
     /\ \E u \in Users, now \in 0..clock, mode \in Ephemerality :
          w = Asked(u, now, mode) /\ (c.status = "declined" => ~Barred(c, u))

(* A message m that was sent while the pair's row was c.                   *)
Letter(m, c) ==
  /\ m.sender \in Users
  /\ m.expires # Never => c.status = "active"
  /\ c.status = "pending" => m.sender = c.by /\ m.at >= c.since
  /\ ~m.deleted

(* The pair's row is held from the insert of a message to its commit.      *)
ConvInv ==
  /\ conv \in RowsOf(Conversation)
  /\ conv.holder = NoTx => conv.written = conv.committed
  /\ conv.holder # NoTx => Opening(conv.committed, conv.written)
  /\ \A t \in Tx : tx[t].pc = "commit" <=> conv.holder = t

(* The message in flight is that holder's, and there is exactly one.       *)
MsgsInv ==
  /\ msgs \in [Slots -> RowsOf(Message)]
  /\ \A i \in Slots :
       /\ msgs[i].holder = NoTx => msgs[i].written = msgs[i].committed
       /\ msgs[i].holder # NoTx => /\ msgs[i].holder = conv.holder
                                   /\ msgs[i].committed = NoMessage
                                   /\ Letter(msgs[i].written, conv.written)
       /\ msgs[i].committed.deleted => msgs[i].committed.body = ""
  /\ conv.holder # NoTx =>
       \E i \in Slots : /\ msgs[i].holder = conv.holder
                        /\ \A j \in Slots : msgs[j].holder # NoTx => j = i

(* A message that came with the request is not older than it, which is what*)
(* closes HasRoom to a second one.                                         *)
HeldInv ==
  conv.committed.status = "pending" =>
    \E i \in Slots : /\ held = {i} /\ Live(i)
                     /\ msgs[i].committed.sender = conv.committed.by
                     /\ msgs[i].committed.at >= conv.committed.since

(* An open chat stays open: a reader that saw it open stamps into it.      *)
TxInv ==
  /\ tx \in [Tx -> Transaction]
  /\ \A t \in Tx : /\ tx[t].pc \in {"insert", "stamp"} => tx[t].user \in Users
                   /\ tx[t].pc \in {"insert", "stamp"} => tx[t].now <= clock
                   /\ tx[t].pc = "stamp" => conv.committed.status = "active"

Inv ==
  /\ ConvInv /\ MsgsInv /\ HeldInv /\ TxInv /\ RequestsDoNotExpire
  /\ clock \in Time /\ held \in SUBSET Slots

-----------------------------------------------------------------------------
LEMMA ConversationTypes ==
  /\ NoConversation \in Conversation /\ NoMessage \in Message /\ Idle \in Transaction
  /\ \A c \in Conversation : c.status # "none" <=> c.by \in Users
  /\ \A c \in Conversation, now \in Time :
       c.status # "none" => Opened(c, now) \in Conversation
  /\ \A u \in Users, now \in Time, mode \in Ephemerality : Asked(u, now, mode) \in Conversation
  /\ \A u \in Users, now \in Time, c \in Conversation : Said(u, now, c) \in Message
<1> USE NobodyAssumption, TimesAssumption
        DEF Conversation, Message, Transaction, Time, Status, Ephemerality
<1>1. NoConversation \in Conversation /\ NoMessage \in Message /\ Idle \in Transaction
  BY DEF NoConversation, NoMessage, Idle
<1>2. \A c \in Conversation : c.status # "none" <=> c.by \in Users
  OBVIOUS
<1>3. ASSUME NEW c \in Conversation, NEW now \in Time, c.status # "none"
      PROVE  Opened(c, now) \in Conversation
  BY <1>3 DEF Opened
<1>4. ASSUME NEW u \in Users, NEW now \in Time, NEW mode \in Ephemerality
      PROVE  Asked(u, now, mode) \in Conversation
  BY DEF Asked
<1>5. ASSUME NEW u \in Users, NEW now \in Time, NEW c \in Conversation
      PROVE  Said(u, now, c) \in Message
  BY DEF Said
<1> QED
  BY <1>1, <1>2, <1>3, <1>4, <1>5

LEMMA NoLetter == /\ NoMessage.sender = Nobody /\ NoMessage.body = ""
                  /\ ~NoMessage.deleted /\ ~NoMessage.viewed /\ NoMessage.expires = Never
  BY DEF NoMessage

LEMMA InvInit == Init => Inv
<1> SUFFICES ASSUME Init PROVE Inv
  OBVIOUS
<1>1. conv.committed = NoConversation /\ conv.written = NoConversation /\ conv.holder = NoTx
  BY DEF Init, Stored
<1>2. \A i \in Slots : /\ msgs[i] = Stored(NoMessage) /\ msgs[i].committed = NoMessage
                       /\ msgs[i].written = NoMessage /\ msgs[i].holder = NoTx
  BY DEF Init, Stored
<1>3. ConvInv
  <2>1. conv \in RowsOf(Conversation)
    BY ConversationTypes DEF Init, Stored, RowsOf
  <2> QED
    BY <1>1, <2>1, NoTxAssumption DEF Init, ConvInv, Idle
<1>4. MsgsInv
  <2>1. msgs \in [Slots -> RowsOf(Message)]
    BY ConversationTypes DEF Init, Stored, RowsOf
  <2> QED
    BY <1>1, <1>2, <2>1, NoLetter DEF MsgsInv
<1>5. HeldInv /\ RequestsDoNotExpire /\ held \in SUBSET Slots
  BY <1>1, <1>2 DEF HeldInv, RequestsDoNotExpire, Live, Init, NoConversation
<1>6. TxInv /\ clock \in Time
  BY ConversationTypes, TimesAssumption DEF Init, TxInv, Idle, Time
<1> QED
  BY <1>3, <1>4, <1>5, <1>6 DEF Inv

(* The rows of a transaction that is not about to commit are free.         *)
LEMMA HoldsNothing ==
  ASSUME Inv, NEW t \in Tx, tx[t].pc # "commit"
  PROVE  /\ conv.holder # t /\ View(conv, t) = conv.committed
         /\ Free(conv, t) => conv.holder = NoTx
         /\ \A i \in Slots : /\ msgs[i].holder # t /\ View(msgs[i], t) = msgs[i].committed
                             /\ Free(msgs[i], t) => msgs[i].holder = NoTx
  BY NoTxAssumption DEF Inv, ConvInv, MsgsInv, View, Free

-----------------------------------------------------------------------------
(* The shapes of step the actions are made of.                             *)

(* A message is written into the pair's row as c.                          *)
LEMMA SayKeepsInv ==
  ASSUME Inv, NEW t \in Tx, tx[t].pc # "commit", NEW u \in Users, NEW now \in Time,
         NEW c \in Conversation, Say(t, u, now, c),
         Opening(conv.committed, c), c.status = "pending" => c.by = u /\ now >= c.since
  PROVE  Inv'
<1> DEFINE i == Min({j \in Slots : msgs[j] = Stored(NoMessage)})
           m == Said(u, now, c)
<1>1. i \in Slots /\ msgs[i] = Stored(NoMessage)
  BY LeastFree, SlotsAssumption DEF Say
<1>2. /\ conv' = Put(conv, t, c) /\ msgs' = [msgs EXCEPT ![i] = Put(msgs[i], t, m)]
      /\ tx' = [tx EXCEPT ![t] = [pc |-> "commit", user |-> u, now |-> 0]]
      /\ clock' = clock /\ held' = held
  BY DEF Say, Goes
<1>3. m \in Message /\ Letter(m, c)
  <2>1. m \in Message
    BY ConversationTypes
  <2>2. m.sender = u /\ m.at = now /\ ~m.deleted
    BY DEF Said
  <2>3. m.expires # Never => c.status = "active"
    BY DEF Said
  <2> QED
    BY <2>1, <2>2, <2>3 DEF Letter
<1> HIDE DEF i, m
<1>4. /\ conv.holder = NoTx
      /\ conv'.committed = conv.committed /\ conv'.written = c /\ conv'.holder = t
  BY <1>2, HoldsNothing DEF Say, Put
<1>5. /\ \A j \in Slots : msgs[j].holder = NoTx
      /\ \A j \in Slots \ {i} : msgs'[j] = msgs[j]
      /\ msgs'[i].committed = NoMessage /\ msgs'[i].written = m /\ msgs'[i].holder = t
      /\ msgs[i].committed = NoMessage
      /\ msgs' \in [Slots -> RowsOf(Message)]
  <2>1. /\ \A j \in Slots : msgs[j].holder = NoTx
        /\ msgs \in [Slots -> RowsOf(Message)]
    BY <1>4 DEF Inv, MsgsInv
  <2>2. msgs[i].committed = NoMessage
    BY <1>1 DEF Stored
  <2>3. Put(msgs[i], t, m) \in RowsOf(Message)
    BY <1>3, <2>2, ConversationTypes DEF Put, RowsOf
  <2> QED
    BY <1>1, <1>2, <2>1, <2>2, <2>3 DEF Put
<1>6. tx'[t].pc = "commit" /\ \A s \in Tx \ {t} : tx'[s] = tx[s]
  BY <1>2 DEF Inv, TxInv
<1>7. ConvInv'
  <2>1. conv' \in RowsOf(Conversation)
    BY <1>2 DEF Inv, ConvInv, RowsOf, Put
  <2>2. Opening(conv.committed, c)'
    BY <1>2, <1>4 DEF Opening, Barred
  <2>3. \A s \in Tx : tx'[s].pc = "commit" <=> conv'.holder = s
    BY <1>4, <1>6, NoTxAssumption DEF Inv, ConvInv
  <2> QED
    BY <1>4, <2>1, <2>2, <2>3, NoTxAssumption DEF ConvInv
<1>8. MsgsInv'
  <2>1. ASSUME NEW j \in Slots
        PROVE  /\ msgs'[j].holder = NoTx => msgs'[j].written = msgs'[j].committed
               /\ msgs'[j].holder # NoTx => /\ msgs'[j].holder = conv'.holder
                                            /\ msgs'[j].committed = NoMessage
                                            /\ Letter(msgs'[j].written, conv'.written)
               /\ msgs'[j].committed.deleted => msgs'[j].committed.body = ""
    <3>1. CASE j = i
      BY <1>3, <1>4, <1>5, <3>1, NoTxAssumption, NoLetter
    <3>2. CASE j # i
      BY <1>5, <3>2 DEF Inv, MsgsInv
    <3> QED
      BY <3>1, <3>2
  <2>2. \E k \in Slots : /\ msgs'[k].holder = conv'.holder
                         /\ \A j \in Slots : msgs'[j].holder # NoTx => j = k
    BY <1>1, <1>4, <1>5
  <2> QED
    BY <1>5, <2>1, <2>2 DEF MsgsInv
<1>9. \A j \in Slots : msgs'[j].committed = msgs[j].committed
  BY <1>5
<1>10. HeldInv' /\ RequestsDoNotExpire'
  BY <1>2, <1>4, <1>9 DEF Inv, HeldInv, RequestsDoNotExpire, Live
<1>11. TxInv'
  <2>1. [pc |-> "commit", user |-> u, now |-> 0] \in Transaction
    BY ConversationTypes, TimesAssumption DEF Transaction, Time
  <2>2. tx' \in [Tx -> Transaction]
    BY <1>2, <2>1 DEF Inv, TxInv
  <2> QED
    BY <1>2, <1>4, <1>6, <2>2 DEF Inv, TxInv
<1> QED
  BY <1>2, <1>7, <1>8, <1>10, <1>11 DEF Inv

(* The commit: what was in flight is so, and the request it may be holds   *)
(* that message alone.                                                     *)
LEMMA CommitKeepsInv == ASSUME Inv, NEW t \in Tx, Commit(t) PROVE Inv'
<1>1. tx[t].pc = "commit" /\ conv.holder = t /\ t # NoTx
  BY NoTxAssumption DEF Commit, Inv, ConvInv
<1>2. /\ conv'.committed = conv.written /\ conv'.written = conv.written /\ conv'.holder = NoTx
      /\ clock' = clock /\ tx' = [tx EXCEPT ![t] = Idle]
      /\ conv' \in RowsOf(Conversation)
      /\ conv.written \in Conversation /\ conv.committed \in Conversation
  BY <1>1 DEF Commit, Becomes, Published, Stored, Return, Inv, ConvInv, RowsOf
<1>3. PICK i \in Slots : /\ msgs[i].holder = t
                         /\ \A j \in Slots : msgs[j].holder # NoTx => j = i
  BY <1>1 DEF Inv, MsgsInv
<1>4. /\ msgs' = [j \in Slots |-> Published(msgs[j], t)]
      /\ msgs \in [Slots -> RowsOf(Message)]
  BY DEF Commit, Becomes, PublishedAll, Inv, MsgsInv
<1>5. /\ msgs'[i].committed = msgs[i].written /\ msgs'[i].written = msgs[i].written
      /\ msgs'[i].holder = NoTx
      /\ \A j \in Slots \ {i} : msgs'[j] = msgs[j] /\ msgs[j].holder = NoTx
      /\ msgs' \in [Slots -> RowsOf(Message)]
  BY <1>1, <1>3, <1>4 DEF Published, Stored, RowsOf
<1>6. /\ msgs[i].committed = NoMessage /\ Letter(msgs[i].written, conv.written)
      /\ msgs[i].written # NoMessage
  <2>1. msgs[i].committed = NoMessage /\ Letter(msgs[i].written, conv.written)
    BY <1>1, <1>3 DEF Inv, MsgsInv
  <2>2. msgs[i].written.sender \in Users
    BY <2>1 DEF Letter
  <2> QED
    BY <2>1, <2>2, NoLetter, NobodyAssumption
<1>7. held' = IF conv.written.status # "pending" THEN {}
              ELSE {i} \cup (IF conv.committed.status = "pending" THEN held ELSE {})
  <2>1. {j \in Slots : Published(msgs[j], t).committed # NoMessage /\ ~Live(j)} = {i}
    <3>1. \A j \in Slots : msgs'[j].committed # NoMessage /\ ~Live(j) <=> j = i
      BY <1>5, <1>6 DEF Live
    <3> QED
      BY <1>4, <3>1
  <2> QED
    BY <1>2, <1>4, <2>1 DEF Commit, Becomes, PublishedAll
<1>8. conv.written.status = "pending" => conv.committed.status # "pending"
  <2>1. Opening(conv.committed, conv.written)
    BY <1>1 DEF Inv, ConvInv
  <2>2. ASSUME NEW now, conv.committed.status = "pending", conv.written = Opened(conv.committed, now)
        PROVE  conv.written.status = "active"
    BY <1>2, <2>2 DEF Opened, Conversation
  <2> QED
    BY <2>1, <2>2 DEF Opening
<1>9. conv.committed.status = "active" => conv.written.status = "active"
  BY <1>1 DEF Inv, ConvInv, Opening
<1>10. ConvInv'
  BY <1>1, <1>2, NoTxAssumption DEF Inv, ConvInv, TxInv, Idle
<1>11. MsgsInv'
  <2>1. ASSUME NEW j \in Slots
        PROVE  /\ msgs'[j].holder = NoTx /\ msgs'[j].written = msgs'[j].committed
               /\ msgs'[j].committed.deleted => msgs'[j].committed.body = ""
    <3>1. CASE j = i
      BY <1>5, <1>6, <3>1 DEF Letter
    <3>2. CASE j # i
      BY <1>5, <3>2 DEF Inv, MsgsInv
    <3> QED
      BY <3>1, <3>2
  <2> QED
    BY <1>2, <1>5, <2>1 DEF MsgsInv
<1>12. HeldInv'
  <2> SUFFICES ASSUME conv.written.status = "pending"
               PROVE  /\ held' = {i} /\ Live(i)'
                      /\ msgs'[i].committed.sender = conv.written.by
                      /\ msgs'[i].committed.at >= conv.written.since
    BY <1>2 DEF HeldInv
  <2>1. held' = {i}
    BY <1>7, <1>8
  <2> QED
    BY <2>1, <1>5, <1>6 DEF Live, Letter
<1>13. RequestsDoNotExpire'
  <2> SUFFICES ASSUME conv.written.status # "active", NEW j \in Slots, Live(j)'
               PROVE  msgs'[j].committed.expires = Never
    BY <1>2 DEF RequestsDoNotExpire
  <2>1. CASE j = i
    BY <1>5, <1>6, <2>1 DEF Letter
  <2>2. CASE j # i
    BY <1>5, <1>9, <2>2 DEF Inv, RequestsDoNotExpire, Live
  <2> QED
    BY <2>1, <2>2
<1>14. TxInv'
  BY <1>2, <1>9, ConversationTypes DEF Inv, TxInv, Idle
<1>15. held' \in SUBSET Slots
  BY <1>7 DEF Inv
<1> QED
  BY <1>2, <1>10, <1>11, <1>12, <1>13, <1>14, <1>15 DEF Inv

LEMMA RollbackKeepsInv == ASSUME Inv, NEW t \in Tx, Rollback(t) PROVE Inv'
<1>1. /\ conv' = Restored(conv, t) /\ msgs' = [j \in Slots |-> Restored(msgs[j], t)]
      /\ tx' = [tx EXCEPT ![t] = Idle] /\ clock' = clock /\ held' = held
  BY DEF Rollback, Return, RestoredAll, Inv, MsgsInv
<1>2. /\ conv'.committed = conv.committed
      /\ conv.holder = t => conv'.holder = NoTx /\ conv'.written = conv.committed
      /\ conv.holder # t => conv' = conv
      /\ conv' \in RowsOf(Conversation)
  BY <1>1 DEF Restored, Stored, Inv, ConvInv, RowsOf
<1>3. ASSUME NEW j \in Slots
      PROVE  /\ msgs'[j].committed = msgs[j].committed
             /\ msgs[j].holder = t => /\ msgs'[j].holder = NoTx
                                      /\ msgs'[j].written = msgs[j].committed
             /\ msgs[j].holder # t => msgs'[j] = msgs[j]
             /\ msgs'[j] \in RowsOf(Message)
  BY <1>1 DEF Restored, Stored, Inv, MsgsInv, RowsOf
<1>4. ConvInv'
  <2>1. \A s \in Tx : tx'[s].pc = "commit" <=> conv'.holder = s
    BY <1>1, <1>2, NoTxAssumption DEF Inv, ConvInv, TxInv, Idle
  <2>2. (conv.holder # NoTx => Opening(conv.committed, conv.written))'
    BY <1>1, <1>2 DEF Inv, ConvInv, Opening, Barred
  <2> QED
    BY <1>2, <2>1, <2>2 DEF Inv, ConvInv
<1>5. MsgsInv'
  <2>1. msgs' \in [Slots -> RowsOf(Message)]
    BY <1>1, <1>3
  <2>2. ASSUME NEW j \in Slots
        PROVE  /\ msgs'[j].holder = NoTx => msgs'[j].written = msgs'[j].committed
               /\ msgs'[j].holder # NoTx => /\ msgs'[j].holder = conv'.holder
                                            /\ msgs'[j].committed = NoMessage
                                            /\ Letter(msgs'[j].written, conv'.written)
               /\ msgs'[j].committed.deleted => msgs'[j].committed.body = ""
    <3>1. CASE msgs[j].holder = t
      BY <1>3, <3>1 DEF Inv, MsgsInv
    <3>2. CASE msgs[j].holder # t
      BY <1>2, <1>3, <3>2 DEF Inv, MsgsInv
    <3> QED
      BY <3>1, <3>2
  <2>3. ASSUME conv'.holder # NoTx
        PROVE  \E k \in Slots : /\ msgs'[k].holder = conv'.holder
                                /\ \A j \in Slots : msgs'[j].holder # NoTx => j = k
    <3>1. conv.holder # t /\ conv' = conv
      BY <1>2, <2>3
    <3>2. PICK k \in Slots : /\ msgs[k].holder = conv.holder
                             /\ \A j \in Slots : msgs[j].holder # NoTx => j = k
      BY <2>3, <3>1 DEF Inv, MsgsInv
    <3>3. msgs'[k].holder = conv'.holder
      BY <1>3, <3>1, <3>2
    <3>4. ASSUME NEW j \in Slots, msgs'[j].holder # NoTx PROVE j = k
      BY <1>3, <3>2, <3>4
    <3> QED
      BY <3>3, <3>4
  <2> QED
    BY <2>1, <2>2, <2>3 DEF MsgsInv
<1>6. HeldInv' /\ RequestsDoNotExpire'
  BY <1>1, <1>2, <1>3 DEF Inv, HeldInv, RequestsDoNotExpire, Live
<1>7. TxInv'
  BY <1>1, <1>2, ConversationTypes DEF Inv, TxInv, Idle
<1> QED
  BY <1>1, <1>4, <1>5, <1>6, <1>7 DEF Inv

(* One UPDATE of the pair's row, which nobody else was writing.            *)
LEMMA ChangeKeepsInv ==
  ASSUME Inv, NEW t \in Tx, tx[t].pc = "idle", NEW c \in Conversation, Change(t, c),
         conv.committed.status = "active" => c.status = "active",
         c.status # "active" => conv.committed.status # "active",
         c.status = "pending" => /\ conv.committed.status = "pending"
                                 /\ c.by = conv.committed.by /\ c.since = conv.committed.since
  PROVE  Inv'
<1>1. /\ conv.holder = NoTx /\ conv'.committed = c /\ conv'.written = c /\ conv'.holder = NoTx
      /\ conv' \in RowsOf(Conversation) /\ msgs' = msgs /\ clock' = clock
      /\ tx' = [tx EXCEPT ![t] = Idle]
  BY HoldsNothing DEF Change, Becomes, Stored, Return, RowsOf
<1>2. held' = IF c.status # "pending" THEN {} ELSE held
  <2>1. {i \in Slots : msgs[i].committed # NoMessage /\ ~Live(i)} = {}
    BY DEF Live
  <2> QED
    BY <1>1, <2>1 DEF Change, Becomes, Stored
<1>3. ConvInv'
  BY <1>1, NoTxAssumption DEF Inv, ConvInv, TxInv, Idle
<1>4. MsgsInv'
  BY <1>1 DEF Inv, MsgsInv
<1>5. HeldInv' /\ RequestsDoNotExpire' /\ held' \in SUBSET Slots
  BY <1>1, <1>2 DEF Inv, HeldInv, RequestsDoNotExpire, Live
<1>6. TxInv'
  BY <1>1, ConversationTypes DEF Inv, TxInv, Idle
<1> QED
  BY <1>1, <1>3, <1>4, <1>5, <1>6 DEF Inv

(* What may be made of a stored message m: it is swept when it has an      *)
(* expiry, and given one in an open chat only.                             *)
Rewritten(m, n) ==
  \/ n = m
  \/ n = NoMessage /\ m.expires # Never
  \/ /\ m # NoMessage /\ n # NoMessage
     /\ n.sender = m.sender /\ n.at = m.at
     /\ n.expires = m.expires \/ conv.committed.status = "active"
     /\ m.deleted => n.deleted
     /\ n.deleted => n.body = ""

(* Rows nobody is writing are rewritten, by a transaction that ends.       *)
RewriteStep(t) ==
  /\ msgs' \in [Slots -> RowsOf(Message)]
  /\ \A i \in Slots :
       \/ msgs'[i] = msgs[i]
       \/ /\ msgs[i].holder = NoTx /\ msgs'[i].holder = NoTx
          /\ msgs'[i].written = msgs'[i].committed
          /\ Rewritten(msgs[i].committed, msgs'[i].committed)
  /\ tx' = [tx EXCEPT ![t] = Idle]
  /\ UNCHANGED <<conv, clock, held>>

LEMMA RewriteKeepsInv ==
  ASSUME Inv, NEW t \in Tx, tx[t].pc # "commit", RewriteStep(t)
  PROVE  Inv'
<1>1. conv.holder # t
  BY DEF Inv, ConvInv
<1>2. ConvInv'
  BY <1>1, NoTxAssumption DEF RewriteStep, Inv, ConvInv, Opening, Barred, TxInv, Idle
<1>3. MsgsInv'
  <2>1. ASSUME NEW i \in Slots
        PROVE  /\ msgs'[i].holder = NoTx => msgs'[i].written = msgs'[i].committed
               /\ msgs'[i].holder # NoTx => /\ msgs'[i].holder = conv'.holder
                                            /\ msgs'[i].committed = NoMessage
                                            /\ Letter(msgs'[i].written, conv'.written)
               /\ msgs'[i].committed.deleted => msgs'[i].committed.body = ""
               /\ msgs'[i].holder = msgs[i].holder
    <3>1. CASE msgs'[i] = msgs[i]
      BY <3>1 DEF Inv, MsgsInv, RewriteStep
    <3>2. CASE /\ msgs[i].holder = NoTx /\ msgs'[i].holder = NoTx
               /\ msgs'[i].written = msgs'[i].committed
               /\ Rewritten(msgs[i].committed, msgs'[i].committed)
      <4>1. msgs[i].committed.deleted => msgs[i].committed.body = ""
        BY DEF Inv, MsgsInv
      <4> QED
        BY <3>2, <4>1, NoLetter DEF Rewritten
    <3> QED
      BY <3>1, <3>2 DEF RewriteStep
  <2>2. msgs' \in [Slots -> RowsOf(Message)] /\ conv' = conv
    BY DEF RewriteStep
  <2>3. ASSUME conv'.holder # NoTx
        PROVE  \E k \in Slots : /\ msgs'[k].holder = conv'.holder
                                /\ \A j \in Slots : msgs'[j].holder # NoTx => j = k
    <3>1. PICK k \in Slots : /\ msgs[k].holder = conv.holder
                             /\ \A j \in Slots : msgs[j].holder # NoTx => j = k
      BY <2>2, <2>3 DEF Inv, MsgsInv
    <3>2. msgs'[k].holder = conv'.holder
      BY <2>1, <2>2, <3>1
    <3>3. ASSUME NEW j \in Slots, msgs'[j].holder # NoTx PROVE j = k
      BY <2>1, <3>1, <3>3
    <3> QED
      BY <3>2, <3>3
  <2> QED
    BY <2>1, <2>2, <2>3 DEF MsgsInv
<1>4. ASSUME NEW i \in Slots
      PROVE  \/ msgs'[i].committed = msgs[i].committed
             \/ Rewritten(msgs[i].committed, msgs'[i].committed)
  BY DEF RewriteStep
<1>5. RequestsDoNotExpire'
  <2> SUFFICES ASSUME conv.committed.status # "active", NEW i \in Slots, Live(i)'
               PROVE  msgs'[i].committed.expires = Never
    BY DEF RequestsDoNotExpire, RewriteStep
  <2>1. Live(i) => msgs[i].committed.expires = Never
    BY DEF Inv, RequestsDoNotExpire
  <2> QED
    BY <1>4, <2>1 DEF Rewritten, Live
<1>6. HeldInv'
  <2> SUFFICES ASSUME conv.committed.status = "pending" PROVE HeldInv'
    BY DEF HeldInv, RewriteStep
  <2>1. PICK i \in Slots : /\ held = {i} /\ Live(i)
                           /\ msgs[i].committed.sender = conv.committed.by
                           /\ msgs[i].committed.at >= conv.committed.since
    BY DEF Inv, HeldInv
  <2>2. msgs[i].committed.expires = Never
    BY <2>1 DEF Inv, RequestsDoNotExpire
  <2>3. /\ Live(i)' /\ msgs'[i].committed.sender = msgs[i].committed.sender
        /\ msgs'[i].committed.at = msgs[i].committed.at
    BY <1>4, <2>1, <2>2 DEF Rewritten, Live
  <2> QED
    BY <2>1, <2>3 DEF HeldInv, RewriteStep
<1>7. TxInv'
  BY ConversationTypes DEF RewriteStep, Inv, TxInv, Idle
<1> QED
  BY <1>2, <1>3, <1>5, <1>6, <1>7 DEF RewriteStep, Inv

-----------------------------------------------------------------------------
(* The actions, one lemma each.                                            *)

LEMMA Statuses ==
  ASSUME Inv, NEW t \in Tx
  PROVE  /\ conv.committed \in Conversation /\ conv.committed.status \in Status
         /\ \A i \in Slots : msgs[i] \in RowsOf(Message) /\ msgs[i].committed \in Message
  BY DEF Inv, ConvInv, MsgsInv, RowsOf, Conversation

LEMMA OpenedFields ==
  ASSUME NEW c \in Conversation, NEW now \in Time
  PROVE  /\ Opened(c, now).status = "active" /\ Opened(c, now).by = c.by
         /\ Opened(c, now).since = now
  BY DEF Opened, Conversation

LEMMA AskedFields ==
  ASSUME NEW u \in Users, NEW now \in Time, NEW mode \in Ephemerality
  PROVE  /\ Asked(u, now, mode).status = "pending" /\ Asked(u, now, mode).by = u
         /\ Asked(u, now, mode).since = now
  BY DEF Asked

LEMMA NowPassed == ASSUME Inv, NEW now \in Time, now <= clock PROVE now \in 0..clock
  BY TimesAssumption DEF Inv, Time

LEMMA Start_LockedStep == ASSUME Inv, NEW t \in Tx, Start_Locked(t) PROVE Inv'
<1> DEFINE c == View(conv, t)
<1>1. PICK u \in Users, now \in Time :
        /\ Begun(t, now)
        /\ \/ c.status = "active" /\ Say(t, u, now, c)
           \/ c.status = "pending" /\ c.by # u /\ Say(t, u, now, Opened(c, now))
           \/ c.status = "declined" /\ ~Barred(c, u)
              /\ \E mode \in Ephemerality : Say(t, u, now, Asked(u, now, mode))
  BY DEF Start_Locked
<1>2. tx[t].pc # "commit" /\ now \in 0..clock
  BY <1>1 DEF Begun
<1>3. c = conv.committed /\ c \in Conversation
  BY <1>2, HoldsNothing, Statuses
<1> HIDE DEF c
<1>4. CASE c.status = "active" /\ Say(t, u, now, c)
  BY <1>2, <1>3, <1>4, SayKeepsInv DEF Opening
<1>5. CASE c.status = "pending" /\ Say(t, u, now, Opened(c, now))
  <2>1. Opened(c, now) \in Conversation /\ Opened(c, now).status = "active"
    BY <1>3, <1>5, ConversationTypes, OpenedFields
  <2>2. Opening(c, Opened(c, now))
    BY <1>2, <1>5 DEF Opening
  <2> QED
    BY <1>2, <1>3, <1>5, <2>1, <2>2, SayKeepsInv
<1>6. ASSUME c.status = "declined", ~Barred(c, u), NEW mode \in Ephemerality,
             Say(t, u, now, Asked(u, now, mode))
      PROVE  Inv'
  <2>1. /\ Asked(u, now, mode) \in Conversation /\ Asked(u, now, mode).by = u
        /\ Asked(u, now, mode).since = now
    BY ConversationTypes, AskedFields
  <2>2. Opening(c, Asked(u, now, mode))
    BY <1>2, <1>6 DEF Opening
  <2>3. now >= Asked(u, now, mode).since
    BY <2>1, TimesAssumption DEF Time
  <2> QED
    BY <1>2, <1>3, <1>6, <2>1, <2>2, <2>3, SayKeepsInv
<1> QED
  BY <1>1, <1>4, <1>5, <1>6

LEMMA Start_InsertStep == ASSUME Inv, NEW t \in Tx, Start_Insert(t) PROVE Inv'
<1> DEFINE u == tx[t].user
           now == tx[t].now
<1>1. PICK mode \in Ephemerality : Say(t, u, now, Asked(u, now, mode))
  BY DEF Start_Insert
<1>2. /\ tx[t].pc = "insert" /\ View(conv, t).status = "none"
      /\ u \in Users /\ now \in Time /\ now <= clock
  BY DEF Start_Insert, Inv, TxInv, Transaction
<1> HIDE DEF u, now
<1>3. tx[t].pc # "commit" /\ conv.committed.status = "none"
  BY <1>2, HoldsNothing
<1>4. /\ Asked(u, now, mode) \in Conversation /\ Asked(u, now, mode).by = u
      /\ now >= Asked(u, now, mode).since
  BY <1>2, ConversationTypes, AskedFields, TimesAssumption DEF Time
<1>5. Opening(conv.committed, Asked(u, now, mode))
  BY <1>2, <1>3, NowPassed DEF Opening
<1> QED
  BY <1>1, <1>2, <1>3, <1>4, <1>5, SayKeepsInv

(* HasRoom never finds room: the request's own message is there.           *)
LEMMA NoRoom ==
  ASSUME Inv, NEW t \in Tx, tx[t].pc # "commit", conv.committed.status = "pending"
  PROVE  ~HasRoom(t, conv.committed)
<1>1. PICK i \in Slots : Live(i) /\ msgs[i].committed.at >= conv.committed.since
  BY DEF Inv, HeldInv
<1>2. View(msgs[i], t) = msgs[i].committed
  BY HoldsNothing
<1> QED
  BY <1>1, <1>2 DEF HasRoom, Live

LEMMA Send_LockedStep == ASSUME Inv, NEW t \in Tx, Send_Locked(t) PROVE Inv'
<1> DEFINE c == View(conv, t)
<1>1. PICK u \in Users, now \in Time :
        /\ Begun(t, now)
        /\ \/ c.status = "active" /\ Say(t, u, now, c)
           \/ c.status = "pending" /\ c.by = u /\ HasRoom(t, c) /\ Say(t, u, now, c)
           \/ c.status = "pending" /\ c.by # u /\ Say(t, u, now, Opened(c, now))
  BY DEF Send_Locked
<1>2. tx[t].pc # "commit" /\ now \in 0..clock
  BY <1>1 DEF Begun
<1>3. c = conv.committed /\ c \in Conversation
  BY <1>2, HoldsNothing, Statuses
<1> HIDE DEF c
<1>4. CASE c.status = "active" /\ Say(t, u, now, c)
  BY <1>2, <1>3, <1>4, SayKeepsInv DEF Opening
<1>5. CASE c.status = "pending" /\ Say(t, u, now, Opened(c, now))
  <2>1. Opened(c, now) \in Conversation /\ Opened(c, now).status = "active"
    BY <1>3, <1>5, ConversationTypes, OpenedFields
  <2>2. Opening(c, Opened(c, now))
    BY <1>2, <1>5 DEF Opening
  <2> QED
    BY <1>2, <1>3, <1>5, <2>1, <2>2, SayKeepsInv
<1>6. CASE c.status = "pending" /\ HasRoom(t, c)
  BY <1>2, <1>3, <1>6, NoRoom
<1> QED
  BY <1>1, <1>4, <1>5, <1>6

LEMMA AnswerStep == ASSUME Inv, NEW t \in Tx, Accept(t) \/ Decline(t) PROVE Inv'
<1> DEFINE c == View(conv, t)
           no(now) == [c EXCEPT !.status = "declined", !.since = now]
<1>1. PICK now \in Time : /\ Begun(t, now) /\ c.status = "pending"
                          /\ Change(t, Opened(c, now)) \/ Change(t, no(now))
  BY DEF Accept, Decline
<1>2. tx[t].pc = "idle" /\ c = conv.committed /\ c \in Conversation
  BY <1>1, HoldsNothing, Statuses DEF Begun
<1> HIDE DEF c
<1>3. Opened(c, now) \in Conversation /\ Opened(c, now).status = "active"
  BY <1>1, <1>2, ConversationTypes, OpenedFields
<1>4. no(now) \in Conversation /\ no(now).status = "declined"
  BY <1>1, <1>2, NobodyAssumption DEF Conversation, Status
<1> HIDE DEF no
<1>5. CASE Change(t, Opened(c, now))
  BY <1>1, <1>2, <1>3, <1>5, ChangeKeepsInv
<1>6. CASE Change(t, no(now))
  BY <1>1, <1>2, <1>4, <1>6, ChangeKeepsInv
<1> QED
  BY <1>1, <1>5, <1>6

LEMMA SetEphemeralityStep == ASSUME Inv, NEW t \in Tx, SetEphemerality(t) PROVE Inv'
<1> DEFINE c == View(conv, t)
<1>1. PICK mode \in Ephemerality : Begun(t, clock) /\ Change(t, [c EXCEPT !.mode = mode])
  BY DEF SetEphemerality
<1> DEFINE w == [c EXCEPT !.mode = mode]
<1>2. tx[t].pc = "idle" /\ c = conv.committed /\ c \in Conversation
  BY <1>1, HoldsNothing, Statuses DEF Begun
<1> HIDE DEF c
<1>3. w \in Conversation /\ w.status = c.status /\ w.by = c.by /\ w.since = c.since
  BY <1>2 DEF Conversation
<1> HIDE DEF w
<1>4. Change(t, w)
  BY <1>1 DEF w
<1> QED
  BY <1>2, <1>3, <1>4, ChangeKeepsInv

(* A connection remembers its caller and now() before it writes anything.  *)
LEMMA ReadStep == ASSUME Inv, NEW t \in Tx, Start_Absent(t) \/ Read_Status(t) PROVE Inv'
<1>1. PICK u \in Users, now \in Time, pc \in {"insert", "stamp"} :
        /\ Begun(t, now) /\ Goes(t, pc, u, now)
        /\ pc = "stamp" => View(conv, t).status = "active"
        /\ UNCHANGED <<conv, msgs, clock, held>>
  BY DEF Start_Absent, Read_Status
<1>2. /\ tx[t].pc = "idle" /\ now <= clock /\ conv.holder # t
      /\ pc = "stamp" => conv.committed.status = "active"
  BY <1>1, HoldsNothing, TimesAssumption DEF Begun, Inv, Time
<1>3. [pc |-> pc, user |-> u, now |-> now] \in Transaction
  BY DEF Transaction
<1>4. TxInv'
  <2>1. tx' \in [Tx -> Transaction] /\ \A s \in Tx \ {t} : tx'[s] = tx[s]
    BY <1>1, <1>3 DEF Goes, Inv, TxInv
  <2>2. tx'[t] = [pc |-> pc, user |-> u, now |-> now]
    BY <1>1 DEF Goes, Inv, TxInv
  <2> QED
    BY <1>1, <1>2, <2>1, <2>2 DEF Inv, TxInv
<1>5. ConvInv'
  <2>1. \A s \in Tx : tx'[s].pc = "commit" <=> tx[s].pc = "commit"
    BY <1>1, <1>2 DEF Goes, Inv, TxInv
  <2> QED
    BY <1>1, <2>1 DEF Inv, ConvInv, Opening, Barred
<1>6. MsgsInv' /\ HeldInv' /\ RequestsDoNotExpire'
  BY <1>1 DEF Inv, MsgsInv, HeldInv, RequestsDoNotExpire, Live, Letter
<1> QED
  BY <1>1, <1>4, <1>5, <1>6 DEF Inv

(* What the single-row statements make of a message.                       *)
LEMMA RewrittenTypes ==
  ASSUME NEW m \in Message, m # NoMessage, m.deleted => m.body = ""
  PROVE  /\ Cleared(m) \in Message /\ Rewritten(m, Cleared(m))
         /\ ~m.deleted => Edited(m) \in Message /\ Rewritten(m, Edited(m))
         /\ \A e \in Nat :
              ~m.deleted /\ conv.committed.status = "active"
                => /\ [m EXCEPT !.viewed = TRUE, !.expires = e] \in Message
                   /\ Rewritten(m, [m EXCEPT !.viewed = TRUE, !.expires = e])
<1>1. ASSUME NEW n \in Message, n # NoMessage, n.sender = m.sender, n.at = m.at,
             n.expires = m.expires \/ conv.committed.status = "active",
             m.deleted => n.deleted, n.deleted => n.body = ""
      PROVE  Rewritten(m, n)
  BY <1>1 DEF Rewritten
<1>2. Cleared(m) \in Message /\ Rewritten(m, Cleared(m))
  <2>1. /\ Cleared(m) \in Message /\ Cleared(m).sender = m.sender /\ Cleared(m).at = m.at
        /\ Cleared(m).expires = m.expires /\ Cleared(m).body = ""
    BY DEF Cleared, Message
  <2>2. Cleared(m).deleted
    BY DEF Cleared, Message
  <2>3. Cleared(m) # NoMessage
    BY <2>2, NoLetter
  <2> QED
    BY <1>1, <2>1, <2>2, <2>3
<1>3. ASSUME ~m.deleted PROVE Edited(m) \in Message /\ Rewritten(m, Edited(m))
  <2>1. /\ Edited(m) \in Message /\ Edited(m).sender = m.sender /\ Edited(m).at = m.at
        /\ Edited(m).expires = m.expires /\ Edited(m).deleted = m.deleted
        /\ Edited(m).body = "edited"
    BY DEF Edited, Message
  <2>2. Edited(m) # NoMessage
    BY <2>1, NoLetter
  <2> QED
    BY <1>1, <1>3, <2>1, <2>2
<1>4. ASSUME NEW e \in Nat, ~m.deleted, conv.committed.status = "active"
      PROVE  /\ [m EXCEPT !.viewed = TRUE, !.expires = e] \in Message
             /\ Rewritten(m, [m EXCEPT !.viewed = TRUE, !.expires = e])
  <2> DEFINE n == [m EXCEPT !.viewed = TRUE, !.expires = e]
  <2>1. /\ n \in Message /\ n.sender = m.sender /\ n.at = m.at /\ n.deleted = m.deleted
    BY DEF Message
  <2>2. n # NoMessage
    <3>1. n.viewed
      BY DEF Message
    <3> HIDE DEF n
    <3> QED
      BY <3>1, NoLetter
  <2> HIDE DEF n
  <2>3. Rewritten(m, n)
    BY <1>1, <1>4, <2>1, <2>2
  <2> QED
    BY <2>1, <2>3 DEF n
<1> QED
  BY <1>2, <1>3, <1>4

(* A rewriting of the free rows S, of each to its n, is a RewriteStep.     *)
LEMMA RewriteIs ==
  ASSUME Inv, NEW t \in Tx, tx[t].pc # "commit", NEW S, NEW n,
         \A i \in S : Free(msgs[i], t),
         msgs' = [i \in Slots |-> IF i \in S THEN Stored(n[i]) ELSE msgs[i]],
         Return(t), UNCHANGED <<conv, clock, held>>,
         \A i \in Slots \cap S : n[i] \in Message /\ Rewritten(msgs[i].committed, n[i])
  PROVE  Inv' /\ RewriteStep(t)
<1>1. ASSUME NEW i \in Slots
      PROVE  /\ msgs'[i] \in RowsOf(Message)
             /\ \/ msgs'[i] = msgs[i]
                \/ /\ msgs[i].holder = NoTx /\ msgs'[i].holder = NoTx
                   /\ msgs'[i].written = msgs'[i].committed
                   /\ Rewritten(msgs[i].committed, msgs'[i].committed)
  <2>1. CASE i \in S
    <3>1. msgs'[i] = Stored(n[i]) /\ msgs[i].holder = NoTx
      BY <2>1, HoldsNothing
    <3>2. n[i] \in Message /\ Rewritten(msgs[i].committed, n[i])
      BY <2>1
    <3> QED
      BY <3>1, <3>2 DEF Stored, RowsOf
  <2>2. CASE i \notin S
    BY <2>2, Statuses
  <2> QED
    BY <2>1, <2>2
<1>2. msgs' \in [Slots -> RowsOf(Message)]
  BY <1>1
<1>3. RewriteStep(t)
  BY <1>1, <1>2 DEF RewriteStep, Return
<1> QED
  BY <1>3, RewriteKeepsInv

LEMMA StoredMessage ==
  ASSUME Inv, NEW i \in Slots
  PROVE  /\ msgs[i].committed \in Message
         /\ msgs[i].committed.deleted => msgs[i].committed.body = ""
  BY Statuses DEF Inv, MsgsInv, RowsOf

LEMMA EditStep == ASSUME Inv, NEW t \in Tx, Edit(t) PROVE Inv' /\ RewriteStep(t)
<1>1. PICK u \in Users, now \in Time, k \in Slots :
        Begun(t, now) /\ Mine(View(msgs[k], t), u, now) /\ Rewrite(t, {k}, Edited)
  BY DEF Edit
<1> DEFINE m == msgs[k].committed
           S == {k}
           n == [i \in Slots |-> Edited(msgs[i].committed)]
<1>2. /\ tx[t].pc # "commit" /\ m \in Message /\ m # NoMessage /\ ~m.deleted
      /\ m.deleted => m.body = ""
  BY <1>1, HoldsNothing, StoredMessage, NoLetter, NobodyAssumption DEF Begun, Mine
<1>3. n[k] \in Message /\ Rewritten(m, n[k])
  BY <1>2, RewrittenTypes
<1>4. /\ \A i \in S : Free(msgs[i], t)
      /\ msgs' = [i \in Slots |-> IF i \in S THEN Stored(n[i]) ELSE msgs[i]]
      /\ Return(t) /\ UNCHANGED <<conv, clock, held>>
  BY <1>1 DEF Rewrite
<1>5. \A i \in Slots \cap S : n[i] \in Message /\ Rewritten(msgs[i].committed, n[i])
  BY <1>3
<1> HIDE DEF n, m, S
<1> QED
  BY <1>2, <1>4, <1>5, RewriteIs

LEMMA ClearStep ==
  ASSUME Inv, NEW t \in Tx, DeleteForEveryone(t) \/ Remove(t)
  PROVE  Inv' /\ RewriteStep(t)
<1>1. PICK k \in Slots : /\ tx[t].pc = "idle" /\ Rewrite(t, {k}, Cleared)
                         /\ View(msgs[k], t) # NoMessage
  BY NoLetter, NobodyAssumption DEF DeleteForEveryone, Remove, Begun, Mine
<1> DEFINE m == msgs[k].committed
           S == {k}
           n == [i \in Slots |-> Cleared(msgs[i].committed)]
<1>2. /\ tx[t].pc # "commit" /\ m \in Message /\ m # NoMessage
      /\ m.deleted => m.body = ""
  BY <1>1, HoldsNothing, StoredMessage
<1>3. n[k] \in Message /\ Rewritten(m, n[k])
  BY <1>2, RewrittenTypes
<1>4. /\ \A i \in S : Free(msgs[i], t)
      /\ msgs' = [i \in Slots |-> IF i \in S THEN Stored(n[i]) ELSE msgs[i]]
      /\ Return(t) /\ UNCHANGED <<conv, clock, held>>
  BY <1>1 DEF Rewrite
<1>5. \A i \in Slots \cap S : n[i] \in Message /\ Rewritten(msgs[i].committed, n[i])
  BY <1>3
<1> HIDE DEF n, m, S
<1> QED
  BY <1>2, <1>4, <1>5, RewriteIs

LEMMA StampStep == ASSUME Inv, NEW t \in Tx, Read_Stamp(t) PROVE Inv' /\ RewriteStep(t)
<1> DEFINE u == tx[t].user
           e == tx[t].now + Grace
           S == {i \in Slots : Unseen(View(msgs[i], t), u)}
           n == [i \in Slots |-> [msgs[i].committed EXCEPT !.viewed = TRUE, !.expires = e]]
<1>1. /\ \A i \in S : Free(msgs[i], t)
      /\ msgs' = [i \in Slots |-> IF i \in S THEN Stored(n[i]) ELSE msgs[i]]
      /\ Return(t) /\ UNCHANGED <<conv, clock, held>>
  BY DEF Read_Stamp, Rewrite
<1>2. /\ tx[t].pc # "commit" /\ conv.committed.status = "active" /\ e \in Nat
  BY TimesAssumption DEF Read_Stamp, Inv, TxInv, Transaction, Time
<1> HIDE DEF u, e
<1>3. ASSUME NEW i \in Slots, i \in S
      PROVE  n[i] \in Message /\ Rewritten(msgs[i].committed, n[i])
  <2> DEFINE m == msgs[i].committed
  <2>1. m \in Message /\ m # NoMessage /\ ~m.deleted /\ (m.deleted => m.body = "")
    BY <1>2, <1>3, HoldsNothing, StoredMessage, NoLetter, NobodyAssumption DEF Unseen
  <2>2. n[i] = [m EXCEPT !.viewed = TRUE, !.expires = e]
    OBVIOUS
  <2> HIDE DEF m, n
  <2>3. n[i] \in Message /\ Rewritten(m, n[i])
    BY <1>2, <2>1, <2>2, RewrittenTypes
  <2> QED
    BY <2>3 DEF m
<1> HIDE DEF n, S
<1> QED
  BY <1>1, <1>2, <1>3, RewriteIs

LEMMA ExpireStep == ASSUME Inv, NEW t \in Tx, Expire(t) PROVE Inv' /\ RewriteStep(t)
<1>1. PICK now \in Time :
        /\ Begun(t, now)
        /\ LET due == {i \in Slots : Lapsed(View(msgs[i], t), now)}
               Swept(m) == NoMessage
           IN Rewrite(t, due, Swept)
  BY DEF Expire
<1> DEFINE S == {i \in Slots : Lapsed(View(msgs[i], t), now)}
           n == [i \in Slots |-> NoMessage]
<1>2. /\ \A i \in S : Free(msgs[i], t)
      /\ msgs' = [i \in Slots |-> IF i \in S THEN Stored(n[i]) ELSE msgs[i]]
      /\ Return(t) /\ UNCHANGED <<conv, clock, held>>
  BY <1>1 DEF Rewrite
<1>3. tx[t].pc # "commit"
  BY <1>1 DEF Begun
<1>4. ASSUME NEW i \in Slots, i \in S
      PROVE  n[i] \in Message /\ Rewritten(msgs[i].committed, n[i])
  BY <1>3, <1>4, HoldsNothing, ConversationTypes DEF Lapsed, Rewritten
<1> HIDE DEF n, S
<1> QED
  BY <1>2, <1>3, <1>4, RewriteIs

Rewrites(t) == Edit(t) \/ DeleteForEveryone(t) \/ Remove(t) \/ Read_Stamp(t) \/ Expire(t)
Says(t) == Start_Locked(t) \/ Start_Insert(t) \/ Send_Locked(t)
Changes(t) == Accept(t) \/ Decline(t) \/ SetEphemerality(t)
Reads(t) == Start_Absent(t) \/ Read_Status(t)

LEMMA NextCases ==
  ASSUME [Next]_vars
  PROVE  \/ Tick \/ UNCHANGED vars
         \/ \E t \in Tx : \/ Says(t) \/ Changes(t) \/ Reads(t) \/ Rewrites(t)
                          \/ Commit(t) \/ Rollback(t)
  BY DEF Next, Run, Says, Changes, Reads, Rewrites

LEMMA NextInv == Inv /\ [Next]_vars => Inv'
<1> SUFFICES ASSUME Inv, [Next]_vars PROVE Inv'
  OBVIOUS
<1>1. ASSUME clock' \in Time, clock <= clock', UNCHANGED <<conv, msgs, tx, held>>
      PROVE  Inv'
  <2>1. ConvInv'
    <3>1. ASSUME NEW c \in Conversation, NEW w, Opening(c, w) PROVE Opening(c, w)'
      <4>1. /\ clock \in Nat /\ clock' \in Nat /\ clock <= clock'
            /\ c.since \in Nat /\ Bar \in Nat
        BY <1>1, TimesAssumption DEF Time, Inv, Conversation
      <4>2. \A now \in 0..clock : now \in 0..clock'
        BY <4>1
      <4>3. \A u : ~Barred(c, u) => ~Barred(c, u)'
        BY <4>1 DEF Barred
      <4> QED
        BY <3>1, <4>2, <4>3 DEF Opening
    <3> QED
      BY <1>1, <3>1 DEF Inv, ConvInv, RowsOf
  <2>2. MsgsInv' /\ HeldInv' /\ RequestsDoNotExpire'
    BY <1>1 DEF Inv, MsgsInv, HeldInv, RequestsDoNotExpire, Live, Letter
  <2>3. TxInv'
    BY <1>1, TimesAssumption DEF Inv, TxInv, Transaction, Time
  <2> QED
    BY <1>1, <2>1, <2>2, <2>3 DEF Inv
<1>2. CASE Tick
  BY <1>1, <1>2, TimesAssumption DEF Tick, Inv, Time
<1>3. CASE UNCHANGED vars
  BY <1>1, <1>3, TimesAssumption DEF vars, Inv, Time
<1>4. ASSUME NEW t \in Tx, Says(t) \/ Changes(t) \/ Reads(t) \/ Rewrites(t)
      PROVE  Inv'
  BY <1>4, Start_LockedStep, Start_InsertStep, Send_LockedStep, AnswerStep,
     SetEphemeralityStep, ReadStep, EditStep, ClearStep, StampStep, ExpireStep
     DEF Says, Changes, Reads, Rewrites
<1> QED
  BY <1>2, <1>3, <1>4, CommitKeepsInv, RollbackKeepsInv, NextCases

(* In every reachable state, what is in flight is one transaction's.       *)
THEOREM Invariance == Spec => []Inv
  BY InvInit, NextInv, PTL DEF Spec

(* A request waits in the recipient's list with its one message, which     *)
(* never expires, however startConversation, sendMessage, the answers, the *)
(* views and the sweep of msg_messages overlap: for any number of messages *)
(* and connections, and any Bar, Life, Grace and Window.                   *)
THEOREM RequestKept == Spec => []RequestsWait
<1>1. Inv => RequestsWait
  <2> SUFFICES ASSUME Inv PROVE RequestsWait
    OBVIOUS
  <2>1. TypeOK
    BY DEF Inv, ConvInv, MsgsInv, TxInv, TypeOK
  <2>2. OneMessagePerRequest
    BY DEF Inv, HeldInv, OneMessagePerRequest
  <2> QED
    BY <2>1, <2>2 DEF RequestsWait, Inv
<1> QED
  BY <1>1, Invariance, PTL

LEMMA SaysSay ==
  ASSUME NEW t \in Tx, Says(t)
  PROVE  \E u, now, c : Say(t, u, now, c)
<1>1. CASE Start_Locked(t)
  BY <1>1 DEF Start_Locked
<1>2. CASE Send_Locked(t)
  BY <1>2 DEF Send_Locked
<1>3. CASE Start_Insert(t)
  BY <1>3 DEF Start_Insert
<1> QED
  BY <1>1, <1>2, <1>3 DEF Says

(* A deleted message never says anything again: an edit that waited for the*)
(* row (editMessage) looks at it once more, whatever else is going on.     *)
THEOREM DeletedForGood == Spec => DeletedStaysEmpty
<1>1. Inv /\ [Next]_vars
        => \A i \in Slots : msgs[i].committed.deleted /\ Live(i)' =>
             msgs'[i].committed.deleted /\ msgs'[i].committed.body = ""
  <2> SUFFICES ASSUME Inv, [Next]_vars, NEW i \in Slots,
                      msgs[i].committed.deleted, Live(i)'
               PROVE  msgs'[i].committed.deleted /\ msgs'[i].committed.body = ""
    OBVIOUS
  <2>1. Inv'
    BY NextInv
  <2>2. msgs'[i].committed.deleted => msgs'[i].committed.body = ""
    BY <2>1 DEF Inv, MsgsInv
  <2>3. msgs[i].committed # NoMessage /\ msgs[i].holder = NoTx
    BY NoLetter DEF Inv, MsgsInv
  <2>4. CASE msgs'[i] = msgs[i]
    BY <2>2, <2>4
  <2>5. ASSUME NEW t \in Tx, Rewrites(t)
        PROVE  msgs'[i].committed.deleted
    <3>1. RewriteStep(t)
      BY <2>5, EditStep, ClearStep, StampStep, ExpireStep DEF Rewrites
    <3> QED
      BY <3>1 DEF RewriteStep, Rewritten, Live
  <2>6. ASSUME NEW t \in Tx, Says(t) \/ Changes(t) \/ Reads(t) \/ Commit(t) \/ Rollback(t)
        PROVE  msgs'[i].committed = msgs[i].committed
    <3>1. CASE Changes(t) \/ Reads(t)
      BY <3>1 DEF Changes, Reads, Accept, Decline, SetEphemerality, Change, Becomes,
                  Start_Absent, Read_Status
    <3>2. CASE Commit(t) \/ Rollback(t)
      <4>1. msgs'[i] = msgs[i]
        BY <2>3, <3>2, NoTxAssumption
           DEF Commit, Rollback, Becomes, PublishedAll, RestoredAll, Published, Restored,
               Inv, MsgsInv
      <4> QED
        BY <4>1
    <3>3. CASE Says(t)
      <4>1. PICK k, v : msgs' = [msgs EXCEPT ![k] = Put(msgs[k], t, v)]
        BY <3>3, SaysSay DEF Say
      <4>2. msgs \in [Slots -> RowsOf(Message)]
        BY DEF Inv, MsgsInv
      <4> QED
        BY <4>1, <4>2 DEF Put
    <3> QED
      BY <2>6, <3>1, <3>2, <3>3
  <2>7. msgs'[i].committed.deleted
    <3>1. CASE Tick \/ UNCHANGED vars
      BY <3>1 DEF Tick, vars
    <3> QED
      BY <2>5, <2>6, <3>1, NextCases
  <2> QED
    BY <2>2, <2>7
<1> QED
  BY <1>1, Invariance, PTL DEF Spec, DeletedStaysEmpty

-----------------------------------------------------------------------------
(* The pair's row, seen from outside, keeps ChatContract.                  *)

(* A step that leaves the committed row alone is a stutter of the contract,*)
(* or its clock going on.                                                  *)
LEMMA ContractStep ==
  ASSUME Inv, [Next]_vars
  PROVE  [Promise!Next]_<<[status |-> conv.committed.status, by |-> conv.committed.by,
                           since |-> conv.committed.since], clock>>
<1> DEFINE chat == [status |-> conv.committed.status, by |-> conv.committed.by,
                    since |-> conv.committed.since]
<1>1. CASE /\ conv'.committed.status = conv.committed.status
           /\ conv'.committed.by = conv.committed.by
           /\ conv'.committed.since = conv.committed.since
           /\ clock' \in {clock, clock + 1}
  BY <1>1 DEF Promise!Next
<1>2. ASSUME clock' = clock, NEW now \in 0..clock,
             conv.committed.status = "pending", conv'.committed.by = conv.committed.by,
             conv'.committed.since = now, conv'.committed.status \in {"active", "declined"}
      PROVE  Promise!Next
  <2>1. chat'.status = conv'.committed.status
    OBVIOUS
  <2>2. Promise!Answer(conv'.committed.status)
    BY <1>2 DEF Promise!Answer
  <2> QED
    BY <1>2, <2>2 DEF Promise!Next
<1>3. ASSUME clock' = clock, NEW now \in 0..clock, NEW u \in Users,
             conv.committed.status \in {"none", "declined"},
             conv.committed.status = "declined" => ~Barred(conv.committed, u),
             conv'.committed.by = u, conv'.committed.since = now,
             conv'.committed.status = "pending"
      PROVE  Promise!Next
  <2>1. conv.committed.since + Bar > clock \/ conv.committed.since + Bar <= clock
    BY Statuses, TimesAssumption DEF Inv, ConvInv, RowsOf, Conversation, Time
  <2>2. Promise!Ask(u)
    BY <1>3, <2>1 DEF Promise!Ask, Barred
  <2> QED
    BY <1>3, <2>2 DEF Promise!Next
<1>4. CASE Tick \/ UNCHANGED vars
  BY <1>1, <1>4 DEF Tick, vars
<1>5. ASSUME NEW t \in Tx, Says(t) \/ Reads(t) \/ Rewrites(t) \/ Rollback(t)
      PROVE  conv'.committed = conv.committed /\ clock' = clock
  <2>1. CASE Says(t)
    <3>1. PICK u, now, c : Say(t, u, now, c)
      BY <2>1, SaysSay
    <3>2. conv' = Put(conv, t, c) /\ clock' = clock
      BY <3>1 DEF Say
    <3> QED
      BY <3>2 DEF Put
  <2>2. CASE Reads(t)
    BY <2>2 DEF Reads, Start_Absent, Read_Status
  <2>3. CASE Rewrites(t)
    BY <2>3, EditStep, ClearStep, StampStep, ExpireStep DEF Rewrites, RewriteStep
  <2>4. CASE Rollback(t)
    BY <2>4 DEF Rollback, Restored, Stored
  <2> QED
    BY <1>5, <2>1, <2>2, <2>3, <2>4
<1>6. ASSUME NEW t \in Tx, Changes(t)
      PROVE  [Promise!Next]_<<chat, clock>>
  <2> DEFINE c == conv.committed
  <2>1. c \in Conversation
    BY Statuses, <1>6
  <2>2. \A v : Change(t, v) => conv'.committed = v /\ clock' = clock
    BY DEF Change, Becomes, Stored
  <2>3. CASE Accept(t) \/ Decline(t)
    <3>1. PICK now \in Time :
            /\ Begun(t, now) /\ View(conv, t).status = "pending"
            /\ \/ Change(t, Opened(View(conv, t), now))
               \/ Change(t, [View(conv, t) EXCEPT !.status = "declined", !.since = now])
      BY <2>3 DEF Accept, Decline
    <3>2. View(conv, t) = c /\ now \in 0..clock
      BY <3>1, HoldsNothing DEF Begun
    <3>3. /\ clock' = clock /\ c.status = "pending"
          /\ \/ conv'.committed = Opened(c, now)
             \/ conv'.committed = [c EXCEPT !.status = "declined", !.since = now]
      BY <2>2, <3>1, <3>2
    <3>4. /\ conv'.committed.by = c.by /\ conv'.committed.since = now
          /\ conv'.committed.status \in {"active", "declined"}
      <4>1. CASE conv'.committed = Opened(c, now)
        BY <2>1, <4>1, OpenedFields
      <4>2. CASE conv'.committed = [c EXCEPT !.status = "declined", !.since = now]
        BY <2>1, <4>2 DEF Conversation
      <4> QED
        BY <3>3, <4>1, <4>2
    <3> QED
      BY <1>2, <3>2, <3>3, <3>4
  <2>4. CASE SetEphemerality(t)
    <3>1. PICK mode \in Ephemerality :
            tx[t].pc = "idle" /\ Change(t, [View(conv, t) EXCEPT !.mode = mode])
      BY <2>4 DEF SetEphemerality, Begun
    <3>2. View(conv, t) = c
      BY <3>1, HoldsNothing
    <3>3. conv'.committed = [c EXCEPT !.mode = mode] /\ clock' = clock
      BY <2>2, <3>1, <3>2
    <3>4. /\ conv'.committed.status = c.status /\ conv'.committed.by = c.by
          /\ conv'.committed.since = c.since
      BY <2>1, <3>3 DEF Conversation
    <3> QED
      BY <1>1, <3>3, <3>4
  <2> QED
    BY <1>6, <2>3, <2>4 DEF Changes
<1>7. ASSUME NEW t \in Tx, Commit(t)
      PROVE  [Promise!Next]_<<chat, clock>>
  <2> DEFINE c == conv.committed
  <2>1. /\ conv.holder = t /\ conv'.committed = conv.written /\ clock' = clock
    BY <1>7 DEF Commit, Becomes, Published, Stored, Inv, ConvInv
  <2>2. Opening(c, conv.written) /\ c \in Conversation
    BY <2>1, NoTxAssumption, Statuses DEF Inv, ConvInv
  <2>3. CASE conv.written = c
    BY <1>1, <2>1, <2>3
  <2>4. ASSUME NEW now \in 0..clock, c.status = "pending", conv.written = Opened(c, now)
        PROVE  Promise!Next
    <3>1. now \in Time
      BY TimesAssumption DEF Inv, Time
    <3> QED
      BY <1>2, <2>1, <2>2, <2>4, <3>1, OpenedFields
  <2>5. ASSUME NEW u \in Users, NEW now \in 0..clock, NEW mode \in Ephemerality,
               c.status \in {"none", "declined"}, c.status = "declined" => ~Barred(c, u),
               conv.written = Asked(u, now, mode)
        PROVE  Promise!Next
    <3>1. now \in Time
      BY TimesAssumption DEF Inv, Time
    <3> QED
      BY <1>3, <2>1, <2>5, <3>1, AskedFields
  <2> QED
    BY <2>2, <2>3, <2>4, <2>5 DEF Opening
<1>8. ASSUME NEW t \in Tx, Says(t) \/ Reads(t) \/ Rewrites(t) \/ Rollback(t)
      PROVE  [Promise!Next]_<<chat, clock>>
  BY <1>1, <1>5, <1>8
<1> QED
  BY <1>4, <1>6, <1>7, <1>8, NextCases

(* What two members can do to each other through startConversation,        *)
(* sendMessage, acceptRequest, declineRequest and setEphemerality is what  *)
(* ChatContract lets them: overlapping calls neither skip the answer nor   *)
(* shorten the bar, and nothing closes an open chat.                       *)
THEOREM ChatsKeepTheContract == Spec => ContractSpec
<1>1. Init => Promise!Init
  BY DEF Init, Promise!Init, Stored, NoConversation
<1> QED
  BY <1>1, ContractStep, Invariance, PTL DEF Spec, ContractSpec, Promise!Spec
=============================================================================
