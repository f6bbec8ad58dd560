------------------------------ MODULE Conversation ------------------------------
(***************************************************************************)
(* One conversation of the shared database and the requests that race on   *)
(* it: message.Send, group.Create / Join / Quit / Kick and                 *)
(* conversation.MarkRead, as any number of homogeneous nodes run them.     *)
(*                                                                         *)
(* A request is split where the code gives up atomicity: the reads before  *)
(* the transaction, LockConversation (SELECT ... FOR UPDATE), the rest of  *)
(* the transaction with its commit, and what follows the commit.  What a   *)
(* transaction writes becomes visible in its commit step, so a rollback    *)
(* writes nothing.  A request may fail at every step: a store error, a     *)
(* cancelled context or the crash of its node (Fail).  The clocks of the   *)
(* nodes are not synchronised, so a reading is any element of Times, drawn *)
(* in the step that stores it; likewise the sender_read flag of a send.    *)
(*                                                                         *)
(* Left out: message bodies, profile fields, recv_msg_opt and is_pinned,   *)
(* server_msg_id (a fresh UUIDv7), and requests that validation or a       *)
(* missing user or group turns down before they touch any state.           *)
(***************************************************************************)
EXTENDS Integers, FiniteSets

CONSTANTS
    Users,          \* the users that exist (table users)
    Owner,          \* chat_groups.owner_id, the creator of the group
    ClientMsgIds,   \* client_msg_id values
    Req,            \* requests that may be in flight at the same time
    NoReq,          \* nobody holds the row lock
    SessionType,    \* "single" or "group"
    MaxMembers,     \* limits.group_max_members
    Workload,       \* bound: the kinds of requests that are made, of Ops
    Times,          \* readings of the nodes' unsynchronised clocks
    MaxMsgs         \* bound: no new message is begun once max_seq reaches it

ASSUME ConversationAssumption ==
    /\ Owner \in Users
    /\ IsFiniteSet(Users)
    /\ ClientMsgIds # {}
    /\ NoReq \notin Req
    /\ SessionType \in {"single", "group"}
    /\ MaxMembers \in Nat \ {0}
    /\ Times \subseteq Nat
    /\ MaxMsgs \in Nat

VARIABLES
    conversation,   \* the conversations row: max_seq and updated_at
    groupStatus,    \* chat_groups: "none" (no row), "normal" or "dismissed"
    role,           \* group_members: role per user, NotMember when no row
    uc,             \* user_conversations: one row per owner, or NoRow
    messages,       \* the messages table: a set of rows
    lock,           \* holder of the FOR UPDATE lock on the conversations row
    bus,            \* what the last step handed to the Bus and it accepted
    reply,          \* what the last step answered to a Send, and to which
    offline,        \* seqs an offline push was spawned for
    pc,             \* where a request stands
    arg,            \* its input
    row,            \* the conversations row it read under the lock
    target,         \* MarkRead: the read_seq computed from its snapshot
    out             \* Send: the answer it will give once it has published

store == <<conversation, groupStatus, role, uc, messages>>
request == <<pc, arg, row, target, out>>
vars == <<store, lock, bus, reply, offline, request>>

-----------------------------------------------------------------------------
(* Rows and requests *)

NotMember == 0
RoleMember == 1
RoleAdmin == 2
RoleOwner == 3

Members == {u \in Users : role[u] # NotMember}

Greatest(a, b) == IF a > b THEN a ELSE b
Least(a, b) == IF a < b THEN a ELSE b

ConvRow == [maxSeq : Nat, updatedAt : Nat]
UCRow == [exists : BOOLEAN, minSeq : Nat, maxSeq : Nat, readSeq : Nat, updatedAt : Nat]
NoRow == [exists |-> FALSE, minSeq |-> 0, maxSeq |-> 0, readSeq |-> 0, updatedAt |-> 0]

Message == [seq : Nat, sender : Users, clientMsgId : ClientMsgIds, sendTime : Nat]
Event == [type : {"push", "conv_read", "group_changed"}, user : Users, seq : Nat]

Ops == {"none", "send", "join", "quit", "kick", "read"}
PCs == {"idle", "lookup", "lock", "tx", "dup", "publish", "notify", "advance"}
Input == [op : Ops, user : Users, peer : Users, cid : ClientMsgIds, active : BOOLEAN]
Codes == {"none", "ok", "error", "seq_alloc_failed"}
Answer == [code : Codes, seq : Nat, sendTime : Nat]

AnyCid == CHOOSE c \in ClientMsgIds : TRUE
NoInput == [op |-> "none", user |-> Owner, peer |-> Owner, cid |-> AnyCid, active |-> FALSE]
NoConv == [maxSeq |-> 0, updatedAt |-> 0]
NoAnswer == [code |-> "none", seq |-> 0, sendTime |-> 0]
ErrorAnswer(code) == [code |-> code, seq |-> 0, sendTime |-> 0]
Ack(m) == [code |-> "ok", seq |-> m.seq, sendTime |-> m.sendTime]
Reply == [user : Users, cid : ClientMsgIds, answer : Answer]
NoReply == [user |-> Owner, cid |-> AnyCid, answer |-> NoAnswer]

(* The visible range of a user_conversations row: VisibleMax is conv_max   *)
(* unless leaving the group froze an upper bound (max_seq > 0).            *)
VisibleMax(u) ==
    IF uc[u].maxSeq > 0 THEN Least(uc[u].maxSeq, conversation.maxSeq) ELSE conversation.maxSeq

Visible(u) == IF uc[u].exists THEN uc[u].minSeq .. VisibleMax(u) ELSE {}

Stored(u, cid) == {m \in messages : m.sender = u /\ m.clientMsgId = cid}

(* checkGroupSend, on the rows as they are now. *)
MaySend(u) ==
    SessionType = "group" => groupStatus = "normal" /\ role[u] # NotMember

Push(m) == [type |-> "push", user |-> m.sender, seq |-> m.seq]

-----------------------------------------------------------------------------
(* The request's own bookkeeping *)

Goto(r, label) == pc' = [pc EXCEPT ![r] = label]

(* The request is over: its answer leaves, its locals go.                  *)
Finish(r, answer) ==
    /\ Goto(r, "idle")
    /\ arg' = [arg EXCEPT ![r] = NoInput]
    /\ row' = [row EXCEPT ![r] = NoConv]
    /\ target' = [target EXCEPT ![r] = 0]
    /\ out' = [out EXCEPT ![r] = NoAnswer]
    /\ reply' = IF arg[r].op = "send"
                THEN [user |-> arg[r].user, cid |-> arg[r].cid, answer |-> answer]
                ELSE NoReply

(* Publishing is at-most-once: the Bus takes the event or loses it, and    *)
(* the request goes on either way.                                         *)
MaybePublish(e) == bus' \in {{}, {e}}

Quiet == bus' = {} /\ reply' = NoReply

Begin(r, in, label) ==
    /\ pc[r] = "idle"
    /\ in.op \in Workload
    /\ arg' = [arg EXCEPT ![r] = in]
    /\ Goto(r, label)

-----------------------------------------------------------------------------
Init ==
    /\ conversation = NoConv
    /\ groupStatus = IF SessionType = "group" THEN "none" ELSE "normal"
    /\ role = [u \in Users |-> NotMember]
    /\ uc = [u \in Users |-> NoRow]
    /\ messages = {}
    /\ lock = NoReq
    /\ bus = {}
    /\ reply = NoReply
    /\ offline = {}
    /\ pc = [r \in Req |-> "idle"]
    /\ arg = [r \in Req |-> NoInput]
    /\ row = [r \in Req |-> NoConv]
    /\ target = [r \in Req |-> 0]
    /\ out = [r \in Req |-> NoAnswer]

(* group.Create: the group id is fresh, so nobody else can reach the rows  *)
(* before the transaction commits and the whole handler is one step.       *)
Create(members, t) ==
    /\ SessionType = "group"
    /\ groupStatus = "none"
    /\ Owner \in members
    /\ Cardinality(members) <= MaxMembers
    /\ groupStatus' = "normal"
    /\ role' = [u \in Users |-> IF u = Owner THEN RoleOwner
                                ELSE IF u \in members THEN RoleMember ELSE NotMember]
    /\ conversation' = [maxSeq |-> 0, updatedAt |-> t]
    /\ uc' = [u \in Users |-> IF u \in members
                              THEN [exists |-> TRUE, minSeq |-> 1, maxSeq |-> 0,
                                    readSeq |-> 0, updatedAt |-> t]
                              ELSE NoRow]
    /\ MaybePublish([type |-> "group_changed", user |-> Owner, seq |-> 0])
    /\ reply' = NoReply
    /\ UNCHANGED <<messages, lock, offline, request>>

-----------------------------------------------------------------------------
(* FOR UPDATE waits for the holder of the row.  Mutant: a plain SELECT. *)
PlainSelect == TRUE
RowFree == lock = NoReq

(* LockConversation: waits for the row lock and reads the row.  The insert *)
(* of a missing row is undone by a rollback and gives it the updated_at    *)
(* the caller brings along, which Send's maximum makes the same as 0.      *)
LockConversation(r) ==
    /\ pc[r] = "lock"
    /\ RowFree
    /\ lock' = r
    /\ row' = [row EXCEPT ![r] = conversation]
    /\ Goto(r, "tx")
    /\ Quiet
    /\ UNCHANGED <<store, offline, arg, target, out>>

(* The transaction ends and its locals with it. *)
Unlock(r) ==
    /\ lock' = NoReq
    /\ row' = [row EXCEPT ![r] = NoConv]

(* Rollback of the transaction: nothing it wrote remains. *)
Refuse(r) ==
    /\ lock' = NoReq
    /\ Finish(r, ErrorAnswer("error"))
    /\ bus' = {}
    /\ UNCHANGED <<store, offline>>

-----------------------------------------------------------------------------
(* message.Send *)

(* normalizeDestination.  The chat_groups row it reads is kept for         *)
(* republishAllowed: active says whether the group was normal by then.     *)
BeginSend(r, u, cid) ==
    /\ conversation.maxSeq < MaxMsgs \/ Stored(u, cid) # {}
    /\ groupStatus # "none"
    /\ Begin(r, [NoInput EXCEPT !.op = "send", !.user = u, !.cid = cid,
                                !.active = (groupStatus = "normal")], "lookup")
    /\ Quiet
    /\ UNCHANGED <<store, lock, offline, row, target, out>>

(* The idempotent fast path: a stored message is acknowledged again.  It is *)
(* republished only for a sender still allowed to send, judged by the group *)
(* row read earlier and the membership row read now, and within the quota.  *)
SendHit(r) ==
    LET u == arg[r].user IN
    /\ pc[r] = "lookup"
    /\ \E m \in Stored(u, arg[r].cid) :
          /\ Finish(r, Ack(m))
          /\ \/ /\ SessionType = "group" => arg[r].active /\ role[u] # NotMember
                /\ MaybePublish(Push(m))
             \/ bus' = {}
    /\ UNCHANGED <<store, lock, offline>>

(* Not stored: on to the transaction, unless the send quota is used up.    *)
SendMiss(r) ==
    /\ pc[r] = "lookup"
    /\ Stored(arg[r].user, arg[r].cid) = {}
    /\ Goto(r, "lock")
    /\ Quiet
    /\ UNCHANGED <<store, lock, offline, arg, row, target, out>>

SendLimited(r) ==
    /\ pc[r] = "lookup"
    /\ Stored(arg[r].user, arg[r].cid) = {}
    /\ Finish(r, ErrorAnswer("error"))
    /\ bus' = {}
    /\ UNCHANGED <<store, lock, offline>>

(* touchConversations.  Single chat: both rows are created or touched.     *)
(* Group: only the rows of present members (max_seq = 0) move in the list. *)
Touched(u, sender, seq, t, senderRead) ==
    LET read == IF senderRead /\ u = sender THEN seq ELSE 0 IN
    IF SessionType = "single"
    THEN [exists |-> TRUE,
          minSeq |-> IF uc[u].exists THEN uc[u].minSeq ELSE 1,
          maxSeq |-> uc[u].maxSeq,
          readSeq |-> Greatest(uc[u].readSeq, read),
          updatedAt |-> Greatest(uc[u].updatedAt, t)]
    ELSE [exists |-> uc[u].exists,
          minSeq |-> uc[u].minSeq,
          maxSeq |-> uc[u].maxSeq,
          readSeq |-> IF uc[u].exists THEN Greatest(uc[u].readSeq, read) ELSE uc[u].readSeq,
          updatedAt |-> IF uc[u].exists /\ uc[u].maxSeq = 0
                        THEN Greatest(uc[u].updatedAt, t) ELSE uc[u].updatedAt]

(* The row Send is about to insert: send_time never runs behind the        *)
(* conversation's updated_at, seq is the next one of the locked row.       *)
(* Mutant: the node's clock as it is.                                      *)
NewMessageByClock(r, t) ==
    [seq |-> row[r].maxSeq + 1, sender |-> arg[r].user, clientMsgId |-> arg[r].cid, sendTime |-> t]
NewMessage(r, t) ==
    [seq |-> row[r].maxSeq + 1, sender |-> arg[r].user, clientMsgId |-> arg[r].cid,
     sendTime |-> Greatest(row[r].updatedAt, t)]

(* InsertMessage reports inserted = false on any unique key.  Mutant: the  *)
(* index on (conversation_id, sender_id, client_msg_id) is missing.        *)
ConflictsBySeq(m) == \E s \in messages : s.seq = m.seq
Conflicts(m) ==
    \E s \in messages : s.seq = m.seq \/ (s.sender = m.sender /\ s.clientMsgId = m.clientMsgId)

(* SetConversationMaxSeq.  Mutant: only updated_at is written. *)
OnlyUpdatedAt(m) == [conversation EXCEPT !.updatedAt = m.sendTime]
ConversationAfter(m) == [maxSeq |-> m.seq, updatedAt |-> m.sendTime]

SendCommit(r, t, senderRead) ==
    LET m == NewMessage(r, t) IN
    /\ pc[r] = "tx" /\ arg[r].op = "send"
    /\ MaySend(arg[r].user)
    /\ ~Conflicts(m)
    /\ messages' = messages \cup {m}
    /\ conversation' = ConversationAfter(m)
    /\ uc' = [u \in Users |-> Touched(u, m.sender, m.seq, m.sendTime, senderRead)]
    /\ Unlock(r)
    /\ Goto(r, "publish")
    /\ out' = [out EXCEPT ![r] = Ack(m)]
    /\ Quiet
    /\ UNCHANGED <<groupStatus, role, offline, arg, target>>

SendRefused(r) ==
    /\ pc[r] = "tx" /\ arg[r].op = "send"
    /\ ~MaySend(arg[r].user)
    /\ Refuse(r)

(* The insert hit a unique key: errRollback, the seq is not consumed. *)
SendDuplicate(r) ==
    /\ pc[r] = "tx" /\ arg[r].op = "send"
    /\ MaySend(arg[r].user)
    /\ Conflicts(NewMessage(r, 0))
    /\ Unlock(r)
    /\ Goto(r, "dup")
    /\ Quiet
    /\ UNCHANGED <<store, offline, arg, target, out>>

(* After the rollback the stored row is read again and acknowledged; no    *)
(* such row means the insert collided on (conversation_id, seq).  Mutant:  *)
(* the loser of the race goes on like the winner.                          *)
SendRereadThenPush(r) ==
    /\ pc[r] = "dup"
    /\ \E m \in Stored(arg[r].user, arg[r].cid) : out' = [out EXCEPT ![r] = Ack(m)]
    /\ Goto(r, "publish")
    /\ Quiet
    /\ UNCHANGED <<store, lock, offline, arg, row, target>>
SendReread(r) ==
    LET found == Stored(arg[r].user, arg[r].cid) IN
    /\ pc[r] = "dup"
    /\ \/ \E m \in found : Finish(r, Ack(m)) /\ MaybePublish(Push(m))
       \/ found = {} /\ Finish(r, ErrorAnswer("seq_alloc_failed")) /\ bus' = {}
    /\ UNCHANGED <<store, lock, offline>>

(* publish and spawnOfflinePush, for a newly committed message only; a     *)
(* full offline-push semaphore drops the spawn.                            *)
SendPublish(r) ==
    /\ pc[r] = "publish"
    /\ MaybePublish([type |-> "push", user |-> arg[r].user, seq |-> out[r].seq])
    /\ offline' \in {offline, offline \cup {out[r].seq}}
    /\ Finish(r, out[r])
    /\ UNCHANGED <<store, lock>>

-----------------------------------------------------------------------------
(* group.Join, Quit and Kick *)

(* The checks before the transaction: activeGroup, and who may be removed. *)
BeginMembership(r, op, u, peer) ==
    /\ SessionType = "group"
    /\ groupStatus = "normal"
    /\ op = "quit" => u # Owner /\ peer = u
    /\ op = "kick" => peer # Owner /\ peer # u
    /\ op = "join" => peer = u
    /\ Begin(r, [NoInput EXCEPT !.op = op, !.user = u, !.peer = peer], "lock")
    /\ Quiet
    /\ UNCHANGED <<store, lock, offline, row, target, out>>

(* Mutant: off by one at the limit. *)
MayJoinAtLimit(u) == role[u] = NotMember /\ Cardinality(Members) <= MaxMembers
MayJoin(u) == role[u] = NotMember /\ Cardinality(Members) < MaxMembers

(* The joiner sees only what comes after; the read cursor starts there.    *)
(* Mutant: min_seq at the current message. *)
JoinedRowOneEarly(c, t) ==
    [exists |-> TRUE, minSeq |-> c.maxSeq, maxSeq |-> 0, readSeq |-> c.maxSeq, updatedAt |-> t]
JoinedRow(c, t) ==
    [exists |-> TRUE, minSeq |-> c.maxSeq + 1, maxSeq |-> 0, readSeq |-> c.maxSeq, updatedAt |-> t]

JoinCommit(r, t) ==
    LET u == arg[r].user IN
    /\ pc[r] = "tx" /\ arg[r].op = "join"
    /\ MayJoin(u)
    /\ role' = [role EXCEPT ![u] = RoleMember]
    /\ uc' = [uc EXCEPT ![u] = JoinedRow(row[r], t)]
    /\ Unlock(r)
    /\ Goto(r, "notify")
    /\ Quiet
    /\ UNCHANGED <<conversation, groupStatus, messages, offline, arg, target, out>>

JoinRefused(r) ==
    /\ pc[r] = "tx" /\ arg[r].op = "join"
    /\ ~MayJoin(arg[r].user)
    /\ Refuse(r)

(* remove's permission rules; a quit (operator = target) skips all but the *)
(* last one.  *)
MayRemove(operator, u) ==
    /\ operator # u =>
          /\ role[operator] >= RoleAdmin
          /\ u # Owner
          /\ ~(role[operator] = RoleAdmin /\ role[u] >= RoleAdmin)
    /\ role[u] # NotMember

(* Leaving freezes the upper bound at the current max_seq.  In a group     *)
(* without a message that bound would be 0, "unbounded": the row goes.     *)
(* Mutant: the row stays.                                                  *)
FrozenAlways(u, c) == [uc[u] EXCEPT !.maxSeq = c.maxSeq]
Frozen(u, c) ==
    IF c.maxSeq = 0 THEN NoRow
    ELSE IF uc[u].exists THEN [uc[u] EXCEPT !.maxSeq = c.maxSeq] ELSE uc[u]

RemoveCommit(r) ==
    LET u == arg[r].peer IN
    /\ pc[r] = "tx" /\ arg[r].op \in {"quit", "kick"}
    /\ MayRemove(arg[r].user, u)
    /\ role' = [role EXCEPT ![u] = NotMember]
    /\ uc' = [uc EXCEPT ![u] = Frozen(u, row[r])]
    /\ Unlock(r)
    /\ Goto(r, "notify")
    /\ Quiet
    /\ UNCHANGED <<conversation, groupStatus, messages, offline, arg, target, out>>

RemoveRefused(r) ==
    /\ pc[r] = "tx" /\ arg[r].op \in {"quit", "kick"}
    /\ ~MayRemove(arg[r].user, arg[r].peer)
    /\ Refuse(r)

(* notifyChanged after the commit. *)
NotifyChanged(r) ==
    /\ pc[r] = "notify" /\ arg[r].op # "read"
    /\ MaybePublish([type |-> "group_changed", user |-> Owner, seq |-> 0])
    /\ Finish(r, NoAnswer)
    /\ UNCHANGED <<store, lock, offline>>

-----------------------------------------------------------------------------
(* conversation.MarkRead: no lock.  The bounds and conv_max come from one  *)
(* statement's snapshot; the update is a statement of its own.             *)
(* Mutant: the client's value is taken as it is.                           *)
ReadTargetUnclamped(u, readSeq) == readSeq
ReadTarget(u, readSeq) == Least(readSeq, VisibleMax(u))

BeginMarkRead(r, u, readSeq) ==
    LET t == ReadTarget(u, readSeq) IN
    /\ readSeq >= 1
    /\ uc[u].exists /\ t > uc[u].readSeq
    /\ Begin(r, [NoInput EXCEPT !.op = "read", !.user = u], "advance")
    /\ target' = [target EXCEPT ![r] = t]
    /\ Quiet
    /\ UNCHANGED <<store, lock, offline, row, out>>

(* No row: ErrNoPermission.  Nothing to advance: the stored cursor, with   *)
(* no write and no event.                                                  *)
MarkReadNothing(r, u, readSeq) ==
    /\ readSeq >= 1
    /\ pc[r] = "idle" /\ "read" \in Workload
    /\ ~uc[u].exists \/ ReadTarget(u, readSeq) <= uc[u].readSeq
    /\ Quiet
    /\ UNCHANGED <<store, lock, offline, request>>

(* AdvanceReadSeq: GREATEST, on whatever the row is by now; none, no rows. *)
Advanced(u, readSeq) ==
    IF uc[u].exists THEN [uc[u] EXCEPT !.readSeq = Greatest(uc[u].readSeq, readSeq)] ELSE uc[u]

AdvanceReadSeq(r) ==
    LET u == arg[r].user IN
    /\ pc[r] = "advance"
    /\ uc' = [uc EXCEPT ![u] = Advanced(u, target[r])]
    /\ Goto(r, "notify")
    /\ Quiet
    /\ UNCHANGED <<conversation, groupStatus, role, messages, lock, offline, arg, row, target, out>>

NotifyRead(r) ==
    /\ pc[r] = "notify" /\ arg[r].op = "read"
    /\ MaybePublish([type |-> "conv_read", user |-> arg[r].user, seq |-> target[r]])
    /\ Finish(r, NoAnswer)
    /\ UNCHANGED <<store, lock, offline>>

-----------------------------------------------------------------------------
(* A store error, a cancelled context or the death of the node ends the    *)
(* request where it stands; an open transaction is rolled back.  Mutant:   *)
(* the connection is kept with its transaction open.                       *)
TxLeftOpen(r) == lock
RolledBack(r) == IF lock = r THEN NoReq ELSE lock

Fail(r) ==
    /\ pc[r] # "idle"
    /\ lock' = RolledBack(r)
    /\ Finish(r, ErrorAnswer("error"))
    /\ bus' = {}
    /\ UNCHANGED <<store, offline>>

(* The embedding host dismisses a group or appoints an administrator; no   *)
(* code here does.  Like every writer of these rows it takes the row lock. *)
HostDismiss ==
    /\ SessionType = "group" /\ groupStatus = "normal" /\ lock = NoReq
    /\ groupStatus' = "dismissed"
    /\ Quiet
    /\ UNCHANGED <<conversation, role, uc, messages, lock, offline, request>>

HostGrantAdmin(u) ==
    /\ SessionType = "group" /\ lock = NoReq
    /\ role[u] = RoleMember
    /\ role' = [role EXCEPT ![u] = RoleAdmin]
    /\ Quiet
    /\ UNCHANGED <<conversation, groupStatus, uc, messages, lock, offline, request>>

-----------------------------------------------------------------------------
SendNext(r) ==
    \/ \E u \in Users, cid \in ClientMsgIds : BeginSend(r, u, cid)
    \/ SendHit(r)
    \/ SendMiss(r)
    \/ SendLimited(r)
    \/ \E t \in Times, senderRead \in BOOLEAN : SendCommit(r, t, senderRead)
    \/ SendRefused(r)
    \/ SendDuplicate(r)
    \/ SendReread(r)
    \/ SendPublish(r)

MembershipNext(r) ==
    \/ \E op \in {"join", "quit", "kick"}, u \in Users, peer \in Users :
          BeginMembership(r, op, u, peer)
    \/ \E t \in Times : JoinCommit(r, t)
    \/ JoinRefused(r)
    \/ RemoveCommit(r)
    \/ RemoveRefused(r)
    \/ NotifyChanged(r)

ReadNext(r) ==
    \/ \E u \in Users, s \in 1 .. (MaxMsgs + 1) : BeginMarkRead(r, u, s) \/ MarkReadNothing(r, u, s)
    \/ AdvanceReadSeq(r)
    \/ NotifyRead(r)

RequestNext(r) ==
    SendNext(r) \/ MembershipNext(r) \/ ReadNext(r)
    \/ LockConversation(r) \/ Fail(r)

Next ==
    \/ \E members \in SUBSET Users, t \in Times : Create(members, t)
    \/ \E r \in Req : RequestNext(r)
    \/ HostDismiss
    \/ \E u \in Users : HostGrantAdmin(u)

Spec == Init /\ [][Next]_vars

(* A request that runs is scheduled, and the database grants a row lock    *)
(* that keeps becoming free to each waiter (it queues them).  Nothing      *)
(* forces a client to make a request, or one to fail.                      *)
Progress(r) ==
    \/ SendHit(r) \/ SendMiss(r) \/ SendLimited(r)
    \/ \E t \in Times, senderRead \in BOOLEAN : SendCommit(r, t, senderRead)
    \/ SendRefused(r) \/ SendDuplicate(r) \/ SendReread(r) \/ SendPublish(r)
    \/ \E t \in Times : JoinCommit(r, t)
    \/ JoinRefused(r) \/ RemoveCommit(r) \/ RemoveRefused(r) \/ NotifyChanged(r)
    \/ AdvanceReadSeq(r) \/ NotifyRead(r)

Fairness == \A r \in Req : WF_vars(Progress(r)) /\ SF_vars(LockConversation(r))

-----------------------------------------------------------------------------
(* Type invariant of the tables and of the requests in flight. *)
TypeOK ==
    /\ conversation \in ConvRow
    /\ groupStatus \in {"none", "normal", "dismissed"}
    /\ role \in [Users -> NotMember .. RoleOwner]
    /\ uc \in [Users -> UCRow]
    /\ messages \subseteq Message
    /\ lock \in Req \cup {NoReq}
    /\ bus \subseteq Event
    /\ reply \in Reply
    /\ offline \subseteq Nat
    /\ pc \in [Req -> PCs]
    /\ arg \in [Req -> Input]
    /\ row \in [Req -> ConvRow]
    /\ target \in [Req -> Nat]
    /\ out \in [Req -> Answer]

(* Sequence numbers are 1, 2, ..., max_seq with no gap and no reuse,       *)
(* whatever requests fail, collide or roll back (Send's transaction).      *)
SeqContiguous ==
    /\ {m.seq : m \in messages} = 1 .. conversation.maxSeq
    /\ \A m1, m2 \in messages : m1.seq = m2.seq => m1 = m2

(* Concurrent and repeated sends of one client_msg_id store one message,   *)
(* and every one of them that is answered gets that row's seq and time.    *)
SameAck ==
    /\ \A m1, m2 \in messages :
          m1.sender = m2.sender /\ m1.clientMsgId = m2.clientMsgId => m1 = m2
    /\ reply.answer.code = "ok" =>
          \E m \in Stored(reply.user, reply.cid) : reply.answer = Ack(m)

(* The branch of Send that reports ErrSeqAllocFailed ("max_seq is behind   *)
(* the real rows") is never taken: an insert that conflicts always finds   *)
(* the row of its own client_msg_id.                                       *)
SeqAllocNeverFails ==
    reply.answer.code # "seq_alloc_failed"

(* Membership and the open-ended window agree: a user has a window without *)
(* upper bound exactly while group_members holds the user, however joins,  *)
(* quits, kicks and sends interleave (max_seq = 0 must not mean both "no   *)
(* bound" and "left an empty group").                                      *)
MemberWindow ==
    SessionType = "group" =>
        \A u \in Users : role[u] # NotMember <=> uc[u].exists /\ uc[u].maxSeq = 0

(* Messages are ordered by time as they are by seq although the nodes'     *)
(* clocks disagree, and the conversation's sort time is the last one's.    *)
TimeFollowsSeq ==
    /\ \A m1, m2 \in messages : m1.seq < m2.seq => m1.sendTime <= m2.sendTime
    /\ \A m \in messages : m.seq = conversation.maxSeq => m.sendTime = conversation.updatedAt

(* Concurrent joins never push a group over group_max_members: it has at   *)
(* most that many rows in group_members.                                   *)
MemberCap == Cardinality({u \in DOMAIN role : role[u] # NotMember}) <= MaxMembers

(* Nothing is announced before it is durable, nor twice: a push on the Bus *)
(* names a committed message of that sender, a conv_read no seq beyond the *)
(* last committed one, and an offline push is spawned once per message, by *)
(* the request that committed it, never by a retry or a loser of a race.   *)
AnnouncedOnce ==
    /\ \A e \in bus :
        /\ e.type = "push" => \E m \in messages : m.seq = e.seq /\ m.sender = e.user
        /\ e.type = "conv_read" => e.seq <= conversation.maxSeq
    /\ \A r \in Req : pc[r] = "publish" =>
        /\ out[r].seq \notin offline
        /\ \A q \in Req \ {r} : pc[q] = "publish" => out[q].seq # out[r].seq

-----------------------------------------------------------------------------
(* The tables as a MessageLog.  A single chat belongs to its participants  *)
(* from the start, a group to the members the table names.                 *)
MessageAt(s) == CHOOSE m \in messages : m.seq = s
LogEntry(s) == [sender |-> MessageAt(s).sender, key |-> MessageAt(s).clientMsgId]

Log == INSTANCE MessageLog WITH
    LogUsers <- Users,
    LogKeys <- ClientMsgIds,
    Participants <- IF SessionType = "single" THEN Users ELSE {},
    StartOpen <- SessionType = "single",
    log <- [s \in 1 .. conversation.maxSeq |-> LogEntry(s)],
    open <- groupStatus = "normal",
    members <- IF SessionType = "single" THEN Users ELSE Members,
    entitled <- [u \in Users |-> Visible(u)],
    read <- [u \in Users |-> uc[u].readSeq]

(* Refinement: every step of every interleaving is a step of MessageLog or *)
(* changes nothing it can see.  In particular each user's visible range is *)
(* at all times exactly the set of messages committed during the latest    *)
(* stay in the group, although it is computed from min_seq, max_seq and    *)
(* conv_max.                                                               *)
RefinesMessageLog == Log!LogSpec
=============================================================================
