------------------------- MODULE ConversationProofs -------------------------
(*****************************************************************************)
(* Theorems about Conversation, for any users, client message ids, requests  *)
(* in flight, clock readings, limits and number of messages: the numbering   *)
(* and the senders' replays, the windows, times and announcements, and the   *)
(* refinement of MessageLog - the tables' initial state is an empty log, a   *)
(* commit is one step of the log, and every other step of a request changes  *)
(* nothing the log shows.                                                    *)
(*****************************************************************************)
EXTENDS Conversation, Sequences, FiniteSetTheorems, TLAPS

(* A leaf that names no prover is Zenon's; SMTT marks those with arithmetic. *)
USE ZenonT(30)
USE DEF NotMember, RoleMember, RoleAdmin, RoleOwner

-----------------------------------------------------------------------------
(* Types, numbers and replays. *)

LEMMA AnyCidType == AnyCid \in ClientMsgIds
BY ConversationAssumption DEF AnyCid

LEMMA NoValuesType ==
    /\ NoInput \in Input
    /\ NoAnswer \in Answer
    /\ NoReply \in Reply
    /\ NoConv \in ConvRow
    /\ NoRow \in UCRow
<1>1. NoInput \in Input
  BY AnyCidType, ConversationAssumption DEF NoInput, Input, Ops
<1>2. NoAnswer \in Answer
  BY DEF NoAnswer, Answer, Codes
<1>3. NoReply \in Reply
  BY <1>2, AnyCidType, ConversationAssumption DEF NoReply, Reply
<1>4. NoConv \in ConvRow
  BY DEF NoConv, ConvRow
<1>5. NoRow \in UCRow
  BY DEF NoRow, UCRow
<1> QED BY <1>1, <1>2, <1>3, <1>4, <1>5

(* The end of a request leaves its locals well typed. *)
LEMMA FinishType ==
    ASSUME TypeOK, NEW r \in Req, NEW answer \in Answer, Finish(r, answer)
    PROVE  /\ pc' \in [Req -> PCs]
           /\ arg' \in [Req -> Input]
           /\ row' \in [Req -> ConvRow]
           /\ target' \in [Req -> Nat]
           /\ out' \in [Req -> Answer]
           /\ reply' \in Reply
<1>1. pc' \in [Req -> PCs]
  BY DEF TypeOK, Finish, Goto, PCs
<1>2. arg' \in [Req -> Input] /\ row' \in [Req -> ConvRow] /\ out' \in [Req -> Answer]
  BY NoValuesType DEF TypeOK, Finish
<1>3. target' \in [Req -> Nat]
  BY DEF TypeOK, Finish
<1>4. [user |-> arg[r].user, cid |-> arg[r].cid, answer |-> answer] \in Reply
  <2>1. arg[r] \in Input
    BY DEF TypeOK
  <2> QED BY <2>1 DEF Input, Reply
<1>5. reply' \in Reply
  BY <1>4, NoValuesType DEF Finish
<1> QED BY <1>1, <1>2, <1>3, <1>5

LEMMA TouchedType ==
    ASSUME TypeOK, NEW u \in Users, NEW sender \in Users, NEW seq \in Nat, NEW t \in Nat,
           NEW senderRead \in BOOLEAN
    PROVE  Touched(u, sender, seq, t, senderRead) \in UCRow
<1>1. uc[u] \in UCRow
  BY DEF TypeOK
<1>2. uc[u].readSeq \in Nat /\ uc[u].updatedAt \in Nat
  BY <1>1 DEF UCRow
<1>3. \A n \in Nat : Greatest(uc[u].readSeq, n) \in Nat /\ Greatest(uc[u].updatedAt, n) \in Nat
  BY <1>2 DEF Greatest
<1> QED BY <1>1, <1>3 DEF Touched, UCRow

LEMMA NewMessageType ==
    ASSUME TypeOK, NEW r \in Req, NEW t \in Nat
    PROVE  NewMessage(r, t) \in Message
<1>1. row[r] \in ConvRow /\ arg[r] \in Input
  BY DEF TypeOK
<1>2. Greatest(row[r].updatedAt, t) \in Nat
  BY <1>1 DEF ConvRow, Greatest
<1> QED BY <1>1, <1>2, SMTT(30) DEF NewMessage, Message, ConvRow, Input

LEMMA AckType == \A m \in Message : Ack(m) \in Answer
BY DEF Message, Ack, Answer, Codes

LEMMA BeginType ==
    ASSUME TypeOK, NEW r \in Req, NEW in \in Input, NEW label \in PCs, Begin(r, in, label)
    PROVE  pc' \in [Req -> PCs] /\ arg' \in [Req -> Input]
BY DEF TypeOK, Begin, Goto

(* What Send's steps leave well typed. *)
LEMMA SendType ==
    ASSUME TypeOK, NEW r \in Req, SendNext(r)
    PROVE  TypeOK'
<1> USE NoValuesType
<1>e. \A c \in Codes : ErrorAnswer(c) \in Answer
  BY DEF ErrorAnswer, Answer
<1>p. \A m \in Message : Push(m) \in Event
  BY DEF Message, Push, Event
<1>1. ASSUME NEW u \in Users, NEW cid \in ClientMsgIds, BeginSend(r, u, cid)
      PROVE  TypeOK'
  <2> DEFINE in == [NoInput EXCEPT !.op = "send", !.user = u, !.cid = cid, !.active = (groupStatus = "normal")]
  <2>1. in \in Input
    BY DEF Input, Ops
  <2>2. "lookup" \in PCs
    BY DEF PCs
  <2>3. pc' \in [Req -> PCs] /\ arg' \in [Req -> Input]
    BY <1>1, <2>1, <2>2, BeginType DEF BeginSend
  <2> QED BY <1>1, <2>3 DEF BeginSend, Quiet, TypeOK, store
<1>2. CASE SendHit(r)
  <2>1. PICK m \in Stored(arg[r].user, arg[r].cid) : Finish(r, Ack(m)) /\ (MaybePublish(Push(m)) \/ bus' = {})
    BY <1>2 DEF SendHit
  <2>2. m \in Message /\ Ack(m) \in Answer /\ Push(m) \in Event
    BY <1>p, AckType DEF Stored, TypeOK
  <2>3. bus' \subseteq Event
    BY <2>1, <2>2 DEF MaybePublish
  <2> QED BY <1>2, <2>1, <2>2, <2>3, FinishType DEF SendHit, TypeOK, store
<1>3. CASE SendMiss(r)
  BY <1>3 DEF SendMiss, Goto, Quiet, TypeOK, store, PCs
<1>4. CASE SendLimited(r)
  <2>1. ErrorAnswer("error") \in Answer
    BY <1>e DEF Codes
  <2> QED BY <1>4, <2>1, FinishType DEF SendLimited, TypeOK, store
<1>5. ASSUME NEW t \in Times, NEW senderRead \in BOOLEAN, SendCommit(r, t, senderRead)
      PROVE  TypeOK'
  <2> DEFINE m == NewMessage(r, t)
  <2>1. m \in Message
    BY ConversationAssumption, NewMessageType
  <2>2. m.seq \in Nat /\ m.sendTime \in Nat /\ m.sender \in Users
    BY <2>1 DEF Message
  <2>3. conversation' \in ConvRow
    BY <1>5, <2>2 DEF SendCommit, ConversationAfter, ConvRow
  <2>4. uc' \in [Users -> UCRow]
    BY <1>5, <2>2, TouchedType DEF SendCommit
  <2>5. messages' \subseteq Message
    BY <1>5, <2>1 DEF SendCommit, TypeOK
  <2>6. out' \in [Req -> Answer]
    BY <1>5, <2>1, AckType DEF SendCommit, TypeOK
  <2>7. lock' \in Req \cup {NoReq} /\ row' \in [Req -> ConvRow] /\ pc' \in [Req -> PCs]
    BY <1>5 DEF SendCommit, Unlock, Goto, PCs, TypeOK
  <2> QED BY <1>5, <2>3, <2>4, <2>5, <2>6, <2>7 DEF SendCommit, Quiet, TypeOK
<1>6. CASE SendRefused(r)
  <2>1. ErrorAnswer("error") \in Answer
    BY <1>e DEF Codes
  <2> QED BY <1>6, <2>1, FinishType DEF SendRefused, Refuse, TypeOK, store
<1>7. CASE SendDuplicate(r)
  BY <1>7 DEF SendDuplicate, Unlock, Goto, Quiet, TypeOK, store, PCs
<1>8. CASE SendReread(r)
  <2>1. CASE \E m \in Stored(arg[r].user, arg[r].cid) : Finish(r, Ack(m)) /\ MaybePublish(Push(m))
    <3>1. PICK m \in Stored(arg[r].user, arg[r].cid) : Finish(r, Ack(m)) /\ MaybePublish(Push(m))
      BY <2>1
    <3>2. m \in Message /\ Ack(m) \in Answer /\ Push(m) \in Event
      BY <1>p, AckType DEF Stored, TypeOK
    <3>3. bus' \subseteq Event
      BY <3>1, <3>2 DEF MaybePublish
    <3> QED BY <1>8, <3>1, <3>2, <3>3, FinishType DEF SendReread, TypeOK, store
  <2>2. CASE Finish(r, ErrorAnswer("seq_alloc_failed")) /\ bus' = {}
    <3>1. ErrorAnswer("seq_alloc_failed") \in Answer
      BY <1>e DEF Codes
    <3> QED BY <1>8, <2>2, <3>1, FinishType DEF SendReread, TypeOK, store
  <2> QED BY <1>8, <2>1, <2>2 DEF SendReread
<1>9. CASE SendPublish(r)
  <2>1. out[r] \in Answer /\ out[r].seq \in Nat /\ arg[r].user \in Users
    BY DEF TypeOK, Answer, Input
  <2>2. bus' \subseteq Event
    BY <1>9, <2>1, SMTT(30) DEF SendPublish, MaybePublish, Event
  <2>3. offline' \subseteq Nat
    BY <1>9, <2>1 DEF SendPublish, TypeOK
  <2> QED BY <1>9, <2>1, <2>2, <2>3, FinishType DEF SendPublish, TypeOK, store
<1> QED BY <1>1, <1>2, <1>3, <1>4, <1>5, <1>6, <1>7, <1>8, <1>9 DEF SendNext

LEMMA MembershipType ==
    ASSUME TypeOK, NEW r \in Req, MembershipNext(r)
    PROVE  TypeOK'
<1> USE NoValuesType
<1>e. ErrorAnswer("error") \in Answer
  BY DEF ErrorAnswer, Answer, Codes
<1>r. row[r] \in ConvRow /\ arg[r].user \in Users /\ arg[r].peer \in Users
  BY DEF TypeOK, Input
<1>1. ASSUME NEW op \in {"join", "quit", "kick"}, NEW u \in Users, NEW peer \in Users,
             BeginMembership(r, op, u, peer)
      PROVE  TypeOK'
  <2> DEFINE in == [NoInput EXCEPT !.op = op, !.user = u, !.peer = peer]
  <2>1. in \in Input /\ "lock" \in PCs
    BY DEF Input, Ops, PCs
  <2>2. pc' \in [Req -> PCs] /\ arg' \in [Req -> Input]
    BY <1>1, <2>1, BeginType DEF BeginMembership
  <2> QED BY <1>1, <2>2 DEF BeginMembership, Quiet, TypeOK, store
<1>2. ASSUME NEW t \in Times, JoinCommit(r, t)
      PROVE  TypeOK'
  <2>1. JoinedRow(row[r], t) \in UCRow
    BY <1>r, ConversationAssumption, SMTT(30) DEF JoinedRow, ConvRow, UCRow
  <2>2. uc' \in [Users -> UCRow] /\ role' \in [Users -> NotMember .. RoleOwner]
    BY <1>2, <1>r, <2>1, SMTT(30) DEF JoinCommit, TypeOK
  <2> QED BY <1>2, <2>2 DEF JoinCommit, Unlock, Goto, Quiet, TypeOK, PCs
<1>3. CASE JoinRefused(r)
  BY <1>3, <1>e, FinishType DEF JoinRefused, Refuse, TypeOK, store
<1>4. CASE RemoveCommit(r)
  <2>1. Frozen(arg[r].peer, row[r]) \in UCRow
    <3>1. uc[arg[r].peer] \in UCRow
      BY <1>r DEF TypeOK
    <3> QED BY <1>r, <3>1 DEF Frozen, UCRow, ConvRow
  <2>2. uc' \in [Users -> UCRow] /\ role' \in [Users -> NotMember .. RoleOwner]
    BY <1>4, <1>r, <2>1, SMTT(30) DEF RemoveCommit, TypeOK
  <2> QED BY <1>4, <2>2 DEF RemoveCommit, Unlock, Goto, Quiet, TypeOK, PCs
<1>5. CASE RemoveRefused(r)
  BY <1>5, <1>e, FinishType DEF RemoveRefused, Refuse, TypeOK, store
<1>6. CASE NotifyChanged(r)
  <2>1. bus' \subseteq Event
    BY <1>6, ConversationAssumption, SMTT(30) DEF NotifyChanged, MaybePublish, Event
  <2> QED BY <1>6, <2>1, FinishType DEF NotifyChanged, TypeOK, store
<1> QED BY <1>1, <1>2, <1>3, <1>4, <1>5, <1>6 DEF MembershipNext

LEMMA ReadType ==
    ASSUME TypeOK, NEW r \in Req, ReadNext(r)
    PROVE  TypeOK'
<1> USE NoValuesType
<1>r. target[r] \in Nat /\ arg[r].user \in Users
  BY DEF TypeOK, Input
<1>1. ASSUME NEW u \in Users, NEW s \in 1 .. (MaxMsgs + 1), BeginMarkRead(r, u, s)
      PROVE  TypeOK'
  <2> DEFINE in == [NoInput EXCEPT !.op = "read", !.user = u]
  <2>1. in \in Input /\ "advance" \in PCs
    BY DEF Input, Ops, PCs
  <2>2. pc' \in [Req -> PCs] /\ arg' \in [Req -> Input]
    BY <1>1, <2>1, BeginType DEF BeginMarkRead
  <2>3. uc[u] \in UCRow /\ conversation \in ConvRow /\ s \in Nat
    BY ConversationAssumption, SMTT(30) DEF TypeOK
  <2>4. ReadTarget(u, s) \in Nat
    BY <2>3 DEF ReadTarget, VisibleMax, Least, UCRow, ConvRow
  <2>5. target' \in [Req -> Nat]
    BY <1>1, <2>4 DEF BeginMarkRead, TypeOK
  <2> QED BY <1>1, <2>2, <2>5 DEF BeginMarkRead, Quiet, TypeOK, store
<1>2. ASSUME NEW u \in Users, NEW s \in 1 .. (MaxMsgs + 1), MarkReadNothing(r, u, s)
      PROVE  TypeOK'
  BY <1>2 DEF MarkReadNothing, Quiet, TypeOK, store, request
<1>3. CASE AdvanceReadSeq(r)
  <2>1. uc[arg[r].user] \in UCRow
    BY <1>r DEF TypeOK
  <2>2. Advanced(arg[r].user, target[r]) \in UCRow
    BY <1>r, <2>1 DEF Advanced, Greatest, UCRow
  <2>3. uc' \in [Users -> UCRow]
    BY <1>3, <1>r, <2>2 DEF AdvanceReadSeq, TypeOK
  <2> QED BY <1>3, <2>3 DEF AdvanceReadSeq, Goto, Quiet, TypeOK, PCs
<1>4. CASE NotifyRead(r)
  <2>1. bus' \subseteq Event
    BY <1>4, <1>r, SMTT(30) DEF NotifyRead, MaybePublish, Event
  <2> QED BY <1>4, <2>1, FinishType DEF NotifyRead, TypeOK, store
<1> QED BY <1>1, <1>2, <1>3, <1>4 DEF ReadNext

LEMMA CreateType ==
    ASSUME TypeOK, NEW members \in SUBSET Users, NEW t \in Times, Create(members, t)
    PROVE  TypeOK'
<1>1. t \in Nat
  BY ConversationAssumption
<1>2. uc' \in [Users -> UCRow]
  BY <1>1, NoValuesType DEF Create, UCRow
<1>3. role' \in [Users -> NotMember .. RoleOwner]
  BY SMTT(30) DEF Create
<1>4. conversation' \in ConvRow
  BY <1>1 DEF Create, ConvRow
<1>5. bus' \subseteq Event
  BY ConversationAssumption, SMTT(30) DEF Create, MaybePublish, Event
<1> QED BY <1>2, <1>3, <1>4, <1>5, NoValuesType DEF Create, TypeOK, request

LEMMA InitType == Init => TypeOK
<1> SUFFICES ASSUME Init PROVE TypeOK
  OBVIOUS
<1>1. conversation \in ConvRow /\ uc \in [Users -> UCRow]
  BY NoValuesType DEF Init
<1>2. pc \in [Req -> PCs]
  BY DEF Init, PCs
<1>3. arg \in [Req -> Input] /\ row \in [Req -> ConvRow] /\ out \in [Req -> Answer] /\ reply \in Reply
  BY NoValuesType DEF Init
<1> QED BY <1>1, <1>2, <1>3, SMTT(30) DEF Init, TypeOK

LEMMA NextType == TypeOK /\ [Next]_vars => TypeOK'
<1> SUFFICES ASSUME TypeOK, [Next]_vars PROVE TypeOK'
  OBVIOUS
<1>1. ASSUME NEW members \in SUBSET Users, NEW t \in Times, Create(members, t)
      PROVE  TypeOK'
  BY <1>1, CreateType
<1>2. ASSUME NEW r \in Req, RequestNext(r)
      PROVE  TypeOK'
  <2>1. CASE LockConversation(r)
    BY <2>1, NoValuesType DEF LockConversation, Goto, Quiet, TypeOK, store, PCs
  <2>2. CASE Fail(r)
    <3>1. ErrorAnswer("error") \in Answer
      BY DEF ErrorAnswer, Answer, Codes
    <3> QED BY <2>2, <3>1, FinishType DEF Fail, RolledBack, TypeOK, store
  <2> QED BY <1>2, <2>1, <2>2, SendType, MembershipType, ReadType DEF RequestNext
<1>3. CASE HostDismiss
  BY <1>3, NoValuesType DEF HostDismiss, Quiet, TypeOK, request
<1>4. ASSUME NEW u \in Users, HostGrantAdmin(u)
      PROVE  TypeOK'
  BY <1>4, NoValuesType, SMTT(30) DEF HostGrantAdmin, Quiet, TypeOK, request
<1>5. CASE UNCHANGED vars
  BY <1>5 DEF vars, store, request, TypeOK
<1> QED BY <1>1, <1>2, <1>3, <1>4, <1>5 DEF Next

(* Every table and every request stays well typed: the invariant TypeOK.   *)
THEOREM TypeCorrect == Spec => []TypeOK
<1>1. Init => TypeOK
  BY InitType
<1>2. TypeOK /\ [Next]_vars => TypeOK'
  BY NextType
<1> QED BY <1>1, <1>2, PTL DEF Spec

-----------------------------------------------------------------------------
(* The inductive invariant behind the sequence numbers and the answers. *)

(* The request inside the transaction is the holder of the row lock, and   *)
(* what it read under the lock is still the row.                           *)
LockInv ==
    \A r \in Req :
        /\ lock = r <=> pc[r] = "tx"
        /\ pc[r] = "tx" => row[r] = conversation

(* A group that does not exist has no rows and no requests. *)
NoGroupInv ==
    groupStatus = "none" =>
        /\ messages = {} /\ conversation.maxSeq = 0
        /\ \A u \in Users : ~uc[u].exists
        /\ \A r \in Req : pc[r] = "idle"

(* A request past a duplicate finds its row; one past its commit answers   *)
(* with it.                                                                *)
PendingInv ==
    \A r \in Req :
        /\ pc[r] = "dup" => Stored(arg[r].user, arg[r].cid) # {}
        /\ pc[r] = "publish" => \E m \in Stored(arg[r].user, arg[r].cid) : out[r] = Ack(m)

SeqInv == TypeOK /\ LockInv /\ NoGroupInv /\ PendingInv /\ SeqContiguous /\ SameAck /\ SeqAllocNeverFails

LEMMA SeqInvInit == Init => SeqInv
<1> SUFFICES ASSUME Init PROVE SeqInv
  OBVIOUS
<1>1. TypeOK
  BY InitType
<1>2. LockInv /\ PendingInv
  BY ConversationAssumption DEF Init, LockInv, PendingInv
<1>3. NoGroupInv
  BY DEF Init, NoGroupInv, NoConv, NoRow
<1>4. SeqContiguous
  BY SMTT(30) DEF Init, SeqContiguous, NoConv
<1>5. SameAck /\ SeqAllocNeverFails
  BY DEF Init, SameAck, SeqAllocNeverFails, NoReply, NoAnswer
<1> QED BY <1>1, <1>2, <1>3, <1>4, <1>5 DEF SeqInv

(* The invariant speaks of the tables only through messages, conversation, *)
(* groupStatus and the existence of user_conversations rows, so a step of  *)
(* request r that writes none of them and moves r to a label where nothing *)
(* is pending keeps it, once its own lock and reply are accounted for.     *)
LEMMA LocalStep ==
    ASSUME SeqInv, TypeOK', NEW r \in Req,
           UNCHANGED <<conversation, messages>>,
           groupStatus # "none", groupStatus' = groupStatus,
           \A q \in Req \ {r} : pc'[q] = pc[q] /\ arg'[q] = arg[q] /\ row'[q] = row[q] /\ out'[q] = out[q],
           \A q \in Req \ {r} : lock' = q <=> lock = q,
           lock' = r <=> pc'[r] = "tx",
           pc'[r] = "tx" => row'[r] = conversation,
           pc'[r] \in {"dup", "publish"} => Stored(arg'[r].user, arg'[r].cid) # {} /\ pc'[r] = "dup",
           reply'.answer.code # "seq_alloc_failed",
           reply'.answer.code = "ok" => \E m \in Stored(reply'.user, reply'.cid) : reply'.answer = Ack(m)
    PROVE  SeqInv'
<1>1. LockInv'
  BY DEF SeqInv, LockInv
<1>2. NoGroupInv'
  BY DEF NoGroupInv
<1>3. \A u, c : Stored(u, c)' = Stored(u, c)
  BY DEF Stored
<1>4. PendingInv'
  BY <1>3 DEF SeqInv, PendingInv
<1>5. SeqContiguous'
  BY DEF SeqInv, SeqContiguous
<1>6. SameAck'
  BY <1>3 DEF SeqInv, SameAck
<1>7. SeqAllocNeverFails'
  BY DEF SeqAllocNeverFails
<1> QED BY <1>1, <1>2, <1>4, <1>5, <1>6, <1>7 DEF SeqInv

(* A request that ends with the row lock free of it: the answer must be an *)
(* error or acknowledge the stored row.                                    *)
LEMMA FinishStep ==
    ASSUME SeqInv, TypeOK', NEW r \in Req, NEW answer \in Answer,
           Finish(r, answer), pc[r] # "idle", UNCHANGED store,
           lock' = IF lock = r THEN NoReq ELSE lock,
           answer.code # "seq_alloc_failed",
           answer.code = "ok" =>
               \E m \in Stored(arg[r].user, arg[r].cid) : answer = Ack(m)
    PROVE  SeqInv'
<1>1. groupStatus # "none"
  BY DEF SeqInv, NoGroupInv
<1>2. pc'[r] = "idle" /\ \A q \in Req \ {r} : pc'[q] = pc[q] /\ arg'[q] = arg[q] /\ row'[q] = row[q] /\ out'[q] = out[q]
  BY DEF SeqInv, TypeOK, Finish, Goto
<1>3. lock' # r /\ \A q \in Req \ {r} : lock' = q <=> lock = q
  BY ConversationAssumption
<1>4. reply'.answer.code # "seq_alloc_failed"
  BY DEF Finish, NoReply, NoAnswer
<1>5. reply'.answer.code = "ok" => \E m \in Stored(reply'.user, reply'.cid) : reply'.answer = Ack(m)
  BY DEF Finish, NoReply, NoAnswer
<1> QED BY <1>1, <1>2, <1>3, <1>4, <1>5, LocalStep DEF store

(* A new request: it holds nothing and has answered nothing. *)
LEMMA BeginStep ==
    ASSUME SeqInv, TypeOK', NEW r \in Req, NEW in \in Input, NEW label \in {"lookup", "lock", "advance"},
           Begin(r, in, label), Quiet, UNCHANGED <<store, lock, row, out>>, groupStatus # "none"
    PROVE  SeqInv'
<1>1. pc'[r] = label /\ \A q \in Req \ {r} : pc'[q] = pc[q] /\ arg'[q] = arg[q]
  BY DEF SeqInv, TypeOK, Begin, Goto
<1>2. lock # r
  BY DEF SeqInv, LockInv, Begin
<1>3. reply'.answer.code = "none"
  BY DEF Quiet, NoReply, NoAnswer
<1> QED BY <1>1, <1>2, <1>3, LocalStep DEF store

LEMMA SendSeqInv ==
    ASSUME SeqInv, TypeOK', NEW r \in Req, SendNext(r)
    PROVE  SeqInv'
<1> USE DEF SeqInv
<1>e. /\ \A c \in Codes : ErrorAnswer(c) \in Answer /\ ErrorAnswer(c).code = c
      /\ \A m \in Message : Ack(m) \in Answer /\ Ack(m).code = "ok"
  BY AckType DEF ErrorAnswer, Answer, Ack
<1>l. lock = r => pc[r] = "tx"
  BY DEF LockInv
<1>s. \A u, c : Stored(u, c) \subseteq Message
  BY DEF Stored, TypeOK
<1>1. ASSUME NEW u \in Users, NEW cid \in ClientMsgIds, BeginSend(r, u, cid)
      PROVE  SeqInv'
  <2> DEFINE in == [NoInput EXCEPT !.op = "send", !.user = u, !.cid = cid, !.active = (groupStatus = "normal")]
  <2>1. in \in Input
    BY NoValuesType DEF Input, Ops
  <2> QED BY <1>1, <2>1, BeginStep DEF BeginSend
<1>2. CASE SendHit(r)
  <2>1. PICK m \in Stored(arg[r].user, arg[r].cid) : Finish(r, Ack(m))
    BY <1>2 DEF SendHit
  <2> QED BY <1>2, <1>e, <1>l, <1>s, <2>1, FinishStep DEF SendHit
<1>3. CASE SendMiss(r)
  <2>1. pc'[r] = "lock" /\ \A q \in Req \ {r} : pc'[q] = pc[q]
    BY <1>3 DEF SendMiss, Goto, TypeOK
  <2>2. reply'.answer.code = "none"
    BY <1>3 DEF SendMiss, Quiet, NoReply, NoAnswer
  <2>3. groupStatus # "none" /\ lock # r
    BY <1>3, <1>l DEF SendMiss, NoGroupInv
  <2> QED BY <1>3, <2>1, <2>2, <2>3, LocalStep DEF SendMiss, store
<1>4. CASE SendLimited(r)
  BY <1>4, <1>e, <1>l, FinishStep DEF SendLimited, Codes
<1>6. CASE SendRefused(r)
  BY <1>6, <1>e, FinishStep DEF SendRefused, Refuse, Codes, LockInv
<1>7. CASE SendDuplicate(r)
  <2>1. PICK d \in messages : \/ d.seq = NewMessage(r, 0).seq
                              \/ d.sender = NewMessage(r, 0).sender /\ d.clientMsgId = NewMessage(r, 0).clientMsgId
    BY <1>7 DEF SendDuplicate, Conflicts
  <2>2. row[r] = conversation /\ lock = r
    BY <1>7 DEF SendDuplicate, LockInv
  <2>3. d.seq \in 1 .. conversation.maxSeq
    BY DEF SeqContiguous
  <2>4. d.seq # NewMessage(r, 0).seq
    BY <2>2, <2>3, SMTT(30) DEF NewMessage, TypeOK, ConvRow
  <2>5. d \in Stored(arg[r].user, arg[r].cid)
    BY <2>1, <2>4 DEF NewMessage, Stored
  <2>6. pc'[r] = "dup" /\ \A q \in Req \ {r} : pc'[q] = pc[q] /\ row'[q] = row[q]
    BY <1>7 DEF SendDuplicate, Unlock, Goto, TypeOK
  <2>7. reply'.answer.code = "none" /\ groupStatus # "none"
    BY <1>7 DEF SendDuplicate, Quiet, NoReply, NoAnswer, NoGroupInv
  <2>8. lock' # r /\ \A q \in Req \ {r} : lock' = q <=> lock = q
    BY <1>7, <2>2, ConversationAssumption DEF SendDuplicate, Unlock
  <2>9. UNCHANGED <<conversation, messages, arg, out>> /\ groupStatus' = groupStatus
    BY <1>7 DEF SendDuplicate, store
  <2>10. Stored(arg'[r].user, arg'[r].cid) # {}
    BY <2>5, <2>9
  <2> QED BY <2>6, <2>7, <2>8, <2>9, <2>10, LocalStep
<1>8. CASE SendReread(r)
  <2>1. Stored(arg[r].user, arg[r].cid) # {}
    BY <1>8 DEF SendReread, PendingInv
  <2>2. PICK m \in Stored(arg[r].user, arg[r].cid) : Finish(r, Ack(m))
    BY <1>8, <2>1 DEF SendReread
  <2> QED BY <1>8, <1>e, <1>l, <1>s, <2>2, FinishStep DEF SendReread
<1>9. CASE SendPublish(r)
  <2>1. PICK m \in Stored(arg[r].user, arg[r].cid) : out[r] = Ack(m)
    BY <1>9 DEF SendPublish, PendingInv
  <2> QED BY <1>9, <1>e, <1>l, <1>s, <2>1, FinishStep DEF SendPublish
<1>5. ASSUME NEW t \in Times, NEW senderRead \in BOOLEAN, SendCommit(r, t, senderRead)
      PROVE  SeqInv'
  <2> DEFINE m == NewMessage(r, t)
             n == conversation.maxSeq
  <2>1. row[r] = conversation /\ lock = r /\ n \in Nat
    BY <1>5 DEF SendCommit, LockInv, TypeOK, ConvRow
  <2>2. m \in Message /\ m.seq = n + 1 /\ m.sender = arg[r].user /\ m.clientMsgId = arg[r].cid
    BY <2>1, ConversationAssumption, NewMessageType DEF NewMessage
  <2>3. messages' = messages \cup {m} /\ conversation'.maxSeq = n + 1 /\ groupStatus' = groupStatus
    BY <1>5, <2>2 DEF SendCommit, ConversationAfter
  <2>4. \A d \in messages : d.seq # m.seq /\ ~(d.sender = m.sender /\ d.clientMsgId = m.clientMsgId)
    BY <1>5 DEF SendCommit, Conflicts
  <2>5. LockInv'
    <3>1. lock' = NoReq /\ pc'[r] = "publish" /\ \A q \in Req \ {r} : pc'[q] = pc[q]
      BY <1>5 DEF SendCommit, Unlock, Goto, TypeOK
    <3> QED BY <2>1, <3>1, ConversationAssumption DEF LockInv
  <2>6. NoGroupInv'
    BY <1>5, <2>3 DEF SendCommit, NoGroupInv
  <2>7. \A u, c : Stored(u, c) \subseteq Stored(u, c)'
    BY <2>3 DEF Stored
  <2>8. m \in Stored(arg[r].user, arg[r].cid)'
    BY <2>2, <2>3, <1>5 DEF Stored, SendCommit
  <2>9. PendingInv'
    <3>1. /\ pc'[r] = "publish" /\ out'[r] = Ack(m) /\ arg' = arg
          /\ \A q \in Req \ {r} : pc'[q] = pc[q] /\ out'[q] = out[q]
      BY <1>5 DEF SendCommit, Goto, TypeOK
    <3>2. ASSUME NEW q \in Req, q # r
          PROVE  /\ pc'[q] = "dup" => Stored(arg[q].user, arg[q].cid)' # {}
                 /\ pc'[q] = "publish" => \E d \in Stored(arg[q].user, arg[q].cid)' : out'[q] = Ack(d)
      <4>1. /\ pc[q] = "dup" => Stored(arg[q].user, arg[q].cid) # {}
            /\ pc[q] = "publish" => \E d \in Stored(arg[q].user, arg[q].cid) : out[q] = Ack(d)
        BY DEF PendingInv
      <4>2. Stored(arg[q].user, arg[q].cid) \subseteq Stored(arg[q].user, arg[q].cid)'
        BY <2>3, <3>1 DEF Stored
      <4> QED BY <3>1, <3>2, <4>1, <4>2
    <3> QED BY <2>8, <3>1, <3>2 DEF PendingInv
  <2>10. SeqContiguous'
    <3>1. {d.seq : d \in messages'} = {d.seq : d \in messages} \cup {m.seq}
      BY <2>3
    <3>2. {d.seq : d \in messages'} = 1 .. (n + 1)
      BY <2>1, <2>2, <3>1, SMTT(30) DEF SeqContiguous
    <3>3. \A d1, d2 \in messages' : d1.seq = d2.seq => d1 = d2
      BY <2>3, <2>4 DEF SeqContiguous
    <3> QED BY <2>3, <3>2, <3>3 DEF SeqContiguous
  <2>11. reply'.answer.code = "none"
    BY <1>5 DEF SendCommit, Quiet, NoReply, NoAnswer
  <2>12. SameAck'
    <3>1. \A d1, d2 \in messages' : d1.sender = d2.sender /\ d1.clientMsgId = d2.clientMsgId => d1 = d2
      BY <2>3, <2>4 DEF SameAck
    <3> QED BY <2>11, <3>1 DEF SameAck
  <2>13. SeqAllocNeverFails'
    BY <2>11 DEF SeqAllocNeverFails
  <2> QED BY <2>5, <2>6, <2>9, <2>10, <2>12, <2>13
<1> QED BY <1>1, <1>2, <1>3, <1>4, <1>5, <1>6, <1>7, <1>8, <1>9 DEF SendNext

LEMMA MembershipSeqInv ==
    ASSUME SeqInv, TypeOK', NEW r \in Req, MembershipNext(r)
    PROVE  SeqInv'
<1> USE DEF SeqInv
<1>e. /\ ErrorAnswer("error") \in Answer /\ ErrorAnswer("error").code = "error"
      /\ NoAnswer \in Answer /\ NoAnswer.code = "none"
  BY NoValuesType DEF ErrorAnswer, NoAnswer, Answer, Codes
<1>1. ASSUME NEW op \in {"join", "quit", "kick"}, NEW u \in Users, NEW peer \in Users,
             BeginMembership(r, op, u, peer)
      PROVE  SeqInv'
  <2> DEFINE in == [NoInput EXCEPT !.op = op, !.user = u, !.peer = peer]
  <2>1. in \in Input
    BY NoValuesType DEF Input, Ops
  <2> QED BY <1>1, <2>1, BeginStep DEF BeginMembership
<1>2. ASSUME pc[r] = "tx", Unlock(r), Goto(r, "notify"), Quiet,
             UNCHANGED <<conversation, groupStatus, messages, arg, out>>
      PROVE  SeqInv'
  <2>1. pc'[r] = "notify" /\ \A q \in Req \ {r} : pc'[q] = pc[q] /\ row'[q] = row[q]
    BY <1>2 DEF Unlock, Goto, TypeOK
  <2>2. lock' # r /\ \A q \in Req \ {r} : lock' = q <=> lock = q
    BY <1>2, ConversationAssumption, SMTT(30) DEF Unlock, LockInv
  <2>3. reply'.answer.code = "none" /\ groupStatus # "none"
    BY <1>2 DEF Quiet, NoReply, NoAnswer, NoGroupInv
  <2> QED BY <1>2, <2>1, <2>2, <2>3, LocalStep
<1>3. ASSUME NEW t \in Times, JoinCommit(r, t)
      PROVE  SeqInv'
  BY <1>2, <1>3 DEF JoinCommit
<1>4. CASE RemoveCommit(r)
  BY <1>2, <1>4 DEF RemoveCommit
<1>5. CASE JoinRefused(r) \/ RemoveRefused(r)
  <2>1. pc[r] = "tx" /\ Refuse(r)
    BY <1>5 DEF JoinRefused, RemoveRefused
  <2> QED BY <1>e, <2>1, FinishStep DEF Refuse, LockInv
<1>6. CASE NotifyChanged(r)
  BY <1>e, <1>6, FinishStep DEF NotifyChanged, LockInv
<1> QED BY <1>1, <1>3, <1>4, <1>5, <1>6 DEF MembershipNext

LEMMA ReadSeqInv ==
    ASSUME SeqInv, TypeOK', NEW r \in Req, ReadNext(r)
    PROVE  SeqInv'
<1> USE DEF SeqInv
<1>e. NoAnswer \in Answer /\ NoAnswer.code = "none"
  BY NoValuesType DEF NoAnswer
<1>q. Quiet => reply'.answer.code = "none"
  BY SMTT(30) DEF Quiet, NoReply, NoAnswer
<1>1. ASSUME NEW u \in Users, NEW s \in 1 .. (MaxMsgs + 1), BeginMarkRead(r, u, s)
      PROVE  SeqInv'
  <2> DEFINE in == [NoInput EXCEPT !.op = "read", !.user = u]
  <2>1. in \in Input
    BY NoValuesType DEF Input, Ops
  <2>2. groupStatus # "none"
    BY <1>1 DEF BeginMarkRead, NoGroupInv
  <2> QED BY <1>1, <2>1, <2>2, BeginStep DEF BeginMarkRead
<1>2. ASSUME NEW u \in Users, NEW s \in 1 .. (MaxMsgs + 1), MarkReadNothing(r, u, s)
      PROVE  SeqInv'
  <2>1. UNCHANGED <<conversation, groupStatus, uc, messages, lock, pc, arg, row, out>> /\ reply'.answer.code = "none"
    BY <1>2, <1>q DEF MarkReadNothing, store, request
  <2>2. LockInv' /\ NoGroupInv' /\ PendingInv' /\ SeqContiguous'
    BY <2>1 DEF LockInv, NoGroupInv, PendingInv, SeqContiguous, Stored
  <2>3. SameAck' /\ SeqAllocNeverFails'
    BY <2>1 DEF SameAck, SeqAllocNeverFails
  <2> QED BY <2>2, <2>3
<1>3. CASE AdvanceReadSeq(r)
  <2>1. pc'[r] = "notify" /\ \A q \in Req \ {r} : pc'[q] = pc[q]
    BY <1>3 DEF AdvanceReadSeq, Goto, TypeOK
  <2>2. lock # r /\ groupStatus # "none"
    BY <1>3 DEF AdvanceReadSeq, LockInv, NoGroupInv
  <2> QED BY <1>3, <1>q, <2>1, <2>2, LocalStep DEF AdvanceReadSeq
<1>4. CASE NotifyRead(r)
  BY <1>e, <1>4, FinishStep DEF NotifyRead, LockInv
<1> QED BY <1>1, <1>2, <1>3, <1>4 DEF ReadNext

LEMMA SeqInvNext == SeqInv /\ [Next]_vars => SeqInv'
<1> SUFFICES ASSUME SeqInv, [Next]_vars PROVE SeqInv'
  OBVIOUS
<1> USE DEF SeqInv
<1>t. TypeOK'
  BY NextType
<1>q. Quiet => reply'.answer.code = "none"
  BY SMTT(30) DEF Quiet, NoReply, NoAnswer
<1>1. ASSUME NEW members \in SUBSET Users, NEW t \in Times, Create(members, t)
      PROVE  SeqInv'
  <2>1. /\ messages = {} /\ conversation.maxSeq = 0 /\ \A r \in Req : pc[r] = "idle"
        /\ UNCHANGED <<messages, lock, pc, arg, row, out>>
        /\ conversation'.maxSeq = 0 /\ groupStatus' = "normal" /\ reply'.answer.code = "none"
    BY <1>1 DEF Create, NoGroupInv, request, NoReply, NoAnswer
  <2>2. LockInv' /\ NoGroupInv' /\ PendingInv' /\ SeqContiguous'
    BY <2>1 DEF LockInv, NoGroupInv, PendingInv, SeqContiguous
  <2>3. SameAck' /\ SeqAllocNeverFails'
    BY <2>1 DEF SameAck, SeqAllocNeverFails
  <2> QED BY <1>t, <2>2, <2>3
<1>2. ASSUME NEW r \in Req, RequestNext(r)
      PROVE  SeqInv'
  <2>1. CASE LockConversation(r)
    <3>1. pc'[r] = "tx" /\ row'[r] = conversation /\ \A q \in Req \ {r} : pc'[q] = pc[q] /\ row'[q] = row[q]
      BY <2>1 DEF LockConversation, Goto, TypeOK
    <3>2. lock' = r /\ \A q \in Req \ {r} : lock' = q <=> lock = q
      BY <2>1, ConversationAssumption DEF LockConversation, RowFree
    <3>3. groupStatus # "none"
      BY <2>1 DEF LockConversation, NoGroupInv
    <3> QED BY <1>t, <1>q, <2>1, <3>1, <3>2, <3>3, LocalStep DEF LockConversation, store
  <2>2. CASE Fail(r)
    <3>1. ErrorAnswer("error") \in Answer /\ ErrorAnswer("error").code = "error"
      BY DEF ErrorAnswer, Answer, Codes
    <3> QED BY <1>t, <2>2, <3>1, FinishStep DEF Fail, RolledBack
  <2> QED BY <1>2, <1>t, <2>1, <2>2, SendSeqInv, MembershipSeqInv, ReadSeqInv DEF RequestNext
<1>3. ASSUME UNCHANGED <<conversation, uc, messages, lock, pc, arg, row, out>>, Quiet,
             groupStatus # "none", groupStatus' # "none"
      PROVE  SeqInv'
  <2>1. LockInv' /\ NoGroupInv' /\ PendingInv' /\ SeqContiguous'
    BY <1>3 DEF LockInv, NoGroupInv, PendingInv, SeqContiguous, Stored
  <2>2. SameAck' /\ SeqAllocNeverFails'
    BY <1>3, <1>q DEF SameAck, SeqAllocNeverFails
  <2> QED BY <1>t, <2>1, <2>2
<1>4. CASE HostDismiss
  BY <1>3, <1>4 DEF HostDismiss, request
<1>5. ASSUME NEW u \in Users, HostGrantAdmin(u)
      PROVE  SeqInv'
  <2>1. UNCHANGED <<conversation, groupStatus, uc, messages, lock, pc, arg, row, out>> /\ reply'.answer.code = "none"
    BY <1>5, <1>q DEF HostGrantAdmin, request
  <2>2. LockInv' /\ NoGroupInv' /\ PendingInv' /\ SeqContiguous'
    BY <2>1 DEF LockInv, NoGroupInv, PendingInv, SeqContiguous, Stored
  <2>3. SameAck' /\ SeqAllocNeverFails'
    BY <2>1 DEF SameAck, SeqAllocNeverFails
  <2> QED BY <1>t, <2>2, <2>3
<1>6. CASE UNCHANGED vars
  <2>1. UNCHANGED <<conversation, groupStatus, uc, messages, lock, reply, pc, arg, row, out>>
    BY <1>6 DEF vars, store, request
  <2>2. LockInv' /\ NoGroupInv' /\ PendingInv' /\ SeqContiguous'
    BY <2>1 DEF LockInv, NoGroupInv, PendingInv, SeqContiguous, Stored
  <2>3. SameAck' /\ SeqAllocNeverFails'
    BY <2>1 DEF SameAck, SeqAllocNeverFails, Stored
  <2> QED BY <1>t, <2>2, <2>3
<1> QED BY <1>1, <1>2, <1>4, <1>5, <1>6 DEF Next

LEMMA SeqInvariant == Spec => []SeqInv
<1>1. Init => SeqInv
  BY SeqInvInit
<1>2. SeqInv /\ [Next]_vars => SeqInv'
  BY SeqInvNext
<1> QED BY <1>1, <1>2, PTL DEF Spec

(* Send's row lock makes the sequence numbers 1 .. max_seq, each used      *)
(* once, in every interleaving with joins, removals, failures and crashes. *)
THEOREM SeqAlwaysContiguous == Spec => []SeqContiguous
<1>1. SeqInv => SeqContiguous
  BY DEF SeqInv
<1> QED BY <1>1, SeqInvariant, PTL

(* All sends of one client_msg_id, concurrent or repeated, are answered    *)
(* with the seq and time of the one row that is stored.                    *)
THEOREM EverySendSameAck == Spec => []SameAck
<1>1. SeqInv => SameAck
  BY DEF SeqInv
<1> QED BY <1>1, SeqInvariant, PTL

(* Send never takes its ErrSeqAllocFailed branch. *)
THEOREM SeqAllocBranchDead == Spec => []SeqAllocNeverFails
<1>1. SeqInv => SeqAllocNeverFails
  BY DEF SeqInv
<1> QED BY <1>1, SeqInvariant, PTL

-----------------------------------------------------------------------------
(* The visible windows, the member limit, the times and the announcements. *)

(* A single chat is always open, and only groups have joins and removals. *)
KindInv ==
    /\ SessionType = "single" => groupStatus = "normal"
    /\ \A r \in Req : arg[r].op \in {"join", "quit", "kick"} => SessionType = "group"

(* The rows of user_conversations against max_seq: a window starts at most *)
(* one past the log, the cursor lies in it or right before it, and no      *)
(* bound is ahead of the log.  In a single chat the first message makes    *)
(* all rows, and they stay unbounded.                                      *)
RowInv(u) ==
    /\ ~uc[u].exists => uc[u] = NoRow
    /\ uc[u].exists =>
          /\ 1 <= uc[u].minSeq /\ uc[u].minSeq <= conversation.maxSeq + 1
          /\ uc[u].minSeq <= uc[u].readSeq + 1 /\ uc[u].readSeq <= conversation.maxSeq
          /\ uc[u].maxSeq <= conversation.maxSeq
    /\ SessionType = "single" =>
          /\ uc[u].exists => uc[u].minSeq = 1 /\ uc[u].maxSeq = 0
          /\ ~uc[u].exists => conversation.maxSeq = 0

RowsInv == \A u \in Users : RowInv(u)

(* What MarkRead is about to write: the row may have been frozen, removed  *)
(* or made again since its bounds were read.                               *)
InReach(u, s) ==
    /\ s <= conversation.maxSeq
    /\ uc[u].exists => s <= uc[u].readSeq \/ s <= VisibleMax(u)

TargetInv ==
    \A r \in Req :
        /\ pc[r] = "advance" => InReach(arg[r].user, target[r])
        /\ pc[r] = "notify" /\ arg[r].op = "read" => target[r] <= conversation.maxSeq

WindowInv == SeqInv /\ KindInv /\ RowsInv /\ TargetInv /\ MemberWindow

LEMMA WindowInvInit == Init => WindowInv
<1> SUFFICES ASSUME Init PROVE WindowInv
  OBVIOUS
<1>1. SeqInv
  BY SeqInvInit
<1>2. KindInv
  BY ConversationAssumption DEF Init, KindInv, NoInput
<1>3. RowsInv
  BY DEF Init, RowsInv, RowInv, NoRow, NoConv
<1>4. TargetInv /\ MemberWindow
  BY DEF Init, TargetInv, MemberWindow, NoRow
<1> QED BY <1>1, <1>2, <1>3, <1>4 DEF WindowInv

(* A step of request r that leaves the tables alone: the other requests    *)
(* stay where they are, and r does not announce anything it wrote.         *)
Aside(r) ==
    /\ UNCHANGED store
    /\ \A q \in Req \ {r} : pc'[q] = pc[q] /\ arg'[q] = arg[q] /\ target'[q] = target[q]
    /\ pc'[r] # "notify"
    /\ arg'[r].op \in {"join", "quit", "kick"} => arg'[r] = arg[r] \/ SessionType = "group"
    /\ pc'[r] = "advance" => target'[r] <= VisibleMax(arg'[r].user)

LEMMA FinishAside ==
    ASSUME TypeOK, NEW r \in Req, NEW answer, Finish(r, answer), UNCHANGED store
    PROVE  Aside(r)
BY DEF Aside, Finish, Goto, NoInput, TypeOK

LEMMA SendKinds ==
    ASSUME TypeOK, NEW r \in Req, SendNext(r)
    PROVE  Aside(r) \/ \E t \in Times, senderRead \in BOOLEAN : SendCommit(r, t, senderRead)
<1>1. ASSUME NEW u \in Users, NEW cid \in ClientMsgIds, BeginSend(r, u, cid)
      PROVE  Aside(r)
  BY <1>1 DEF BeginSend, Begin, Goto, Aside, NoInput, TypeOK
<1>2. CASE SendHit(r) \/ SendLimited(r) \/ SendReread(r) \/ SendPublish(r)
  BY <1>2, FinishAside DEF SendHit, SendLimited, SendReread, SendPublish
<1>3. CASE SendMiss(r)
  BY <1>3 DEF SendMiss, Goto, Aside, TypeOK
<1>4. CASE SendRefused(r)
  BY <1>4, FinishAside DEF SendRefused, Refuse
<1>5. CASE SendDuplicate(r)
  BY <1>5 DEF SendDuplicate, Goto, Aside, TypeOK
<1> QED BY <1>1, <1>2, <1>3, <1>4, <1>5 DEF SendNext

LEMMA MembershipKinds ==
    ASSUME TypeOK, NEW r \in Req, MembershipNext(r)
    PROVE  Aside(r) \/ (\E t \in Times : JoinCommit(r, t)) \/ RemoveCommit(r)
<1>1. ASSUME NEW op \in {"join", "quit", "kick"}, NEW u \in Users, NEW peer \in Users,
             BeginMembership(r, op, u, peer)
      PROVE  Aside(r)
  BY <1>1 DEF BeginMembership, Begin, Goto, Aside, TypeOK
<1>2. CASE JoinRefused(r) \/ RemoveRefused(r)
  BY <1>2, FinishAside DEF JoinRefused, RemoveRefused, Refuse
<1>3. CASE NotifyChanged(r)
  BY <1>3, FinishAside DEF NotifyChanged
<1> QED BY <1>1, <1>2, <1>3 DEF MembershipNext

LEMMA ReadKinds ==
    ASSUME TypeOK, NEW r \in Req, ReadNext(r)
    PROVE  Aside(r) \/ AdvanceReadSeq(r)
<1>1. ASSUME NEW u \in Users, NEW s \in 1 .. (MaxMsgs + 1), BeginMarkRead(r, u, s)
      PROVE  Aside(r)
  <2>1. VisibleMax(u) \in Nat /\ s \in Nat
    BY ConversationAssumption, SMTT(30) DEF TypeOK, VisibleMax, Least, UCRow, ConvRow
  <2>2. ReadTarget(u, s) <= VisibleMax(u)
    BY <2>1, SMTT(30) DEF ReadTarget, Least
  <2>3. arg'[r].user = u /\ arg'[r].op = "read" /\ target'[r] = ReadTarget(u, s) /\ pc'[r] = "advance"
    BY <1>1 DEF BeginMarkRead, Begin, Goto, NoInput, TypeOK
  <2>4. \A q \in Req \ {r} : pc'[q] = pc[q] /\ arg'[q] = arg[q] /\ target'[q] = target[q]
    BY <1>1 DEF BeginMarkRead, Begin, Goto, TypeOK
  <2> QED BY <1>1, <2>2, <2>3, <2>4 DEF BeginMarkRead, Aside
<1>2. ASSUME NEW u \in Users, NEW s \in 1 .. (MaxMsgs + 1), MarkReadNothing(r, u, s)
      PROVE  Aside(r)
  BY <1>2 DEF MarkReadNothing, Aside, request
<1>3. CASE NotifyRead(r)
  BY <1>3, FinishAside DEF NotifyRead
<1> QED BY <1>1, <1>2, <1>3 DEF ReadNext

LEMMA StepKinds ==
    ASSUME TypeOK, NEW r \in Req, RequestNext(r)
    PROVE  \/ Aside(r)
           \/ \E t \in Times, senderRead \in BOOLEAN : SendCommit(r, t, senderRead)
           \/ \E t \in Times : JoinCommit(r, t)
           \/ RemoveCommit(r)
           \/ AdvanceReadSeq(r)
<1>1. CASE LockConversation(r)
  BY <1>1 DEF LockConversation, Goto, Aside, TypeOK
<1>2. CASE Fail(r)
  BY <1>2, FinishAside DEF Fail
<1> QED BY <1>1, <1>2, SendKinds, MembershipKinds, ReadKinds DEF RequestNext

LEMMA AsideWindow ==
    ASSUME WindowInv, SeqInv', NEW r \in Req, Aside(r)
    PROVE  WindowInv'
<1> USE DEF WindowInv
<1>1. UNCHANGED <<conversation, groupStatus, role, uc>>
  BY DEF Aside, store
<1>2. KindInv'
  BY <1>1 DEF KindInv, Aside
<1>3. RowsInv' /\ MemberWindow'
  BY <1>1 DEF RowsInv, RowInv, MemberWindow
<1>4. (pc[r] = "advance" => InReach(arg[r].user, target[r]))'
  <2> SUFFICES ASSUME pc'[r] = "advance" PROVE InReach(arg[r].user, target[r])'
    OBVIOUS
  <2> DEFINE u == arg'[r].user
  <2>1. u \in Users /\ target'[r] \in Nat
    BY DEF SeqInv, TypeOK, Input
  <2>2. VisibleMax(u) \in Nat /\ VisibleMax(u) <= conversation.maxSeq
    BY <2>1, SMTT(30) DEF SeqInv, TypeOK, VisibleMax, Least, UCRow, ConvRow
  <2>3. target'[r] <= VisibleMax(u)
    BY DEF Aside
  <2>4. target'[r] <= conversation.maxSeq
    BY <2>1, <2>2, <2>3, SMTT(30) DEF SeqInv, TypeOK, ConvRow
  <2> QED BY <1>1, <2>3, <2>4 DEF InReach, VisibleMax
<1>5. ASSUME NEW q \in Req, q # r
      PROVE  (/\ pc[q] = "advance" => InReach(arg[q].user, target[q])
              /\ pc[q] = "notify" /\ arg[q].op = "read" => target[q] <= conversation.maxSeq)'
  <2>1. pc'[q] = pc[q] /\ arg'[q] = arg[q] /\ target'[q] = target[q]
    BY <1>5 DEF Aside
  <2>2. /\ pc[q] = "advance" => InReach(arg[q].user, target[q])
        /\ pc[q] = "notify" /\ arg[q].op = "read" => target[q] <= conversation.maxSeq
    BY DEF TargetInv
  <2> QED BY <1>1, <2>1, <2>2 DEF InReach, VisibleMax
<1>6. TargetInv'
  BY <1>4, <1>5 DEF TargetInv, Aside
<1> QED BY <1>2, <1>3, <1>6

(* What a commit of r under the row lock does to the requests. *)
LEMMA CommitLocals ==
    ASSUME SeqInv, NEW r \in Req, pc[r] = "tx", NEW label \in PCs, Goto(r, label),
           UNCHANGED <<arg, target>>
    PROVE  /\ row[r] = conversation
           /\ groupStatus # "none"
           /\ pc'[r] = label /\ \A q \in Req \ {r} : pc'[q] = pc[q]
BY DEF SeqInv, TypeOK, LockInv, NoGroupInv, Goto

LEMMA SendWindow ==
    ASSUME WindowInv, SeqInv', NEW r \in Req, NEW t \in Times, NEW senderRead \in BOOLEAN,
           SendCommit(r, t, senderRead)
    PROVE  WindowInv'
<1> USE DEF WindowInv
<1> DEFINE m == NewMessage(r, t)
           n == conversation.maxSeq
<1>1. row[r] = conversation /\ pc'[r] = "publish" /\ \A q \in Req \ {r} : pc'[q] = pc[q]
  BY CommitLocals DEF SendCommit, PCs
<1>2. n \in Nat /\ m \in Message /\ m.seq = n + 1 /\ m.sender = arg[r].user
  BY <1>1, ConversationAssumption, NewMessageType DEF NewMessage, SeqInv, TypeOK, ConvRow
<1>3. /\ conversation'.maxSeq = n + 1
      /\ uc' = [u \in Users |-> Touched(u, m.sender, n + 1, m.sendTime, senderRead)]
      /\ UNCHANGED <<groupStatus, role, arg, target>>
  BY <1>2 DEF SendCommit, ConversationAfter
<1>4. KindInv'
  BY <1>3 DEF KindInv
<1>5. ASSUME NEW u \in Users
      PROVE  /\ uc[u] \in UCRow /\ uc'[u] \in UCRow
             /\ uc'[u].maxSeq = uc[u].maxSeq
             /\ SessionType = "group" => uc'[u].exists = uc[u].exists
             /\ uc[u].exists => /\ uc'[u].exists
                                /\ uc'[u].minSeq = uc[u].minSeq
                                /\ uc[u].readSeq <= uc'[u].readSeq /\ uc'[u].readSeq <= n + 1
             /\ ~uc[u].exists /\ uc'[u].exists => /\ n = 0 /\ SessionType = "single"
                                                  /\ uc'[u].minSeq = 1 /\ uc'[u].maxSeq = 0
                                                  /\ uc'[u].readSeq <= 1
             /\ ~uc'[u].exists => uc'[u] = NoRow /\ SessionType # "single"
  <2>1. uc'[u] = Touched(u, m.sender, n + 1, m.sendTime, senderRead)
    BY <1>3
  <2>2. uc[u] \in UCRow /\ m.sendTime \in Nat /\ RowInv(u) /\ uc'[u] \in UCRow
    BY <1>2 DEF RowsInv, SeqInv, TypeOK, Message
  <2>3. CASE SessionType = "single"
    BY <1>2, <2>1, <2>2, <2>3, SMTT(30) DEF Touched, Greatest, RowInv, UCRow, NoRow
  <2>4. CASE SessionType = "group"
    BY <1>2, <2>1, <2>2, <2>4, SMTT(30) DEF Touched, Greatest, RowInv, UCRow, NoRow
  <2> QED BY <2>3, <2>4, ConversationAssumption
<1>6. RowsInv'
  <2> SUFFICES ASSUME NEW u \in Users PROVE RowInv(u)'
    BY DEF RowsInv
  <2>1. RowInv(u)
    BY DEF RowsInv
  <2> QED BY <1>2, <1>3, <1>5, <2>1, SMTT(30) DEF RowInv, UCRow
<1>7. MemberWindow'
  BY <1>3, <1>5, ConversationAssumption DEF MemberWindow
<1>8. ASSUME NEW u \in Users, NEW s \in Nat, InReach(u, s)
      PROVE  InReach(u, s)'
  <2>1. VisibleMax(u)' = IF uc[u].maxSeq > 0 THEN Least(uc[u].maxSeq, n + 1) ELSE n + 1
    BY <1>3, <1>5 DEF VisibleMax
  <2> QED BY <1>2, <1>3, <1>5, <1>8, <2>1, SMTT(30) DEF InReach, VisibleMax, Least, UCRow
<1>9. TargetInv'
  BY <1>1, <1>2, <1>3, <1>8, SMTT(30) DEF TargetInv, SeqInv, TypeOK, Input
<1> QED BY <1>4, <1>6, <1>7, <1>9

LEMMA JoinWindow ==
    ASSUME WindowInv, SeqInv', NEW r \in Req, NEW t \in Times, JoinCommit(r, t)
    PROVE  WindowInv'
<1> USE DEF WindowInv
<1> DEFINE j == arg[r].user
           n == conversation.maxSeq
<1>1. row[r] = conversation /\ pc'[r] = "notify" /\ \A q \in Req \ {r} : pc'[q] = pc[q]
  BY CommitLocals DEF JoinCommit, PCs
<1>2. n \in Nat /\ j \in Users /\ SessionType = "group" /\ t \in Nat
  BY ConversationAssumption DEF JoinCommit, KindInv, SeqInv, TypeOK, ConvRow, Input
<1>3. /\ UNCHANGED <<conversation, groupStatus, arg, target>>
      /\ uc' = [uc EXCEPT ![j] = JoinedRow(conversation, t)]
      /\ role' = [role EXCEPT ![j] = RoleMember]
  BY <1>1 DEF JoinCommit
<1>4. /\ uc'[j] = [exists |-> TRUE, minSeq |-> n + 1, maxSeq |-> 0, readSeq |-> n, updatedAt |-> t]
      /\ role'[j] = RoleMember
      /\ \A u \in Users \ {j} : uc'[u] = uc[u] /\ role'[u] = role[u]
  BY <1>2, <1>3 DEF JoinedRow, SeqInv, TypeOK
<1>5. KindInv'
  BY <1>3 DEF KindInv
<1>6. RowsInv'
  BY <1>2, <1>3, <1>4, SMTT(30) DEF RowsInv, RowInv
<1>7. MemberWindow'
  BY <1>4, SMTT(30) DEF MemberWindow
<1>8. ASSUME NEW u \in Users, NEW s \in Nat, InReach(u, s)
      PROVE  InReach(u, s)'
  BY <1>2, <1>3, <1>4, <1>8, SMTT(30) DEF InReach, VisibleMax
<1>9. TargetInv'
  BY <1>1, <1>3, <1>8 DEF JoinCommit, TargetInv, SeqInv, TypeOK, Input
<1> QED BY <1>5, <1>6, <1>7, <1>9

LEMMA RemoveWindow ==
    ASSUME WindowInv, SeqInv', NEW r \in Req, RemoveCommit(r)
    PROVE  WindowInv'
<1> USE DEF WindowInv
<1> DEFINE l == arg[r].peer
           n == conversation.maxSeq
<1>1. row[r] = conversation /\ pc'[r] = "notify" /\ \A q \in Req \ {r} : pc'[q] = pc[q]
  BY CommitLocals DEF RemoveCommit, PCs
<1>2. n \in Nat /\ l \in Users /\ SessionType = "group" /\ uc[l] \in UCRow
  BY DEF RemoveCommit, KindInv, SeqInv, TypeOK, ConvRow, Input
<1>3. /\ UNCHANGED <<conversation, groupStatus, arg, target>>
      /\ uc' = [uc EXCEPT ![l] = Frozen(l, conversation)]
      /\ role' = [role EXCEPT ![l] = NotMember]
  BY <1>1 DEF RemoveCommit
<1>4. /\ uc'[l] = Frozen(l, conversation)
      /\ role'[l] = NotMember
      /\ \A u \in Users \ {l} : uc'[u] = uc[u] /\ role'[u] = role[u]
  BY <1>2, <1>3 DEF SeqInv, TypeOK
<1>5. KindInv'
  BY <1>3 DEF KindInv
<1>6. RowInv(l)'
  <2>1. RowInv(l)
    BY <1>2 DEF RowsInv
  <2> QED BY <1>2, <1>3, <1>4, <2>1, SMTT(30) DEF RowInv, Frozen, NoRow, UCRow
<1>7. RowsInv'
  BY <1>3, <1>4, <1>6, SMTT(30) DEF RowsInv, RowInv
<1>8. MemberWindow'
  BY <1>2, <1>4, SMTT(30) DEF MemberWindow, Frozen, NoRow, UCRow
<1>9. ASSUME NEW u \in Users, NEW s \in Nat, InReach(u, s)
      PROVE  InReach(u, s)'
  <2>1. CASE u = l
    BY <1>2, <1>3, <1>4, <1>9, <2>1, SMTT(30) DEF InReach, VisibleMax, Least, Frozen, NoRow, UCRow
  <2>2. CASE u # l
    BY <1>3, <1>4, <1>9, <2>2 DEF InReach, VisibleMax
  <2> QED BY <2>1, <2>2
<1>10. TargetInv'
  BY <1>1, <1>3, <1>9 DEF RemoveCommit, TargetInv, SeqInv, TypeOK, Input
<1> QED BY <1>5, <1>7, <1>8, <1>10

LEMMA AdvanceWindow ==
    ASSUME WindowInv, SeqInv', NEW r \in Req, AdvanceReadSeq(r)
    PROVE  WindowInv'
<1> USE DEF WindowInv
<1> DEFINE v == arg[r].user
           n == conversation.maxSeq
<1>1. pc'[r] = "notify" /\ \A q \in Req \ {r} : pc'[q] = pc[q]
  BY DEF AdvanceReadSeq, Goto, SeqInv, TypeOK
<1>2. n \in Nat /\ v \in Users /\ uc[v] \in UCRow /\ target[r] \in Nat
  BY DEF SeqInv, TypeOK, ConvRow, Input
<1>3. InReach(v, target[r])
  BY DEF AdvanceReadSeq, TargetInv
<1>4. /\ UNCHANGED <<conversation, groupStatus, role, arg, target>>
      /\ uc'[v] = Advanced(v, target[r])
      /\ \A u \in Users \ {v} : uc'[u] = uc[u]
  BY <1>2 DEF AdvanceReadSeq, SeqInv, TypeOK
<1>5. /\ uc'[v].exists = uc[v].exists /\ uc'[v].minSeq = uc[v].minSeq /\ uc'[v].maxSeq = uc[v].maxSeq
      /\ uc'[v].readSeq \in Nat
      /\ ~uc[v].exists => uc'[v] = uc[v]
      /\ uc[v].exists => /\ uc[v].readSeq <= uc'[v].readSeq
                         /\ uc'[v].readSeq = uc[v].readSeq \/ uc'[v].readSeq = target[r]
  BY <1>2, <1>4, SMTT(30) DEF Advanced, Greatest, UCRow
<1>6. KindInv'
  BY <1>4 DEF KindInv
<1>7. RowInv(v)'
  <2>1. RowInv(v)
    BY <1>2 DEF RowsInv
  <2> QED BY <1>2, <1>3, <1>4, <1>5, <2>1, SMTT(30) DEF RowInv, InReach, UCRow
<1>8. RowsInv'
  BY <1>4, <1>7 DEF RowsInv, RowInv
<1>9. MemberWindow'
  BY <1>4, <1>5 DEF MemberWindow
<1>10. ASSUME NEW u \in Users, NEW s \in Nat, InReach(u, s)
       PROVE  InReach(u, s)'
  <2>1. CASE u = v
    BY <1>2, <1>4, <1>5, <1>10, <2>1, SMTT(30) DEF InReach, VisibleMax, UCRow
  <2>2. CASE u # v
    BY <1>4, <1>10, <2>2 DEF InReach, VisibleMax
  <2> QED BY <2>1, <2>2
<1>11. target[r] <= n
  BY <1>3 DEF InReach
<1>12. TargetInv'
  BY <1>1, <1>4, <1>10, <1>11 DEF TargetInv, SeqInv, TypeOK, Input
<1> QED BY <1>6, <1>8, <1>9, <1>12

LEMMA CreateWindow ==
    ASSUME WindowInv, SeqInv', NEW members \in SUBSET Users, NEW t \in Times, Create(members, t)
    PROVE  WindowInv'
<1> USE DEF WindowInv
<1>1. \A r \in Req : pc[r] = "idle"
  BY DEF Create, SeqInv, NoGroupInv
<1>2. KindInv'
  BY DEF Create, KindInv, request
<1>3. RowsInv'
  BY SMTT(30) DEF Create, RowsInv, RowInv, NoRow
<1>4. TargetInv'
  BY <1>1 DEF Create, TargetInv, request
<1>5. MemberWindow'
  BY ConversationAssumption, SMTT(30) DEF Create, MemberWindow, NoRow
<1> QED BY <1>2, <1>3, <1>4, <1>5

LEMMA WindowInvNext == WindowInv /\ [Next]_vars => WindowInv'
<1> SUFFICES ASSUME WindowInv, [Next]_vars PROVE WindowInv'
  OBVIOUS
<1>s. SeqInv'
  BY SeqInvNext DEF WindowInv
<1>1. ASSUME NEW members \in SUBSET Users, NEW t \in Times, Create(members, t)
      PROVE  WindowInv'
  BY <1>1, <1>s, CreateWindow
<1>2. ASSUME NEW r \in Req, RequestNext(r)
      PROVE  WindowInv'
  BY <1>2, <1>s, StepKinds, AsideWindow, SendWindow, JoinWindow, RemoveWindow, AdvanceWindow
     DEF WindowInv, SeqInv
<1>3. CASE HostDismiss
  BY <1>3, <1>s DEF HostDismiss, WindowInv, KindInv, RowsInv, RowInv, TargetInv, InReach, VisibleMax,
                   MemberWindow, request
<1>4. ASSUME NEW u \in Users, HostGrantAdmin(u)
      PROVE  WindowInv'
  <2>1. KindInv' /\ RowsInv' /\ TargetInv'
    BY <1>4 DEF HostGrantAdmin, WindowInv, KindInv, RowsInv, RowInv, TargetInv, InReach, VisibleMax, request
  <2>2. MemberWindow'
    BY <1>4, SMTT(30) DEF HostGrantAdmin, WindowInv, SeqInv, TypeOK, MemberWindow
  <2> QED BY <1>s, <2>1, <2>2 DEF WindowInv
<1>5. CASE UNCHANGED vars
  BY <1>5, <1>s DEF vars, store, request, WindowInv, KindInv, RowsInv, RowInv, TargetInv, InReach, VisibleMax,
                   MemberWindow
<1> QED BY <1>1, <1>2, <1>3, <1>4, <1>5 DEF Next

LEMMA WindowInvariant == Spec => []WindowInv
<1>1. Init => WindowInv
  BY WindowInvInit
<1>2. WindowInv /\ [Next]_vars => WindowInv'
  BY WindowInvNext
<1> QED BY <1>1, <1>2, PTL DEF Spec

(* However joins, quits, kicks and sends interleave, group_members names a *)
(* user exactly while the user's window in user_conversations is open:     *)
(* max_seq = 0 never stands for a user who left an empty group.            *)
THEOREM WindowFollowsMembership == Spec => []MemberWindow
<1>1. WindowInv => MemberWindow
  BY DEF WindowInv
<1> QED BY <1>1, WindowInvariant, PTL
-----------------------------------------------------------------------------
(* The member limit: only a commit changes group_members, and a join's     *)
(* count is taken under the row lock that every other writer needs.        *)
LEMMA MembersFinite == IsFiniteSet(Members) /\ Cardinality(Members) \in Nat
<1>1. Members \subseteq Users /\ IsFiniteSet(Users)
  BY ConversationAssumption DEF Members
<1> QED BY <1>1, FS_Subset, FS_CardinalityType

CapInv == Cardinality(Members) <= MaxMembers

LEMMA CapNext == WindowInv /\ CapInv /\ [Next]_vars => CapInv'
<1> SUFFICES ASSUME WindowInv, CapInv, [Next]_vars PROVE CapInv'
  OBVIOUS
<1>t. role \in [Users -> {NotMember, RoleMember, RoleAdmin, RoleOwner}] /\ MaxMembers \in Nat
  BY ConversationAssumption, SMTT(30) DEF WindowInv, SeqInv, TypeOK
<1>1. ASSUME Members' = Members PROVE CapInv'
  BY <1>1 DEF CapInv
<1>2. ASSUME NEW members \in SUBSET Users, NEW t \in Times, Create(members, t)
      PROVE  CapInv'
  <2>1. Members' = members
    BY <1>2, ConversationAssumption, SMTT(30) DEF Create, Members
  <2> QED BY <1>2, <2>1 DEF Create, CapInv
<1>3. ASSUME NEW r \in Req, NEW t \in Times, JoinCommit(r, t), NEW u, u = arg[r].user
      PROVE  CapInv'
  <2>1. u \in Users /\ role[u] = NotMember /\ role' = [role EXCEPT ![u] = RoleMember]
        /\ Cardinality(Members) < MaxMembers
    BY <1>3 DEF JoinCommit, MayJoin, WindowInv, SeqInv, TypeOK, Input
  <2>2. u \notin Members /\ Members' = Members \cup {u}
    BY <1>t, <2>1, SMTT(30) DEF Members
  <2>3. Cardinality(Members') = Cardinality(Members) + 1
    BY <2>2, MembersFinite, FS_AddElement
  <2> QED BY <1>t, <2>1, <2>3, MembersFinite, SMTT(30) DEF CapInv
<1>4. ASSUME NEW r \in Req, RemoveCommit(r), NEW u, u = arg[r].peer
      PROVE  CapInv'
  <2>1. role' = [role EXCEPT ![u] = NotMember]
    BY <1>4 DEF RemoveCommit
  <2>2. Members' \subseteq Members
    BY <1>t, <2>1 DEF Members
  <2>3. Cardinality(Members') <= Cardinality(Members) /\ Cardinality(Members') \in Nat
    BY <2>2, MembersFinite, FS_Subset, FS_CardinalityType
  <2> QED BY <1>t, <2>3, MembersFinite, SMTT(30) DEF CapInv
<1>5. ASSUME NEW r \in Req, RequestNext(r)
      PROVE  CapInv'
  <2>1. Aside(r) \/ AdvanceReadSeq(r) \/ (\E t \in Times, senderRead \in BOOLEAN : SendCommit(r, t, senderRead))
           => role' = role
    BY DEF Aside, store, AdvanceReadSeq, SendCommit
  <2>2. role' = role => Members' = Members
    BY DEF Members
  <2> QED BY <1>1, <1>3, <1>4, <1>5, <2>1, <2>2, StepKinds DEF WindowInv, SeqInv
<1>6. ASSUME NEW u \in Users, HostGrantAdmin(u)
      PROVE  Members' = Members
  BY <1>t, <1>6, SMTT(30) DEF HostGrantAdmin, Members
<1>7. HostDismiss \/ UNCHANGED vars => Members' = Members
  BY DEF HostDismiss, vars, store, Members
<1> QED BY <1>1, <1>2, <1>5, <1>6, <1>7 DEF Next

(* However many joins race, a group never has more members than            *)
(* group_max_members (Join counts inside its transaction).                 *)
THEOREM MemberLimitKept == Spec => []MemberCap
<1>1. Init => CapInv
  <2>1. Init => Members = {}
    BY DEF Init, Members
  <2> QED BY <2>1, FS_EmptySet, ConversationAssumption, SMTT(30) DEF CapInv
<1>2. WindowInv /\ CapInv /\ [Next]_vars => CapInv'
  BY CapNext
<1>3. WindowInv /\ CapInv => MemberCap
  <2>1. WindowInv => DOMAIN role = Users
    BY DEF WindowInv, SeqInv, TypeOK
  <2> QED BY <2>1 DEF CapInv, MemberCap, Members
<1> QED BY <1>1, <1>2, <1>3, WindowInvariant, PTL DEF Spec

-----------------------------------------------------------------------------
(* Times follow seqs, with SeqContiguous: the row with max_seq carries     *)
(* updated_at, and no row is younger.                                      *)
LEMMA SendTimes ==
    ASSUME WindowInv, TimeFollowsSeq, NEW r \in Req, NEW t \in Times, NEW senderRead \in BOOLEAN,
           SendCommit(r, t, senderRead)
    PROVE  TimeFollowsSeq'
<1> USE DEF WindowInv
<1> DEFINE m == NewMessage(r, t)
           n == conversation.maxSeq
<1>1. row[r] = conversation
  BY CommitLocals DEF SendCommit, PCs
<1>2. /\ n \in Nat /\ conversation.updatedAt \in Nat /\ m.seq = n + 1
      /\ m.sendTime \in Nat /\ conversation.updatedAt <= m.sendTime
  BY <1>1, ConversationAssumption, SMTT(30) DEF NewMessage, Greatest, SeqInv, TypeOK, ConvRow
<1>3. /\ conversation'.maxSeq = n + 1 /\ conversation'.updatedAt = m.sendTime
      /\ messages' = messages \cup {m}
  BY <1>2 DEF SendCommit, ConversationAfter
<1>4. \A d \in messages : d.seq \in 1 .. n /\ d.sendTime \in Nat
  BY DEF SeqInv, SeqContiguous, TypeOK, Message
<1>5. ASSUME NEW d \in messages
      PROVE  d.sendTime <= conversation.updatedAt
  <2>1. n \in 1 .. n
    BY <1>2, <1>4, SMTT(30)
  <2>2. PICK l \in messages : l.seq = n
    BY <2>1 DEF SeqInv, SeqContiguous
  <2>3. l.sendTime = conversation.updatedAt
    BY <2>2 DEF TimeFollowsSeq
  <2>4. d.seq < n \/ d.seq = n
    BY <1>2, <1>4, SMTT(30)
  <2> QED BY <1>2, <2>2, <2>3, <2>4, SMTT(30) DEF TimeFollowsSeq
<1>6. \A d \in messages : d.sendTime <= m.sendTime /\ d.seq < m.seq
  BY <1>2, <1>4, <1>5, SMTT(30)
<1> HIDE DEF m
<1>7. \A d1, d2 \in messages' : d1.seq < d2.seq => d1.sendTime <= d2.sendTime
  BY <1>2, <1>3, <1>4, <1>6, SMTT(30) DEF TimeFollowsSeq
<1>8. \A d \in messages' : d.seq = n + 1 => d.sendTime = m.sendTime
  BY <1>2, <1>3, <1>4, SMTT(30)
<1> QED BY <1>3, <1>7, <1>8 DEF TimeFollowsSeq

LEMMA TimesNext == WindowInv /\ TimeFollowsSeq /\ [Next]_vars => TimeFollowsSeq'
<1> SUFFICES ASSUME WindowInv, TimeFollowsSeq, [Next]_vars PROVE TimeFollowsSeq'
  OBVIOUS
<1>1. ASSUME UNCHANGED <<conversation, messages>> PROVE TimeFollowsSeq'
  BY <1>1 DEF TimeFollowsSeq
<1>2. ASSUME NEW members \in SUBSET Users, NEW t \in Times, Create(members, t)
      PROVE  TimeFollowsSeq'
  <2>1. messages' = {}
    BY <1>2 DEF Create, WindowInv, SeqInv, NoGroupInv
  <2> QED BY <2>1 DEF TimeFollowsSeq
<1>3. ASSUME NEW r \in Req, RequestNext(r)
      PROVE  TimeFollowsSeq'
  <2>1. Aside(r) \/ (\E t \in Times : JoinCommit(r, t)) \/ RemoveCommit(r) \/ AdvanceReadSeq(r)
           => UNCHANGED <<conversation, messages>>
    BY DEF Aside, store, JoinCommit, RemoveCommit, AdvanceReadSeq
  <2> QED BY <1>1, <1>3, <2>1, StepKinds, SendTimes DEF WindowInv, SeqInv
<1>4. HostDismiss \/ (\E u \in Users : HostGrantAdmin(u)) \/ UNCHANGED vars => UNCHANGED <<conversation, messages>>
  BY DEF HostDismiss, HostGrantAdmin, vars, store
<1> QED BY <1>1, <1>2, <1>3, <1>4 DEF Next

(* For any clocks of any number of nodes: messages have times in the order *)
(* of their seqs, and updated_at is the time of the last one (Send takes   *)
(* the later of its clock and the locked row's updated_at).                *)
THEOREM TimesFollowSeqs == Spec => []TimeFollowsSeq
<1>1. Init => TimeFollowsSeq
  BY DEF Init, TimeFollowsSeq
<1>2. WindowInv /\ TimeFollowsSeq /\ [Next]_vars => TimeFollowsSeq'
  BY TimesNext
<1> QED BY <1>1, <1>2, WindowInvariant, PTL DEF Spec

(* ----------------------------- announcements ----------------------------- *)

(* The events that are true of the tables as they are. *)
Truthful(e) ==
    /\ e.type = "push" => \E m \in messages : m.seq = e.seq /\ m.sender = e.user
    /\ e.type = "conv_read" => e.seq <= conversation.maxSeq

(* Offline pushes are for seqs already given out, and the requests between *)
(* their commit and their spawn hold seqs of their own.                    *)
SpawnInv ==
    /\ \A s \in offline : s <= conversation.maxSeq
    /\ \A r \in Req : pc[r] = "publish" =>
        /\ out[r].seq \notin offline
        /\ \A q \in Req \ {r} : pc[q] = "publish" => out[q].seq # out[r].seq

(* A step of r that spawns nothing and commits no message. *)
Spawnless(r) ==
    /\ UNCHANGED <<messages, conversation, offline>>
    /\ pc'[r] # "publish"
    /\ \A q \in Req \ {r} : pc'[q] = pc[q] /\ out'[q] = out[q]

LEMMA FinishSpawnless ==
    ASSUME TypeOK, NEW r \in Req, NEW answer, Finish(r, answer), UNCHANGED <<store, offline>>
    PROVE  Spawnless(r)
BY DEF Spawnless, Finish, Goto, store, TypeOK

LEMMA SendAnnounces ==
    ASSUME WindowInv, NEW r \in Req, SendNext(r)
    PROVE  /\ \A e \in bus' : Truthful(e)
           /\ \/ Spawnless(r)
              \/ SendPublish(r)
              \/ \E t \in Times, senderRead \in BOOLEAN : SendCommit(r, t, senderRead)
<1> USE DEF WindowInv, SeqInv
<1>1. ASSUME NEW u \in Users, NEW cid \in ClientMsgIds, BeginSend(r, u, cid)
      PROVE  bus' = {} /\ Spawnless(r)
  BY <1>1 DEF BeginSend, Begin, Goto, Quiet, Spawnless, store, TypeOK
<1>2. ASSUME NEW m \in messages, MaybePublish(Push(m)) \/ bus' = {}
      PROVE  \A e \in bus' : Truthful(e)
  BY <1>2, SMTT(30) DEF MaybePublish, Push, Truthful
<1>3. CASE SendHit(r)
  <2>1. PICK m \in Stored(arg[r].user, arg[r].cid) : Finish(r, Ack(m)) /\ (MaybePublish(Push(m)) \/ bus' = {})
    BY <1>3 DEF SendHit
  <2> QED BY <1>2, <1>3, <2>1, FinishSpawnless DEF SendHit, Stored
<1>4. CASE SendReread(r)
  <2>1. PICK m \in Stored(arg[r].user, arg[r].cid) : Finish(r, Ack(m)) /\ MaybePublish(Push(m))
    BY <1>4 DEF SendReread, PendingInv
  <2> QED BY <1>2, <1>4, <2>1, FinishSpawnless DEF SendReread, Stored
<1>5. CASE SendPublish(r)
  <2>1. PICK m \in Stored(arg[r].user, arg[r].cid) : out[r] = Ack(m)
    BY <1>5 DEF SendPublish, PendingInv
  <2>2. m \in messages /\ m.sender = arg[r].user /\ out[r].seq = m.seq
    BY <2>1, SMTT(30) DEF Stored, Ack
  <2>3. MaybePublish(Push(m))
    BY <1>5, <2>2 DEF SendPublish, Push
  <2> QED BY <1>2, <1>5, <2>2, <2>3
<1>6. CASE SendMiss(r) \/ SendDuplicate(r)
  BY <1>6 DEF SendMiss, SendDuplicate, Goto, Quiet, Spawnless, store, TypeOK
<1>7. CASE SendLimited(r) \/ SendRefused(r)
  BY <1>7, FinishSpawnless DEF SendLimited, SendRefused, Refuse
<1>8. ASSUME NEW t \in Times, NEW senderRead \in BOOLEAN, SendCommit(r, t, senderRead)
      PROVE  bus' = {}
  BY <1>8 DEF SendCommit, Quiet
<1> QED BY <1>1, <1>3, <1>4, <1>5, <1>6, <1>7, <1>8 DEF SendNext

LEMMA OthersAnnounce ==
    ASSUME WindowInv, NEW r \in Req,
           MembershipNext(r) \/ ReadNext(r) \/ LockConversation(r) \/ Fail(r)
    PROVE  (\A e \in bus' : Truthful(e)) /\ Spawnless(r)
<1> USE DEF WindowInv, SeqInv
<1>1. ASSUME NEW op \in {"join", "quit", "kick"}, NEW u \in Users, NEW peer \in Users,
             BeginMembership(r, op, u, peer)
      PROVE  bus' = {} /\ Spawnless(r)
  BY <1>1 DEF BeginMembership, Begin, Goto, Quiet, Spawnless, store, TypeOK
<1>2. CASE JoinRefused(r) \/ RemoveRefused(r) \/ Fail(r)
  BY <1>2, FinishSpawnless DEF JoinRefused, RemoveRefused, Refuse, Fail
<1>3. ASSUME NEW t \in Times, JoinCommit(r, t)
      PROVE  bus' = {} /\ Spawnless(r)
  BY <1>3 DEF JoinCommit, Goto, Quiet, Spawnless, TypeOK
<1>4. CASE RemoveCommit(r)
  BY <1>4 DEF RemoveCommit, Goto, Quiet, Spawnless, TypeOK
<1>5. CASE NotifyChanged(r)
  BY <1>5, FinishSpawnless, SMTT(30) DEF NotifyChanged, MaybePublish, Truthful
<1>6. CASE NotifyRead(r)
  <2>1. target[r] <= conversation.maxSeq
    BY <1>6 DEF NotifyRead, TargetInv
  <2> QED BY <1>6, <2>1, FinishSpawnless, SMTT(30) DEF NotifyRead, MaybePublish, Truthful
<1>7. CASE AdvanceReadSeq(r) \/ LockConversation(r)
  BY <1>7 DEF AdvanceReadSeq, LockConversation, Goto, Quiet, Spawnless, store, TypeOK
<1>8. ASSUME NEW u \in Users, NEW s \in 1 .. (MaxMsgs + 1), BeginMarkRead(r, u, s)
      PROVE  bus' = {} /\ Spawnless(r)
  BY <1>8 DEF BeginMarkRead, Begin, Goto, Quiet, Spawnless, store, TypeOK
<1>9. ASSUME NEW u \in Users, NEW s \in 1 .. (MaxMsgs + 1), MarkReadNothing(r, u, s)
      PROVE  bus' = {} /\ Spawnless(r)
  BY <1>9 DEF MarkReadNothing, Quiet, Spawnless, store, request
<1> QED BY <1>1, <1>2, <1>3, <1>4, <1>5, <1>6, <1>7, <1>8, <1>9 DEF MembershipNext, ReadNext

(* A request that has committed holds a seq of the log. *)
LEMMA PendingSeq ==
    ASSUME SeqInv, NEW r \in Req, pc[r] = "publish"
    PROVE  out[r].seq \in 1 .. conversation.maxSeq
<1>1. PICK m \in Stored(arg[r].user, arg[r].cid) : out[r] = Ack(m)
  BY DEF SeqInv, PendingInv
<1>2. m \in messages /\ out[r].seq = m.seq
  BY <1>1, SMTT(30) DEF Stored, Ack
<1> QED BY <1>2 DEF SeqInv, SeqContiguous

LEMMA SpawnlessSpawn ==
    ASSUME SpawnInv, NEW r \in Req, Spawnless(r)
    PROVE  SpawnInv'
BY DEF SpawnInv, Spawnless

LEMMA CommitSpawn ==
    ASSUME WindowInv, SpawnInv, NEW r \in Req, NEW t \in Times, NEW senderRead \in BOOLEAN,
           SendCommit(r, t, senderRead)
    PROVE  SpawnInv'
<1> USE DEF WindowInv
<1> DEFINE n == conversation.maxSeq
<1>1. row[r] = conversation
  BY CommitLocals DEF SendCommit, PCs
<1>2. n \in Nat /\ offline \subseteq Nat
  BY DEF SeqInv, TypeOK, ConvRow
<1>3. conversation'.maxSeq = n + 1 /\ out'[r].seq = n + 1 /\ offline' = offline
  BY <1>1 DEF SendCommit, ConversationAfter, NewMessage, Ack, SeqInv, TypeOK
<1>4. \A q \in Req \ {r} : pc'[q] = pc[q] /\ out'[q] = out[q]
  BY DEF SendCommit, Goto, SeqInv, TypeOK
<1>5. \A q \in Req : pc[q] = "publish" => out[q].seq \in 1 .. n
  BY PendingSeq
<1>6. \A s \in offline : s <= n
  BY DEF SpawnInv
<1>7. \A s \in offline' : s <= conversation'.maxSeq
  BY <1>2, <1>3, <1>6, SMTT(30)
<1>8. ASSUME NEW q \in Req \ {r}, pc'[q] = "publish"
      PROVE  out'[q].seq = out[q].seq /\ out[q].seq # n + 1 /\ out[q].seq \notin offline
  BY <1>2, <1>4, <1>5, <1>8, SMTT(30) DEF SpawnInv
<1>9. out'[r].seq \notin offline'
  BY <1>2, <1>3, <1>6, SMTT(30)
<1>10. ASSUME NEW p \in Req, NEW q \in Req \ {p}, pc'[p] = "publish", pc'[q] = "publish"
       PROVE  out'[q].seq # out'[p].seq
  <2>1. CASE p = r \/ q = r
    BY <1>3, <1>8, <1>10, <2>1
  <2>2. CASE p # r /\ q # r
    BY <1>4, <1>10, <2>2 DEF SpawnInv
  <2> QED BY <2>1, <2>2
<1> QED BY <1>3, <1>7, <1>8, <1>9, <1>10 DEF SpawnInv

LEMMA PublishSpawn ==
    ASSUME WindowInv, SpawnInv, NEW r \in Req, SendPublish(r)
    PROVE  SpawnInv'
<1>1. /\ pc'[r] = "idle" /\ \A q \in Req \ {r} : pc'[q] = pc[q] /\ out'[q] = out[q]
  BY DEF SendPublish, Finish, Goto, WindowInv, SeqInv, TypeOK
<1>2. conversation' = conversation /\ offline' \subseteq offline \cup {out[r].seq}
  BY DEF SendPublish, store
<1>3. pc[r] = "publish" /\ out[r].seq \in 1 .. conversation.maxSeq
  BY PendingSeq DEF SendPublish, WindowInv
<1>4. \A s \in offline' : s <= conversation'.maxSeq
  BY <1>2, <1>3, SMTT(30) DEF SpawnInv
<1> QED BY <1>1, <1>2, <1>3, <1>4 DEF SpawnInv

LEMMA AnnounceNext ==
    WindowInv /\ WindowInv' /\ SpawnInv /\ AnnouncedOnce /\ [Next]_vars => SpawnInv' /\ AnnouncedOnce'
<1> SUFFICES ASSUME WindowInv, WindowInv', SpawnInv, AnnouncedOnce, [Next]_vars
             PROVE  SpawnInv' /\ AnnouncedOnce'
  OBVIOUS
<1>1. ASSUME SpawnInv', \A e \in bus' : Truthful(e)'
      PROVE  AnnouncedOnce'
  BY <1>1 DEF SpawnInv, Truthful, AnnouncedOnce
<1>2. ASSUME NEW members \in SUBSET Users, NEW t \in Times, Create(members, t)
      PROVE  SpawnInv' /\ AnnouncedOnce'
  <2>1. offline' = offline /\ conversation'.maxSeq = conversation.maxSeq /\ UNCHANGED <<pc, out>>
    BY <1>2 DEF Create, request, WindowInv, SeqInv, NoGroupInv
  <2>2. \A e \in bus' : e.type = "group_changed"
    BY <1>2, SMTT(30) DEF Create, MaybePublish
  <2>3. SpawnInv'
    BY <2>1 DEF SpawnInv
  <2> QED BY <1>1, <2>2, <2>3 DEF Truthful
<1>3. ASSUME NEW r \in Req, RequestNext(r)
      PROVE  SpawnInv' /\ AnnouncedOnce'
  <2>1. \A e \in bus' : Truthful(e)
    BY <1>3, SendAnnounces, OthersAnnounce DEF RequestNext
  <2>2. Spawnless(r) \/ SendPublish(r) \/ \E t \in Times, senderRead \in BOOLEAN : SendCommit(r, t, senderRead)
    BY <1>3, SendAnnounces, OthersAnnounce DEF RequestNext
  <2>3. SpawnInv'
    BY <2>2, SpawnlessSpawn, CommitSpawn, PublishSpawn
  <2>4. bus' = {} \/ UNCHANGED <<messages, conversation>>
    BY <2>2 DEF Spawnless, SendPublish, SendCommit, Quiet, store
  <2>5. \A e \in bus' : Truthful(e)'
    BY <2>1, <2>4 DEF Truthful
  <2> QED BY <1>1, <2>3, <2>5
<1>4. CASE HostDismiss \/ \E u \in Users : HostGrantAdmin(u)
  <2>1. bus' = {} /\ UNCHANGED <<conversation, offline, pc, out>>
    BY <1>4 DEF HostDismiss, HostGrantAdmin, Quiet, request
  <2>2. SpawnInv'
    BY <2>1 DEF SpawnInv
  <2> QED BY <1>1, <2>1, <2>2
<1>5. CASE UNCHANGED vars
  BY <1>5 DEF vars, store, request, SpawnInv, AnnouncedOnce
<1> QED BY <1>2, <1>3, <1>4, <1>5 DEF Next

(* Nothing is on the Bus that is not durable, and no message gets a second *)
(* offline push, however sends, retries and losers of the insert race      *)
(* interleave (publish and spawnOfflinePush run after the commit, and only *)
(* in the request that committed).                                         *)
THEOREM AnnouncedOnceDurable == Spec => []AnnouncedOnce
<1>1. Init => SpawnInv /\ AnnouncedOnce
  BY DEF Init, SpawnInv, AnnouncedOnce
<1>2. WindowInv /\ WindowInv' /\ SpawnInv /\ AnnouncedOnce /\ [Next]_vars => SpawnInv' /\ AnnouncedOnce'
  BY AnnounceNext
<1> QED BY <1>1, <1>2, WindowInvariant, PTL DEF Spec

-----------------------------------------------------------------------------
(* The refinement of MessageLog. *)

(* The terms Conversation substitutes for the variables of MessageLog. *)
TheLog == [s \in 1 .. conversation.maxSeq |-> LogEntry(s)]
TheMembers == IF SessionType = "single" THEN Users ELSE Members
TheEntitled == [u \in Users |-> Visible(u)]
TheRead == [u \in Users |-> uc[u].readSeq]
TheOpen == groupStatus = "normal"

Entry == [sender : Users, key : ClientMsgIds]

(* Each number up to max_seq is that of one row, so the log is a sequence. *)
LEMMA MessageAtSeq ==
    ASSUME SeqInv, NEW s \in 1 .. conversation.maxSeq
    PROVE  MessageAt(s) \in messages /\ MessageAt(s).seq = s
<1>1. \E m \in messages : m.seq = s
  <2>1. s \in {m.seq : m \in messages}
    BY DEF SeqInv, SeqContiguous
  <2> QED BY <2>1
<1> QED BY <1>1 DEF MessageAt

LEMMA LogIsSequence ==
    ASSUME SeqInv
    PROVE  /\ TheLog \in Seq(Entry)
           /\ Len(TheLog) = conversation.maxSeq
           /\ \A s \in 1 .. conversation.maxSeq : TheLog[s] = LogEntry(s) /\ LogEntry(s) \in Entry
<1>1. conversation.maxSeq \in Nat
  BY DEF SeqInv, TypeOK, ConvRow
<1>2. \A s \in 1 .. conversation.maxSeq : LogEntry(s) \in Entry
  BY MessageAtSeq, SMTT(30) DEF SeqInv, TypeOK, Message, LogEntry, Entry
<1>3. TheLog \in [1 .. conversation.maxSeq -> Entry]
  BY <1>2 DEF TheLog
<1>4. TheLog \in Seq(Entry)
  BY <1>1, <1>3, SMTT(30)
<1>5. Len(TheLog) = conversation.maxSeq
  BY <1>1, <1>3, <1>4, SMTT(30)
<1> QED BY <1>2, <1>4, <1>5 DEF TheLog

LEMMA InitRefines == Init => Log!LogInit
<1> SUFFICES ASSUME Init PROVE Log!LogInit
  OBVIOUS
<1>1. [s \in 1 .. conversation.maxSeq |-> LogEntry(s)] = <<>>
  BY SMTT(30) DEF Init, NoConv
<1>2. \A u \in Users : Visible(u) = {} /\ uc[u].readSeq = 0 /\ role[u] = NotMember
  BY DEF Init, Visible, NoRow
<1>3. (groupStatus = "normal") = (SessionType = "single")
  BY ConversationAssumption DEF Init
<1>4. (IF SessionType = "single" THEN Users ELSE Members) = (IF SessionType = "single" THEN Users ELSE {})
  BY <1>2 DEF Members
<1> QED BY <1>1, <1>2, <1>3, <1>4 DEF Log!LogInit

(* Steps that the log does not show. *)
LEMMA StoreStutters ==
    ASSUME UNCHANGED <<conversation, groupStatus, messages, uc>>, UNCHANGED Members
    PROVE  UNCHANGED Log!logVars
BY DEF Log!logVars, LogEntry, MessageAt, Visible, VisibleMax

(* Visible windows, written out. *)
LEMMA VisibleIs ==
    ASSUME TypeOK, NEW u \in Users
    PROVE  /\ uc[u] \in UCRow /\ conversation.maxSeq \in Nat
           /\ ~uc[u].exists => Visible(u) = {}
           /\ uc[u].exists /\ uc[u].maxSeq = 0 => Visible(u) = uc[u].minSeq .. conversation.maxSeq
           /\ uc[u].exists /\ 0 < uc[u].maxSeq /\ uc[u].maxSeq <= conversation.maxSeq =>
                 Visible(u) = uc[u].minSeq .. uc[u].maxSeq
BY SMTT(30) DEF TypeOK, Visible, VisibleMax, Least, UCRow, ConvRow

(* group.Create starts the log. *)
LEMMA CreateRefines ==
    ASSUME WindowInv, NEW members \in SUBSET Users, NEW t \in Times, Create(members, t)
    PROVE  Log!Start(members)
<1> USE DEF WindowInv
<1>1. SessionType = "group" /\ groupStatus = "none" /\ groupStatus' = "normal"
  BY DEF Create
<1>2. conversation.maxSeq = 0 /\ conversation'.maxSeq = 0 /\ \A u \in Users : uc[u] = NoRow
  BY <1>1 DEF Create, SeqInv, NoGroupInv, RowsInv, RowInv
<1>3. Members = {}
  BY <1>1, <1>2, SMTT(30) DEF Members, MemberWindow, NoRow
<1>4. Members' = members
  BY ConversationAssumption, SMTT(30) DEF Create, Members
<1>5. TheLog = <<>> /\ TheLog' = <<>>
  BY <1>2, SMTT(30) DEF TheLog
<1>6. \A u \in Users : Visible(u) = {} /\ Visible(u)' = {} /\ uc[u].readSeq = 0 /\ uc'[u].readSeq = 0
  BY <1>2, SMTT(30) DEF Create, Visible, VisibleMax, NoRow
<1>7. TheEntitled' = TheEntitled /\ TheRead' = TheRead
  BY <1>6 DEF TheEntitled, TheRead
<1> QED BY <1>1, <1>3, <1>4, <1>5, <1>7 DEF Log!Start, TheLog, TheEntitled, TheRead

(* A send that commits appends its message for all members of the moment. *)
LEMMA SendRefines ==
    ASSUME WindowInv, WindowInv', NEW r \in Req, NEW t \in Times, NEW senderRead \in BOOLEAN,
           SendCommit(r, t, senderRead)
    PROVE  Log!Append1(arg[r].user, arg[r].cid, senderRead)
<1> USE DEF WindowInv
<1> DEFINE m == NewMessage(r, t)
           n == conversation.maxSeq
           w == arg[r].user
           e == [sender |-> w, key |-> arg[r].cid]
<1>1. row[r] = conversation
  BY CommitLocals DEF SendCommit, PCs
<1>2. n \in Nat /\ m \in Message /\ m.seq = n + 1 /\ m.sender = w /\ m.clientMsgId = arg[r].cid
  BY <1>1, ConversationAssumption, NewMessageType DEF NewMessage, SeqInv, TypeOK, ConvRow
<1>3. /\ conversation'.maxSeq = n + 1 /\ messages' = messages \cup {m}
      /\ uc' = [u \in Users |-> Touched(u, w, n + 1, m.sendTime, senderRead)]
      /\ UNCHANGED <<groupStatus, role>>
  BY <1>2 DEF SendCommit, ConversationAfter
<1>4. TheOpen /\ w \in TheMembers
  BY <1>2, ConversationAssumption
     DEF SendCommit, MaySend, KindInv, TheOpen, TheMembers, Members, Message
<1>5. ~\E s \in 1 .. n : LogEntry(s).sender = w /\ LogEntry(s).key = arg[r].cid
  <2>1. \A d \in messages : ~(d.sender = w /\ d.clientMsgId = arg[r].cid)
    BY <1>2 DEF SendCommit, Conflicts
  <2> QED BY <2>1, MessageAtSeq DEF LogEntry
<1>6. TheLog' = Append(TheLog, e)
  <2>1. \A s \in 1 .. n : LogEntry(s)' = LogEntry(s)
    <3> SUFFICES ASSUME NEW s \in 1 .. n PROVE MessageAt(s)' = MessageAt(s)
      BY DEF LogEntry
    <3>1. MessageAt(s) \in messages /\ MessageAt(s).seq = s
      BY MessageAtSeq
    <3>2. s \in (1 .. conversation.maxSeq)'
      BY <1>2, <1>3, SMTT(30)
    <3>3. MessageAt(s)' \in messages' /\ MessageAt(s)'.seq = s
      <4>1. \E d \in messages' : d.seq = s
        BY <1>3, <3>1
      <4> QED BY <4>1 DEF MessageAt
    <3> QED BY <1>3, <3>1, <3>3 DEF SeqInv, SeqContiguous
  <2>2. ASSUME NEW k, k = n + 1
        PROVE  LogEntry(k)' = e
    <3>1. MessageAt(k)' \in messages' /\ MessageAt(k)'.seq = k
      <4>1. \E d \in messages' : d.seq = k
        BY <1>2, <1>3, <2>2
      <4> QED BY <4>1 DEF MessageAt
    <3>2. m \in messages' /\ m.seq = k
      BY <1>2, <1>3, <2>2
    <3>3. MessageAt(k)' = m
      BY <3>1, <3>2 DEF SeqInv, SeqContiguous
    <3> QED BY <1>2, <3>3 DEF LogEntry
  <2>3. TheLog \in Seq(Entry) /\ Len(TheLog) = n
    BY LogIsSequence
  <2>4. e \in Entry
    BY <1>2 DEF Entry, SeqInv, TypeOK, Input
  <2>5. /\ Append(TheLog, e) = [s \in 1 .. (n + 1) |-> IF s = n + 1 THEN e ELSE TheLog[s]]
    BY <1>2, <2>3, <2>4, SMTT(30)
  <2>6. TheLog' = [s \in 1 .. (n + 1) |-> LogEntry(s)']
    BY <1>3 DEF TheLog
  <2>7. \A s \in 1 .. (n + 1) : LogEntry(s)' = IF s = n + 1 THEN e ELSE TheLog[s]
    BY <1>2, <2>1, <2>2, SMTT(30) DEF TheLog
  <2> QED BY <2>5, <2>6, <2>7
<1>7. ASSUME NEW u \in Users
      PROVE  /\ Visible(u)' = IF u \in TheMembers THEN Visible(u) \cup {n + 1} ELSE Visible(u)
             /\ uc'[u].readSeq = IF u = w /\ senderRead THEN n + 1 ELSE uc[u].readSeq
  <2>1. uc'[u] = Touched(u, w, n + 1, m.sendTime, senderRead) /\ RowInv(u) /\ RowInv(u)'
    BY <1>3 DEF RowsInv
  <2>2. CASE SessionType = "single"
    <3>1. uc'[u].exists /\ uc'[u].minSeq = 1 /\ uc'[u].maxSeq = 0
      BY <2>1, <2>2, SMTT(30) DEF Touched, RowInv
    <3>2. Visible(u)' = 1 .. (n + 1)
      BY <1>2, <1>3, <3>1, SMTT(30) DEF Visible, VisibleMax
    <3>3. Visible(u) = 1 .. n
      <4>1. CASE uc[u].exists
        BY <2>1, <2>2, <4>1, VisibleIs DEF RowInv, SeqInv
      <4>2. CASE ~uc[u].exists
        <5>1. Visible(u) = {} /\ n = 0
          BY <2>1, <2>2, <4>2, VisibleIs DEF RowInv, SeqInv
        <5> QED BY <5>1, SMTT(30)
      <4> QED BY <4>1, <4>2
    <3>4. uc'[u].readSeq = IF u = w /\ senderRead THEN n + 1 ELSE uc[u].readSeq
      <4>1. uc'[u].readSeq = Greatest(uc[u].readSeq, IF senderRead /\ u = w THEN n + 1 ELSE 0)
        BY <2>1, <2>2, SMTT(30) DEF Touched
      <4>2. uc[u].readSeq \in Nat
        BY DEF SeqInv, TypeOK, UCRow
      <4>3. uc[u].readSeq <= n
        <5>1. uc[u].exists => uc[u].readSeq <= n
          BY <2>1 DEF RowInv
        <5>2. ~uc[u].exists => uc[u].readSeq = 0
          <6>1. ~uc[u].exists => uc[u] = NoRow
            BY <2>1 DEF RowInv
          <6>2. NoRow.readSeq = 0
            BY DEF NoRow
          <6> QED BY <6>1, <6>2
        <5> QED BY <1>2, <5>1, <5>2, SMTT(30)
      <4> QED BY <1>2, <4>1, <4>2, <4>3, SMTT(30) DEF Greatest
    <3> QED BY <1>2, <2>2, <3>2, <3>3, <3>4, SMTT(30) DEF TheMembers
  <2>3. CASE SessionType = "group"
    <3>1. /\ uc'[u].exists <=> uc[u].exists
          /\ uc'[u].minSeq = uc[u].minSeq /\ uc'[u].maxSeq = uc[u].maxSeq
      BY <2>1, <2>3, SMTT(30) DEF Touched
    <3>c. conversation'.maxSeq = n + 1
      BY <1>3
    <3>r. uc[u] \in UCRow /\ uc'[u] \in UCRow
      BY DEF SeqInv, TypeOK
    <3>2. u \in TheMembers <=> uc[u].exists /\ uc[u].maxSeq = 0
      BY <2>3 DEF TheMembers, Members, MemberWindow
    <3>3. uc'[u].readSeq = IF u = w /\ senderRead THEN n + 1 ELSE uc[u].readSeq
      <4>1. u = w => uc[u].exists
        BY <1>4, <3>2
      <4>2. uc'[u].readSeq = IF uc[u].exists THEN Greatest(uc[u].readSeq, IF senderRead /\ u = w THEN n + 1 ELSE 0)
                             ELSE uc[u].readSeq
        BY <2>1, <2>3, SMTT(30) DEF Touched
      <4>3. uc[u].readSeq \in Nat
        BY <3>r DEF UCRow
      <4>4. uc[u].exists => uc[u].readSeq <= n
        BY <2>1 DEF RowInv
      <4> QED BY <1>2, <4>1, <4>2, <4>3, <4>4, SMTT(30) DEF Greatest
    <3>5. CASE ~uc[u].exists
      BY <3>1, <3>r, <3>2, <3>3, <3>5 DEF Visible, UCRow
    <3>6. CASE uc[u].exists /\ uc[u].maxSeq = 0
      <4>v. uc'[u].exists /\ VisibleMax(u)' = n + 1
        BY <1>2, <3>1, <3>c, <3>6, SMTT(30) DEF VisibleMax
      <4>1. Visible(u) = uc[u].minSeq .. n /\ Visible(u)' = uc[u].minSeq .. (n + 1)
        <5>1. Visible(u) = uc[u].minSeq .. n
          BY <3>6, VisibleIs DEF SeqInv
        <5>2. Visible(u)' = uc'[u].minSeq .. VisibleMax(u)'
          BY <4>v DEF Visible
        <5> QED BY <3>1, <4>v, <5>1, <5>2
      <4>2. uc[u].minSeq \in Nat /\ uc[u].minSeq <= n + 1
        BY <2>1, <3>r, <3>6 DEF RowInv, UCRow
      <4> QED BY <1>2, <3>2, <3>3, <3>6, <4>1, <4>2, SMTT(30)
    <3>7. CASE uc[u].exists /\ uc[u].maxSeq # 0
      <4>1. uc[u].maxSeq \in Nat /\ 0 < uc[u].maxSeq /\ uc[u].maxSeq <= n
        <5>1. uc[u].maxSeq \in Nat
          BY <3>r DEF UCRow
        <5>2. uc[u].maxSeq <= n
          BY <2>1, <3>7 DEF RowInv
        <5> QED BY <3>7, <5>1, <5>2, SMTT(30)
      <4>2. Visible(u) = uc[u].minSeq .. uc[u].maxSeq
        BY <3>7, <4>1, VisibleIs DEF SeqInv
      <4>3. Visible(u)' = uc[u].minSeq .. uc[u].maxSeq
        <5>1. uc'[u].exists /\ VisibleMax(u)' = uc[u].maxSeq
          BY <1>2, <3>1, <3>c, <3>7, <4>1, SMTT(30) DEF VisibleMax, Least
        <5>2. Visible(u)' = uc'[u].minSeq .. VisibleMax(u)'
          BY <5>1 DEF Visible
        <5> QED BY <3>1, <5>1, <5>2
      <4> QED BY <3>2, <3>3, <3>7, <4>2, <4>3
    <3> QED BY <3>5, <3>6, <3>7
  <2> QED BY <2>2, <2>3, ConversationAssumption
<1>8. Len(TheLog) = n /\ \A s \in 1 .. n : TheLog[s] = LogEntry(s)
  BY LogIsSequence
<1>9. TheEntitled' = [u \in Users |-> IF u \in TheMembers THEN TheEntitled[u] \cup {n + 1} ELSE TheEntitled[u]]
  BY <1>7 DEF TheEntitled
<1>10. TheRead' = [TheRead EXCEPT ![w] = IF senderRead THEN n + 1 ELSE @]
  <2>1. w \in Users
    BY <1>2 DEF Message
  <2> QED BY <1>7, <2>1 DEF TheRead
<1>11. UNCHANGED <<TheOpen, TheMembers>>
  BY <1>3 DEF TheOpen, TheMembers, Members
<1>12. ~\E s \in 1 .. Len(TheLog) : TheLog[s].sender = w /\ TheLog[s].key = arg[r].cid
  BY <1>5, <1>8
<1> QED BY <1>4, <1>6, <1>8, <1>9, <1>10, <1>11, <1>12
        DEF Log!Append1, Log!KeyUsed, Log!Size, TheLog, TheMembers, TheEntitled, TheRead, TheOpen

(* The log and its status, where a step touches neither. *)
LEMMA LogUnchanged ==
    ASSUME UNCHANGED <<conversation, groupStatus, messages>>
    PROVE  UNCHANGED <<TheLog, TheOpen>>
BY DEF TheLog, TheOpen, LogEntry, MessageAt

(* A join that commits: nothing of the past is visible. *)
LEMMA JoinRefines ==
    ASSUME WindowInv, NEW r \in Req, NEW t \in Times, JoinCommit(r, t),
           NEW j, j = arg[r].user
    PROVE  Log!Enter(j)
<1> USE DEF WindowInv
<1> DEFINE n == conversation.maxSeq
<1>1. row[r] = conversation
  BY CommitLocals DEF JoinCommit, PCs
<1>2. n \in Nat /\ j \in Users /\ SessionType = "group" /\ role[j] = NotMember
  BY DEF JoinCommit, MayJoin, KindInv, SeqInv, TypeOK, ConvRow, Input
<1>3. /\ UNCHANGED <<conversation, groupStatus, messages>>
      /\ uc' = [uc EXCEPT ![j] = JoinedRow(conversation, t)]
      /\ role' = [role EXCEPT ![j] = RoleMember]
  BY <1>1 DEF JoinCommit
<1>4. /\ uc'[j].exists /\ uc'[j].minSeq = n + 1 /\ uc'[j].maxSeq = 0 /\ uc'[j].readSeq = n
      /\ \A u \in Users \ {j} : uc'[u] = uc[u]
  BY <1>2, <1>3 DEF JoinedRow, SeqInv, TypeOK
<1>5. j \notin TheMembers /\ TheMembers' = TheMembers \cup {j}
  <2>1. role'[j] = RoleMember /\ \A u \in Users \ {j} : role'[u] = role[u]
    BY <1>2, <1>3 DEF SeqInv, TypeOK
  <2> QED BY <1>2, <2>1, SMTT(30) DEF TheMembers, Members
<1>6. TheEntitled' = [TheEntitled EXCEPT ![j] = {}]
  <2>1. VisibleMax(j)' = n
    BY <1>2, <1>3, <1>4, SMTT(30) DEF VisibleMax
  <2>2. Visible(j)' = (n + 1) .. n
    BY <1>4, <2>1 DEF Visible
  <2>3. Visible(j)' = {}
    BY <1>2, <2>2, SMTT(30)
  <2>4. \A u \in Users \ {j} : Visible(u)' = Visible(u)
    BY <1>3, <1>4 DEF Visible, VisibleMax
  <2> QED BY <1>2, <2>3, <2>4 DEF TheEntitled
<1>7. TheRead' = [TheRead EXCEPT ![j] = n]
  BY <1>2, <1>4 DEF TheRead
<1>8. Len(TheLog) = n
  BY LogIsSequence
<1>9. UNCHANGED <<TheLog, TheOpen>>
  BY <1>3, LogUnchanged
<1> QED BY <1>5, <1>6, <1>7, <1>8, <1>9
        DEF Log!Enter, Log!Size, TheLog, TheMembers, TheEntitled, TheRead, TheOpen

(* A removal that commits: what was visible stays, and the cursor. *)
LEMMA RemoveRefines ==
    ASSUME WindowInv, NEW r \in Req, RemoveCommit(r), NEW l, l = arg[r].peer
    PROVE  Log!Leave(l)
<1> USE DEF WindowInv
<1> DEFINE n == conversation.maxSeq
<1>1. row[r] = conversation
  BY CommitLocals DEF RemoveCommit, PCs
<1>2. n \in Nat /\ l \in Users /\ SessionType = "group" /\ role[l] # NotMember
  BY DEF RemoveCommit, MayRemove, KindInv, SeqInv, TypeOK, ConvRow, Input
<1>3. /\ UNCHANGED <<conversation, groupStatus, messages>>
      /\ uc' = [uc EXCEPT ![l] = Frozen(l, conversation)]
      /\ role' = [role EXCEPT ![l] = NotMember]
  BY <1>1 DEF RemoveCommit
<1>4. uc'[l] = Frozen(l, conversation) /\ \A u \in Users \ {l} : uc'[u] = uc[u]
  BY <1>2, <1>3 DEF SeqInv, TypeOK
<1>5. l \in TheMembers /\ TheMembers' = TheMembers \ {l}
  <2>1. role'[l] = NotMember /\ \A u \in Users \ {l} : role'[u] = role[u]
    BY <1>2, <1>3 DEF SeqInv, TypeOK
  <2> QED BY <1>2, <2>1 DEF TheMembers, Members
<1>6. uc[l] \in UCRow /\ uc[l].exists /\ uc[l].maxSeq = 0 /\ RowInv(l)
  BY <1>2 DEF MemberWindow, RowsInv, SeqInv, TypeOK
<1>7. Visible(l) = uc[l].minSeq .. n
  BY <1>2, <1>6, VisibleIs DEF SeqInv
<1>8. Visible(l)' = Visible(l) /\ uc'[l].readSeq = uc[l].readSeq
  <2>1. CASE n = 0
    <3>1. uc'[l] = NoRow
      BY <1>4, <2>1 DEF Frozen
    <3>2. Visible(l)' = {} /\ uc'[l].readSeq = 0
      BY <3>1, SMTT(30) DEF Visible, NoRow
    <3>3. uc[l].minSeq \in Nat /\ 1 <= uc[l].minSeq /\ uc[l].readSeq = 0
      BY <1>6, <2>1, SMTT(30) DEF RowInv, UCRow
    <3>4. Visible(l) = {}
      BY <1>7, <2>1, <3>3, SMTT(30)
    <3> QED BY <3>2, <3>3, <3>4
  <2>2. CASE n # 0
    <3>1. uc'[l] = [uc[l] EXCEPT !.maxSeq = n]
      BY <1>4, <1>6, <2>2 DEF Frozen
    <3>2. uc'[l].exists /\ uc'[l].minSeq = uc[l].minSeq /\ uc'[l].maxSeq = n /\ uc'[l].readSeq = uc[l].readSeq
      BY <1>6, <3>1 DEF UCRow
    <3>3. VisibleMax(l)' = n
      BY <1>2, <1>3, <2>2, <3>2 DEF VisibleMax, Least
    <3>4. Visible(l)' = uc'[l].minSeq .. VisibleMax(l)'
      BY <3>2 DEF Visible
    <3> QED BY <1>7, <3>2, <3>3, <3>4
  <2> QED BY <2>1, <2>2
<1>9. TheEntitled' = TheEntitled /\ TheRead' = TheRead
  <2>1. \A u \in Users \ {l} : Visible(u)' = Visible(u)
    BY <1>3, <1>4 DEF Visible, VisibleMax
  <2> QED BY <1>4, <1>8, <2>1 DEF TheEntitled, TheRead
<1>10. UNCHANGED <<TheLog, TheOpen>>
  BY <1>3, LogUnchanged
<1> QED BY <1>5, <1>9, <1>10 DEF Log!Leave, TheLog, TheMembers, TheEntitled, TheRead, TheOpen

(* MarkRead's update moves the cursor to a visible message, or, when the   *)
(* user has read further or rejoined meanwhile, changes nothing.           *)
LEMMA AdvanceRefines ==
    ASSUME WindowInv, NEW r \in Req, AdvanceReadSeq(r),
           NEW v, v = arg[r].user, NEW s, s = target[r]
    PROVE  \/ UNCHANGED Log!logVars
           \/ s \in TheEntitled[v] /\ Log!Read(v, s)
<1> USE DEF WindowInv
<1> DEFINE n == conversation.maxSeq
<1>1. n \in Nat /\ v \in Users /\ uc[v] \in UCRow /\ s \in Nat
  BY DEF SeqInv, TypeOK, ConvRow, Input
<1>2. InReach(v, s) /\ RowInv(v)
  BY <1>1 DEF AdvanceReadSeq, TargetInv, RowsInv
<1>3. /\ UNCHANGED <<conversation, groupStatus, messages, role>>
      /\ uc' = [uc EXCEPT ![v] = Advanced(v, s)]
  BY DEF AdvanceReadSeq
<1>4. CASE ~uc[v].exists \/ s <= uc[v].readSeq
  <2>1. Advanced(v, s) = uc[v]
    BY <1>1, <1>4, SMTT(30) DEF Advanced, Greatest, UCRow
  <2>2. uc' = uc
    BY <1>1, <1>3, <2>1 DEF SeqInv, TypeOK
  <2>3. UNCHANGED Members
    BY <1>3 DEF Members
  <2> QED BY <1>3, <2>2, <2>3, StoreStutters
<1>5. CASE uc[v].exists /\ ~(s <= uc[v].readSeq)
  <2>1. uc[v].readSeq \in Nat /\ uc[v].minSeq \in Nat /\ s > uc[v].readSeq
    BY <1>1, <1>5, SMTT(30) DEF UCRow
  <2>2. VisibleMax(v) \in Nat /\ s <= VisibleMax(v)
    BY <1>1, <1>2, <1>5 DEF InReach, VisibleMax, Least, UCRow
  <2>3. s \in Visible(v)
    <3>1. Visible(v) = uc[v].minSeq .. VisibleMax(v)
      BY <1>5 DEF Visible
    <3>2. uc[v].minSeq <= s
      BY <1>1, <1>2, <1>5, <2>1, SMTT(30) DEF RowInv
    <3> QED BY <1>1, <2>1, <2>2, <3>1, <3>2, SMTT(30)
  <2>4. uc'[v] = [uc[v] EXCEPT !.readSeq = s] /\ \A u \in Users \ {v} : uc'[u] = uc[u]
    BY <1>1, <1>3, <1>5, <2>1, SMTT(30) DEF Advanced, Greatest, SeqInv, TypeOK
  <2>5. /\ uc'[v].exists <=> uc[v].exists
        /\ uc'[v].minSeq = uc[v].minSeq /\ uc'[v].maxSeq = uc[v].maxSeq /\ uc'[v].readSeq = s
    BY <1>1, <2>4 DEF UCRow
  <2>6. TheEntitled' = TheEntitled
    <3>1. Visible(v)' = Visible(v)
      BY <1>3, <2>5 DEF Visible, VisibleMax
    <3>2. \A u \in Users \ {v} : Visible(u)' = Visible(u)
      BY <1>3, <2>4 DEF Visible, VisibleMax
    <3> QED BY <3>1, <3>2 DEF TheEntitled
  <2>7. TheRead' = [TheRead EXCEPT ![v] = s] /\ TheRead[v] = uc[v].readSeq /\ TheEntitled[v] = Visible(v)
    BY <1>1, <2>4, <2>5 DEF TheRead, TheEntitled
  <2>8. UNCHANGED <<TheLog, TheOpen, TheMembers>>
    BY <1>3, LogUnchanged DEF TheMembers, Members
  <2> QED BY <1>1, <2>1, <2>3, <2>6, <2>7, <2>8
          DEF Log!Read, TheLog, TheMembers, TheEntitled, TheRead, TheOpen
<1> QED BY <1>4, <1>5

LEMMA NextRefines == WindowInv /\ WindowInv' /\ [Next]_vars => [Log!LogNext]_(Log!logVars)
<1> SUFFICES ASSUME WindowInv, WindowInv', [Next]_vars
             PROVE  Log!LogNext \/ UNCHANGED Log!logVars
  OBVIOUS
<1>t. TypeOK
  BY DEF WindowInv, SeqInv
<1>a. \A r \in Req : arg[r].user \in Users /\ arg[r].peer \in Users /\ arg[r].cid \in ClientMsgIds
  BY <1>t DEF TypeOK, Input
<1>1. ASSUME NEW members \in SUBSET Users, NEW t \in Times, Create(members, t)
      PROVE  Log!LogNext
  BY <1>1, CreateRefines DEF Log!LogNext
<1>2. ASSUME NEW r \in Req, Aside(r)
      PROVE  UNCHANGED Log!logVars
  <2>1. UNCHANGED <<conversation, groupStatus, messages, uc>> /\ UNCHANGED Members
    BY <1>2 DEF Aside, store, Members
  <2> QED BY <2>1, StoreStutters
<1>3. ASSUME NEW r \in Req, NEW t \in Times, NEW senderRead \in BOOLEAN, SendCommit(r, t, senderRead)
      PROVE  Log!LogNext
  BY <1>3, <1>a, SendRefines DEF Log!LogNext
<1>4. ASSUME NEW r \in Req, NEW t \in Times, JoinCommit(r, t)
      PROVE  Log!LogNext
  BY <1>4, <1>a, JoinRefines DEF Log!LogNext
<1>5. ASSUME NEW r \in Req, RemoveCommit(r)
      PROVE  Log!LogNext
  BY <1>5, <1>a, RemoveRefines DEF Log!LogNext
<1>6. ASSUME NEW r \in Req, AdvanceReadSeq(r)
      PROVE  Log!LogNext \/ UNCHANGED Log!logVars
  <2>1. PICK v, s : v = arg[r].user /\ s = target[r]
    OBVIOUS
  <2>2. v \in Users
    BY <1>a, <2>1
  <2>3. UNCHANGED Log!logVars \/ (s \in TheEntitled[v] /\ Log!Read(v, s))
    BY <1>6, <2>1, AdvanceRefines
  <2> QED BY <2>2, <2>3 DEF Log!LogNext, TheEntitled
<1>7. CASE HostDismiss
  <2>1. /\ groupStatus = "normal" /\ groupStatus' = "dismissed"
        /\ UNCHANGED <<conversation, messages, uc, role>>
    BY <1>7 DEF HostDismiss
  <2>2. Log!Close
    BY <2>1 DEF Log!Close, LogEntry, MessageAt, Visible, VisibleMax, Members
  <2> QED BY <2>2 DEF Log!LogNext
<1>8. ASSUME NEW u \in Users, HostGrantAdmin(u)
      PROVE  UNCHANGED Log!logVars
  <2>1. role[u] = RoleMember /\ role' = [role EXCEPT ![u] = RoleAdmin]
        /\ UNCHANGED <<conversation, groupStatus, messages, uc>>
    BY <1>8 DEF HostGrantAdmin
  <2>2. UNCHANGED Members
    BY <1>t, <2>1, SMTT(30) DEF Members, TypeOK
  <2> QED BY <2>1, <2>2, StoreStutters
<1>9. CASE UNCHANGED vars
  BY <1>9, StoreStutters DEF vars, store, Members
<1> QED BY <1>1, <1>2, <1>3, <1>4, <1>5, <1>6, <1>7, <1>8, <1>9, <1>t, StepKinds DEF Next

(* The tables, with their locks, retries, failures and racing requests,    *)
(* implement MessageLog: one gap-free log that members append to, windows  *)
(* that hold exactly what was appended during a stay, cursors that only    *)
(* move forward inside them (RefinesMessageLog).                           *)
THEOREM ImplementsMessageLog == Spec => RefinesMessageLog
<1>1. Init => Log!LogInit
  BY InitRefines
<1>2. WindowInv /\ WindowInv' /\ [Next]_vars => [Log!LogNext]_(Log!logVars)
  BY NextRefines
<1> QED BY <1>1, <1>2, WindowInvariant, PTL DEF Spec, RefinesMessageLog, Log!LogSpec
=============================================================================
