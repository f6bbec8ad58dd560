----------------------------- MODULE ClientQueue -----------------------------
(***************************************************************************)
(* The goroutines of a connection around its outbound queue: the reader    *)
(* with its limits, the handlers it starts, the pushes of other            *)
(* goroutines, the kick that flushes before it closes, the single writer,  *)
(* and Close, which any of them may call. The connections of a node share  *)
(* one byte budget. One action is a step between two points where another  *)
(* goroutine may run: an atomic add, a critical section under sendMu, a    *)
(* channel operation or a socket call.                                     *)
(***************************************************************************)
EXTENDS Integers, Sequences, FiniteSets, FiniteSetsExt

CONSTANTS
    Clients,        \* connections
    Requests,       \* inbound frames, each sent once
    Pushes,         \* server-initiated pushes
    To,             \* request or push |-> its connection
    SendQueue,      \* ws.send_queue: frames a queue holds
    ByteLimit,      \* limits.ws_send_bytes_total; 0 is none
    WsInflight,     \* limits.ws_inflight_per_conn
    overLimitCloseAt,
    Faults,         \* "read", "write", "deadline", "rate", "decode", "expire", "panic"
    MaxFaults,      \* bound: faults in a behaviour
    Loads           \* what may happen in one behaviour: requests and pushes that arrive,
                    \* connections that are kicked or meet a fault

\* Every request and every push is for one connection.
ASSUME ClientQueueAssumption ==
    /\ To \in [Requests \cup Pushes -> Clients]
    /\ Clients \cap (Requests \cup Pushes) = {}
    /\ \A l \in Loads : l \subseteq Clients \cup Requests \cup Pushes

VARIABLES
    budget,     \* sendBudget.queued
    q,          \* connection |-> the channel send
    queued,     \* connection |-> bytes of send that are charged to budget
    leaked,     \* connection |-> bytes close has yet to release
    step,       \* connection |-> how far close has come
    sock,       \* connection |-> the socket is open
    draining,   \* connection |-> a drain began
    drain,      \* connection |-> the channel drain is closed
    expired,    \* connection |-> its token expired
    overRun,    \* connection |-> consecutive frames over a limit
    inflight,   \* connection |-> requests that hold a slot
    raw,        \* connection |-> the frame its reader holds
    writer,     \* connection |-> its writeLoop: pc, the frame in hand
    pc,         \* process |-> where it is
    op,         \* process |-> how far its Send or Push has come
    frame,      \* process |-> the frame it sends
    load,       \* the load of this behaviour
    received,   \* requests that were read
    wire,       \* connection |-> frames written to the socket
    faults,     \* faults so far
    trouble     \* connections that met a fault, a full queue or a limit

queueVars == <<budget, q, queued, leaked>>
closeVars == <<step, sock>>
drainVars == <<draining, drain, expired>>
limitVars == <<overRun, inflight, raw>>
procVars == <<pc, op, frame>>
histVars == <<load, received, wire, faults, trouble>>
vars == <<queueVars, closeVars, drainVars, limitVars, writer, procVars, histVars>>

\* A fault of kind f happens to connection c.
Fails(f, c) == f \in Faults /\ c \in load /\ faults < MaxFaults /\ faults' = faults + 1

Reader(c) == <<"reader", c>>
Kicker(c) == <<"kicker", c>>
Handler(r) == <<"handler", r>>
Pusher(p) == <<"pusher", p>>

\* The goroutines that send: the reader, whoever kicks, the handlers, the pushers.
Procs == ({"reader", "kicker"} \X Clients) \cup ({"handler"} \X Requests) \cup ({"pusher"} \X Pushes)

ClientOf(p) == IF p[2] \in Clients THEN p[2] ELSE To[p[2]]

\* A frame is its kind and what it is about. A push is the long one.
Frame(kind, about) == <<kind, about>>
NoFrame == Frame("none", "none")
Size(f) == IF f[1] = "push" THEN 2 ELSE 1
Bytes(fs) == MapThenSumSet(LAMBDA i : Size(fs[i]), DOMAIN fs)

Init ==
    /\ budget = 0 /\ load \in Loads /\ received = {} /\ faults = 0 /\ trouble = {}
    /\ q = [c \in Clients |-> <<>>]
    /\ queued = [c \in Clients |-> 0] /\ leaked = [c \in Clients |-> 0]
    /\ step = [c \in Clients |-> "open"] /\ sock = [c \in Clients |-> TRUE]
    /\ draining = [c \in Clients |-> FALSE] /\ drain = [c \in Clients |-> FALSE]
    /\ expired = [c \in Clients |-> FALSE]
    /\ overRun = [c \in Clients |-> 0] /\ inflight = [c \in Clients |-> {}]
    /\ raw = [c \in Clients |-> NoFrame]
    /\ writer = [c \in Clients |-> [pc |-> "select", frame |-> NoFrame]]
    /\ pc = [p \in Procs |-> IF p[1] = "reader" THEN "read" ELSE "idle"]
    /\ op = [p \in Procs |-> "none"] /\ frame = [p \in Procs |-> NoFrame]
    /\ wire = [c \in Clients |-> {}]

(* ------------------------- closing a connection -------------------------- *)

CtxDone(c) == step[c] \notin {"open", "called"}
Closing(c) == step[c] \in {"marked", "done"}
Closed(c) == step[c] = "done"

\* Close: the socket first, whatever another close is doing, then close, once.
CloseCalled(c) ==
    /\ sock' = [sock EXCEPT ![c] = FALSE]
    /\ step' = [step EXCEPT ![c] = IF @ = "open" THEN "called" ELSE @]

CloseStep(c, from, to) == step[c] = from /\ step' = [step EXCEPT ![c] = to]

\* close: cancel the context, mark and take the charge, wake the loops and release.
close(c) ==
    /\ \/ CloseStep(c, "called", "cancelled") /\ UNCHANGED queueVars
       \/ /\ CloseStep(c, "cancelled", "marked")
          /\ leaked' = [leaked EXCEPT ![c] = queued[c]] /\ queued' = [queued EXCEPT ![c] = 0]
          /\ UNCHANGED <<budget, q>>
       \/ /\ CloseStep(c, "marked", "done")
          /\ budget' = budget - leaked[c] /\ leaked' = [leaked EXCEPT ![c] = 0]
          /\ UNCHANGED <<q, queued>>
    /\ UNCHANGED <<sock, drainVars, limitVars, writer, procVars, histVars>>

(* ------------------------------ Send and Push ---------------------------- *)

\* The process charges the frame and goes on at pc `at` when it was sent.
Sends(p, f, at) ==
    /\ budget' = budget + Size(f)
    /\ op' = [op EXCEPT ![p] = "enqueue"] /\ frame' = [frame EXCEPT ![p] = f]
    /\ pc' = [pc EXCEPT ![p] = at]

Goes(p, at) == pc' = [pc EXCEPT ![p] = at] /\ UNCHANGED <<op, frame, budget>>

OpStep(p, from, to) ==
    /\ op[p] = from /\ op' = [op EXCEPT ![p] = to]
    /\ UNCHANGED <<pc, drainVars, limitVars, writer, load, received, wire, faults>>

\* Whether a push of n bytes leaves the node over its cap, from the total it reads.
OverCap(n) == ByteLimit > 0 /\ budget + n > ByteLimit

tryTake(p) ==
    /\ OpStep(p, "trytake", IF OverCap(Size(frame[p])) THEN "undo" ELSE "enqueue")
    /\ budget' = budget + Size(frame[p])
    /\ UNCHANGED <<frame, q, queued, leaked, closeVars, trouble>>

\* A refused push gives its bytes back and becomes a Resync.
resync(p) ==
    /\ OpStep(p, "undo", "enqueue")
    /\ frame' = [frame EXCEPT ![p] = Frame("resync", p[2])]
    /\ budget' = budget - Size(frame[p]) + Size(frame'[p])
    /\ UNCHANGED <<q, queued, leaked, closeVars, trouble>>

\* On a connection that is closing, or on a full queue, the bytes go back at once.
queueFrame(p) ==
    LET c == ClientOf(p)
        n == Size(frame[p])
    IN
    /\ \/ /\ Closing(c)
          /\ OpStep(p, "enqueue", "none")
          /\ budget' = budget - n /\ UNCHANGED <<q, queued>>
       \/ /\ ~Closing(c) /\ Len(q[c]) < SendQueue
          /\ OpStep(p, "enqueue", "none")
          /\ q' = [q EXCEPT ![c] = Append(@, frame[p])]
          /\ queued' = [queued EXCEPT ![c] = @ + n] /\ UNCHANGED budget
       \/ /\ ~Closing(c) /\ Len(q[c]) >= SendQueue
          /\ OpStep(p, "enqueue", "slow")
          /\ budget' = budget - n /\ UNCHANGED <<q, queued>>
    /\ UNCHANGED <<frame, leaked, closeVars, trouble>>

\* A full queue closes the connection; the caller returns when that is done.
CloseSlow(p) ==
    /\ OpStep(p, "slow", "wait")
    /\ CloseCalled(ClientOf(p)) /\ trouble' = trouble \cup {ClientOf(p)}
    /\ UNCHANGED <<frame, queueVars>>

Returns(p) == OpStep(p, "wait", "none") /\ Closed(ClientOf(p)) /\ UNCHANGED <<frame, queueVars, closeVars, trouble>>

SendStep(p) == tryTake(p) \/ resync(p) \/ queueFrame(p) \/ CloseSlow(p) \/ Returns(p)

Push(p) ==
    /\ p \in load /\ pc[Pusher(p)] = "idle"
    /\ pc' = [pc EXCEPT ![Pusher(p)] = "done"]
    /\ op' = [op EXCEPT ![Pusher(p)] = "trytake"]
    /\ frame' = [frame EXCEPT ![Pusher(p)] = Frame("push", p)]
    /\ UNCHANGED <<queueVars, closeVars, drainVars, limitVars, writer, histVars>>

(* --------------------------------- kicks --------------------------------- *)

KickStep == UNCHANGED <<q, queued, leaked, closeVars, expired, limitVars, writer, histVars>>

After(p) == IF p[1] = "reader" THEN "read" ELSE "done"

\* beginDrain under kickMu, and finishDrain up to its Send: only one drain begins.
\* Shutdown's has no last frame.
beginDrain(p, last) ==
    LET c == ClientOf(p) IN
    /\ IF CtxDone(c) \/ draining[c]
       THEN Goes(p, After(p)) /\ UNCHANGED draining
       ELSE /\ draining' = [draining EXCEPT ![c] = TRUE]
            /\ IF last THEN Sends(p, Frame("kick", c), "flush") ELSE Goes(p, "flush")
    /\ KickStep /\ UNCHANGED drain

\* A new login, the token re-check, or Shutdown.
Kick(c) == c \in load /\ pc[Kicker(c)] = "idle" /\ \E last \in BOOLEAN : beginDrain(Kicker(c), last)

\* The reader's own kick, after it refused a frame of an expired token.
KickExpired(c) == op[Reader(c)] = "none" /\ pc[Reader(c)] = "kick" /\ beginDrain(Reader(c), TRUE)

finishDrain(p) ==
    /\ op[p] = "none" /\ pc[p] = "flush"
    /\ drain' = [drain EXCEPT ![ClientOf(p)] = TRUE]
    /\ Goes(p, After(p))
    /\ KickStep /\ UNCHANGED draining

\* finishDrain's timer: writeWait passed. The context's end stops it.
DrainTimer(c) ==
    /\ Fails("deadline", c) /\ draining[c] /\ ~CtxDone(c)
    /\ CloseCalled(c) /\ trouble' = trouble \cup {c}
    /\ UNCHANGED <<queueVars, drainVars, limitVars, writer, procVars, load, received, wire>>

Expires(c) ==
    /\ Fails("expire", c) /\ ~expired[c]
    /\ expired' = [expired EXCEPT ![c] = TRUE]
    /\ UNCHANGED <<queueVars, closeVars, draining, drain, limitVars, writer, procVars, load, received, wire, trouble>>

\* Shutdown may have sealed the workGroup once every connection of the node drains.
Connected == {c \in Clients : c \in load \/ \E x \in load \ Clients : To[x] = c}
MayBeSealed == \A c \in Connected : draining[c] \/ CtxDone(c)

(* ------------------------------- the reader ------------------------------ *)

ReaderAt(c, at) == op[Reader(c)] = "none" /\ pc[Reader(c)] = at
ReaderStep == UNCHANGED <<q, queued, leaked, drainVars, writer, load, wire>>

ReadMessage(c, r) ==
    /\ ReaderAt(c, "read") /\ sock[c] /\ To[r] = c /\ r \in load \ received
    /\ received' = received \cup {r}
    /\ raw' = [raw EXCEPT ![c] = Frame("request", r)]
    /\ Goes(Reader(c), "admit")
    /\ ReaderStep /\ UNCHANGED <<closeVars, overRun, inflight, faults, trouble>>

\* The peer is gone, silent for too long, or the socket was closed on this side.
ReadFails(c) ==
    /\ ReaderAt(c, "read")
    /\ IF sock[c] THEN Fails("read", c) /\ trouble' = trouble \cup {c} ELSE UNCHANGED <<faults, trouble>>
    /\ Goes(Reader(c), "stop")
    /\ ReaderStep /\ UNCHANGED <<closeVars, limitVars, received>>

\* One more frame over a limit is refused; the last one in a row closes.
overLimit(c, f) ==
    /\ overRun' = [overRun EXCEPT ![c] = @ + 1]
    /\ Sends(Reader(c), f, IF overRun[c] + 1 >= overLimitCloseAt THEN "over" ELSE "read")
    /\ UNCHANGED <<inflight, raw>>

\* A frame refused before it was decoded is answered without its ids.
admit(c) ==
    LET p == Reader(c)
        r == raw[c][2]
    IN
    /\ ReaderAt(c, "admit")
    /\ \/ /\ draining[c] \/ CtxDone(c)
          /\ Goes(p, "stop") /\ UNCHANGED <<limitVars, faults>>
       \/ /\ ~draining[c] /\ ~CtxDone(c)
          /\ \/ Fails("rate", c) /\ overLimit(c, Frame("limited", r))
             \/ /\ Fails("decode", c)
                /\ overRun' = [overRun EXCEPT ![c] = 0]
                /\ Sends(p, Frame("reply", r), "read") /\ UNCHANGED <<inflight, raw>>
             \/ expired[c] /\ Sends(p, Frame("reply", r), "kick") /\ UNCHANGED <<limitVars, faults>>
             \/ /\ ~expired[c] /\ Cardinality(inflight[c]) >= WsInflight
                /\ overLimit(c, Frame("reply", r)) /\ UNCHANGED faults
             \/ /\ ~expired[c] /\ Cardinality(inflight[c]) < WsInflight
                /\ overRun' = [overRun EXCEPT ![c] = 0]
                /\ inflight' = [inflight EXCEPT ![c] = @ \cup {r}]
                /\ Goes(p, "begin") /\ UNCHANGED <<raw, faults>>
    /\ ReaderStep /\ UNCHANGED <<closeVars, received, trouble>>

\* The workGroup takes the handler, or the slot goes back and the loop ends.
begin(c) ==
    LET p == Reader(c)
        r == raw[c][2]
    IN
    /\ ReaderAt(c, "begin")
    /\ \/ /\ MayBeSealed
          /\ inflight' = [inflight EXCEPT ![c] = @ \ {r}] /\ pc' = [pc EXCEPT ![p] = "stop"]
       \/ UNCHANGED inflight /\ pc' = [pc EXCEPT ![p] = "read", ![Handler(r)] = "run"]
    /\ ReaderStep /\ UNCHANGED <<budget, op, frame, overRun, raw, closeVars, received, faults, trouble>>

CloseRate(c) ==
    /\ ReaderAt(c, "over")
    /\ CloseCalled(c) /\ trouble' = trouble \cup {c}
    /\ Goes(Reader(c), "overwait")
    /\ ReaderStep /\ UNCHANGED <<limitVars, received, faults>>

\* Once a drain began, the writer or the timer owns the close.
AwaitsNever(c) == FALSE
Awaits(c) == draining[c]

awaitDrain(c) ==
    /\ \/ ReaderAt(c, "overwait") /\ Closed(c) /\ Goes(Reader(c), "stop")
       \/ ReaderAt(c, "stop") /\ Goes(Reader(c), IF Awaits(c) THEN "await" ELSE "close")
       \/ ReaderAt(c, "await") /\ Closed(c) /\ Goes(Reader(c), "close")
    /\ ReaderStep /\ UNCHANGED <<closeVars, limitVars, received, faults, trouble>>

CloseRead(c) ==
    /\ ReaderAt(c, "close") /\ CloseCalled(c) /\ Goes(Reader(c), "end")
    /\ ReaderStep /\ UNCHANGED <<limitVars, received, faults, trouble>>

(* ------------------------------ the handlers ----------------------------- *)

HandlerAt(r, at) == op[Handler(r)] = "none" /\ pc[Handler(r)] = at
HandlerStep == UNCHANGED <<q, queued, leaked, closeVars, drainVars, overRun, raw, writer, load, received, wire, trouble>>
Freed(r) == inflight' = [inflight EXCEPT ![To[r]] = @ \ {r}]

\* dispatch returned: its reply, or its error as a reply.
dispatch(r) ==
    /\ HandlerAt(r, "run") /\ Sends(Handler(r), Frame("reply", r), "free")
    /\ HandlerStep /\ UNCHANGED <<inflight, faults>>

HandlerEnds(r) == HandlerAt(r, "free") /\ Freed(r) /\ Goes(Handler(r), "done") /\ HandlerStep /\ UNCHANGED faults

\* dispatch panicked: the slot goes back, then the request fails with an internal error.
RecoverSilently(r) ==
    /\ Fails("panic", To[r]) /\ HandlerAt(r, "run")
    /\ Freed(r) /\ Goes(Handler(r), "done") /\ HandlerStep
Recover(r) ==
    /\ Fails("panic", To[r]) /\ HandlerAt(r, "run")
    /\ Freed(r) /\ Sends(Handler(r), Frame("reply", r), "done") /\ HandlerStep

(* ------------------------------- the writer ------------------------------ *)

WriterAt(c, at) == writer[c].pc = at
WriterGoes(c, at) == writer' = [writer EXCEPT ![c].pc = at]
WriterStep == UNCHANGED <<drainVars, limitVars, procVars, load, received>>

\* writeLoop's select, and the inner one that flushes. The frame leaves the channel
\* before write takes sendMu.
Receive(c) ==
    /\ writer[c].pc \in {"select", "flush"} /\ q[c] # <<>>
    /\ q' = [q EXCEPT ![c] = Tail(@)]
    /\ writer' = [writer EXCEPT ![c] = [pc |-> IF @.pc = "select" THEN "write" ELSE "writelast", frame |-> Head(q[c])]]
    /\ WriterStep /\ UNCHANGED <<budget, queued, leaked, closeVars, wire, faults, trouble>>

Drains(c) ==
    /\ WriterAt(c, "select") /\ drain[c] /\ WriterGoes(c, "flush")
    /\ WriterStep /\ UNCHANGED <<queueVars, closeVars, wire, faults, trouble>>

\* The queue is flushed: the close frame, then Close.
CloseKick(c) ==
    /\ WriterAt(c, "flush") /\ q[c] = <<>>
    /\ CloseCalled(c) /\ WriterGoes(c, "end")
    /\ WriterStep /\ UNCHANGED <<queueVars, wire, faults, trouble>>

\* After close took the charge of the whole queue, write has nothing to release.
AccountsAlways(c) == TRUE
Accounts(c) == ~Closing(c)

write(c) ==
    LET n == Size(writer[c].frame) IN
    /\ writer[c].pc \in {"write", "writelast"}
    /\ IF Accounts(c)
       THEN queued' = [queued EXCEPT ![c] = @ - n] /\ budget' = budget - n
       ELSE UNCHANGED <<queued, budget>>
    /\ WriterGoes(c, IF writer[c].pc = "write" THEN "wire" ELSE "wirelast")
    /\ WriterStep /\ UNCHANGED <<q, leaked, closeVars, wire, faults, trouble>>

WriteError(c) ==
    IF sock[c] THEN Fails("write", c) /\ trouble' = trouble \cup {c} ELSE UNCHANGED <<faults, trouble>>

WriteMessage(c) ==
    /\ writer[c].pc \in {"wire", "wirelast"}
    /\ \/ /\ sock[c]
          /\ wire' = [wire EXCEPT ![c] = @ \cup {writer[c].frame}]
          /\ WriterGoes(c, IF writer[c].pc = "wire" THEN "select" ELSE "flush")
          /\ UNCHANGED <<closeVars, faults, trouble>>
       \/ /\ WriteError(c)
          /\ CloseCalled(c) /\ WriterGoes(c, "end") /\ UNCHANGED wire
    /\ WriterStep /\ UNCHANGED queueVars

\* A ping finds the peer gone, or the loop sees closed.
WriterStops(c) ==
    /\ WriterAt(c, "select")
    /\ \/ Closed(c) /\ UNCHANGED <<closeVars, faults, trouble>>
       \/ /\ WriteError(c)
          /\ CloseCalled(c)
    /\ WriterGoes(c, "end")
    /\ WriterStep /\ UNCHANGED <<queueVars, wire>>

(* ------------------------------ specification ---------------------------- *)

\* What the environment does: frames arrive, pushes and kicks begin, the peer or the
\* network fails, time passes.
Arrives ==
    \/ \E c \in Clients, r \in Requests : ReadMessage(c, r)
    \/ \E p \in Pushes : Push(p)
    \/ \E c \in Clients : Kick(c) \/ (sock[c] /\ ReadFails(c)) \/ DrainTimer(c) \/ Expires(c)

ReaderGoesOn(c) ==
    (~sock[c] /\ ReadFails(c)) \/ admit(c) \/ begin(c) \/ KickExpired(c) \/ CloseRate(c) \/ awaitDrain(c) \/ CloseRead(c)
HandlerGoesOn(r) == dispatch(r) \/ Recover(r) \/ HandlerEnds(r)
WriterGoesOn(c) == Receive(c) \/ Drains(c) \/ CloseKick(c) \/ write(c) \/ WriteMessage(c) \/ WriterStops(c)

GoesOn ==
    \/ \E p \in Procs : SendStep(p) \/ finishDrain(p)
    \/ \E c \in Clients : close(c) \/ ReaderGoesOn(c) \/ WriterGoesOn(c)
    \/ \E r \in Requests : HandlerGoesOn(r)

Next == Arrives \/ GoesOn

Spec == Init /\ [][Next]_vars

(* ------------------------------- properties ------------------------------ *)

\* Bytes of the frames in p's hands that are charged and in no queue.
Charged(p) == op[p] \in {"enqueue", "undo"}

\* Bytes a connection holds while it is not closing: in the queue and in the writer's hand.
Held(c) == Bytes(q[c]) + (IF writer[c].pc \in {"write", "writelast"} THEN Size(writer[c].frame) ELSE 0)

IsPush(f) == f[1] = "push"
PushBytes(c) ==
    Bytes(SelectSeq(q[c], IsPush))
        + (IF writer[c].pc \in {"write", "writelast"} /\ IsPush(writer[c].frame) THEN Size(writer[c].frame) ELSE 0)

\* Every byte that enters the node's budget leaves it exactly once, whether write,
\* a failed enqueue or close wins (budget.go): between those steps the budget is what
\* the open connections' queues hold. Pushes alone never fill more than the cap.
BytesAccounted ==
    LET open == {c \in Clients : ~Closing(c)} IN
    /\ ((\A p \in Procs : ~Charged(p)) /\ (\A c \in Clients : leaked[c] = 0))
           => budget = MapThenSumSet(Held, open)
    /\ ByteLimit > 0 => MapThenSumSet(PushBytes, open) <= ByteLimit

\* A kick is told before the socket closes: unless the peer or the network failed,
\* the queue was full, a limit was hit or the drain took too long, the frames queued
\* when the flush began, the 2002 frame among them, are written first (kick.go,
\* awaitDrain).
KickReaches ==
    \A c \in Clients : (drain[c] /\ ~sock[c] /\ c \notin trouble) =>
        \A p \in {Reader(c), Kicker(c)} : frame[p][1] = "kick" => frame[p] \in wire[c]

\* Nobody waits for nobody: every step but an arrival uses up a frame or a step of a
\* loop, so the goroutines come to rest, and at rest every frame that was read is
\* answered or its socket is closed, and a drain has ended with both loops over and
\* every handler's slot given back (dispatch's recover, awaitDrain, finishDrain).
Answered(r) == {Frame("reply", r), Frame("limited", r)} \cap wire[To[r]] # {}
ServeOver(c) == WriterAt(c, "end") /\ ReaderAt(c, "end") /\ Closed(c) /\ inflight[c] = {}

AnsweredOrClosed ==
    ~ENABLED GoesOn =>
        /\ \A r \in received : Answered(r) \/ ~sock[To[r]]
        /\ \A c \in Clients : draining[c] => ServeOver(c)
=============================================================================
