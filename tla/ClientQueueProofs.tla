--------------------------- MODULE ClientQueueProofs ---------------------------
(***************************************************************************)
(* A kick is told before the socket closes, for any number of connections, *)
(* requests and pushes, any queue length and limits, and any faults.       *)
(***************************************************************************)
EXTENDS ClientQueue, TLAPS

(* A leaf that names no prover is Zenon's; SMTT marks those with arithmetic. *)
USE ZenonT(30)

Kinds == {"none", "request", "reply", "limited", "push", "resync", "kick"}
Frames == Kinds \X (Clients \cup Requests \cup Pushes \cup {"none"})

Points == {"idle", "read", "admit", "begin", "over", "overwait", "kick", "flush", "stop", "await", "close", "end",
           "run", "free", "done"}
SendPoints == {"none", "trytake", "undo", "enqueue", "slow", "wait"}

Typed ==
    /\ q \in [Clients -> Seq(Frames)]
    /\ step \in [Clients -> {"open", "called", "cancelled", "marked", "done"}] /\ sock \in [Clients -> BOOLEAN]
    /\ draining \in [Clients -> BOOLEAN] /\ drain \in [Clients -> BOOLEAN]
    /\ raw \in [Clients -> Frames]
    /\ writer \in [Clients -> [pc : {"select", "flush", "write", "writelast", "wire", "wirelast", "end"}, frame : Frames]]
    /\ pc \in [Procs -> Points] /\ op \in [Procs -> SendPoints] /\ frame \in [Procs -> Frames]
    /\ wire \in [Clients -> SUBSET Frames]
    /\ load \subseteq Clients \cup Requests \cup Pushes

KickFrame(c) == Frame("kick", c)
Kickers(c) == {Reader(c), Kicker(c)}
HasKick(p) == frame[p][1] = "kick"

(* The reader leaves its loop only when something else ends the connection. *)
ReaderInv(c) ==
    /\ sock[c] <=> step[c] = "open"
    /\ pc[Reader(c)] \in {"begin", "admit"} => raw[c] \in {"request"} \X Requests /\ raw[c][2] \in load /\ To[raw[c][2]] = c
    /\ pc[Reader(c)] = "stop" => c \in trouble \/ ~sock[c] \/ draining[c]
    /\ pc[Reader(c)] \in {"close", "end"} => c \in trouble \/ ~sock[c]
    /\ pc[Reader(c)] = "overwait" => c \in trouble

(* Only one drain begins, and it closes the channel after its Send.         *)
DrainInv(c) ==
    /\ drain[c] => draining[c]
    /\ \A p \in Kickers(c) :
        /\ HasKick(p) => frame[p] = KickFrame(c) /\ draining[c]
        /\ pc[p] = "flush" => draining[c] /\ ~drain[c]
        /\ HasKick(p) /\ op[p] # "none" => pc[p] = "flush"
    /\ ~(pc[Reader(c)] = "flush" /\ pc[Kicker(c)] = "flush")
    /\ writer[c].pc \in {"flush", "writelast", "wirelast"} => drain[c]

(* Where the last frame is. *)
InHand(c) == writer[c].pc \in {"write", "writelast", "wire", "wirelast"} /\ writer[c].frame = KickFrame(c)
InQueue(c) == \E i \in DOMAIN q[c] : q[c][i] = KickFrame(c)

FrameInv(c) ==
    c \notin trouble =>
        /\ \A p \in Kickers(c) : op[p] # "wait"
        /\ \A p \in Kickers(c) : HasKick(p) =>
              op[p] # "none" \/ InQueue(c) \/ InHand(c) \/ KickFrame(c) \in wire[c]
        /\ ~sock[c] =>
              /\ writer[c].pc = "end" /\ drain[c]
              /\ \A p \in Kickers(c) : HasKick(p) => KickFrame(c) \in wire[c]

ConnInv(c) == ReaderInv(c) /\ DrainInv(c) /\ FrameInv(c)

(* Only the reader and a kicker flush. *)
FlushInv == \A p \in Procs : pc[p] = "flush" => \E c \in Clients : p \in Kickers(c)

KickInv == Typed /\ FlushInv /\ \A c \in Clients : ConnInv(c)

--------------------------------------------------------------------------------
(* The processes of a connection are distinct, and they are its own. *)
LEMMA ProcFacts ==
    /\ \A c \in Clients : /\ Reader(c) \in Procs /\ Kicker(c) \in Procs
                          /\ ClientOf(Reader(c)) = c /\ ClientOf(Kicker(c)) = c
    /\ \A r \in Requests : Handler(r) \in Procs /\ ClientOf(Handler(r)) = To[r]
    /\ \A p \in Pushes : Pusher(p) \in Procs
    /\ \A p \in Procs : ClientOf(p) \in Clients
    /\ \A c, d : Reader(c) # Kicker(d) /\ (Reader(c) = Reader(d) => c = d) /\ (Kicker(c) = Kicker(d) => c = d)
    /\ \A c, r : /\ Reader(c) # Handler(r) /\ Kicker(c) # Handler(r)
                 /\ Reader(c) # Pusher(r) /\ Kicker(c) # Pusher(r)
<1>1. \A c \in Clients : /\ Reader(c) \in Procs /\ Kicker(c) \in Procs
                         /\ ClientOf(Reader(c)) = c /\ ClientOf(Kicker(c)) = c
  BY DEF Procs, Reader, Kicker, ClientOf
<1>2. \A r \in Requests : Handler(r) \in Procs /\ ClientOf(Handler(r)) = To[r]
  BY ClientQueueAssumption DEF Procs, Handler, ClientOf
<1>3. \A p \in Pushes : Pusher(p) \in Procs
  BY DEF Procs, Pusher
<1>4. \A p \in Procs : ClientOf(p) \in Clients
  BY ClientQueueAssumption DEF Procs, ClientOf
<1>5. \A c, d : Reader(c) # Kicker(d) /\ (Reader(c) = Reader(d) => c = d) /\ (Kicker(c) = Kicker(d) => c = d)
  BY DEF Reader, Kicker
<1>6. \A c, r : /\ Reader(c) # Handler(r) /\ Kicker(c) # Handler(r)
                /\ Reader(c) # Pusher(r) /\ Kicker(c) # Pusher(r)
  BY DEF Reader, Kicker, Handler, Pusher
<1> QED BY <1>1, <1>2, <1>3, <1>4, <1>5, <1>6

(* A frame is its kind and what it is about. *)
LEMMA FrameFacts ==
    /\ \A k \in Kinds, a \in Clients \cup Requests \cup Pushes \cup {"none"} : Frame(k, a) \in Frames
    /\ \A k, a : Frame(k, a)[1] = k /\ Frame(k, a)[2] = a
    /\ NoFrame \in Frames /\ NoFrame[1] # "kick"
BY DEF Frame, Frames, Kinds, NoFrame

(* Sends and Goes keep the types of the process that takes them. *)
LEMMA SendsTyped ==
    ASSUME Typed, NEW p \in Procs, NEW f \in Frames, NEW at \in Points, Sends(p, f, at) \/ Goes(p, at)
    PROVE  pc' \in [Procs -> Points] /\ op' \in [Procs -> SendPoints] /\ frame' \in [Procs -> Frames]
<1>1. CASE Sends(p, f, at)
  <2>1. pc' = [pc EXCEPT ![p] = at] /\ op' = [op EXCEPT ![p] = "enqueue"] /\ frame' = [frame EXCEPT ![p] = f]
    BY <1>1 DEF Sends
  <2>2. pc' \in [Procs -> Points] /\ frame' \in [Procs -> Frames]
    BY <2>1 DEF Typed
  <2>3. op' \in [Procs -> SendPoints]
    BY <2>1 DEF Typed, SendPoints
  <2> QED BY <2>2, <2>3
<1>2. CASE Goes(p, at)
  BY <1>2 DEF Typed, Goes
<1> QED BY <1>1, <1>2

(* Every step keeps the types. *)
LEMMA TypedNext == ASSUME KickInv, [Next]_vars PROVE Typed'
<1>t. Typed /\ \A c \in Clients : ReaderInv(c)
  BY DEF KickInv, ConnInv
<1> USE ProcFacts, FrameFacts
<1>c. ASSUME NEW c \in Clients, CloseCalled(c)
      PROVE  /\ step' \in [Clients -> {"open", "called", "cancelled", "marked", "done"}] /\ sock' \in [Clients -> BOOLEAN]
  BY <1>t, <1>c DEF CloseCalled, Typed
<1>1. ASSUME NEW c \in Clients, NEW r \in Requests, ReadMessage(c, r)
      PROVE  Typed'
  <2>1. pc' \in [Procs -> Points] /\ op' \in [Procs -> SendPoints] /\ frame' \in [Procs -> Frames]
    BY <1>t, <1>1, SendsTyped DEF ReadMessage, Points
  <2>2. raw' \in [Clients -> Frames]
    BY <1>t, <1>1 DEF ReadMessage, Typed, Kinds
  <2> QED BY <1>t, <1>1, <2>1, <2>2 DEF ReadMessage, ReaderStep, closeVars, drainVars, Typed
<1>2. ASSUME NEW p \in Pushes, Push(p)
      PROVE  Typed'
  <2>1. Frame("push", p) \in Frames
    BY DEF Kinds
  <2> QED BY <1>t, <1>2, <2>1 DEF Push, Typed, queueVars, closeVars, drainVars, limitVars, histVars, Points, SendPoints
<1>3. ASSUME NEW c \in Clients, NEW p \in Kickers(c), NEW last \in BOOLEAN, beginDrain(p, last)
      PROVE  Typed'
  <2>1. p \in Procs /\ ClientOf(p) = c /\ Frame("kick", c) \in Frames /\ After(p) \in Points /\ "flush" \in Points
    BY DEF Kickers, Kinds, After, Points
  <2>2. pc' \in [Procs -> Points] /\ op' \in [Procs -> SendPoints] /\ frame' \in [Procs -> Frames]
    BY <1>t, <1>3, <2>1, SendsTyped DEF beginDrain
  <2>3. draining' \in [Clients -> BOOLEAN]
    BY <1>t, <1>3, <2>1 DEF beginDrain, Typed
  <2> QED BY <1>t, <1>3, <2>2, <2>3 DEF beginDrain, KickStep, Typed, closeVars, limitVars, histVars
<1>4. ASSUME NEW c \in Clients, ReadFails(c)
      PROVE  Typed'
  <2>1. pc' \in [Procs -> Points] /\ op' \in [Procs -> SendPoints] /\ frame' \in [Procs -> Frames]
    BY <1>t, <1>4, SendsTyped DEF ReadFails, Points
  <2> QED BY <1>t, <1>4, <2>1 DEF ReadFails, ReaderStep, closeVars, drainVars, limitVars, Typed
<1>5. ASSUME NEW c \in Clients, DrainTimer(c) \/ Expires(c)
      PROVE  Typed'
  BY <1>t, <1>5, <1>c DEF DrainTimer, Expires, queueVars, closeVars, drainVars, limitVars, procVars, Typed
<1>6. ASSUME NEW p \in Procs, SendStep(p)
      PROVE  Typed'
  <2>1. CASE tryTake(p) \/ Returns(p)
    <3>1. op' \in [Procs -> SendPoints]
      BY <1>t, <2>1 DEF tryTake, Returns, OpStep, Typed, SendPoints
    <3> QED BY <1>t, <2>1, <3>1, SMTT(30) DEF tryTake, Returns, OpStep, queueVars, closeVars, drainVars, limitVars, Typed
  <2>2. CASE resync(p)
    <3>1. Frame("resync", p[2]) \in Frames
      BY DEF Procs, Kinds
    <3> QED BY <1>t, <2>2, <3>1 DEF resync, OpStep, closeVars, drainVars, limitVars, Typed, SendPoints
  <2>3. CASE queueFrame(p)
    <3>1. q' \in [Clients -> Seq(Frames)]
      <4> DEFINE c == ClientOf(p)
      <4>1. c \in Clients /\ frame[p] \in Frames /\ q[c] \in Seq(Frames)
        BY <1>t DEF Typed
      <4>2. Append(q[c], frame[p]) \in Seq(Frames)
        BY <4>1, SMTT(30)
      <4>3. q' = q \/ q' = [q EXCEPT ![c] = Append(q[c], frame[p])]
        BY <2>3 DEF queueFrame
      <4> HIDE DEF c
      <4> QED BY <1>t, <4>1, <4>2, <4>3 DEF Typed
    <3>2. op' \in [Procs -> SendPoints]
      <4>1. op' = [op EXCEPT ![p] = "none"] \/ op' = [op EXCEPT ![p] = "slow"]
        BY <2>3 DEF queueFrame, OpStep
      <4>2. op \in [Procs -> SendPoints] /\ {"none", "slow"} \subseteq SendPoints
        BY <1>t DEF Typed, SendPoints
      <4> QED BY <4>1, <4>2
    <3> QED BY <1>t, <2>3, <3>1, <3>2, SMTT(30) DEF queueFrame, OpStep, closeVars, drainVars, limitVars, Typed
  <2>4. CASE CloseSlow(p)
    BY <1>t, <2>4, <1>c DEF CloseSlow, OpStep, queueVars, drainVars, limitVars, Typed, SendPoints
  <2> QED BY <1>6, <2>1, <2>2, <2>3, <2>4 DEF SendStep
<1>7. ASSUME NEW p \in Procs, finishDrain(p)
      PROVE  Typed'
  <2>1. pc' \in [Procs -> Points] /\ op' \in [Procs -> SendPoints] /\ frame' \in [Procs -> Frames]
    BY <1>t, <1>7, SendsTyped DEF finishDrain, After, Points
  <2> QED BY <1>t, <1>7, <2>1 DEF finishDrain, KickStep, Typed, closeVars, limitVars, histVars
<1>8. ASSUME NEW c \in Clients, close(c)
      PROVE  Typed'
  BY <1>t, <1>8 DEF close, CloseStep, queueVars, drainVars, limitVars, procVars, histVars, Typed
<1>9. ASSUME NEW c \in Clients, admit(c)
      PROVE  Typed'
  <2>1. raw[c][2] \in Requests
    BY <1>t, <1>9 DEF admit, ReaderAt, ReaderInv
  <2>2. \A k \in {"limited", "reply"} : Frame(k, raw[c][2]) \in Frames
    BY <2>1 DEF Kinds
  <2>3. pc' \in [Procs -> Points] /\ op' \in [Procs -> SendPoints] /\ frame' \in [Procs -> Frames]
    <3>1. {"stop", "over", "read", "kick", "begin"} \subseteq Points
      BY DEF Points
    <3>2. \E f \in Frames, at \in Points : Sends(Reader(c), f, at) \/ Goes(Reader(c), at)
      BY <1>9, <2>2, <3>1 DEF admit, overLimit
    <3> QED BY <1>t, <3>2, SendsTyped
  <2>4. raw' = raw
    BY <1>9 DEF admit, overLimit, limitVars
  <2> QED BY <1>t, <1>9, <2>3, <2>4 DEF admit, ReaderStep, closeVars, drainVars, Typed
<1>10. ASSUME NEW c \in Clients, begin(c)
       PROVE  Typed'
  <2>1. raw[c][2] \in Requests
    BY <1>t, <1>10 DEF begin, ReaderAt, ReaderInv
  <2>2. pc' \in [Procs -> Points]
    BY <1>t, <1>10, <2>1 DEF begin, Typed, Points
  <2> QED BY <1>t, <1>10, <2>2 DEF begin, ReaderStep, closeVars, drainVars, Typed
<1>11. ASSUME NEW c \in Clients, CloseRate(c) \/ awaitDrain(c) \/ CloseRead(c)
       PROVE  Typed'
  <2>1. {"overwait", "stop", "await", "close", "end"} \subseteq Points
    BY DEF Points
  <2>2. \E at \in Points : Goes(Reader(c), at)
    BY <1>11, <2>1 DEF CloseRate, awaitDrain, CloseRead
  <2>3. pc' \in [Procs -> Points] /\ op' \in [Procs -> SendPoints] /\ frame' \in [Procs -> Frames]
    BY <1>t, <2>2, SendsTyped
  <2> QED BY <1>t, <1>11, <1>c, <2>3 DEF CloseRate, awaitDrain, CloseRead, ReaderStep, closeVars, drainVars, limitVars, Typed
<1>12. ASSUME NEW r \in Requests, HandlerGoesOn(r)
       PROVE  Typed'
  <2>1. {"free", "done"} \subseteq Points /\ Frame("reply", r) \in Frames
    BY DEF Points, Kinds
  <2>2. \E f \in Frames, at \in Points : Sends(Handler(r), f, at) \/ Goes(Handler(r), at)
    BY <1>12, <2>1 DEF HandlerGoesOn, dispatch, Recover, HandlerEnds
  <2>3. pc' \in [Procs -> Points] /\ op' \in [Procs -> SendPoints] /\ frame' \in [Procs -> Frames]
    BY <1>t, <2>2, SendsTyped
  <2> QED BY <1>t, <1>12, <2>3 DEF HandlerGoesOn, dispatch, Recover, HandlerEnds, HandlerStep, closeVars, drainVars, Typed
<1>13. ASSUME NEW c \in Clients, WriterGoesOn(c)
       PROVE  Typed'
  <2> DEFINE Places == {"select", "flush", "write", "writelast", "wire", "wirelast", "end"}
  <2>w. ASSUME NEW at \in Places, WriterGoes(c, at)
        PROVE  writer' \in [Clients -> [pc : Places, frame : Frames]]
    <3>1. writer[c] \in [pc : Places, frame : Frames] /\ writer \in [Clients -> [pc : Places, frame : Frames]]
      BY <1>t DEF Typed
    <3>2. [writer[c] EXCEPT !.pc = at] \in [pc : Places, frame : Frames]
      BY <3>1
    <3>3. writer' = [writer EXCEPT ![c] = [writer[c] EXCEPT !.pc = at]]
      BY <2>w DEF WriterGoes
    <3> HIDE DEF Places
    <3> QED BY <3>1, <3>2, <3>3
  <2> HIDE DEF Places
  <2>p. Places = {"select", "flush", "write", "writelast", "wire", "wirelast", "end"}
    BY DEF Places
  <2>1. CASE Receive(c)
    <3>1. Head(q[c]) \in Frames /\ Tail(q[c]) \in Seq(Frames)
      BY <1>t, <2>1, SMTT(30) DEF Receive, Typed
    <3> QED BY <1>t, <2>1, <3>1 DEF Receive, WriterStep, closeVars, drainVars, limitVars, procVars, Typed
  <2>2. CASE Drains(c) \/ CloseKick(c) \/ WriterStops(c)
    <3>1. writer' \in [Clients -> [pc : Places, frame : Frames]]
      BY <2>w, <2>p, <2>2 DEF Drains, CloseKick, WriterStops
    <3>2. UNCHANGED <<q, drainVars, raw, procVars, wire, load>> /\ (CloseCalled(c) \/ UNCHANGED closeVars)
      BY <2>2 DEF Drains, CloseKick, WriterStops, WriterStep, queueVars, limitVars
    <3> QED BY <1>t, <1>c, <2>p, <3>1, <3>2 DEF closeVars, drainVars, procVars, Typed
  <2>3. CASE write(c)
    <3>1. writer' \in [Clients -> [pc : Places, frame : Frames]]
      BY <2>w, <2>p, <2>3 DEF write
    <3> QED BY <1>t, <2>p, <2>3, <3>1 DEF write, WriterStep, closeVars, drainVars, limitVars, procVars, Typed
  <2>4. CASE WriteMessage(c)
    <3>1. writer' \in [Clients -> [pc : Places, frame : Frames]]
      BY <2>w, <2>p, <2>4 DEF WriteMessage
    <3>2. wire' \in [Clients -> SUBSET Frames]
      <4>1. writer[c].frame \in Frames /\ wire[c] \cup {writer[c].frame} \in SUBSET Frames
        BY <1>t, SMTT(30) DEF Typed
      <4>2. wire' = wire \/ wire' = [wire EXCEPT ![c] = wire[c] \cup {writer[c].frame}]
        BY <2>4 DEF WriteMessage
      <4>3. PICK X \in SUBSET Frames : wire' = wire \/ wire' = [wire EXCEPT ![c] = X]
        BY <4>1, <4>2
      <4>4. wire \in [Clients -> SUBSET Frames]
        BY <1>t DEF Typed
      <4>5. [wire EXCEPT ![c] = X] \in [Clients -> SUBSET Frames]
        BY <4>3, <4>4, Zenon
      <4> QED BY <4>3, <4>4, <4>5
    <3>3. UNCHANGED <<q, drainVars, raw, procVars, load>> /\ (CloseCalled(c) \/ UNCHANGED closeVars)
      BY <2>4 DEF WriteMessage, WriterStep, queueVars, limitVars
    <3> QED BY <1>t, <1>c, <2>p, <3>1, <3>2, <3>3 DEF closeVars, drainVars, procVars, Typed
  <2> QED BY <1>13, <2>1, <2>2, <2>3, <2>4 DEF WriterGoesOn
<1>14. CASE UNCHANGED vars
  BY <1>t, <1>14 DEF vars, queueVars, closeVars, drainVars, limitVars, procVars, histVars, Typed
<1>15. CASE Arrives
  BY <1>15, <1>1, <1>2, <1>3, <1>4, <1>5 DEF Arrives, Kick, Kickers
<1>16. CASE GoesOn
  <2>1. ASSUME NEW c \in Clients, ReaderGoesOn(c) PROVE Typed'
    BY <2>1, <1>3, <1>4, <1>9, <1>10, <1>11 DEF ReaderGoesOn, KickExpired, Kickers
  <2> QED BY <1>16, <2>1, <1>6, <1>7, <1>8, <1>12, <1>13 DEF GoesOn
<1> QED BY <1>14, <1>15, <1>16 DEF Next

--------------------------------------------------------------------------------
(* What ConnInv(c) depends on, besides the history variables. *)
Parts(c) ==
    <<step[c], sock[c], draining[c], drain[c], raw[c], writer[c], q[c], wire[c],
      pc[Reader(c)], op[Reader(c)], frame[Reader(c)], pc[Kicker(c)], op[Kicker(c)], frame[Kicker(c)]>>

(* A step that touches nothing of a connection keeps its invariant. *)
LEMMA Elsewhere ==
    ASSUME NEW c \in Clients, ConnInv(c), UNCHANGED <<Parts(c), load>>, trouble \subseteq trouble'
    PROVE  ConnInv(c)'
<1>1. ReaderInv(c)'
  BY DEF ConnInv, ReaderInv, Parts
<1>2. DrainInv(c)'
  BY SMTT(30) DEF ConnInv, DrainInv, Kickers, HasKick, Parts
<1>3. FrameInv(c)'
  BY SMTT(30) DEF ConnInv, FrameInv, Kickers, HasKick, InHand, InQueue, Parts
<1> QED BY <1>1, <1>2, <1>3 DEF ConnInv

(* CloseCalled on a connection that met trouble, or whose socket is closed. *)
LEMMA CloseKeeps ==
    ASSUME Typed, NEW c \in Clients, ConnInv(c), CloseCalled(c), c \in trouble' \/ ~sock[c], trouble \subseteq trouble',
           UNCHANGED <<draining[c], drain[c], raw[c], writer[c], q[c], wire[c],
                       pc[Kicker(c)], frame[Reader(c)], frame[Kicker(c)], op[Kicker(c)], op[Reader(c)], load>>,
           \/ pc'[Reader(c)] = pc[Reader(c)]
           \/ op[Reader(c)] = "none" /\ pc'[Reader(c)] \in {"overwait", "end"},
           pc'[Reader(c)] = "overwait" => c \in trouble' \/ pc[Reader(c)] = "overwait"
    PROVE  ConnInv(c)'
<1>0. ~sock'[c] /\ step'[c] # "open"
  BY DEF CloseCalled, Typed
<1>1. ReaderInv(c)'
  BY <1>0 DEF ConnInv, ReaderInv
<1>2. DrainInv(c)'
  BY DEF ConnInv, DrainInv, Kickers, HasKick
<1>3. FrameInv(c)'
  BY <1>0 DEF ConnInv, FrameInv, Kickers, HasKick, InHand, InQueue
<1> QED BY <1>1, <1>2, <1>3 DEF ConnInv

(* A step of the reader that sends or moves on and leaves the rest of the   *)
(* connection alone.                                                        *)
LEMMA ReaderMoves ==
    ASSUME Typed, NEW c \in Clients, ConnInv(c), op[Reader(c)] = "none", NEW at \in Points \ {"flush"},
           Goes(Reader(c), at) \/ \E f \in Frames : f[1] # "kick" /\ Sends(Reader(c), f, at),
           UNCHANGED <<step, sock, draining, drain, writer, q, wire, load>>,
           trouble \subseteq trouble',
           at \in {"begin", "admit"} => raw'[c] \in {"request"} \X Requests /\ raw'[c][2] \in load /\ To[raw'[c][2]] = c,
           at = "stop" => c \in trouble' \/ ~sock[c] \/ draining[c],
           at \in {"close", "end"} => c \in trouble' \/ ~sock[c],
           at = "overwait" => c \in trouble'
    PROVE  ConnInv(c)'
<1> USE ProcFacts
<1>1. /\ pc'[Reader(c)] = at /\ pc'[Kicker(c)] = pc[Kicker(c)]
      /\ op'[Kicker(c)] = op[Kicker(c)] /\ frame'[Kicker(c)] = frame[Kicker(c)]
  BY SMTT(30) DEF Goes, Sends, Typed
<1>2. \/ op'[Reader(c)] = "none" /\ frame'[Reader(c)] = frame[Reader(c)]
      \/ op'[Reader(c)] = "enqueue" /\ frame'[Reader(c)][1] # "kick"
  BY SMTT(30) DEF Goes, Sends, Typed
<1>3. ReaderInv(c)'
  BY <1>1 DEF ConnInv, ReaderInv
<1>4. DrainInv(c)'
  BY <1>1, <1>2, SMTT(30) DEF ConnInv, DrainInv, Kickers, HasKick
<1>5. FrameInv(c)'
  BY <1>1, <1>2, SMTT(30) DEF ConnInv, FrameInv, Kickers, HasKick, InHand, InQueue
<1> QED BY <1>3, <1>4, <1>5 DEF ConnInv

(* The reader's own steps, for its connection and for the others. *)
LEMMA ReaderKeeps ==
    ASSUME KickInv, NEW c \in Clients, NEW d \in Clients,
           \/ \E r \in Requests : ReadMessage(d, r)
           \/ ReadFails(d) \/ admit(d) \/ begin(d) \/ awaitDrain(d)
    PROVE  ConnInv(c)'
<1>t. Typed /\ ConnInv(c) /\ ConnInv(d)
  BY DEF KickInv
<1> USE ProcFacts, FrameFacts
<1>r. pc[Reader(d)] \in {"admit", "begin"} => raw[d][2] \in Requests /\ raw[d][2] \in load /\ To[raw[d][2]] = d
  BY <1>t DEF ConnInv, ReaderInv
<1>s. CtxDone(d) => ~sock[d]
  BY <1>t DEF ConnInv, ReaderInv, CtxDone
<1>u. UNCHANGED <<step, sock, draining, drain, writer, q, wire, load>> /\ trouble \subseteq trouble' /\ op[Reader(d)] = "none"
  BY DEF ReadMessage, ReadFails, admit, begin, awaitDrain, ReaderAt, ReaderStep, closeVars, drainVars
<1>1. CASE c # d
  <2>1. UNCHANGED <<pc[Reader(c)], op[Reader(c)], frame[Reader(c)], pc[Kicker(c)], op[Kicker(c)], frame[Kicker(c)], raw[c]>>
    <3>1. CASE begin(d)
      <4>1. UNCHANGED <<op, frame, raw>>
        BY <3>1 DEF begin
      <4>2. \E at : \/ pc' = [pc EXCEPT ![Reader(d)] = at]
                    \/ pc' = [pc EXCEPT ![Reader(d)] = at, ![Handler(raw[d][2])] = "run"]
        BY <3>1 DEF begin
      <4>3. pc'[Reader(c)] = pc[Reader(c)] /\ pc'[Kicker(c)] = pc[Kicker(c)]
        BY <1>t, <1>1, <4>2, SMTT(30) DEF Typed
      <4> QED BY <4>1, <4>3
    <3>2. ASSUME NEW at, NEW f, Goes(Reader(d), at) \/ Sends(Reader(d), f, at)
          PROVE  UNCHANGED <<pc[Reader(c)], op[Reader(c)], frame[Reader(c)], pc[Kicker(c)], op[Kicker(c)], frame[Kicker(c)]>>
      BY <1>t, <1>1, <3>2, SMTT(30) DEF Goes, Sends, Typed
    <3>3. CASE \E r \in Requests : ReadMessage(d, r)
      <4>0. PICK r \in Requests : ReadMessage(d, r)
        BY <3>3
      <4>1. raw' = [raw EXCEPT ![d] = Frame("request", r)] /\ Goes(Reader(d), "admit")
        BY <4>0 DEF ReadMessage
      <4>2. raw'[c] = raw[c]
        BY <1>t, <1>1, <4>1 DEF Typed
      <4>3. UNCHANGED <<pc[Reader(c)], op[Reader(c)], frame[Reader(c)], pc[Kicker(c)], op[Kicker(c)], frame[Kicker(c)]>>
        BY <3>2, <4>1
      <4> QED BY <4>2, <4>3
    <3>4. CASE ReadFails(d) \/ awaitDrain(d)
      BY <1>t, <1>1, <3>2, <3>4 DEF ReadFails, awaitDrain, limitVars
    <3>5. CASE admit(d)
      BY <1>t, <1>1, <3>2, <3>5 DEF admit, overLimit, limitVars
    <3> QED BY <3>1, <3>3, <3>4, <3>5
  <2> QED BY <1>t, <1>u, <2>1, Elsewhere DEF Parts
<1>2. CASE c = d /\ \E r \in Requests : ReadMessage(c, r)
  <2>1. PICK r \in Requests : ReadMessage(c, r)
    BY <1>2
  <2>2. raw'[c] = Frame("request", r) /\ r \in load /\ To[r] = c /\ Frame("request", r) \in {"request"} \X Requests
    BY <1>t, <2>1 DEF ReadMessage, Typed, Frame
  <2>3. "admit" \in Points \ {"flush"}
    BY DEF Points
  <2> QED BY <1>t, <1>u, <1>2, <2>1, <2>2, <2>3, ReaderMoves, SMTT(30) DEF ReadMessage
<1>3. CASE c = d /\ ReadFails(c)
  <2>1. "stop" \in Points \ {"flush"}
    BY DEF Points
  <2>2. c \in trouble' \/ ~sock[c]
    BY <1>3 DEF ReadFails
  <2> QED BY <1>t, <1>u, <1>3, <2>1, <2>2, ReaderMoves DEF ReadFails
<1>4. CASE c = d /\ awaitDrain(c)
  <2>1. {"stop", "await", "close"} \subseteq Points \ {"flush"}
    BY DEF Points
  <2>2. Closed(c) => ~sock[c]
    BY <1>t DEF ConnInv, ReaderInv, Closed
  <2>3. CASE ReaderAt(c, "overwait") /\ Goes(Reader(c), "stop")
    BY <1>t, <1>u, <1>4, <2>1, <2>3, ReaderMoves DEF ReaderAt, ConnInv, ReaderInv
  <2>4. CASE ReaderAt(c, "stop") /\ Goes(Reader(c), IF Awaits(c) THEN "await" ELSE "close")
    BY <1>t, <1>u, <1>4, <2>1, <2>4, ReaderMoves DEF ReaderAt, Awaits, ConnInv, ReaderInv
  <2>5. CASE Closed(c) /\ Goes(Reader(c), "close")
    BY <1>t, <1>u, <1>4, <2>1, <2>2, <2>5, ReaderMoves
  <2> QED BY <1>4, <2>3, <2>4, <2>5 DEF awaitDrain
<1>5. CASE c = d /\ admit(c)
  <2>1. {"stop", "read", "over", "kick", "begin"} \subseteq Points \ {"flush"}
    BY DEF Points
  <2>2. raw' = raw /\ pc[Reader(c)] = "admit"
    BY <1>5 DEF admit, ReaderAt, overLimit, limitVars
  <2>3. /\ Frame("limited", raw[c][2]) \in Frames /\ Frame("limited", raw[c][2])[1] # "kick"
        /\ Frame("reply", raw[c][2]) \in Frames /\ Frame("reply", raw[c][2])[1] # "kick"
    BY <1>r, <1>5, <2>2, SMTT(30) DEF Kinds
  <2>4. CASE (draining[c] \/ CtxDone(c)) /\ Goes(Reader(c), "stop")
    BY <1>t, <1>u, <1>s, <1>5, <2>1, <2>4, ReaderMoves
  <2>5. CASE \E f \in {Frame("limited", raw[c][2]), Frame("reply", raw[c][2])}, at \in {"read", "over", "kick"} :
                Sends(Reader(c), f, at)
    BY <1>t, <1>u, <1>5, <2>1, <2>3, <2>5, ReaderMoves, SMTT(30)
  <2>6. CASE Goes(Reader(c), "begin")
    <3>1. raw'[c] \in {"request"} \X Requests /\ raw'[c][2] \in load /\ To[raw'[c][2]] = c
      BY <1>t, <2>2 DEF ConnInv, ReaderInv
    <3> QED BY <1>t, <1>u, <1>5, <2>1, <2>6, <3>1, ReaderMoves
  <2> QED BY <1>5, <2>4, <2>5, <2>6 DEF admit, overLimit
<1>6. CASE c = d /\ begin(c)
  <2>1. MayBeSealed => draining[c] \/ ~sock[c]
    BY <1>r, <1>s, <1>6, ClientQueueAssumption DEF begin, ReaderAt, MayBeSealed, Connected
  <2>2. /\ pc'[Reader(c)] = "read" \/ (pc'[Reader(c)] = "stop" /\ (draining[c] \/ ~sock[c]))
        /\ pc'[Kicker(c)] = pc[Kicker(c)] /\ UNCHANGED <<op, frame, raw>>
    BY <1>t, <1>r, <1>6, <2>1, SMTT(30) DEF begin, ReaderAt, Typed
  <2>3. ReaderInv(c)'
    BY <1>t, <1>u, <2>2 DEF ConnInv, ReaderInv
  <2>4. DrainInv(c)'
    BY <1>t, <1>u, <1>6, <2>2, SMTT(30) DEF ConnInv, DrainInv, Kickers, HasKick
  <2>5. FrameInv(c)'
    BY <1>t, <1>u, <2>2 DEF ConnInv, FrameInv, Kickers, HasKick, InHand, InQueue
  <2> QED BY <2>3, <2>4, <2>5 DEF ConnInv
<1> QED BY <1>1, <1>2, <1>3, <1>4, <1>5, <1>6

(* Closing, timers and arrivals that send nothing. *)
LEMMA CloseStepKeeps ==
    ASSUME KickInv, NEW c \in Clients, NEW d \in Clients,
           close(d) \/ DrainTimer(d) \/ Expires(d) \/ CloseRate(d) \/ CloseRead(d)
    PROVE  ConnInv(c)'
<1>t. Typed /\ ConnInv(c) /\ ConnInv(d)
  BY DEF KickInv
<1> USE ProcFacts
<1>1. CASE close(d)
  <2>1. UNCHANGED <<q, sock, drainVars, limitVars, writer, procVars, histVars>>
    BY <1>1 DEF close, queueVars
  <2>2. step'[c] = "open" <=> step[c] = "open"
    BY <1>t, <1>1 DEF close, CloseStep, Typed
  <2>3. ReaderInv(c)'
    BY <1>t, <2>1, <2>2 DEF ConnInv, ReaderInv, limitVars, procVars, drainVars, histVars
  <2>4. DrainInv(c)'
    BY <1>t, <2>1 DEF ConnInv, DrainInv, Kickers, HasKick, procVars, drainVars
  <2>5. FrameInv(c)'
    BY <1>t, <2>1 DEF ConnInv, FrameInv, Kickers, HasKick, InHand, InQueue, procVars, drainVars, histVars
  <2> QED BY <2>3, <2>4, <2>5 DEF ConnInv
<1>2. CASE Expires(d)
  BY <1>t, <1>2, Elsewhere DEF Expires, Parts, queueVars, closeVars, limitVars, procVars
<1>3. CASE DrainTimer(d) \/ CloseRate(d) \/ CloseRead(d)
  <2>1. /\ CloseCalled(d) /\ trouble \subseteq trouble' /\ UNCHANGED <<draining, drain, raw, writer, q, wire, load, op, frame>>
        /\ \/ pc' = pc
           \/ op[Reader(d)] = "none" /\ pc' = [pc EXCEPT ![Reader(d)] = "overwait"] /\ d \in trouble'
           \/ op[Reader(d)] = "none" /\ pc' = [pc EXCEPT ![Reader(d)] = "end"]
    BY <1>3 DEF DrainTimer, CloseRate, CloseRead, ReaderAt, ReaderStep, Goes, queueVars, drainVars, limitVars, procVars
  <2>2. d \in trouble' \/ ~sock[d]
    BY <1>t, <1>3 DEF DrainTimer, CloseRate, CloseRead, ReaderAt, ConnInv, ReaderInv
  <2>3. CASE c = d
    <3>1. /\ pc'[Kicker(c)] = pc[Kicker(c)]
          /\ \/ pc'[Reader(c)] = pc[Reader(c)]
             \/ op[Reader(c)] = "none" /\ pc'[Reader(c)] = "overwait" /\ c \in trouble'
             \/ op[Reader(c)] = "none" /\ pc'[Reader(c)] = "end"
      BY <1>t, <2>1, <2>3, SMTT(30) DEF Typed
    <3> QED BY <1>t, <2>1, <2>2, <2>3, <3>1, CloseKeeps
  <2>4. CASE c # d
    <3>1. UNCHANGED <<step[c], sock[c], pc[Reader(c)], pc[Kicker(c)]>>
      BY <1>t, <2>1, <2>4, SMTT(30) DEF CloseCalled, Typed
    <3> QED BY <1>t, <2>1, <3>1, Elsewhere DEF Parts
  <2> QED BY <2>3, <2>4
<1> QED BY <1>1, <1>2, <1>3

(* Steps of the processes that never kick. *)
LEMMA OthersKeep ==
    ASSUME KickInv, NEW c \in Clients,
           (\E p \in Pushes : Push(p)) \/ (\E r \in Requests : HandlerGoesOn(r))
    PROVE  ConnInv(c)'
<1>t. Typed /\ ConnInv(c)
  BY DEF KickInv
<1> USE ProcFacts
<1>1. CASE \E p \in Pushes : Push(p)
  <2>1. PICK p \in Pushes : Push(p)
    BY <1>1
  <2>2. UNCHANGED <<pc[Reader(c)], op[Reader(c)], frame[Reader(c)], pc[Kicker(c)], op[Kicker(c)], frame[Kicker(c)]>>
    <3>1. \A o \in Procs \ {Pusher(p)} : pc'[o] = pc[o] /\ op'[o] = op[o] /\ frame'[o] = frame[o]
      BY <1>t, <2>1 DEF Push, Typed
    <3>2. Reader(c) \in Procs \ {Pusher(p)} /\ Kicker(c) \in Procs \ {Pusher(p)}
      OBVIOUS
    <3> QED BY <3>1, <3>2
  <2>3. UNCHANGED <<q, closeVars, drainVars, raw, writer, wire, load, trouble>>
    BY <2>1 DEF Push, queueVars, limitVars, histVars
  <2> QED BY <1>t, <2>2, <2>3, Elsewhere DEF Parts, closeVars, drainVars
<1>2. CASE \E r \in Requests : HandlerGoesOn(r)
  <2>1. PICK r \in Requests : HandlerGoesOn(r)
    BY <1>2
  <2>2. \E f, at : Sends(Handler(r), f, at) \/ Goes(Handler(r), at)
    BY <2>1 DEF HandlerGoesOn, dispatch, Recover, HandlerEnds
  <2>3. UNCHANGED <<pc[Reader(c)], op[Reader(c)], frame[Reader(c)], pc[Kicker(c)], op[Kicker(c)], frame[Kicker(c)]>>
    BY <1>t, <2>2, SMTT(30) DEF Sends, Goes, Typed
  <2>4. UNCHANGED <<closeVars, drainVars, raw, writer, q, wire, load, trouble>>
    BY <2>1 DEF HandlerGoesOn, dispatch, Recover, HandlerEnds, HandlerStep
  <2> QED BY <1>t, <2>3, <2>4, Elsewhere DEF Parts, closeVars, drainVars
<1> QED BY <1>1, <1>2

(* A drain begins once, and closes the channel after its Send. *)
LEMMA DrainKeeps ==
    ASSUME KickInv, NEW c \in Clients, NEW d \in Clients, NEW p \in Kickers(d),
           \/ pc[p] \in {"idle", "kick"} /\ \E last \in BOOLEAN : beginDrain(p, last)
           \/ finishDrain(p)
    PROVE  ConnInv(c)'
<1>t. Typed /\ ConnInv(c)
  BY DEF KickInv
<1> USE ProcFacts, FrameFacts
<1>p. p \in Procs /\ ClientOf(p) = d /\ After(p) # "flush" /\ (p = Reader(d) => After(p) = "read")
  <2>1. p \in Procs /\ ClientOf(p) = d
    BY DEF Kickers
  <2>2. After(p) # "flush" /\ (Reader(d)[1] = "reader")
    BY DEF After, Reader
  <2> QED BY <2>1, <2>2 DEF After
<1>u. UNCHANGED <<q, closeVars, raw, writer, wire, load, trouble>>
  BY DEF beginDrain, finishDrain, KickStep, limitVars, histVars
<1>m. \E at : \/ pc' = [pc EXCEPT ![p] = at] /\ UNCHANGED <<op, frame>>
              \/ \E f : pc' = [pc EXCEPT ![p] = at] /\ op' = [op EXCEPT ![p] = "enqueue"] /\ frame' = [frame EXCEPT ![p] = f]
  BY SMTT(30) DEF beginDrain, finishDrain, Sends, Goes
<1>1. CASE c # d
  <2>1. Reader(c) # p /\ Kicker(c) # p
    BY <1>p, <1>1
  <2>2. UNCHANGED <<pc[Reader(c)], op[Reader(c)], frame[Reader(c)], pc[Kicker(c)], op[Kicker(c)], frame[Kicker(c)]>>
    BY <1>t, <1>p, <1>m, <2>1, SMTT(30) DEF Typed
  <2>3. UNCHANGED <<draining[c], drain[c]>>
    BY <1>t, <1>p, <1>1 DEF beginDrain, finishDrain, Typed
  <2> QED BY <1>t, <1>u, <2>2, <2>3, Elsewhere DEF Parts, closeVars
<1>2. ASSUME c = d, pc[p] \in {"idle", "kick"}, NEW last \in BOOLEAN, beginDrain(p, last)
      PROVE  ConnInv(c)'
  <2>1. CASE CtxDone(c) \/ draining[c]
    <3>1. Goes(p, After(p)) /\ UNCHANGED <<draining, drain>>
      BY <1>p, <1>2, <2>1 DEF beginDrain
    <3>2. UNCHANGED <<op, frame>> /\ pc'[p] = After(p) /\ \A o \in Procs \ {p} : pc'[o] = pc[o]
      BY <1>t, <1>p, <3>1 DEF Goes, Typed
    <3>3. ReaderInv(c)'
      BY <1>t, <1>u, <1>p, <1>2, <3>1, <3>2 DEF ConnInv, ReaderInv, closeVars, Kickers
    <3>4. DrainInv(c)'
      BY <1>t, <1>u, <1>p, <1>2, <3>1, <3>2, SMTT(30) DEF ConnInv, DrainInv, Kickers, HasKick
    <3>5. FrameInv(c)'
      BY <1>t, <1>u, <3>1, <3>2 DEF ConnInv, FrameInv, Kickers, HasKick, InHand, InQueue, closeVars
    <3> QED BY <3>3, <3>4, <3>5 DEF ConnInv
  <2>2. CASE ~(CtxDone(c) \/ draining[c])
    <3>1. /\ draining'[c] /\ drain' = drain /\ ~draining[c] /\ ~drain[c]
          /\ \A o \in Kickers(c) : ~HasKick(o) /\ pc[o] # "flush"
      BY <1>t, <1>p, <1>2, <2>2 DEF beginDrain, Typed, ConnInv, DrainInv
    <3>2. /\ pc'[p] = "flush" /\ \A o \in Procs \ {p} : pc'[o] = pc[o] /\ op'[o] = op[o] /\ frame'[o] = frame[o]
          /\ \/ op'[p] = op[p] /\ frame'[p] = frame[p]
             \/ op'[p] = "enqueue" /\ frame'[p] = KickFrame(c)
      BY <1>t, <1>p, <1>2, <2>2, SMTT(30) DEF beginDrain, Sends, Goes, Typed, KickFrame
    <3>k. KickFrame(c)[1] = "kick"
      BY DEF KickFrame
    <3>s. c \notin trouble => sock[c]
      BY <1>t, <3>1 DEF ConnInv, FrameInv
    <3>w. c \notin trouble => \A o \in Kickers(c) : op[o] # "wait"
      BY <1>t DEF ConnInv, FrameInv
    <3>3. ReaderInv(c)'
      BY <1>t, <1>u, <1>p, <1>2, <3>1, <3>2 DEF ConnInv, ReaderInv, closeVars, Kickers
    <3>4. DrainInv(c)'
      <4>1. \A o \in Kickers(c) : /\ HasKick(o)' => o = p /\ frame'[o] = KickFrame(c)
                                  /\ pc'[o] = "flush" => o = p
        BY <1>p, <3>1, <3>2, SMTT(30) DEF HasKick, Kickers
      <4>2. Kickers(c)' = Kickers(c) /\ KickFrame(c)' = KickFrame(c) /\ writer' = writer
        BY <1>u DEF Kickers, KickFrame
      <4>3. ~(pc'[Reader(c)] = "flush" /\ pc'[Kicker(c)] = "flush")
        BY <4>1 DEF Kickers
      <4> QED BY <1>t, <3>1, <3>2, <4>1, <4>2, <4>3 DEF ConnInv, DrainInv
    <3>5. FrameInv(c)'
      <4>1. \A o \in Kickers(c) : HasKick(o)' => op'[o] # "none"
        BY <1>p, <3>1, <3>2, SMTT(30) DEF HasKick, Kickers
      <4>2. c \notin trouble' => sock'[c] /\ \A o \in Kickers(c) : op'[o] # "wait"
        BY <1>u, <1>p, <1>2, <3>s, <3>w, <3>2, SMTT(30) DEF closeVars, Kickers
      <4> QED BY <4>1, <4>2 DEF FrameInv, Kickers
    <3> QED BY <3>3, <3>4, <3>5 DEF ConnInv
  <2> QED BY <2>1, <2>2
<1>3. CASE c = d /\ finishDrain(p)
  <2>1. /\ drain'[c] /\ draining' = draining /\ UNCHANGED <<op, frame>> /\ op[p] = "none" /\ pc[p] = "flush"
        /\ pc'[p] = After(p) /\ \A o \in Procs \ {p} : pc'[o] = pc[o]
    BY <1>t, <1>p, <1>3 DEF finishDrain, Goes, Typed
  <2>2. draining[c] /\ ~drain[c] /\ \A o \in Kickers(c) : o # p => pc[o] # "flush"
    BY <1>t, <1>3, <2>1 DEF ConnInv, DrainInv, Kickers
  <2>3. ReaderInv(c)'
    BY <1>t, <1>u, <1>p, <1>3, <2>1 DEF ConnInv, ReaderInv, closeVars, Kickers
  <2>4. DrainInv(c)'
    BY <1>t, <1>u, <1>p, <1>3, <2>1, <2>2, SMTT(30) DEF ConnInv, DrainInv, Kickers, HasKick
  <2>5. FrameInv(c)'
    BY <1>t, <1>u, <2>1, <2>2 DEF ConnInv, FrameInv, Kickers, HasKick, InHand, InQueue, closeVars
  <2> QED BY <2>3, <2>4, <2>5 DEF ConnInv
<1> QED BY <1>1, <1>2, <1>3

(* A Send goes on; when it is over its kick frame, if it has one, is where  *)
(* the writer will find it.                                                 *)
LEMMA SendGoesOn ==
    ASSUME Typed, NEW c \in Clients, ConnInv(c), NEW p \in Procs,
           UNCHANGED <<pc, draining, drain, raw, writer, load, wire, step, sock, trouble>>,
           \A o \in Procs \ {p} : op'[o] = op[o] /\ frame'[o] = frame[o],
           frame'[p] = frame[p] \/ frame'[p][1] # "kick",
           op[p] # "none", c \notin trouble /\ p \in Kickers(c) => op'[p] # "wait",
           InQueue(c) => InQueue(c)',
           c \notin trouble /\ p \in Kickers(c) /\ HasKick(p)' /\ op'[p] = "none" => InQueue(c)' \/ KickFrame(c) \in wire[c]
    PROVE  ConnInv(c)'
<1> USE ProcFacts
<1>k. Kickers(c) \subseteq Procs /\ Kickers(c)' = Kickers(c) /\ KickFrame(c)' = KickFrame(c)
  BY DEF Kickers, KickFrame
<1>h. \A o \in Kickers(c) : HasKick(o)' => HasKick(o) /\ frame'[o] = frame[o]
  BY <1>k DEF HasKick
<1>1. ReaderInv(c)'
  BY DEF ConnInv, ReaderInv
<1>2. DrainInv(c)'
  <2>1. \A o \in Kickers(c) : /\ HasKick(o)' => frame'[o] = KickFrame(c) /\ draining[c]
                              /\ HasKick(o)' /\ op'[o] # "none" => pc[o] = "flush"
    BY <1>k, <1>h DEF ConnInv, DrainInv
  <2> QED BY <1>k, <2>1 DEF ConnInv, DrainInv
<1>3. FrameInv(c)'
  <2> SUFFICES ASSUME c \notin trouble
               PROVE  /\ \A o \in Kickers(c) : op'[o] # "wait"
                      /\ \A o \in Kickers(c) : HasKick(o)' =>
                            op'[o] # "none" \/ InQueue(c)' \/ InHand(c)' \/ KickFrame(c) \in wire'[c]
                      /\ ~sock'[c] =>
                            /\ writer'[c].pc = "end" /\ drain'[c]
                            /\ \A o \in Kickers(c) : HasKick(o)' => KickFrame(c) \in wire'[c]
    BY <1>k DEF FrameInv
  <2>1. InHand(c)' <=> InHand(c)
    BY DEF InHand, KickFrame
  <2> QED BY <1>k, <1>h, <2>1 DEF ConnInv, FrameInv
<1> QED BY <1>1, <1>2, <1>3 DEF ConnInv

(* Every step of a Send of any process keeps every connection's part. *)
LEMMA SendKeeps ==
    ASSUME KickInv, NEW c \in Clients, NEW p \in Procs, SendStep(p)
    PROVE  ConnInv(c)'
<1>t. Typed /\ ConnInv(c)
  BY DEF KickInv
<1> USE ProcFacts, FrameFacts
<1> DEFINE d == ClientOf(p)
<1>k. Kickers(c) \subseteq Procs /\ \A o \in Kickers(c) : ClientOf(o) = c
  BY DEF Kickers
<1>u. UNCHANGED <<pc, draining, drain, raw, writer, load, wire>>
  BY DEF SendStep, tryTake, resync, queueFrame, CloseSlow, Returns, OpStep, drainVars, limitVars
<1>o. \A o \in Procs \ {p} : op'[o] = op[o] /\ frame'[o] = frame[o]
  <2>1. \E x : op' = [op EXCEPT ![p] = x]
    BY DEF SendStep, tryTake, resync, queueFrame, CloseSlow, Returns, OpStep
  <2>2. frame' = frame \/ \E f : frame' = [frame EXCEPT ![p] = f]
    BY DEF SendStep, tryTake, resync, queueFrame, CloseSlow, Returns
  <2> QED BY <1>t, <2>1, <2>2, SMTT(30) DEF Typed
<1>1. CASE c # d
  <2>1. p \notin Kickers(c)
    BY <1>k, <1>1
  <2>2. UNCHANGED <<q[c], step[c], sock[c]>> /\ trouble \subseteq trouble'
    <3>1. CASE tryTake(p) \/ resync(p) \/ Returns(p)
      BY <3>1 DEF tryTake, resync, Returns, queueVars, closeVars
    <3>2. CASE queueFrame(p)
      BY <1>t, <1>1, <3>2 DEF queueFrame, closeVars, Typed
    <3>3. CASE CloseSlow(p)
      BY <1>t, <1>1, <3>3 DEF CloseSlow, CloseCalled, queueVars, Typed
    <3> QED BY <3>1, <3>2, <3>3 DEF SendStep
  <2>3. UNCHANGED <<op[Reader(c)], frame[Reader(c)], op[Kicker(c)], frame[Kicker(c)]>>
    BY <1>o, <1>k, <2>1 DEF Kickers
  <2> QED BY <1>t, <1>u, <2>2, <2>3, Elsewhere DEF Parts
<1>2. CASE c = d /\ (tryTake(p) \/ resync(p) \/ Returns(p))
  <2>1. UNCHANGED <<q, step, sock, trouble>>
    BY <1>2 DEF tryTake, resync, Returns, queueVars, closeVars
  <2>2. frame'[p] = frame[p] \/ frame'[p][1] # "kick"
    BY <1>t, <1>2, SMTT(30) DEF tryTake, resync, Returns, Typed
  <2>3. op[p] # "none" /\ op'[p] # "wait" /\ (op'[p] = "none" => op[p] = "wait")
    BY <1>t, <1>2 DEF tryTake, resync, Returns, OpStep, Typed
  <2>4. c \notin trouble /\ p \in Kickers(c) => op[p] # "wait"
    BY <1>t DEF ConnInv, FrameInv
  <2>5. InQueue(c)' <=> InQueue(c)
    BY <2>1 DEF InQueue, KickFrame
  <2> QED BY <1>t, <1>u, <1>o, <2>1, <2>2, <2>3, <2>4, <2>5, SendGoesOn
<1>3. CASE c = d /\ queueFrame(p)
  <2>1. UNCHANGED <<frame, step, sock, trouble>> /\ op[p] = "enqueue" /\ op'[p] \in {"none", "slow"}
    BY <1>t, <1>3, SMTT(30) DEF queueFrame, OpStep, closeVars, Typed
  <2>2. \/ q'[c] = q[c] /\ (Closing(c) \/ op'[p] = "slow")
        \/ q'[c] = Append(q[c], frame[p])
    BY <1>t, <1>3, SMTT(30) DEF queueFrame, OpStep, Typed
  <2>3. q[c] \in Seq(Frames) /\ frame[p] \in Frames
    BY <1>t DEF Typed
  <2>4. ASSUME q'[c] = Append(q[c], frame[p])
        PROVE  (InQueue(c) => InQueue(c)') /\ (frame[p] = KickFrame(c) => InQueue(c)')
    <3>1. /\ DOMAIN q'[c] = 1 .. (Len(q[c]) + 1) /\ DOMAIN q[c] = 1 .. Len(q[c]) /\ Len(q[c]) \in Nat
          /\ q'[c][Len(q[c]) + 1] = frame[p] /\ \A i \in 1 .. Len(q[c]) : q'[c][i] = q[c][i]
      BY <2>3, <2>4, SMTT(30)
    <3> QED BY <3>1, SMTT(30) DEF InQueue, KickFrame
  <2>5. p \in Kickers(c) /\ HasKick(p) => frame[p] = KickFrame(c)
    BY <1>t DEF ConnInv, DrainInv
  <2>6. c \notin trouble /\ Closing(c) /\ p \in Kickers(c) /\ HasKick(p) => KickFrame(c) \in wire[c]
    BY <1>t DEF ConnInv, FrameInv, ReaderInv, Closing
  <2>7. HasKick(p)' <=> HasKick(p)
    BY <2>1 DEF HasKick
  <2>8. q'[c] = q[c] => (InQueue(c)' <=> InQueue(c))
    BY DEF InQueue, KickFrame
  <2> QED BY <1>t, <1>u, <1>o, <2>1, <2>2, <2>4, <2>5, <2>6, <2>7, <2>8, SendGoesOn
<1>4. CASE c = d /\ CloseSlow(p)
  <2>1. c \in trouble' /\ ~sock'[c] /\ step'[c] # "open" /\ UNCHANGED frame /\ op[p] = "slow"
    BY <1>t, <1>4 DEF CloseSlow, CloseCalled, OpStep, Typed
  <2>2. trouble \subseteq trouble'
    BY <1>4 DEF CloseSlow
  <2>3. ReaderInv(c)'
    BY <1>t, <1>u, <2>1, <2>2 DEF ConnInv, ReaderInv
  <2>4. DrainInv(c)'
    <3>1. \A o \in Kickers(c) : op'[o] # "none" => op[o] # "none"
      BY <1>k, <1>o, <2>1
    <3> QED BY <1>t, <1>u, <2>1, <3>1 DEF ConnInv, DrainInv, Kickers, HasKick
  <2>5. FrameInv(c)'
    BY <2>1 DEF FrameInv
  <2> QED BY <2>3, <2>4, <2>5 DEF ConnInv
<1> QED BY <1>1, <1>2, <1>3, <1>4 DEF SendStep

(* The writer of connection c went to `at`, and c is open or in trouble;    *)
(* the last frame is still on its way, or written.                          *)
LEMMA WriterMoves ==
    ASSUME Typed, NEW c \in Clients, ConnInv(c), UNCHANGED <<procVars, draining, drain, raw, load>>,
           trouble \subseteq trouble', writer[c].pc # "end",
           writer'[c].pc \in {"flush", "writelast", "wirelast"} => drain[c],
           UNCHANGED <<step, sock>> \/ (~sock'[c] /\ step'[c] # "open" /\ c \in trouble'),
           c \notin trouble' /\ (InQueue(c) \/ InHand(c) \/ KickFrame(c) \in wire[c]) =>
              InQueue(c)' \/ InHand(c)' \/ KickFrame(c) \in wire'[c]
    PROVE  ConnInv(c)'
<1>k. Kickers(c)' = Kickers(c) /\ KickFrame(c)' = KickFrame(c)
  BY DEF Kickers, KickFrame
<1>h. \A o \in Kickers(c) : HasKick(o)' <=> HasKick(o)
  BY DEF HasKick, procVars
<1>1. ReaderInv(c)'
  BY DEF ConnInv, ReaderInv, procVars
<1>2. DrainInv(c)'
  BY <1>k, <1>h DEF ConnInv, DrainInv, procVars
<1>3. FrameInv(c)'
  <2>1. c \notin trouble => sock[c]
    BY DEF ConnInv, FrameInv
  <2> QED BY <1>k, <1>h, <2>1 DEF ConnInv, FrameInv, procVars
<1> QED BY <1>1, <1>2, <1>3 DEF ConnInv

(* Every step of a writer keeps every connection's part. *)
LEMMA WriterKeeps ==
    ASSUME KickInv, NEW c \in Clients, NEW d \in Clients, WriterGoesOn(d)
    PROVE  ConnInv(c)'
<1>t. Typed /\ ConnInv(c)
  BY DEF KickInv
<1>u. UNCHANGED <<procVars, draining, drain, raw, load>> /\ trouble \subseteq trouble'
  BY DEF WriterGoesOn, Receive, Drains, CloseKick, write, WriteMessage, WriterStops, WriteError, WriterStep, drainVars, limitVars
<1>1. CASE c # d
  <2>1. UNCHANGED <<q[c], wire[c], writer[c], step[c], sock[c]>>
    <3>1. CASE Receive(d)
      BY <1>t, <1>1, <3>1 DEF Receive, Typed, closeVars
    <3>2. CASE Drains(d) \/ CloseKick(d) \/ WriterStops(d)
      BY <1>t, <1>1, <3>2 DEF Drains, CloseKick, WriterStops, WriterGoes, CloseCalled, Typed, closeVars, queueVars
    <3>3. CASE write(d)
      BY <1>t, <1>1, <3>3 DEF write, WriterGoes, Typed, closeVars
    <3>4. CASE WriteMessage(d)
      BY <1>t, <1>1, <3>4 DEF WriteMessage, WriterGoes, CloseCalled, Typed, closeVars, queueVars
    <3> QED BY <3>1, <3>2, <3>3, <3>4 DEF WriterGoesOn
  <2> QED BY <1>t, <1>u, <2>1, Elsewhere DEF Parts, procVars
<1>2. CASE c = d /\ Receive(c)
  <2>1. /\ writer[c].pc \in {"select", "flush"} /\ q[c] # <<>> /\ q'[c] = Tail(q[c])
        /\ writer'[c] = [pc |-> IF writer[c].pc = "select" THEN "write" ELSE "writelast", frame |-> Head(q[c])]
        /\ UNCHANGED <<step, sock, wire>>
    BY <1>t, <1>2 DEF Receive, Typed, closeVars
  <2>2. writer'[c].pc = (IF writer[c].pc = "select" THEN "write" ELSE "writelast") /\ writer'[c].frame = Head(q[c])
    BY <2>1, SMTT(30)
  <2>3. InQueue(c) => InQueue(c)' \/ InHand(c)'
    <3> SUFFICES ASSUME NEW i \in DOMAIN q[c], q[c][i] = KickFrame(c) PROVE InQueue(c)' \/ InHand(c)'
      BY DEF InQueue
    <3>1. q[c] \in Seq(Frames)
      BY <1>t DEF Typed
    <3>2. CASE i = 1
      <4>1. writer'[c].frame = KickFrame(c)
        BY <2>2, <3>1, <3>2, SMTT(30)
      <4> QED BY <2>2, <4>1 DEF InHand, KickFrame
    <3>3. CASE i # 1
      <4>1. i - 1 \in DOMAIN q'[c] /\ q'[c][i - 1] = KickFrame(c)
        BY <2>1, <3>1, <3>3, SMTT(30)
      <4> QED BY <4>1 DEF InQueue, KickFrame
    <3> QED BY <3>2, <3>3
  <2>4. ~InHand(c) /\ (writer[c].pc = "flush" => drain[c])
    BY <1>t, <2>1 DEF InHand, ConnInv, DrainInv
  <2> QED BY <1>t, <1>u, <2>1, <2>2, <2>3, <2>4, WriterMoves
<1>3. CASE c = d /\ Drains(c)
  <2>1. /\ writer[c].pc = "select" /\ drain[c] /\ writer'[c].pc = "flush" /\ UNCHANGED <<step, sock, wire, q>>
    BY <1>t, <1>3 DEF Drains, WriterAt, WriterGoes, Typed, closeVars, queueVars
  <2>2. (InQueue(c)' <=> InQueue(c)) /\ ~InHand(c)
    BY <2>1 DEF InQueue, InHand, KickFrame
  <2> QED BY <1>t, <1>u, <2>1, <2>2, WriterMoves
<1>4. CASE c = d /\ write(c)
  <2>1. /\ writer[c].pc \in {"write", "writelast"} /\ writer'[c].frame = writer[c].frame
        /\ writer'[c].pc = IF writer[c].pc = "write" THEN "wire" ELSE "wirelast"
        /\ UNCHANGED <<step, sock, wire, q>>
    BY <1>t, <1>4 DEF write, WriterGoes, Typed, closeVars
  <2>2. (InQueue(c)' <=> InQueue(c)) /\ (InHand(c) => InHand(c)')
    BY <2>1 DEF InQueue, InHand, KickFrame
  <2>3. writer[c].pc = "writelast" => drain[c]
    BY <1>t DEF ConnInv, DrainInv
  <2> QED BY <1>t, <1>u, <2>1, <2>2, <2>3, WriterMoves
<1>s. c \notin trouble /\ writer[c].pc # "end" => sock[c]
  BY <1>t DEF ConnInv, FrameInv
<1>5. CASE c = d /\ WriteMessage(c)
  <2>1. writer[c].pc \in {"wire", "wirelast"} /\ q' = q
    BY <1>5 DEF WriteMessage, queueVars
  <2>2. CASE WriteError(c) /\ CloseCalled(c) /\ WriterGoes(c, "end")
    <3>1. c \in trouble' /\ ~sock'[c] /\ step'[c] # "open" /\ writer'[c].pc = "end"
      BY <1>t, <1>u, <1>s, <2>1, <2>2 DEF WriteError, CloseCalled, WriterGoes, Typed
    <3> QED BY <1>t, <1>u, <2>1, <3>1, WriterMoves
  <2>3. CASE /\ wire' = [wire EXCEPT ![c] = @ \cup {writer[c].frame}] /\ UNCHANGED closeVars
             /\ WriterGoes(c, IF writer[c].pc = "wire" THEN "select" ELSE "flush")
    <3>1. /\ writer'[c].pc = (IF writer[c].pc = "wire" THEN "select" ELSE "flush") /\ UNCHANGED <<step, sock>>
          /\ wire'[c] = wire[c] \cup {writer[c].frame}
      BY <1>t, <2>3 DEF WriterGoes, Typed, closeVars
    <3>2. (InQueue(c)' <=> InQueue(c)) /\ (InHand(c) => KickFrame(c) \in wire'[c])
      BY <2>1, <3>1 DEF InQueue, InHand, KickFrame
    <3>3. writer[c].pc = "wirelast" => drain[c]
      BY <1>t DEF ConnInv, DrainInv
    <3> QED BY <1>t, <1>u, <2>1, <3>1, <3>2, <3>3, WriterMoves
  <2> QED BY <1>5, <2>2, <2>3 DEF WriteMessage
<1>6. CASE c = d /\ WriterStops(c)
  <2>1. /\ writer[c].pc = "select" /\ q' = q /\ wire' = wire /\ writer'[c].pc = "end"
    BY <1>t, <1>6 DEF WriterStops, WriterAt, WriterGoes, queueVars, Typed
  <2>2. c \in trouble' /\ (UNCHANGED <<step, sock>> \/ (~sock'[c] /\ step'[c] # "open"))
    <3>1. Closed(c) => ~sock[c]
      BY <1>t DEF ConnInv, ReaderInv, Closed
    <3> QED BY <1>t, <1>u, <1>s, <1>6, <2>1, <3>1 DEF WriterStops, WriteError, CloseCalled, closeVars, Typed
  <2> QED BY <1>t, <1>u, <2>1, <2>2, WriterMoves
<1>7. CASE c = d /\ CloseKick(c)
  <2>1. /\ writer[c].pc = "flush" /\ q[c] = <<>> /\ writer'[c].pc = "end" /\ UNCHANGED <<wire, trouble>>
        /\ ~sock'[c] /\ step'[c] # "open"
    BY <1>t, <1>7 DEF CloseKick, CloseCalled, WriterAt, WriterGoes, Typed
  <2>k. Kickers(c)' = Kickers(c) /\ KickFrame(c)' = KickFrame(c) /\ \A o \in Kickers(c) : HasKick(o)' <=> HasKick(o)
    BY <1>u DEF Kickers, KickFrame, HasKick, procVars
  <2>2. drain[c] /\ ~InQueue(c) /\ ~InHand(c)
    BY <1>t, <2>1, SMTT(30) DEF ConnInv, DrainInv, InQueue, InHand
  <2>3. \A o \in Kickers(c) : HasKick(o) => op[o] = "none"
    BY <1>t, <2>2 DEF ConnInv, DrainInv
  <2>4. c \notin trouble => \A o \in Kickers(c) : op[o] # "wait" /\ (HasKick(o) => KickFrame(c) \in wire[c])
    BY <1>t, <2>2, <2>3 DEF ConnInv, FrameInv
  <2>5. ReaderInv(c)'
    BY <1>t, <1>u, <2>1 DEF ConnInv, ReaderInv, procVars
  <2>6. DrainInv(c)'
    BY <1>t, <1>u, <2>1, <2>k DEF ConnInv, DrainInv, procVars
  <2>7. FrameInv(c)'
    BY <1>u, <2>1, <2>k, <2>2, <2>4 DEF FrameInv, procVars
  <2> QED BY <2>5, <2>6, <2>7 DEF ConnInv
<1> QED BY <1>1, <1>2, <1>3, <1>4, <1>5, <1>6, <1>7 DEF WriterGoesOn

(* Only beginDrain sends a process to "flush". *)
LEMMA FlushKeeps == ASSUME KickInv, [Next]_vars PROVE FlushInv'
<1>t. Typed /\ FlushInv /\ \A c \in Clients : ConnInv(c)
  BY DEF KickInv
<1> USE ProcFacts
<1>0. ASSUME \A p \in Procs : pc'[p] = "flush" => pc[p] = "flush" \/ \E c \in Clients : p \in Kickers(c)
      PROVE  FlushInv'
  BY <1>t, <1>0 DEF FlushInv, Kickers
<1>1. ASSUME NEW p \in Procs, NEW at \in Points \ {"flush"}, NEW f, Sends(p, f, at) \/ Goes(p, at)
      PROVE  FlushInv'
  <2>1. \A o \in Procs : pc'[o] = "flush" => pc[o] = "flush"
    BY <1>t, <1>1 DEF Sends, Goes, Typed
  <2> QED BY <1>0, <2>1
<1>2. ASSUME pc' = pc
      PROVE  FlushInv'
  BY <1>0, <1>2
<1>3. ASSUME NEW p \in Pushes, Push(p)
      PROVE  FlushInv'
  <2>1. \A o \in Procs : pc'[o] = "flush" => pc[o] = "flush"
    BY <1>t, <1>3 DEF Push, Typed
  <2> QED BY <1>0, <2>1
<1>4. ASSUME NEW c \in Clients, NEW p \in Kickers(c), NEW last \in BOOLEAN, beginDrain(p, last)
      PROVE  FlushInv'
  <2>1. p \in Procs
    BY DEF Kickers
  <2>2. \A o \in Procs \ {p} : pc'[o] = pc[o]
    BY <1>t, <1>4, <2>1 DEF beginDrain, Sends, Goes, Typed
  <2> QED BY <1>0, <2>2
<1>5. ASSUME NEW c \in Clients,
             \/ \E r \in Requests : ReadMessage(c, r)
             \/ ReadFails(c) \/ admit(c) \/ awaitDrain(c) \/ CloseRate(c) \/ CloseRead(c)
      PROVE  FlushInv'
  <2>1. {"read", "admit", "begin", "over", "overwait", "kick", "stop", "await", "close", "end"} \subseteq Points \ {"flush"}
    BY DEF Points
  <2>2. CASE admit(c)
    BY <1>1, <2>1, <2>2 DEF admit, overLimit
  <2>3. CASE \/ \E r \in Requests : ReadMessage(c, r)
             \/ ReadFails(c) \/ awaitDrain(c) \/ CloseRate(c) \/ CloseRead(c)
    BY <1>1, <2>1, <2>3 DEF ReadMessage, ReadFails, awaitDrain, CloseRate, CloseRead
  <2> QED BY <1>5, <2>2, <2>3
<1>6. ASSUME NEW c \in Clients, begin(c)
      PROVE  FlushInv'
  <2>1. \/ pc' = [pc EXCEPT ![Reader(c)] = "stop"]
        \/ pc' = [pc EXCEPT ![Reader(c)] = "read", ![Handler(raw[c][2])] = "run"]
    BY <1>6 DEF begin
  <2>2. ASSUME NEW o \in Procs PROVE pc'[o] \in {pc[o], "stop", "read", "run"}
    <3>1. pc \in [Procs -> Points] /\ Reader(c) \in Procs
      BY <1>t DEF Typed
    <3> DEFINE h == Handler(raw[c][2])
    <3>2. h # Reader(c)
      OBVIOUS
    <3>3. pc' = [pc EXCEPT ![Reader(c)] = "stop"] \/ pc' = [pc EXCEPT ![Reader(c)] = "read", ![h] = "run"]
      BY <2>1
    <3> HIDE DEF h
    <3> QED BY <3>1, <3>2, <3>3
  <2> QED BY <1>0, <2>2
<1>7. ASSUME NEW c \in Clients, close(c) \/ DrainTimer(c) \/ Expires(c) \/ WriterGoesOn(c)
      PROVE  FlushInv'
  BY <1>2, <1>7 DEF close, DrainTimer, Expires, WriterGoesOn, Receive, Drains, CloseKick, write, WriteMessage,
                    WriterStops, WriterStep, procVars
<1>8. ASSUME NEW p \in Procs, SendStep(p)
      PROVE  FlushInv'
  BY <1>2, <1>8 DEF SendStep, tryTake, resync, queueFrame, CloseSlow, Returns, OpStep
<1>9. ASSUME NEW p \in Procs, finishDrain(p)
      PROVE  FlushInv'
  <2>1. After(p) \in Points \ {"flush"}
    BY DEF After, Points
  <2> QED BY <1>1, <1>9, <2>1 DEF finishDrain
<1>10. ASSUME NEW r \in Requests, HandlerGoesOn(r)
       PROVE  FlushInv'
  <2>1. {"free", "done"} \subseteq Points \ {"flush"}
    BY DEF Points
  <2> QED BY <1>1, <1>10, <2>1 DEF HandlerGoesOn, dispatch, Recover, HandlerEnds
<1>11. CASE UNCHANGED vars
  BY <1>2, <1>11 DEF vars, procVars
<1>12. CASE Arrives
  BY <1>3, <1>4, <1>5, <1>7, <1>12 DEF Arrives, Kick, Kickers
<1>13. CASE GoesOn
  <2>1. ASSUME NEW c \in Clients, ReaderGoesOn(c) PROVE FlushInv'
    <3>1. CASE KickExpired(c)
      <4>1. Reader(c) \in Kickers(c) /\ \E last \in BOOLEAN : beginDrain(Reader(c), last)
        BY <3>1, Zenon DEF KickExpired, Kickers
      <4> QED BY <4>1, <1>4, SMTT(30)
    <3> QED BY <2>1, <3>1, <1>5, <1>6 DEF ReaderGoesOn
  <2> QED BY <2>1, <1>7, <1>8, <1>9, <1>10, <1>13 DEF GoesOn
<1> QED BY <1>11, <1>12, <1>13 DEF Next

(* At the start nobody has anything to say. *)
LEMMA KickInvInit == ASSUME Init PROVE KickInv
<1> USE ProcFacts, FrameFacts
<1>1. Typed
  <2>1. /\ pc \in [Procs -> Points] /\ op \in [Procs -> SendPoints] /\ frame \in [Procs -> Frames]
    BY DEF Init, Points, SendPoints
  <2>2. load \subseteq Clients \cup Requests \cup Pushes
    BY ClientQueueAssumption DEF Init
  <2>3. /\ q \in [Clients -> Seq(Frames)] /\ wire \in [Clients -> SUBSET Frames] /\ raw \in [Clients -> Frames]
    BY SMTT(30) DEF Init
  <2> QED BY <2>1, <2>2, <2>3 DEF Init, Typed
<1>2. FlushInv
  BY DEF FlushInv, Init
<1>3. ASSUME NEW c \in Clients PROVE ConnInv(c)
  <2>1. /\ pc[Reader(c)] = "read" /\ pc[Kicker(c)] = "idle" /\ \A p \in Kickers(c) : op[p] = "none" /\ ~HasKick(p)
    <3>1. Reader(c)[1] = "reader" /\ Kicker(c)[1] = "kicker"
      BY DEF Reader, Kicker
    <3> QED BY <3>1 DEF Init, Kickers, HasKick
  <2>2. ReaderInv(c)
    BY <2>1 DEF Init, ReaderInv
  <2>3. DrainInv(c)
    BY <2>1 DEF Init, DrainInv, Kickers
  <2>4. FrameInv(c)
    BY <2>1 DEF Init, FrameInv
  <2> QED BY <2>2, <2>3, <2>4 DEF ConnInv
<1> QED BY <1>1, <1>2, <1>3 DEF KickInv

(* Every step of every goroutine keeps KickInv. *)
LEMMA KickInvNext == ASSUME KickInv, [Next]_vars PROVE KickInv'
<1>1. ASSUME NEW c \in Clients PROVE ConnInv(c)'
  <2>1. CASE UNCHANGED vars
    BY <2>1, Elsewhere DEF KickInv, vars, queueVars, closeVars, drainVars, limitVars, procVars, histVars, Parts
  <2>2. CASE Arrives
    <3>1. ASSUME NEW d \in Clients, Kick(d) PROVE ConnInv(c)'
      BY <3>1, DrainKeeps DEF Kick, Kickers
    <3> QED BY <2>2, <3>1, ReaderKeeps, CloseStepKeeps, OthersKeep DEF Arrives
  <2>3. CASE GoesOn
    <3>1. ASSUME NEW d \in Clients, ReaderGoesOn(d) PROVE ConnInv(c)'
      <4>1. CASE KickExpired(d)
        <5>1. Reader(d) \in Kickers(d) /\ pc[Reader(d)] = "kick" /\ \E last \in BOOLEAN : beginDrain(Reader(d), last)
          BY <4>1, Zenon DEF KickExpired, Kickers
        <5> QED BY <5>1, DrainKeeps
      <4> QED BY <3>1, <4>1, ReaderKeeps, CloseStepKeeps DEF ReaderGoesOn
    <3>2. ASSUME NEW p \in Procs, finishDrain(p) PROVE ConnInv(c)'
      <4>1. \E d \in Clients : p \in Kickers(d)
        BY <3>2 DEF KickInv, FlushInv, finishDrain
      <4> QED BY <3>2, <4>1, DrainKeeps
    <3> QED BY <2>3, <3>1, <3>2, SendKeeps, CloseStepKeeps, WriterKeeps, OthersKeep DEF GoesOn
  <2> QED BY <2>1, <2>2, <2>3 DEF Next
<1> QED BY <1>1, TypedNext, FlushKeeps DEF KickInv

(* A kicked client is told before its socket closes, for any number of      *)
(* connections, requests and pushes, any queue length and limit and however *)
(* reader, handlers, pushers, kickers, writer and close interleave (kick.go:*)
(* beginDrain, finishDrain; client.go: writeLoop, awaitDrain, Close).       *)
THEOREM KickedAreTold == Spec => []KickReaches
<1>1. KickInv => KickReaches
  <2> SUFFICES ASSUME KickInv, NEW c \in Clients, drain[c], ~sock[c], c \notin trouble, NEW p \in {Reader(c), Kicker(c)},
                      frame[p][1] = "kick"
               PROVE  frame[p] \in wire[c]
    BY DEF KickReaches
  <2> QED BY DEF KickInv, ConnInv, FrameInv, DrainInv, Kickers, HasKick
<1>2. Init => KickInv
  BY KickInvInit
<1>3. KickInv /\ [Next]_vars => KickInv'
  BY KickInvNext
<1> QED BY <1>1, <1>2, <1>3, PTL DEF Spec
================================================================================
