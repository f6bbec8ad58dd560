---------------------------- MODULE DeliveryProofs ----------------------------
(***************************************************************************)
(* Theorems about Delivery for any number of nodes, connections and users, *)
(* any queue lengths and bounds, and every set of faults.                  *)
(***************************************************************************)
EXTENDS Delivery, TLAPS

(* A leaf that names no prover is Zenon's; SMTT marks those with arithmetic *)
(* or sequences.                                                            *)
USE ZenonT(30)

(* The elements of a queue after a frame was appended.                     *)
LEMMA RangeAppend ==
    ASSUME NEW S, NEW q \in Seq(S), NEW e \in S
    PROVE  Append(q, e) \in Seq(S) /\ Range(Append(q, e)) = Range(q) \cup {e}
<1>1. Append(q, e) \in Seq(S) /\ Len(Append(q, e)) = Len(q) + 1 /\ Len(q) \in Nat
  BY SMTT(30)
<1>2. \A i \in 1 .. Len(q) : Append(q, e)[i] = q[i]
  BY SMTT(30)
<1>3. Append(q, e)[Len(q) + 1] = e
  BY SMTT(30)
<1>4. DOMAIN q = 1 .. Len(q) /\ DOMAIN Append(q, e) = 1 .. Len(q) + 1
  BY <1>1, SMTT(30)
<1>5. 1 .. Len(q) + 1 = (1 .. Len(q)) \cup {Len(q) + 1}
  BY <1>1, SMTT(30)
<1>6. Range(Append(q, e)) \subseteq Range(q) \cup {e}
  BY <1>2, <1>3, <1>4, <1>5 DEF Range
<1>7. Range(q) \cup {e} \subseteq Range(Append(q, e))
  BY <1>2, <1>3, <1>4, <1>5 DEF Range
<1> QED BY <1>1, <1>6, <1>7

(* The elements of a queue after its first was taken.                      *)
LEMMA RangeTail ==
    ASSUME NEW S, NEW q \in Seq(S), q # <<>>
    PROVE  /\ Head(q) \in S /\ Tail(q) \in Seq(S)
           /\ Range(q) = {Head(q)} \cup Range(Tail(q))
<1>1. Head(q) \in S /\ Tail(q) \in Seq(S) /\ Len(q) \in Nat /\ Len(q) >= 1 /\ Len(Tail(q)) = Len(q) - 1
  BY SMTT(30)
<1>2. DOMAIN q = 1 .. Len(q) /\ DOMAIN Tail(q) = 1 .. Len(q) - 1
  BY <1>1, SMTT(30)
<1>3. Head(q) = q[1] /\ \A i \in 1 .. Len(q) - 1 : Tail(q)[i] = q[i + 1]
  BY <1>1, SMTT(30)
<1>4. \A i \in 1 .. Len(q) : i = 1 \/ (i - 1 \in 1 .. Len(q) - 1 /\ (i - 1) + 1 = i)
  BY <1>1, SMTT(30)
<1>5. 1 \in 1 .. Len(q) /\ \A i \in 1 .. Len(q) - 1 : i + 1 \in 1 .. Len(q)
  BY <1>1, SMTT(30)
<1>6. ASSUME NEW x \in Range(q) PROVE x \in {Head(q)} \cup Range(Tail(q))
  <2>1. PICK i \in 1 .. Len(q) : x = q[i]
    BY <1>2, <1>6 DEF Range
  <2>2. CASE i = 1
    BY <1>3, <2>1, <2>2
  <2>3. CASE i - 1 \in 1 .. Len(q) - 1 /\ (i - 1) + 1 = i
    BY <1>2, <1>3, <2>1, <2>3 DEF Range
  <2> QED BY <1>4, <2>2, <2>3
<1>7. {Head(q)} \cup Range(Tail(q)) \subseteq Range(q)
  BY <1>2, <1>3, <1>5, SMTT(30) DEF Range
<1> QED BY <1>1, <1>6, <1>7

(* An empty queue has no elements.                                         *)
LEMMA RangeEmpty == Range(<<>>) = {} /\ \A S : <<>> \in Seq(S)
<1>1. DOMAIN <<>> = {} /\ \A S : <<>> \in Seq(S)
  BY SMTT(30)
<1> QED BY <1>1 DEF Range

-----------------------------------------------------------------------------
(* What the variables hold.                                                *)
Excepts == Conns \cup {NoConn}
Pending == [seq : Nat, node : Nodes, except : Excepts]
Pushes == [type : {"push"}, seq : Nat, except : Excepts, no : Nat]
Frames == [type : {"push"}, seq : Nat, no : Nat]
Jobs == {Idle} \cup [pc : {"recipients"}, ev : Pushes]
               \cup [pc : {"roster", "visible", "fanout"}, ev : Pushes, ids : SUBSET LogUsers]
Apps == {Idle} \cup [pc : {"recipients"}, seq : Nat]
               \cup [pc : {"roster", "visible", "online"}, seq : Nat, ids : SUBSET LogUsers]

DbTyped ==
    /\ log \in Seq([sender : LogUsers, key : LogKeys]) /\ audience \in Seq(SUBSET LogUsers)
    /\ members \in SUBSET LogUsers /\ entitled \in [LogUsers -> SUBSET Nat]
BusTyped ==
    /\ unsent \in SUBSET Pending /\ pubs \in Nat
    /\ sub \in [Nodes -> {"never", "up", "down"}]
    /\ chan \in [Nodes -> Seq(Pushes \cup {GroupChanged})]
WorkTyped ==
    /\ cache \in [Nodes -> (SUBSET LogUsers) \cup {NoEntry}]
    /\ deliver \in [Nodes -> Seq(Pushes)]
    /\ job \in [Workers -> Jobs]
ClientTyped ==
    /\ conn \in [Conns -> {"new", "open", "closed"}]
    /\ outq \in [Conns -> Seq(Frames \cup {Resync})]
    /\ due \in [Conns -> BOOLEAN]
    /\ known \in [Conns -> SUBSET Nat]
LossTyped ==
    /\ dropped \in [Nodes -> SUBSET Nat]
    /\ stale \in [Nodes -> SUBSET (LogUsers \X Nat)]
AppTyped == app \in [Nodes -> Apps]

Typed == DbTyped /\ BusTyped /\ WorkTyped /\ ClientTyped /\ LossTyped /\ AppTyped

(* A worker's job by its label.                                            *)
LEMMA JobFacts ==
    ASSUME NEW j \in Jobs
    PROVE  /\ j.pc = "idle" => j = Idle
           /\ j.pc \in {"idle", "recipients", "roster", "visible", "fanout"}
           /\ j.pc # "idle" => j # Idle /\ j.ev \in Pushes
           /\ j.pc \in {"roster", "visible", "fanout"} => j.ids \in SUBSET LogUsers
<1>1. CASE j = Idle
  BY <1>1 DEF Idle
<1>2. CASE j \in [pc : {"recipients"}, ev : Pushes]
  BY <1>2, SMTT(30) DEF Idle
<1>3. CASE j \in [pc : {"roster", "visible", "fanout"}, ev : Pushes, ids : SUBSET LogUsers]
  BY <1>3, SMTT(30) DEF Idle
<1> QED BY <1>1, <1>2, <1>3 DEF Jobs

(* An offline push by its label.                                           *)
LEMMA AppFacts ==
    ASSUME NEW j \in Apps
    PROVE  /\ j.pc = "idle" => j = Idle
           /\ j.pc \in {"idle", "recipients", "roster", "visible", "online"}
           /\ j.pc # "idle" => j # Idle /\ j.seq \in Nat
           /\ j.pc \in {"roster", "visible", "online"} => j.ids \in SUBSET LogUsers
<1>1. CASE j = Idle
  BY <1>1 DEF Idle
<1>2. CASE j \in [pc : {"recipients"}, seq : Nat]
  BY <1>2, SMTT(30) DEF Idle
<1>3. CASE j \in [pc : {"roster", "visible", "online"}, seq : Nat, ids : SUBSET LogUsers]
  BY <1>3, SMTT(30) DEF Idle
<1> QED BY <1>1, <1>2, <1>3 DEF Apps

(* Which values are jobs.                                                  *)
LEMMA MakesJobs ==
    /\ Idle \in Jobs
    /\ \A e \in Pushes : [pc |-> "recipients", ev |-> e] \in Jobs
    /\ \A e \in Pushes, S \in SUBSET LogUsers, l \in {"roster", "visible", "fanout"} :
          [pc |-> l, ev |-> e, ids |-> S] \in Jobs
BY DEF Jobs

(* Which values are offline pushes.                                        *)
LEMMA MakesApps ==
    /\ Idle \in Apps
    /\ \A s \in Nat : [pc |-> "recipients", seq |-> s] \in Apps
    /\ \A s \in Nat, S \in SUBSET LogUsers, l \in {"roster", "visible", "online"} :
          [pc |-> l, seq |-> s, ids |-> S] \in Apps
BY DEF Apps

-----------------------------------------------------------------------------
(* Publish: an event enters the channels with room and no other.           *)
LEMMA BroadcastEffect ==
    ASSUME BusTyped, NEW ev \in Pushes \cup {GroupChanged}, Broadcast(ev)
    PROVE  /\ chan' \in [Nodes -> Seq(Pushes \cup {GroupChanged})]
           /\ \A n \in Nodes : IF Receives(n) THEN chan'[n] = Append(chan[n], ev) ELSE chan'[n] = chan[n]
           /\ \A n \in Nodes : Receives(n) => Range(chan'[n]) = Range(chan[n]) \cup {ev}
<1> DEFINE S == Pushes \cup {GroupChanged}
<1>1. \A n \in Nodes : chan[n] \in Seq(S)
  BY DEF BusTyped
<1> HIDE DEF S
<1>2. \A n \in Nodes : Append(chan[n], ev) \in Seq(S) /\ Range(Append(chan[n], ev)) = Range(chan[n]) \cup {ev}
  <2> TAKE n \in Nodes
  <2>1. chan[n] \in Seq(S) /\ ev \in S
    BY <1>1 DEF S
  <2> QED BY <2>1, RangeAppend, SMTT(30)
<1>3. chan' = [n \in Nodes |-> IF Receives(n) THEN Append(chan[n], ev) ELSE chan[n]]
  BY DEF Broadcast
<1>4. \A n \in Nodes : chan'[n] = IF Receives(n) THEN Append(chan[n], ev) ELSE chan[n]
  BY <1>3
<1>5. chan' \in [Nodes -> Seq(S)]
  BY <1>1, <1>2, <1>3
<1> QED BY <1>2, <1>4, <1>5 DEF S

(* enqueue: a connection gets the frame, is closed for want of room or is  *)
(* left alone.                                                             *)
LEMMA EnqueueEffect ==
    ASSUME ClientTyped, NEW T, NEW frame \in [Conns -> Frames \cup {Resync}], Enqueue(T, frame)
    PROVE  /\ conn' \in [Conns -> {"new", "open", "closed"}]
           /\ outq' \in [Conns -> Seq(Frames \cup {Resync})]
           /\ due' \in [Conns -> BOOLEAN]
           /\ \A c \in Conns :
                \/ c \in T /\ conn'[c] = "closed" /\ outq'[c] = <<>>
                \/ /\ c \in T /\ conn'[c] = conn[c] /\ due'[c] = due[c] /\ outq'[c] = Append(outq[c], frame[c])
                   /\ Range(outq'[c]) = Range(outq[c]) \cup {frame[c]}
                \/ c \notin T /\ conn'[c] = conn[c] /\ outq'[c] = outq[c] /\ due'[c] = due[c]
<1> DEFINE S == Frames \cup {Resync}
           slow == {c \in T : Full(c)}
<1>1. \A c \in Conns : outq[c] \in Seq(S) /\ frame[c] \in S
  BY DEF ClientTyped
<1>2. <<>> \in Seq(S)
  BY RangeEmpty
<1>3. /\ conn' = [c \in Conns |-> IF c \in slow THEN "closed" ELSE conn[c]]
      /\ outq' = [c \in Conns |-> IF c \in slow THEN <<>> ELSE IF c \in T THEN Append(outq[c], frame[c]) ELSE outq[c]]
      /\ due' = [c \in Conns |-> due[c] /\ c \notin slow]
  BY DEF Enqueue
<1>0. slow \subseteq T
  OBVIOUS
<1> HIDE DEF S, slow
<1>4. \A c \in Conns : Append(outq[c], frame[c]) \in Seq(S) /\ Range(Append(outq[c], frame[c])) = Range(outq[c]) \cup {frame[c]}
  <2> TAKE c \in Conns
  <2>1. outq[c] \in Seq(S) /\ frame[c] \in S
    BY <1>1
  <2> QED BY <2>1, RangeAppend, SMTT(30)
<1>5. conn' \in [Conns -> {"new", "open", "closed"}]
  BY <1>3 DEF ClientTyped
<1>6. outq' \in [Conns -> Seq(S)]
  BY <1>1, <1>2, <1>3, <1>4
<1>7. due' \in [Conns -> BOOLEAN]
  BY <1>3
<1>8. ASSUME NEW c \in Conns
      PROVE  \/ c \in T /\ conn'[c] = "closed" /\ outq'[c] = <<>>
             \/ /\ c \in T /\ conn'[c] = conn[c] /\ due'[c] = due[c] /\ outq'[c] = Append(outq[c], frame[c])
                /\ Range(outq'[c]) = Range(outq[c]) \cup {frame[c]}
             \/ c \notin T /\ conn'[c] = conn[c] /\ outq'[c] = outq[c] /\ due'[c] = due[c]
  <2>1. due[c] \in BOOLEAN
    BY DEF ClientTyped
  <2>2. CASE c \in slow
    BY <1>0, <1>3, <2>2
  <2>3. CASE c \notin slow
    <3>1. conn'[c] = conn[c] /\ due'[c] = due[c]
      BY <1>3, <2>1, <2>3
    <3>2. outq'[c] = IF c \in T THEN Append(outq[c], frame[c]) ELSE outq[c]
      BY <1>3, <2>3
    <3> QED BY <1>4, <3>1, <3>2
  <2> QED BY <2>2, <2>3
<1> QED BY <1>5, <1>6, <1>7, <1>8 DEF S

(* Closed connections have no queue; the others are left alone.            *)
LEMMA CloseEffect ==
    ASSUME ClientTyped, NEW T, CloseAll(T)
    PROVE  /\ conn' \in [Conns -> {"new", "open", "closed"}]
           /\ outq' \in [Conns -> Seq(Frames \cup {Resync})]
           /\ due' \in [Conns -> BOOLEAN]
           /\ \A c \in Conns :
                IF c \in T THEN conn'[c] = "closed" /\ outq'[c] = <<>>
                ELSE conn'[c] = conn[c] /\ outq'[c] = outq[c] /\ due'[c] = due[c]
<1> DEFINE S == Frames \cup {Resync}
<1>1. <<>> \in Seq(S)
  BY RangeEmpty
<1>2. /\ conn' = [c \in Conns |-> IF c \in T THEN "closed" ELSE conn[c]]
      /\ outq' = [c \in Conns |-> IF c \in T THEN <<>> ELSE outq[c]]
      /\ due' = [c \in Conns |-> due[c] /\ c \notin T]
  BY DEF CloseAll
<1>3. \A c \in Conns : outq[c] \in Seq(S) /\ due[c] \in BOOLEAN
  BY DEF ClientTyped
<1> HIDE DEF S
<1>4. conn' \in [Conns -> {"new", "open", "closed"}]
  BY <1>2 DEF ClientTyped
<1>5. outq' \in [Conns -> Seq(S)]
  BY <1>1, <1>2, <1>3
<1>6. due' \in [Conns -> BOOLEAN]
  BY <1>2
<1>7. ASSUME NEW c \in Conns
      PROVE  IF c \in T THEN conn'[c] = "closed" /\ outq'[c] = <<>>
             ELSE conn'[c] = conn[c] /\ outq'[c] = outq[c] /\ due'[c] = due[c]
  BY <1>2, <1>3
<1> QED BY <1>4, <1>5, <1>6, <1>7 DEF S

(* A pushed event: its parts.                                              *)
LEMMA EventFacts ==
    /\ \A e \in Pushes : e # GroupChanged /\ e.seq \in Nat /\ e.no \in Nat /\ e.type = "push" /\ e.except \in Excepts
    /\ \A f \in Frames : f # Resync /\ f.seq \in Nat /\ f.no \in Nat /\ f.type = "push"
    /\ \A e \in Pushes : PushFrame(e) \in Frames /\ PushFrame(e).seq = e.seq /\ PushFrame(e).no = e.no
    /\ GroupChanged.type # "push" /\ Resync.type # "push"
<1>1. \A e \in Pushes : e.seq \in Nat /\ e.no \in Nat /\ e.type = "push" /\ e.except \in Excepts
  BY DEF Pushes
<1>2. \A f \in Frames : f.seq \in Nat /\ f.no \in Nat /\ f.type = "push"
  BY DEF Frames
<1>3. GroupChanged.type # "push" /\ Resync.type # "push"
  BY DEF GroupChanged, Resync
<1>4. \A e \in Pushes : PushFrame(e).seq = e.seq /\ PushFrame(e).no = e.no
  BY DEF PushFrame
<1>5. \A e \in Pushes : PushFrame(e) \in Frames
  BY <1>1 DEF PushFrame, Frames
<1> QED BY <1>1, <1>2, <1>3, <1>4, <1>5

(* The only worker of a node.                                              *)
LEMMA OneWorker == /\ \A w \in Workers : w[1] \in Nodes
                   /\ \A v, w \in Workers : v[1] = w[1] => v = w
BY SMTT(30) DEF Workers, PerQueue

-----------------------------------------------------------------------------
(* Frames of the type invariant: a step that leaves the variables alone.   *)
LEMMA DbFrame == DbTyped /\ UNCHANGED <<log, audience, members, entitled>> => DbTyped'
BY DEF DbTyped

(* The Bus: subscriptions, channels and requests that have not published.  *)
LEMMA BusFrame == BusTyped /\ UNCHANGED <<unsent, pubs, sub, chan>> => BusTyped'
BY DEF BusTyped

(* The roster caches, the shards and their workers.                        *)
LEMMA WorkFrame == WorkTyped /\ UNCHANGED <<cache, deliver, job>> => WorkTyped'
BY DEF WorkTyped

(* The connections and what their clients know.                            *)
LEMMA ClientFrame == ClientTyped /\ UNCHANGED <<conn, outq, due, known>> => ClientTyped'
BY DEF ClientTyped

(* The records of what was lost.                                           *)
LEMMA LossFrame == LossTyped /\ UNCHANGED <<dropped, stale>> => LossTyped'
BY DEF LossTyped

(* The offline push jobs.                                                  *)
LEMMA AppFrame == AppTyped /\ UNCHANGED app => AppTyped'
BY DEF AppTyped

(* A publication keeps the types.                                          *)
LEMMA PublishTyped ==
    ASSUME Typed, NEW s \in Nat, NEW c \in Excepts, NEW ok \in BOOLEAN, PublishPush(s, c, ok), sub' = sub,
           unsent' \subseteq unsent, UNCHANGED <<conn, outq, due, stale>>
    PROVE  BusTyped' /\ ClientTyped' /\ LossTyped'
<1> DEFINE ev == [type |-> "push", seq |-> s, except |-> c, no |-> pubs + 1]
<1>1. pubs' \in Nat /\ pubs' = pubs + 1
  BY SMTT(30) DEF PublishPush, Typed, BusTyped
<1>2. ev \in Pushes \cup {GroupChanged}
  BY <1>1 DEF Pushes
<1>3. chan' \in [Nodes -> Seq(Pushes \cup {GroupChanged})]
  <2>1. CASE ok
    <3>1. Broadcast(ev)
      BY <2>1 DEF PublishPush
    <3> HIDE DEF ev
    <3> QED BY <1>2, <3>1, BroadcastEffect DEF Typed
  <2>2. CASE ~ok
    BY <2>2 DEF PublishPush, Typed, BusTyped
  <2> QED BY <2>1, <2>2
<1>4. BusTyped'
  BY <1>1, <1>3 DEF Typed, BusTyped
<1>5. known' \in [Conns -> SUBSET Nat]
  <2>1. known' = [d \in Conns |-> IF d = c /\ conn[d] = "open" THEN known[d] \cup {s} ELSE known[d]]
    BY DEF PublishPush
  <2> QED BY <2>1 DEF Typed, ClientTyped
<1>6. ClientTyped'
  BY <1>5 DEF Typed, ClientTyped
<1>7. dropped' \in [Nodes -> SUBSET Nat]
  <2> DEFINE N == {n \in Nodes : ~ok \/ ~Receives(n)}
  <2>1. dropped' = [n \in Nodes |-> IF sub[n] # "down" /\ n \in N THEN dropped[n] \cup {s} ELSE dropped[n]]
    BY DEF PublishPush, Lose
  <2> HIDE DEF N
  <2> QED BY <2>1 DEF Typed, LossTyped
<1> QED BY <1>4, <1>6, <1>7 DEF Typed, LossTyped

(* Steps of the database and of the publishing requests keep the types.    *)
LEMMA TypedRequests ==
    ASSUME Typed,
           \/ \E u \in Senders, k \in LogKeys, n \in Nodes, c \in Excepts : Commit(u, k, n, c)
           \/ \E u \in Movers : Change(u)
           \/ \E p \in unsent, ok \in BOOLEAN : Publish(p, ok)
           \/ \E s \in 1 .. Size, c \in Excepts, ok \in BOOLEAN : Republish(s, c, ok)
           \/ \E ok \in BOOLEAN : NotifyChanged(ok)
    PROVE  Typed'
<1> USE DEF logVars, busVars, workVars, clientVars, history
<1>0. DbTyped /\ BusTyped /\ WorkTyped /\ ClientTyped /\ LossTyped /\ AppTyped
  BY DEF Typed
<1>1. ASSUME NEW u \in Senders, NEW k \in LogKeys, NEW n \in Nodes, NEW c \in Excepts, Commit(u, k, n, c)
      PROVE  Typed'
  <2>1. log' \in Seq([sender : LogUsers, key : LogKeys]) /\ Size + 1 \in Nat
    <3>1. log' = Append(log, [sender |-> u, key |-> k]) /\ u \in LogUsers
      BY <1>1, DeliveryAssumption DEF Commit, Append1
    <3>2. [sender |-> u, key |-> k] \in [sender : LogUsers, key : LogKeys]
      BY <3>1
    <3> QED BY <3>1, <3>2, <1>0, SMTT(30) DEF DbTyped, Size
  <2>2. audience' \in Seq(SUBSET LogUsers)
    <3>1. audience' = Append(audience, members)
      BY <1>1 DEF Commit
    <3> QED BY <3>1, <1>0, SMTT(30) DEF DbTyped
  <2>3. entitled' \in [LogUsers -> SUBSET Nat]
    <3>1. entitled' = [v \in LogUsers |-> IF v \in members THEN entitled[v] \cup {Size + 1} ELSE entitled[v]]
      BY <1>1 DEF Commit, Append1
    <3> QED BY <1>0, <2>1, <3>1 DEF DbTyped
  <2>4. DbTyped'
    BY <1>0, <1>1, <2>1, <2>2, <2>3 DEF DbTyped, Commit, Append1
  <2>5. [seq |-> Size + 1, node |-> n, except |-> c] \in Pending
    BY <2>1 DEF Pending
  <2>6. BusTyped'
    BY <1>0, <1>1, <2>5 DEF BusTyped, Commit
  <2> QED BY <1>0, <1>1, <2>4, <2>6, WorkFrame, ClientFrame, LossFrame, AppFrame DEF Typed, Commit
<1>2. ASSUME NEW u \in Movers, Change(u)
      PROVE  Typed'
  <2>1. DbTyped'
    <3>1. CASE Enter(u)
      <4>1. members' \in SUBSET LogUsers
        BY <1>0, <3>1, DeliveryAssumption DEF Enter, DbTyped
      <4>2. entitled' \in [LogUsers -> SUBSET Nat]
        BY <1>0, <3>1 DEF Enter, DbTyped
      <4> QED BY <1>0, <1>2, <3>1, <4>1, <4>2 DEF Enter, DbTyped, Change
    <3>2. CASE Leave(u)
      BY <1>0, <1>2, <3>2 DEF Leave, DbTyped, Change
    <3> QED BY <1>2, <3>1, <3>2 DEF Change
  <2> QED BY <1>0, <1>2, <2>1, BusFrame, WorkFrame, ClientFrame, LossFrame, AppFrame DEF Typed, Change
<1>3. ASSUME NEW p \in unsent, NEW ok \in BOOLEAN, Publish(p, ok)
      PROVE  Typed'
  <2>1. p.seq \in Nat /\ p.node \in Nodes /\ p.except \in Excepts
    BY <1>0 DEF BusTyped, Pending
  <2>2. BusTyped' /\ ClientTyped' /\ LossTyped'
    <3>1. PublishPush(p.seq, p.except, ok) /\ sub' = sub /\ unsent' \subseteq unsent /\ UNCHANGED <<conn, outq, due, stale>>
      BY <1>3 DEF Publish
    <3> QED BY <2>1, <3>1, PublishTyped
  <2>3. AppTyped'
    <3> DEFINE a == IF Pusher /\ app[p.node] = Idle THEN [pc |-> "recipients", seq |-> p.seq] ELSE app[p.node]
    <3>1. app' = [app EXCEPT ![p.node] = a]
      BY <1>3 DEF Publish
    <3>2. a \in Apps
      BY <1>0, <2>1, MakesApps DEF AppTyped
    <3> HIDE DEF a
    <3> QED BY <1>0, <3>1, <3>2 DEF AppTyped
  <2> QED BY <1>0, <1>3, <2>2, <2>3, DbFrame, WorkFrame DEF Typed, Publish
<1>4. ASSUME NEW s \in 1 .. Size, NEW c \in Excepts, NEW ok \in BOOLEAN, Republish(s, c, ok)
      PROVE  Typed'
  <2>1. s \in Nat
    BY <1>0, SMTT(30) DEF DbTyped, Size
  <2>2. BusTyped' /\ ClientTyped' /\ LossTyped'
    <3>1. PublishPush(s, c, ok) /\ sub' = sub /\ unsent' \subseteq unsent /\ UNCHANGED <<conn, outq, due, stale>>
      BY <1>4 DEF Republish
    <3> QED BY <2>1, <3>1, PublishTyped
  <2> QED BY <1>0, <1>4, <2>2, DbFrame, WorkFrame, AppFrame DEF Typed, Republish
<1>5. ASSUME NEW ok \in BOOLEAN, NotifyChanged(ok)
      PROVE  Typed'
  <2>1. chan' \in [Nodes -> Seq(Pushes \cup {GroupChanged})]
    <3>1. CASE ok
      BY <1>0, <1>5, <3>1, BroadcastEffect DEF NotifyChanged
    <3>2. CASE ~ok
      BY <1>0, <1>5, <3>2 DEF NotifyChanged, BusTyped
    <3> QED BY <3>1, <3>2
  <2>2. BusTyped'
    BY <1>0, <1>5, <2>1 DEF BusTyped, NotifyChanged
  <2> QED BY <1>0, <1>5, <2>2, DbFrame, WorkFrame, ClientFrame, LossFrame, AppFrame DEF Typed, NotifyChanged
<1> QED BY <1>1, <1>2, <1>3, <1>4, <1>5

(* Steps of connections and their clients keep the types.                  *)
LEMMA TypedConns ==
    ASSUME Typed, NEW c \in Conns, OpenConn(c) \/ Close1(c) \/ WriteLoop(c) \/ Pull(c)
    PROVE  Typed'
<1> USE DEF logVars, busVars, workVars, clientVars, history
<1>0. DbTyped /\ BusTyped /\ WorkTyped /\ ClientTyped /\ LossTyped /\ AppTyped
  BY DEF Typed
<1>1. ClientTyped'
  <2>1. CASE OpenConn(c)
    BY <1>0, <2>1 DEF OpenConn, ClientTyped
  <2>2. CASE Close1(c)
    BY <1>0, <2>2, CloseEffect DEF Close1, ClientTyped
  <2>3. CASE WriteLoop(c)
    <3> DEFINE S == Frames \cup {Resync}
               f == Head(outq[c])
    <3>1. outq[c] \in Seq(S) /\ outq[c] # <<>>
      BY <1>0, <2>3 DEF WriteLoop, ClientTyped
    <3>2. f \in S /\ Tail(outq[c]) \in Seq(S)
      BY <3>1, SMTT(30)
    <3>3. outq' = [outq EXCEPT ![c] = Tail(outq[c])]
      BY <2>3 DEF WriteLoop
    <3>4. outq' \in [Conns -> Seq(S)]
      BY <1>0, <3>2, <3>3 DEF ClientTyped
    <3>5. known' = [known EXCEPT ![c] = IF f.type = "push" THEN known[c] \cup {f.seq} ELSE known[c]]
      BY <2>3 DEF WriteLoop
    <3>6. f.type = "push" => f.seq \in Nat
      BY <3>2, EventFacts
    <3>7. due' = [due EXCEPT ![c] = due[c] \/ f = Resync]
      BY <2>3 DEF WriteLoop
    <3> HIDE DEF f
    <3>8. known' \in [Conns -> SUBSET Nat]
      BY <1>0, <3>5, <3>6 DEF ClientTyped
    <3>9. due' \in [Conns -> BOOLEAN]
      BY <1>0, <3>7 DEF ClientTyped
    <3> QED BY <1>0, <2>3, <3>4, <3>8, <3>9 DEF WriteLoop, ClientTyped
  <2>4. CASE Pull(c)
    <3>1. entitled[UserOf[c]] \in SUBSET Nat
      BY <1>0, DeliveryAssumption DEF DbTyped
    <3>2. known' = [known EXCEPT ![c] = known[c] \cup entitled[UserOf[c]]]
      BY <2>4 DEF Pull
    <3>3. known' \in [Conns -> SUBSET Nat]
      BY <1>0, <3>1, <3>2 DEF ClientTyped
    <3> QED BY <1>0, <2>4, <3>3 DEF Pull, ClientTyped
  <2> QED BY <2>1, <2>2, <2>3, <2>4
<1> QED
  BY <1>0, <1>1, DbFrame, BusFrame, WorkFrame, LossFrame, AppFrame DEF Typed, OpenConn, Close1, WriteLoop, Pull

(* Steps of a node's subscription and of its end keep the types.           *)
LEMMA TypedNodes ==
    ASSUME Typed, NEW n \in Nodes, Connect(n) \/ Disconnect(n) \/ Consume(n) \/ Expire(n) \/ Crash(n)
    PROVE  Typed'
<1> USE DEF logVars, busVars, workVars, clientVars, history
<1> DEFINE Ev == Pushes \cup {GroupChanged}
<1>0. DbTyped /\ BusTyped /\ WorkTyped /\ ClientTyped /\ LossTyped /\ AppTyped
  BY DEF Typed
<1>00. <<>> \in Seq(Ev) /\ <<>> \in Seq(Pushes)
  BY RangeEmpty
<1>1. CASE Connect(n)
  <2>1. BusTyped'
    BY <1>0, <1>1 DEF Connect, BusTyped
  <2>2. ClientTyped'
    <3>1. CASE sub[n] = "down"
      <4>1. [c \in Conns |-> Resync] \in [Conns -> Frames \cup {Resync}]
        OBVIOUS
      <4>2. Enqueue(OpenAt(n), [c \in Conns |-> Resync]) /\ known' = known
        BY <1>1, <3>1 DEF Connect, ResyncAll
      <4>3. /\ conn' \in [Conns -> {"new", "open", "closed"}]
            /\ outq' \in [Conns -> Seq(Frames \cup {Resync})]
            /\ due' \in [Conns -> BOOLEAN]
        BY <1>0, <4>1, <4>2, EnqueueEffect
      <4> QED BY <1>0, <4>2, <4>3 DEF ClientTyped
    <3>2. CASE sub[n] # "down"
      BY <1>0, <1>1, <3>2 DEF Connect, ClientTyped
    <3> QED BY <3>1, <3>2
  <2> QED BY <1>0, <1>1, <2>1, <2>2, DbFrame, WorkFrame, LossFrame, AppFrame DEF Typed, Connect
<1>2. CASE Disconnect(n)
  <2>1. BusTyped'
    BY <1>0, <1>00, <1>2 DEF Disconnect, BusTyped
  <2> QED BY <1>0, <1>2, <2>1, DbFrame, WorkFrame, ClientFrame, LossFrame, AppFrame DEF Typed, Disconnect
<1>3. CASE Consume(n)
  <2> DEFINE ev == Head(chan[n])
  <2>1. chan[n] \in Seq(Ev) /\ chan[n] # <<>>
    BY <1>0, <1>3 DEF Consume, BusTyped
  <2>2. ev \in Ev /\ Tail(chan[n]) \in Seq(Ev)
    BY <2>1, SMTT(30)
  <2>3. chan' = [chan EXCEPT ![n] = Tail(chan[n])]
    BY <1>3 DEF Consume
  <2>4. BusTyped'
    <3>1. chan' \in [Nodes -> Seq(Ev)]
      BY <1>0, <2>2, <2>3 DEF BusTyped
    <3> QED BY <1>0, <1>3, <3>1 DEF BusTyped, Consume
  <2>5. CASE ev = GroupChanged
    <3>1. OnGroupChanged(n)
      BY <1>3, <2>5 DEF Consume
    <3>2. WorkTyped'
      BY <1>0, <1>3, <3>1 DEF OnGroupChanged, WorkTyped, Consume
    <3> QED BY <1>0, <1>3, <2>4, <3>1, <3>2, DbFrame, ClientFrame, LossFrame, AppFrame DEF Typed, Consume, OnGroupChanged
  <2>6. CASE ev # GroupChanged
    <3>1. OnPush(n, ev) /\ ev \in Pushes
      BY <1>3, <2>2, <2>6 DEF Consume
    <3>2. deliver[n] \in Seq(Pushes)
      BY <1>0 DEF WorkTyped
    <3>3. Append(deliver[n], ev) \in Seq(Pushes)
      BY <3>1, <3>2, SMTT(30)
    <3>4. ev.seq \in Nat
      BY <3>1, EventFacts
    <3> HIDE DEF ev
    <3> DEFINE full == Len(deliver[n]) >= DeliverQueue
    <3>5. /\ deliver' = [deliver EXCEPT ![n] = IF full THEN deliver[n] ELSE Append(deliver[n], ev)]
          /\ dropped' = [dropped EXCEPT ![n] = IF full THEN dropped[n] \cup {ev.seq} ELSE dropped[n]]
          /\ cache' = cache
      BY <3>1 DEF OnPush
    <3> HIDE DEF full
    <3>6. WorkTyped'
      <4>1. deliver' \in [Nodes -> Seq(Pushes)]
        BY <1>0, <3>3, <3>5 DEF WorkTyped
      <4> QED BY <1>0, <1>3, <3>5, <4>1 DEF WorkTyped, Consume
    <3>7. LossTyped'
      BY <1>0, <1>3, <3>4, <3>5 DEF LossTyped, Consume
    <3> QED BY <1>0, <1>3, <2>4, <3>6, <3>7, DbFrame, ClientFrame, AppFrame DEF Typed, Consume
  <2> QED BY <2>5, <2>6
<1>4. CASE Expire(n)
  <2>1. WorkTyped'
    BY <1>0, <1>4 DEF Expire, WorkTyped
  <2> QED BY <1>0, <1>4, <2>1, DbFrame, BusFrame, ClientFrame, LossFrame, AppFrame DEF Typed, Expire
<1>5. CASE Crash(n)
  <2>1. BusTyped'
    <3>1. chan' = [chan EXCEPT ![n] = <<>>] /\ sub' = [sub EXCEPT ![n] = "never"] /\ unsent' \subseteq unsent /\ pubs' = pubs
      BY <1>5 DEF Crash
    <3>2. chan' \in [Nodes -> Seq(Ev)] /\ sub' \in [Nodes -> {"never", "up", "down"}]
      BY <1>0, <1>00, <3>1 DEF BusTyped
    <3> QED BY <1>0, <3>1, <3>2 DEF BusTyped
  <2>2. WorkTyped'
    <3>1. /\ cache' = [cache EXCEPT ![n] = NoEntry]
          /\ deliver' = [deliver EXCEPT ![n] = <<>>]
          /\ job' = [w \in Workers |-> IF w[1] = n THEN Idle ELSE job[w]]
      BY <1>5 DEF Crash
    <3>2. job' \in [Workers -> Jobs]
      BY <1>0, <3>1, MakesJobs DEF WorkTyped
    <3>3. deliver' \in [Nodes -> Seq(Pushes)]
      BY <1>0, <1>00, <3>1 DEF WorkTyped
    <3> QED BY <1>0, <3>1, <3>2, <3>3 DEF WorkTyped
  <2>3. ClientTyped'
    <3>1. CloseAll(OpenAt(n)) /\ known' = known
      BY <1>5 DEF Crash
    <3> QED BY <1>0, <3>1, CloseEffect DEF ClientTyped
  <2>4. LossTyped'
    <3>1. dropped' = [m \in Nodes |-> IF sub[m] = "down" THEN dropped[m]
                                      ELSE dropped[m] \cup {p.seq : p \in unsent \ unsent'}]
      BY <1>5 DEF Crash
    <3>2. {p.seq : p \in unsent \ unsent'} \in SUBSET Nat
      BY <1>0 DEF BusTyped, Pending
    <3>3. dropped' \in [Nodes -> SUBSET Nat]
      BY <1>0, <3>1, <3>2 DEF LossTyped
    <3> QED BY <1>0, <1>5, <3>3 DEF LossTyped, Crash
  <2>5. AppTyped'
    BY <1>0, <1>5, MakesApps DEF Crash, AppTyped
  <2> QED BY <1>0, <1>5, <2>1, <2>2, <2>3, <2>4, <2>5, DbFrame DEF Typed, Crash
<1> QED BY <1>1, <1>2, <1>3, <1>4, <1>5

(* A change of one worker's job keeps the other types of the worker's data. *)
LEMMA JobSet ==
    ASSUME WorkTyped, NEW w \in Workers, NEW j \in Jobs, job' = [job EXCEPT ![w] = j]
    PROVE  job' \in [Workers -> Jobs] /\ \A v \in Workers : job'[v] = IF v = w THEN j ELSE job[v]
BY DEF WorkTyped

(* Going on with the candidates R keeps the types.                         *)
LEMMA CandidatesTyped ==
    ASSUME Typed, NEW w \in Workers, NEW R \in SUBSET LogUsers, job[w].pc \in {"recipients", "roster"},
           WithCandidates(w, R)
    PROVE  job' \in [Workers -> Jobs] /\ stale' \in [Nodes -> SUBSET (LogUsers \X Nat)]
<1> DEFINE ev == job[w].ev
           local == OnlineExcept(w[1], R, ev.except)
           j == IF local = {} THEN Idle ELSE [pc |-> "visible", ev |-> ev, ids |-> local]
<1>1. ev \in Pushes
  BY JobFacts DEF Typed, WorkTyped
<1>2. local \in SUBSET LogUsers
  BY DEF OnlineExcept
<1>3. j \in Jobs
  BY <1>1, <1>2, MakesJobs
<1>4. job' = [job EXCEPT ![w] = j]
  BY DEF WithCandidates
<1>5. job' \in [Workers -> Jobs]
  <2> HIDE DEF j
  <2> QED BY <1>3, <1>4, JobSet DEF Typed
<1>6. SkippedBy(R, ev.seq) \in SUBSET (LogUsers \X Nat)
  <2>1. ev.seq \in Nat
    BY <1>1, EventFacts
  <2>2. members \in SUBSET LogUsers
    BY DEF Typed, DbTyped
  <2> HIDE DEF ev
  <2>3. ASSUME NEW x \in SkippedBy(R, ev.seq) PROVE x \in LogUsers \X Nat
    <3>1. PICK u \in members : x = <<u, ev.seq>>
      BY <2>3 DEF SkippedBy
    <3> QED BY <2>1, <2>2, <3>1
  <2> QED BY <2>3
<1>7. stale' = [stale EXCEPT ![w[1]] = stale[w[1]] \cup SkippedBy(R, ev.seq)]
  BY DEF WithCandidates
<1>8. stale' \in [Nodes -> SUBSET (LogUsers \X Nat)]
  <2> DEFINE X == SkippedBy(R, ev.seq)
  <2>1. X \in SUBSET (LogUsers \X Nat) /\ stale' = [stale EXCEPT ![w[1]] = stale[w[1]] \cup X]
    BY <1>6, <1>7
  <2> HIDE DEF X
  <2> QED BY <2>1, OneWorker DEF Typed, LossTyped
<1> QED BY <1>5, <1>8

(* Steps of a delivery worker keep the types.                              *)
LEMMA TypedWorkers ==
    ASSUME Typed, NEW w \in Workers,
           \/ Take(w) \/ RosterHit(w) \/ RosterRead(w) \/ RosterSet(w)
           \/ CheckVisible(w) \/ Fanout(w) \/ DeliverFails(w)
    PROVE  Typed'
<1> USE DEF logVars, busVars
<1>0. DbTyped /\ BusTyped /\ WorkTyped /\ ClientTyped /\ LossTyped /\ AppTyped
  BY DEF Typed
<1>00. w[1] \in Nodes
  BY OneWorker
<1>01. /\ job[w].pc # "idle" => job[w].ev \in Pushes
       /\ job[w].pc \in {"roster", "visible", "fanout"} => job[w].ids \in SUBSET LogUsers
  BY <1>0, JobFacts DEF WorkTyped
<1>1. CASE Take(w)
  <2> DEFINE n == w[1]
             e == Head(deliver[n])
             j == [pc |-> "recipients", ev |-> e]
  <2>1. deliver[n] \in Seq(Pushes) /\ deliver[n] # <<>>
    BY <1>0, <1>00, <1>1 DEF Take, WorkTyped
  <2>2. e \in Pushes /\ Tail(deliver[n]) \in Seq(Pushes)
    BY <2>1, SMTT(30)
  <2>3. deliver' = [deliver EXCEPT ![n] = Tail(deliver[n])] /\ job' = [job EXCEPT ![w] = j] /\ cache' = cache
    BY <1>1 DEF Take
  <2>4. j \in Jobs
    BY <2>2, MakesJobs
  <2> HIDE DEF e, j
  <2>5. job' \in [Workers -> Jobs]
    BY <1>0, <2>3, <2>4, JobSet
  <2>6. deliver' \in [Nodes -> Seq(Pushes)]
    BY <1>0, <2>2, <2>3 DEF WorkTyped
  <2>7. WorkTyped'
    BY <1>0, <2>3, <2>5, <2>6 DEF WorkTyped
  <2> QED BY <1>0, <1>1, <2>7, DbFrame, BusFrame, ClientFrame, LossFrame, AppFrame DEF Typed, Take, WorkerStep
<1>2. CASE RosterHit(w)
  <2>1. Roster(w[1]) \in SUBSET LogUsers
    BY <1>0, <1>00, <1>2, DeliveryAssumption DEF RosterHit, Roster, WorkTyped
  <2>2. job' \in [Workers -> Jobs] /\ stale' \in [Nodes -> SUBSET (LogUsers \X Nat)]
    BY <1>2, <2>1, CandidatesTyped DEF RosterHit
  <2>3. WorkTyped' /\ LossTyped'
    BY <1>0, <1>2, <2>2 DEF RosterHit, WithCandidates, WorkTyped, LossTyped
  <2> QED BY <1>0, <1>2, <2>3, DbFrame, BusFrame, ClientFrame, AppFrame DEF Typed, RosterHit, WithCandidates, WorkerStep
<1>3. CASE RosterRead(w)
  <2> DEFINE j == [pc |-> "roster", ev |-> job[w].ev, ids |-> members]
  <2>1. j \in Jobs
    BY <1>0, <1>01, <1>3, MakesJobs DEF RosterRead, DbTyped
  <2>2. job' = [job EXCEPT ![w] = j]
    BY <1>3 DEF RosterRead
  <2> HIDE DEF j
  <2>3. job' \in [Workers -> Jobs]
    BY <1>0, <2>1, <2>2, JobSet
  <2>4. WorkTyped'
    BY <1>0, <1>3, <2>3 DEF RosterRead, WorkTyped
  <2> QED BY <1>0, <1>3, <2>4, DbFrame, BusFrame, ClientFrame, LossFrame, AppFrame DEF Typed, RosterRead, WorkerStep
<1>4. CASE RosterSet(w)
  <2>1. job[w].ids \in SUBSET LogUsers
    BY <1>01, <1>4 DEF RosterSet
  <2>2. job' \in [Workers -> Jobs] /\ stale' \in [Nodes -> SUBSET (LogUsers \X Nat)]
    BY <1>4, <2>1, CandidatesTyped DEF RosterSet
  <2>3. cache' \in [Nodes -> (SUBSET LogUsers) \cup {NoEntry}]
    BY <1>0, <1>00, <1>4, <2>1 DEF RosterSet, WorkTyped
  <2>4. WorkTyped' /\ LossTyped'
    BY <1>0, <1>4, <2>2, <2>3 DEF RosterSet, WithCandidates, WorkTyped, LossTyped
  <2> QED BY <1>0, <1>4, <2>4, DbFrame, BusFrame, ClientFrame, AppFrame DEF Typed, RosterSet, WithCandidates, WorkerStep
<1>5. CASE CheckVisible(w)
  <2> DEFINE j == [pc |-> "fanout", ev |-> job[w].ev, ids |-> VisibleTo(job[w].ids, job[w].ev.seq)]
  <2>1. VisibleTo(job[w].ids, job[w].ev.seq) \in SUBSET LogUsers
    BY <1>01, <1>5 DEF CheckVisible, VisibleTo
  <2>2. j \in Jobs
    BY <1>01, <1>5, <2>1, MakesJobs DEF CheckVisible
  <2>3. job' = [job EXCEPT ![w] = j]
    BY <1>5 DEF CheckVisible
  <2> HIDE DEF j
  <2>4. job' \in [Workers -> Jobs]
    BY <1>0, <2>2, <2>3, JobSet
  <2>5. WorkTyped'
    BY <1>0, <1>5, <2>4 DEF CheckVisible, WorkTyped
  <2> QED BY <1>0, <1>5, <2>5, DbFrame, BusFrame, ClientFrame, LossFrame, AppFrame DEF Typed, CheckVisible, WorkerStep
<1>6. CASE Fanout(w)
  <2> DEFINE T == Targets(w[1], job[w].ids, job[w].ev)
  <2>1. PICK over \in SUBSET T : PushOrResync(T, job[w].ev, over)
    BY <1>6 DEF Fanout
  <2>2. PushFrame(job[w].ev) \in Frames
    BY <1>01, <1>6, EventFacts DEF Fanout
  <2> DEFINE frame == [c \in Conns |-> IF c \in over THEN Resync ELSE PushFrame(job[w].ev)]
  <2>3. frame \in [Conns -> Frames \cup {Resync}]
    BY <2>2
  <2>4. Enqueue(T, frame)
    BY <2>1 DEF PushOrResync
  <2> HIDE DEF frame, T
  <2>5. ClientTyped'
    <3>1. known' = known
      BY <1>6 DEF Fanout, WorkerStep
    <3> QED BY <1>0, <2>3, <2>4, <3>1, EnqueueEffect DEF ClientTyped
  <2>6. job' \in [Workers -> Jobs]
    BY <1>0, <1>6, MakesJobs DEF Fanout, WorkTyped
  <2>7. WorkTyped'
    BY <1>0, <1>6, <2>6 DEF Fanout, WorkTyped
  <2> QED BY <1>0, <1>6, <2>5, <2>7, DbFrame, BusFrame, LossFrame, AppFrame DEF Typed, Fanout, WorkerStep
<1>7. CASE DeliverFails(w)
  <2>1. job' \in [Workers -> Jobs]
    BY <1>0, <1>7, MakesJobs DEF DeliverFails, WorkTyped
  <2>2. job[w].ev.seq \in Nat
    BY <1>01, <1>7, EventFacts DEF DeliverFails
  <2>3. dropped' \in [Nodes -> SUBSET Nat]
    BY <1>0, <1>00, <1>7, <2>2 DEF DeliverFails, LossTyped
  <2>4. WorkTyped' /\ LossTyped'
    BY <1>0, <1>7, <2>1, <2>3 DEF DeliverFails, WorkTyped, LossTyped
  <2> QED BY <1>0, <1>7, <2>4, DbFrame, BusFrame, ClientFrame, AppFrame DEF Typed, DeliverFails, WorkerStep
<1> QED BY <1>1, <1>2, <1>3, <1>4, <1>5, <1>6, <1>7

(* Steps of an offline push.                                               *)
AppWork(n) ==
    \/ AppRosterHit(n) \/ AppRosterRead(n) \/ AppRosterSet(n) \/ AppVisible(n) \/ AppFails(n)
    \/ app[n].pc = "online" /\ \E online \in SUBSET app[n].ids : AppNotify(n, online)

(* What an offline push goes on with.                                      *)
LEMMA AppRestEffect ==
    ASSUME AppTyped, NEW n \in Nodes, app[n].pc # "idle", NEW S \in SUBSET LogUsers,
           NEW l \in {"visible", "online"}, AppRest(n, S, l)
    PROVE  /\ app' \in [Nodes -> Apps]
           /\ \A m \in Nodes : m # n => app'[m] = app[m]
           /\ app'[n] = Idle \/ (app'[n].pc = l /\ app'[n].seq = app[n].seq /\ app'[n].ids = S)
<1>1. app[n].seq \in Nat
  BY AppFacts DEF AppTyped
<1> DEFINE j == [pc |-> l, seq |-> app[n].seq, ids |-> S]
<1>2. j \in Apps /\ Idle \in Apps /\ j.pc = l /\ j.seq = app[n].seq /\ j.ids = S
  BY <1>1, MakesApps
<1>3. app' = [app EXCEPT ![n] = j] \/ app' = [app EXCEPT ![n] = Idle]
  BY DEF AppRest, AppSet
<1> HIDE DEF j
<1> QED BY <1>2, <1>3 DEF AppTyped

(* Steps of an offline push keep the types.                                *)
LEMMA TypedApps == ASSUME Typed, NEW n \in Nodes, AppWork(n) PROVE Typed'
<1> USE DEF logVars, busVars, clientVars
<1>0. DbTyped /\ BusTyped /\ WorkTyped /\ ClientTyped /\ LossTyped /\ AppTyped
  BY DEF Typed
<1>01. /\ app[n].pc # "idle" => app[n].seq \in Nat
       /\ app[n].pc \in {"roster", "visible", "online"} => app[n].ids \in SUBSET LogUsers
  BY <1>0, AppFacts DEF AppTyped
<1>1. AppTyped'
  <2>1. CASE AppRosterHit(n)
    <3>1. Unmuted(Roster(n), app[n].seq) \in SUBSET LogUsers
      BY <1>0, <2>1, DeliveryAssumption DEF AppRosterHit, Roster, WorkTyped, Unmuted
    <3>2. app[n].pc # "idle" /\ AppRest(n, Unmuted(Roster(n), app[n].seq), "visible")
      BY <2>1 DEF AppRosterHit
    <3> QED BY <1>0, <3>1, <3>2, AppRestEffect DEF AppTyped
  <2>2. CASE AppRosterRead(n)
    <3>1. [pc |-> "roster", seq |-> app[n].seq, ids |-> members] \in Apps
      BY <1>0, <1>01, <2>2, MakesApps DEF AppRosterRead, DbTyped
    <3>2. app' = [app EXCEPT ![n] = [pc |-> "roster", seq |-> app[n].seq, ids |-> members]]
      BY <2>2 DEF AppRosterRead, AppSet
    <3> QED BY <1>0, <3>1, <3>2 DEF AppTyped
  <2>3. CASE AppRosterSet(n)
    <3>1. Unmuted(app[n].ids, app[n].seq) \in SUBSET LogUsers
      BY <1>01, <2>3 DEF AppRosterSet, Unmuted
    <3>2. app[n].pc # "idle" /\ AppRest(n, Unmuted(app[n].ids, app[n].seq), "visible")
      BY <2>3 DEF AppRosterSet
    <3> QED BY <1>0, <3>1, <3>2, AppRestEffect DEF AppTyped
  <2>4. CASE AppVisible(n)
    <3>1. VisibleTo(app[n].ids, app[n].seq) \in SUBSET LogUsers
      BY <1>01, <2>4 DEF AppVisible, VisibleTo
    <3>2. app[n].pc # "idle" /\ AppRest(n, VisibleTo(app[n].ids, app[n].seq), "online")
      BY <2>4 DEF AppVisible
    <3> QED BY <1>0, <3>1, <3>2, AppRestEffect DEF AppTyped
  <2>5. CASE AppFails(n) \/ \E online \in SUBSET app[n].ids : AppNotify(n, online)
    <3>1. app' = [app EXCEPT ![n] = Idle]
      BY <2>5 DEF AppFails, AppNotify, AppSet
    <3> QED BY <1>0, <3>1, MakesApps DEF AppTyped
  <2> QED BY <2>1, <2>2, <2>3, <2>4, <2>5 DEF AppWork
<1>2. AppStep /\ (cache' = cache \/ (app[n].pc = "roster" /\ cache' = [cache EXCEPT ![n] = app[n].ids]))
  BY DEF AppWork, AppRosterHit, AppRosterRead, AppRosterSet, AppVisible, AppFails, AppNotify
<1>3. cache' \in [Nodes -> (SUBSET LogUsers) \cup {NoEntry}]
  BY <1>0, <1>01, <1>2 DEF WorkTyped
<1>4. WorkTyped'
  BY <1>0, <1>2, <1>3 DEF WorkTyped, AppStep
<1> QED BY <1>0, <1>1, <1>2, <1>4, DbFrame, BusFrame, ClientFrame, LossFrame DEF Typed, AppStep

(* The first state is well typed.                                          *)
LEMMA TypedInit == Init => Typed
<1> SUFFICES ASSUME Init PROVE Typed
  OBVIOUS
<1>1. \A S : <<>> \in Seq(S)
  BY RangeEmpty
<1>2. DbTyped
  BY <1>1, DeliveryAssumption DEF Init, LogInit, DbTyped
<1>3. BusTyped
  BY <1>1, SMTT(30) DEF Init, BusTyped
<1>4. WorkTyped
  BY <1>1, MakesJobs DEF Init, WorkTyped
<1>5. ClientTyped
  BY <1>1 DEF Init, ClientTyped
<1>6. LossTyped /\ AppTyped
  BY MakesApps DEF Init, LossTyped, AppTyped
<1> QED BY <1>2, <1>3, <1>4, <1>5, <1>6 DEF Typed

(* The steps, by who takes them.                                           *)
Requests ==
    \/ \E u \in Senders, k \in LogKeys, n \in Nodes, c \in Excepts : Commit(u, k, n, c)
    \/ \E u \in Movers : Change(u)
    \/ \E p \in unsent, ok \in BOOLEAN : Publish(p, ok)
    \/ \E s \in 1 .. Size, c \in Excepts, ok \in BOOLEAN : Republish(s, c, ok)
    \/ \E ok \in BOOLEAN : NotifyChanged(ok)
ConnWork(c) == OpenConn(c) \/ Close1(c) \/ WriteLoop(c) \/ Pull(c)
NodeWork(n) == Connect(n) \/ Disconnect(n) \/ Consume(n) \/ Expire(n) \/ Crash(n)
WorkerWork(w) ==
    \/ Take(w) \/ RosterHit(w) \/ RosterRead(w) \/ RosterSet(w)
    \/ CheckVisible(w) \/ Fanout(w) \/ DeliverFails(w)

(* Every step is one of these.                                             *)
LEMMA StepKinds ==
    ASSUME [Next]_vars
    PROVE  \/ Requests
           \/ \E c \in Conns : ConnWork(c)
           \/ \E n \in Nodes : NodeWork(n) \/ AppWork(n)
           \/ \E w \in Workers : WorkerWork(w)
           \/ UNCHANGED vars
<1>1. CASE UNCHANGED vars
  BY <1>1
<1>2. CASE Next
  BY <1>2 DEF Next, Requests, ConnWork, NodeWork, AppWork, WorkerWork, Excepts
<1> QED BY <1>1, <1>2

(* Every step keeps the types.                                             *)
LEMMA TypedNext == Typed /\ [Next]_vars => Typed'
<1> SUFFICES ASSUME Typed, [Next]_vars PROVE Typed'
  OBVIOUS
<1>1. CASE Requests
  BY <1>1, TypedRequests DEF Requests
<1>2. ASSUME NEW c \in Conns, ConnWork(c) PROVE Typed'
  BY <1>2, TypedConns DEF ConnWork
<1>3. ASSUME NEW n \in Nodes, NodeWork(n) \/ AppWork(n) PROVE Typed'
  BY <1>3, TypedNodes, TypedApps DEF NodeWork
<1>4. ASSUME NEW w \in Workers, WorkerWork(w) PROVE Typed'
  BY <1>4, TypedWorkers DEF WorkerWork
<1>5. CASE UNCHANGED vars
  BY <1>5, DbFrame, BusFrame, WorkFrame, ClientFrame, LossFrame, AppFrame
     DEF vars, logVars, busVars, workVars, clientVars, history, Typed
<1> QED BY <1>1, <1>2, <1>3, <1>4, <1>5, StepKinds

-----------------------------------------------------------------------------
(* Who may be sent what: a user who belonged to the conversation when the  *)
(* message was committed; an app push also wants a user who is neither the *)
(* sender nor muted.                                                       *)
Heard(u, s) == s \in 1 .. Size /\ u \in audience[s]
Wanted(u, s) == u \notin Muted /\ u # log[s].sender

DbInv ==
    /\ Len(audience) = Size
    /\ \A u \in LogUsers : \A s \in entitled[u] : Heard(u, s)
    /\ \A p \in unsent : p.seq \in 1 .. Size
QueueInv == \A c \in Conns : \A f \in Range(outq[c]) : f # Resync => Heard(UserOf[c], f.seq)
FanoutInv == \A w \in Workers : job[w].pc = "fanout" => \A u \in job[w].ids : Heard(u, job[w].ev.seq)
AppInv(n) ==
    app[n].pc # "idle" =>
        /\ app[n].seq \in 1 .. Size
        /\ app[n].pc \in {"visible", "online"} => \A u \in app[n].ids : Wanted(u, app[n].seq)
        /\ app[n].pc = "online" => \A u \in app[n].ids : Heard(u, app[n].seq)
NotifiedInv == \A x \in notified : Heard(x[1], x[2]) /\ Wanted(x[1], x[2])

AudienceInv == DbInv /\ QueueInv /\ FanoutInv /\ (\A n \in Nodes : AppInv(n)) /\ NotifiedInv

(* The log and its audiences only grow.                                    *)
Grows == \A s \in 1 .. Size : s \in (1 .. Size)' /\ audience'[s] = audience[s] /\ log'[s] = log[s]

(* What is true of a committed message stays true.                         *)
LEMMA HeardStays ==
    ASSUME Grows
    PROVE  /\ \A u, s : Heard(u, s) => Heard(u, s)'
           /\ \A u : \A s \in 1 .. Size : Wanted(u, s) => Wanted(u, s)'
           /\ \A s \in 1 .. Size : s \in (1 .. Size)'
BY DEF Grows, Heard, Wanted

(* A step that leaves the log alone.                                       *)
LEMMA SameGrows == ASSUME UNCHANGED <<log, audience>> PROVE Grows
BY DEF Grows, Size

(* A commit adds one message at the end, whose audience are the members.   *)
LEMMA CommitGrows ==
    ASSUME Typed, DbInv, NEW u, NEW k, NEW n, NEW c, Commit(u, k, n, c), u \in LogUsers, k \in LogKeys
    PROVE  Grows /\ Size' = Size + 1 /\ Len(audience)' = Size' /\ audience'[Size + 1] = members /\ Size \in Nat
<1>1. log' = Append(log, [sender |-> u, key |-> k]) /\ audience' = Append(audience, members)
  BY DEF Commit, Append1
<1>2. log \in Seq([sender : LogUsers, key : LogKeys]) /\ audience \in Seq(SUBSET LogUsers) /\ members \in SUBSET LogUsers
  BY DEF Typed, DbTyped
<1>3. Len(audience) = Len(log) /\ [sender |-> u, key |-> k] \in [sender : LogUsers, key : LogKeys]
  BY DEF DbInv, Size
<1>4. Len(log') = Len(log) + 1 /\ Len(log) \in Nat /\ \A s \in 1 .. Len(log) : log'[s] = log[s]
  BY <1>1, <1>2, <1>3, SMTT(30)
<1>5. /\ Len(audience') = Len(log) + 1 /\ audience'[Len(log) + 1] = members
      /\ \A s \in 1 .. Len(log) : audience'[s] = audience[s]
  BY <1>1, <1>2, <1>3, SMTT(30)
<1>6. \A s \in 1 .. Len(log) : s \in 1 .. Len(log) + 1
  BY <1>4, SMTT(30)
<1> QED BY <1>4, <1>5, <1>6 DEF Grows, Size

(* Steps that only take from the queues or add Resync.                     *)
LEMMA QueueKept ==
    ASSUME Grows, QueueInv, \A c \in Conns : Range(outq'[c]) \subseteq Range(outq[c]) \cup {Resync}
    PROVE  QueueInv'
BY HeardStays DEF QueueInv

(* Steps that begin no fan-out.                                            *)
LEMMA FanoutKept ==
    ASSUME Grows, FanoutInv, \A w \in Workers : job'[w] = job[w] \/ job'[w].pc # "fanout"
    PROVE  FanoutInv'
BY HeardStays DEF FanoutInv

(* Steps that leave an offline push alone or end it.                       *)
LEMMA AppKept ==
    ASSUME Grows, NEW n \in Nodes, AppInv(n), app'[n] = app[n] \/ app'[n] = Idle
    PROVE  AppInv(n)'
<1>1. CASE app'[n] = Idle
  <2>1. Idle.pc = "idle"
    BY DEF Idle
  <2>2. app'[n].pc = "idle"
    BY <1>1, <2>1
  <2> QED BY <2>2 DEF AppInv
<1>2. CASE app'[n] = app[n]
  BY <1>2, HeardStays DEF AppInv
<1> QED BY <1>1, <1>2

(* What was handed to the app pusher stays as it was.                      *)
LEMMA NotifiedKept == ASSUME Grows, NotifiedInv, notified' = notified PROVE NotifiedInv'
<1>1. \A x \in notified : x[2] \in 1 .. Size
  BY DEF NotifiedInv, Heard
<1> QED BY <1>1, HeardStays DEF NotifiedInv

(* A step that leaves the database and the unsent requests alone, or only  *)
(* takes requests away.                                                    *)
LEMMA DbKept ==
    ASSUME DbInv, UNCHANGED <<log, audience, entitled>>, unsent' \subseteq unsent
    PROVE  DbInv'
BY DEF DbInv, Heard, Size

(* Requests keep the audience invariant.                                   *)
LEMMA AudienceRequests == ASSUME Typed, AudienceInv, Requests PROVE AudienceInv'
<1> USE DEF logVars, busVars, workVars, clientVars, history
<1>0. DbInv /\ QueueInv /\ FanoutInv /\ (\A n \in Nodes : AppInv(n)) /\ NotifiedInv
  BY DEF AudienceInv
<1>1. ASSUME NEW u \in Senders, NEW k \in LogKeys, NEW n \in Nodes, NEW c \in Excepts, Commit(u, k, n, c)
      PROVE  AudienceInv'
  <2>1. u \in LogUsers
    BY DeliveryAssumption
  <2>2. Grows /\ Size' = Size + 1 /\ Len(audience)' = Size' /\ audience'[Size + 1] = members /\ Size \in Nat
    BY <1>0, <1>1, <2>1, CommitGrows
  <2>3. Size + 1 \in (1 .. Size)'
    <3>1. Size + 1 \in 1 .. Size + 1
      BY <2>2, SMTT(30)
    <3> QED BY <2>2, <3>1
  <2>4. UNCHANGED <<outq, job, app, notified>>
    BY <1>1 DEF Commit
  <2>5. \A v \in LogUsers : \A s \in entitled'[v] : Heard(v, s)'
    <3> TAKE v \in LogUsers
    <3> TAKE s \in entitled'[v]
    <3>1. s \in entitled[v] \/ (v \in members /\ s = Size + 1)
      <4>1. entitled' = [x \in LogUsers |-> IF x \in members THEN entitled[x] \cup {Size + 1} ELSE entitled[x]]
        BY <1>1 DEF Commit, Append1
      <4>2. entitled'[v] = IF v \in members THEN entitled[v] \cup {Size + 1} ELSE entitled[v]
        BY <4>1
      <4> QED BY <4>2
    <3>2. CASE s \in entitled[v]
      BY <1>0, <2>2, <3>2, HeardStays DEF DbInv
    <3>3. CASE v \in members /\ s = Size + 1
      BY <2>2, <2>3, <3>3 DEF Heard
    <3> QED BY <3>1, <3>2, <3>3
  <2>6. \A p \in unsent' : p.seq \in (1 .. Size)'
    <3> TAKE p \in unsent'
    <3>1. p \in unsent \/ p = [seq |-> Size + 1, node |-> n, except |-> c]
      BY <1>1 DEF Commit
    <3>2. [seq |-> Size + 1, node |-> n, except |-> c].seq = Size + 1
      OBVIOUS
    <3> QED BY <1>0, <2>2, <2>3, <3>1, <3>2, HeardStays DEF DbInv
  <2>7. DbInv'
    BY <2>2, <2>5, <2>6 DEF DbInv
  <2> QED BY <1>0, <2>2, <2>4, <2>7, QueueKept, FanoutKept, AppKept, NotifiedKept DEF AudienceInv
<1>2. ASSUME NEW u \in Movers, Change(u) PROVE AudienceInv'
  <2>1. UNCHANGED <<log, audience, unsent, outq, job, app, notified>>
    BY <1>2 DEF Change, Enter, Leave
  <2>2. Grows
    BY <2>1, SameGrows
  <2>3. \A v \in LogUsers : \A s \in entitled'[v] : s \in entitled[v]
    <3>1. entitled' = [entitled EXCEPT ![u] = {}] \/ entitled' = entitled
      BY <1>2 DEF Change, Enter, Leave
    <3>2. entitled \in [LogUsers -> SUBSET Nat]
      BY DEF Typed, DbTyped
    <3> QED BY <3>1, <3>2
  <2>4. \A v \in LogUsers : \A s \in entitled'[v] : Heard(v, s)'
    BY <1>0, <2>2, <2>3, HeardStays DEF DbInv
  <2>5. DbInv'
    BY <1>0, <2>1, <2>4 DEF DbInv, Size
  <2> QED BY <1>0, <2>1, <2>2, <2>5, QueueKept, FanoutKept, AppKept, NotifiedKept DEF AudienceInv
<1>3. ASSUME NEW p \in unsent, NEW ok \in BOOLEAN, Publish(p, ok) PROVE AudienceInv'
  <2>1. UNCHANGED <<log, audience, entitled, outq, job, notified>> /\ unsent' \subseteq unsent
    BY <1>3 DEF Publish
  <2>2. Grows
    BY <2>1, SameGrows
  <2>3. ASSUME NEW n \in Nodes PROVE AppInv(n)'
    <3>1. app'[n] = app[n] \/ (app'[n].pc = "recipients" /\ app'[n].seq = p.seq)
      <4>1. app \in [Nodes -> Apps]
        BY DEF Typed, AppTyped
      <4>2. app' = [app EXCEPT ![p.node] = IF Pusher /\ app[p.node] = Idle THEN [pc |-> "recipients", seq |-> p.seq] ELSE app[p.node]]
        BY <1>3 DEF Publish
      <4> QED BY <4>1, <4>2
    <3>2. CASE app'[n] = app[n]
      BY <1>0, <2>2, <3>2, AppKept
    <3>3. CASE app'[n].pc = "recipients" /\ app'[n].seq = p.seq
      <4>1. p.seq \in (1 .. Size)'
        BY <1>0, <2>1 DEF DbInv, Size
      <4> QED BY <3>3, <4>1 DEF AppInv
    <3> QED BY <3>1, <3>2, <3>3
  <2> QED BY <1>0, <2>1, <2>2, <2>3, DbKept, QueueKept, FanoutKept, NotifiedKept DEF AudienceInv
<1>4. ASSUME UNCHANGED <<log, audience, entitled, unsent, outq, job, app, notified>> PROVE AudienceInv'
  BY <1>0, <1>4, SameGrows, DbKept, QueueKept, FanoutKept, AppKept, NotifiedKept DEF AudienceInv
<1>5. ASSUME NEW s \in 1 .. Size, NEW c \in Excepts, NEW ok \in BOOLEAN, Republish(s, c, ok) PROVE AudienceInv'
  BY <1>4, <1>5 DEF Republish
<1>6. ASSUME NEW ok \in BOOLEAN, NotifyChanged(ok) PROVE AudienceInv'
  BY <1>4, <1>6 DEF NotifyChanged
<1> QED BY <1>1, <1>2, <1>3, <1>5, <1>6 DEF Requests

(* A connection's steps keep it: they only take frames away.               *)
LEMMA AudienceConns == ASSUME Typed, AudienceInv, NEW c \in Conns, ConnWork(c) PROVE AudienceInv'
<1> USE DEF logVars, busVars, workVars, clientVars, history
<1>1. UNCHANGED <<log, audience, entitled, unsent, job, app, notified>>
  BY DEF ConnWork, OpenConn, Close1, WriteLoop, Pull
<1>2. \A d \in Conns : Range(outq'[d]) \subseteq Range(outq[d]) \cup {Resync}
  <2> TAKE d \in Conns
  <2>1. CASE outq' = outq
    BY <2>1
  <2>2. CASE Close1(c)
    <3>1. CloseAll({c})
      BY <2>2 DEF Close1
    <3>2. outq'[d] = <<>> \/ outq'[d] = outq[d]
      BY <3>1, CloseEffect DEF Typed
    <3> QED BY <3>2, RangeEmpty
  <2>3. CASE WriteLoop(c)
    <3>1. outq \in [Conns -> Seq(Frames \cup {Resync})] /\ outq[c] # <<>> /\ outq' = [outq EXCEPT ![c] = Tail(outq[c])]
      BY <2>3 DEF WriteLoop, Typed, ClientTyped
    <3>2. outq'[d] = outq[d] \/ (d = c /\ outq'[d] = Tail(outq[c]))
      BY <3>1
    <3>3. Range(outq[c]) = {Head(outq[c])} \cup Range(Tail(outq[c]))
      <4>1. outq[c] \in Seq(Frames \cup {Resync}) /\ outq[c] # <<>>
        BY <3>1
      <4> QED BY <4>1, RangeTail
    <3> QED BY <3>2, <3>3
  <2> QED BY <2>1, <2>2, <2>3 DEF ConnWork, OpenConn, Pull
<1> QED BY <1>1, <1>2, SameGrows, DbKept, QueueKept, FanoutKept, AppKept, NotifiedKept DEF AudienceInv

(* A node's subscription keeps it: it adds only Resync and gives work up.  *)
LEMMA AudienceNodes == ASSUME Typed, AudienceInv, NEW n \in Nodes, NodeWork(n) PROVE AudienceInv'
<1> USE DEF logVars, busVars, workVars, clientVars, history
<1>1. UNCHANGED <<log, audience, entitled, notified>> /\ unsent' \subseteq unsent
  BY DEF NodeWork, Connect, Disconnect, Consume, Expire, Crash
<1>2. \A w \in Workers : job'[w] = job[w] \/ job'[w].pc # "fanout"
  <2>1. job' = job \/ job' = [w \in Workers |-> IF w[1] = n THEN Idle ELSE job[w]]
    BY DEF NodeWork, Connect, Disconnect, Consume, Expire, Crash
  <2>2. Idle.pc # "fanout"
    BY DEF Idle
  <2> QED BY <2>1, <2>2
<1>3. \A m \in Nodes : app'[m] = app[m] \/ app'[m] = Idle
  <2>1. app' = app \/ app' = [app EXCEPT ![n] = Idle]
    BY DEF NodeWork, Connect, Disconnect, Consume, Expire, Crash
  <2> QED BY <2>1 DEF Typed, AppTyped
<1>4. \A d \in Conns : Range(outq'[d]) \subseteq Range(outq[d]) \cup {Resync}
  <2> TAKE d \in Conns
  <2>1. CASE outq' = outq
    BY <2>1
  <2>2. CASE CloseAll(OpenAt(n))
    <3>1. outq'[d] = <<>> \/ outq'[d] = outq[d]
      BY <2>2, CloseEffect DEF Typed
    <3> QED BY <3>1, RangeEmpty
  <2>3. CASE ResyncAll(n)
    <3> DEFINE frame == [c \in Conns |-> Resync]
    <3>1. frame \in [Conns -> Frames \cup {Resync}] /\ frame[d] = Resync /\ Enqueue(OpenAt(n), frame)
      BY <2>3 DEF ResyncAll
    <3> HIDE DEF frame
    <3>2. \/ d \in OpenAt(n) /\ conn'[d] = "closed" /\ outq'[d] = <<>>
          \/ /\ d \in OpenAt(n) /\ conn'[d] = conn[d] /\ due'[d] = due[d] /\ outq'[d] = Append(outq[d], frame[d])
             /\ Range(outq'[d]) = Range(outq[d]) \cup {frame[d]}
          \/ d \notin OpenAt(n) /\ conn'[d] = conn[d] /\ outq'[d] = outq[d] /\ due'[d] = due[d]
      BY <3>1, EnqueueEffect DEF Typed
    <3> QED BY <3>1, <3>2, RangeEmpty
  <2> QED BY <2>1, <2>2, <2>3 DEF NodeWork, Connect, Disconnect, Consume, Expire, Crash
<1> QED BY <1>1, <1>2, <1>3, <1>4, SameGrows, DbKept, QueueKept, FanoutKept, AppKept, NotifiedKept DEF AudienceInv

(* A worker queues a push for no one VisibleTo did not name.               *)
LEMMA AudienceWorkers == ASSUME Typed, AudienceInv, NEW w \in Workers, WorkerWork(w) PROVE AudienceInv'
<1> USE DEF logVars, busVars
<1>0. DbInv /\ QueueInv /\ FanoutInv /\ (\A n \in Nodes : AppInv(n)) /\ NotifiedInv
  BY DEF AudienceInv
<1>1. UNCHANGED <<log, audience, entitled, unsent, app, notified>>
  BY DEF WorkerWork, Take, RosterHit, RosterRead, RosterSet, CheckVisible, Fanout, DeliverFails, WorkerStep
<1>2. Grows
  BY <1>1, SameGrows
<1>3. DbInv' /\ (\A n \in Nodes : AppInv(n))' /\ NotifiedInv'
  BY <1>0, <1>1, <1>2, DbKept, AppKept, NotifiedKept
<1>4. job \in [Workers -> Jobs]
  BY DEF Typed, WorkTyped
<1>5. QueueInv'
  <2>1. CASE outq' = outq
    BY <1>0, <1>2, <2>1, QueueKept
  <2>2. CASE Fanout(w)
    <3> DEFINE T == Targets(w[1], job[w].ids, job[w].ev)
    <3>1. PICK over \in SUBSET T : PushOrResync(T, job[w].ev, over)
      BY <2>2 DEF Fanout
    <3>2. job[w].pc = "fanout"
      BY <2>2 DEF Fanout
    <3>3. job[w].ev \in Pushes
      BY <1>4, <3>2, JobFacts
    <3> DEFINE e == job[w].ev
               frame == [c \in Conns |-> IF c \in over THEN Resync ELSE PushFrame(e)]
    <3>4. PushFrame(e) \in Frames /\ PushFrame(e).seq = e.seq
      BY <3>3, EventFacts
    <3>5. frame \in [Conns -> Frames \cup {Resync}] /\ \A c \in Conns : frame[c] \in {Resync, PushFrame(e)}
      BY <3>4
    <3>6. Enqueue(T, frame)
      BY <3>1 DEF PushOrResync
    <3>7. \A c \in T : UserOf[c] \in job[w].ids
      BY DEF Targets
    <3> HIDE DEF frame, T, e
    <3>8. \A u \in job[w].ids : Heard(u, e.seq)
      BY <1>0, <3>2 DEF FanoutInv, e
    <3> SUFFICES ASSUME NEW c \in Conns, NEW f \in Range(outq'[c]), f # Resync
                 PROVE  Heard(UserOf[c], f.seq)'
      BY DEF QueueInv
    <3>9. \/ c \in T /\ conn'[c] = "closed" /\ outq'[c] = <<>>
          \/ /\ c \in T /\ conn'[c] = conn[c] /\ due'[c] = due[c] /\ outq'[c] = Append(outq[c], frame[c])
             /\ Range(outq'[c]) = Range(outq[c]) \cup {frame[c]}
          \/ c \notin T /\ conn'[c] = conn[c] /\ outq'[c] = outq[c] /\ due'[c] = due[c]
      BY <3>5, <3>6, EnqueueEffect DEF Typed
    <3>10. f \in Range(outq[c]) \/ (c \in T /\ f = frame[c])
      <4>1. CASE outq'[c] = <<>>
        BY <4>1, RangeEmpty
      <4>2. CASE c \in T /\ Range(outq'[c]) = Range(outq[c]) \cup {frame[c]}
        BY <4>2
      <4>3. CASE outq'[c] = outq[c]
        BY <4>3
      <4> QED BY <3>9, <4>1, <4>2, <4>3
    <3>11. Heard(UserOf[c], f.seq)
      <4>1. CASE f \in Range(outq[c])
        BY <1>0, <4>1 DEF QueueInv
      <4>2. CASE c \in T /\ f = frame[c]
        BY <3>4, <3>5, <3>7, <3>8, <4>2
      <4> QED BY <3>10, <4>1, <4>2
    <3> QED BY <1>2, <3>11, HeardStays
  <2> QED BY <2>1, <2>2 DEF WorkerWork, Take, RosterHit, RosterRead, RosterSet, CheckVisible, DeliverFails, WithCandidates
<1>6. FanoutInv'
  <2>1. CASE CheckVisible(w)
    <3> DEFINE V == VisibleTo(job[w].ids, job[w].ev.seq)
    <3>1. job' = [job EXCEPT ![w] = [pc |-> "fanout", ev |-> job[w].ev, ids |-> V]]
      BY <2>1 DEF CheckVisible
    <3>2. job[w].ids \in SUBSET LogUsers
      BY <1>4, <2>1, JobFacts DEF CheckVisible
    <3>3. \A u \in V : Heard(u, job[w].ev.seq)
      BY <1>0, <3>2 DEF DbInv, VisibleTo
    <3> HIDE DEF V
    <3>4. job'[w].ev = job[w].ev /\ job'[w].ids = V
      BY <1>4, <3>1
    <3>5. \A v \in Workers : v # w => job'[v] = job[v]
      BY <1>4, <3>1
    <3>6. \A v \in Workers : job'[v].pc = "fanout" => \A u \in job'[v].ids : Heard(u, job'[v].ev.seq)
      BY <1>0, <3>3, <3>4, <3>5 DEF FanoutInv
    <3> QED BY <1>2, <3>6, HeardStays DEF FanoutInv
  <2>2. CASE Take(w) \/ RosterHit(w) \/ RosterRead(w) \/ RosterSet(w) \/ Fanout(w) \/ DeliverFails(w)
    <3>1. \E j : job' = [job EXCEPT ![w] = j] /\ j.pc # "fanout"
      <4>1. CASE Take(w)
        <5> DEFINE j == [pc |-> "recipients", ev |-> Head(deliver[w[1]])]
        <5>1. job' = [job EXCEPT ![w] = j] /\ j.pc # "fanout"
          BY <4>1 DEF Take
        <5> QED BY <5>1
      <4>2. CASE Fanout(w) \/ DeliverFails(w)
        BY <4>2 DEF Fanout, DeliverFails, Idle
      <4>3. CASE RosterRead(w)
        <5> DEFINE j == [pc |-> "roster", ev |-> job[w].ev, ids |-> members]
        <5>1. job' = [job EXCEPT ![w] = j] /\ j.pc # "fanout"
          BY <4>3 DEF RosterRead
        <5> QED BY <5>1
      <4>4. ASSUME NEW R, WithCandidates(w, R)
            PROVE  \E j : job' = [job EXCEPT ![w] = j] /\ j.pc # "fanout"
        <5> DEFINE local == OnlineExcept(w[1], R, job[w].ev.except)
                   i == [pc |-> "visible", ev |-> job[w].ev, ids |-> local]
        <5>1. job' = [job EXCEPT ![w] = IF local = {} THEN Idle ELSE i]
          BY <4>4 DEF WithCandidates
        <5>2. Idle.pc # "fanout" /\ i.pc # "fanout"
          BY DEF Idle
        <5> HIDE DEF i, local
        <5> QED BY <5>1, <5>2
      <4> QED BY <2>2, <4>1, <4>2, <4>3, <4>4 DEF RosterHit, RosterSet
    <3>2. \A v \in Workers : job'[v] = job[v] \/ job'[v].pc # "fanout"
      BY <1>4, <3>1
    <3> QED BY <1>0, <1>2, <3>2, FanoutKept
  <2> QED BY <2>1, <2>2 DEF WorkerWork
<1> QED BY <1>3, <1>5, <1>6 DEF AudienceInv

(* An offline push is narrowed to the audience before it is handed over.   *)
LEMMA AudienceApps == ASSUME Typed, AudienceInv, NEW n \in Nodes, AppWork(n) PROVE AudienceInv'
<1> USE DEF logVars, busVars, clientVars
<1>0. DbInv /\ QueueInv /\ FanoutInv /\ (\A m \in Nodes : AppInv(m)) /\ NotifiedInv /\ AppInv(n)
  BY DEF AudienceInv
<1>1. AppStep
  BY DEF AppWork, AppRosterHit, AppRosterRead, AppRosterSet, AppVisible, AppFails, AppNotify
<1>2. UNCHANGED <<log, audience, entitled, unsent, outq, job>>
  BY <1>1 DEF AppStep
<1>3. Grows
  BY <1>2, SameGrows
<1>4. DbInv' /\ QueueInv' /\ FanoutInv'
  BY <1>0, <1>2, <1>3, DbKept, QueueKept, FanoutKept
<1>5. /\ AppTyped /\ app \in [Nodes -> Apps]
      /\ app[n].pc \in {"roster", "visible", "online"} => app[n].ids \in SUBSET LogUsers
  BY AppFacts DEF Typed, AppTyped
<1>6. SUFFICES AppInv(n)' /\ NotifiedInv' /\ \A m \in Nodes : m # n => app'[m] = app[m]
  BY <1>0, <1>3, <1>4, AppKept DEF AudienceInv
<1>7. ASSUME NEW S \in SUBSET LogUsers, \A u \in S : Wanted(u, app[n].seq), app[n].pc # "idle",
             NEW l \in {"visible", "online"}, AppRest(n, S, l), l = "online" => \A u \in S : Heard(u, app[n].seq)
      PROVE  AppInv(n)' /\ \A m \in Nodes : m # n => app'[m] = app[m]
  <2>1. /\ \A m \in Nodes : m # n => app'[m] = app[m]
        /\ app'[n] = Idle \/ (app'[n].pc = l /\ app'[n].seq = app[n].seq /\ app'[n].ids = S)
    BY <1>5, <1>7, AppRestEffect
  <2>2. app[n].seq \in 1 .. Size
    BY <1>0, <1>7 DEF AppInv
  <2>3. CASE app'[n] = Idle
    BY <1>0, <1>3, <2>1, <2>3, AppKept
  <2>4. CASE app'[n].pc = l /\ app'[n].seq = app[n].seq /\ app'[n].ids = S
    <3>1. app[n].seq \in 1 .. Size' /\ \A u \in S : u \notin Muted /\ u # log'[app[n].seq].sender
      BY <1>3, <1>7, <2>2 DEF Grows, Wanted
    <3>2. l = "online" => \A u \in S : u \in audience'[app[n].seq]
      BY <1>3, <1>7 DEF Grows, Heard
    <3>3. app'[n].seq \in 1 .. Size' /\ \A u \in app'[n].ids : u \notin Muted /\ u # log'[app'[n].seq].sender
      BY <2>4, <3>1
    <3>4. app'[n].pc = "online" => \A u \in app'[n].ids : u \in audience'[app'[n].seq]
      BY <2>4, <3>2
    <3> QED BY <2>1, <3>3, <3>4 DEF AppInv, Heard, Wanted
  <2> QED BY <2>1, <2>3, <2>4
<1>8. \A S, s : \A u \in Unmuted(S, s) : u \in S /\ Wanted(u, s)
  BY DEF Unmuted, Wanted
<1>9. CASE AppRosterHit(n)
  <2>1. Unmuted(Roster(n), app[n].seq) \in SUBSET LogUsers
    BY <1>9, DeliveryAssumption DEF AppRosterHit, Roster, Typed, WorkTyped, Unmuted
  <2>2. app[n].pc # "idle" /\ AppRest(n, Unmuted(Roster(n), app[n].seq), "visible") /\ notified' = notified
    BY <1>9 DEF AppRosterHit
  <2> QED BY <1>0, <1>3, <1>7, <1>8, <2>1, <2>2, NotifiedKept
<1>10. CASE AppRosterRead(n)
  <2> DEFINE j == [pc |-> "roster", seq |-> app[n].seq, ids |-> members]
  <2>1. app' = [app EXCEPT ![n] = j] /\ notified' = notified /\ app[n].pc # "idle"
    BY <1>10 DEF AppRosterRead, AppSet
  <2>2. j.pc = "roster" /\ j.seq = app[n].seq
    OBVIOUS
  <2> HIDE DEF j
  <2>3. app'[n] = j /\ \A m \in Nodes : m # n => app'[m] = app[m]
    BY <1>5, <2>1
  <2>4. app[n].seq \in (1 .. Size)'
    BY <1>0, <1>3, <2>1, HeardStays DEF AppInv
  <2>5. AppInv(n)'
    BY <2>2, <2>3, <2>4 DEF AppInv
  <2> QED BY <1>0, <1>3, <2>1, <2>3, <2>5, NotifiedKept
<1>11. CASE AppRosterSet(n)
  <2>1. Unmuted(app[n].ids, app[n].seq) \in SUBSET LogUsers
    BY <1>5, <1>11 DEF AppRosterSet, Unmuted
  <2>2. app[n].pc # "idle" /\ AppRest(n, Unmuted(app[n].ids, app[n].seq), "visible") /\ notified' = notified
    BY <1>11 DEF AppRosterSet
  <2> QED BY <1>0, <1>3, <1>7, <1>8, <2>1, <2>2, NotifiedKept
<1>12. CASE AppVisible(n)
  <2> DEFINE V == VisibleTo(app[n].ids, app[n].seq)
  <2>1. V \in SUBSET LogUsers /\ app[n].pc = "visible"
    BY <1>5, <1>12 DEF AppVisible, VisibleTo
  <2>2. (\A u \in V : Wanted(u, app[n].seq)) /\ (\A u \in V : Heard(u, app[n].seq))
    BY <1>0, <2>1 DEF DbInv, AppInv, VisibleTo
  <2>3. AppRest(n, V, "online") /\ notified' = notified
    BY <1>12 DEF AppVisible
  <2> HIDE DEF V
  <2> QED BY <1>0, <1>3, <1>7, <2>1, <2>2, <2>3, NotifiedKept
<1>13. ASSUME app' = [app EXCEPT ![n] = Idle] PROVE AppInv(n)' /\ \A m \in Nodes : m # n => app'[m] = app[m]
  <2>1. app'[n] = Idle /\ \A m \in Nodes : m # n => app'[m] = app[m]
    BY <1>5, <1>13
  <2> QED BY <1>0, <1>3, <2>1, AppKept
<1>14. CASE AppFails(n)
  BY <1>0, <1>3, <1>13, <1>14, NotifiedKept DEF AppFails, AppSet
<1>15. ASSUME NEW online \in SUBSET app[n].ids, AppNotify(n, online)
       PROVE  AppInv(n)' /\ NotifiedInv' /\ \A m \in Nodes : m # n => app'[m] = app[m]
  <2>1. \A u \in app[n].ids : Heard(u, app[n].seq) /\ Wanted(u, app[n].seq)
    BY <1>0, <1>15 DEF AppInv, AppNotify
  <2>2. \A x \in notified' : x \in notified \/ \E u \in app[n].ids : x = <<u, app[n].seq>>
    BY <1>15 DEF AppNotify
  <2>3. \A x \in notified' : Heard(x[1], x[2]) /\ Wanted(x[1], x[2])
    <3> TAKE x \in notified'
    <3>1. CASE x \in notified
      BY <1>0, <3>1 DEF NotifiedInv
    <3>2. ASSUME NEW u \in app[n].ids, x = <<u, app[n].seq>> PROVE Heard(x[1], x[2]) /\ Wanted(x[1], x[2])
      <4>1. x[1] = u /\ x[2] = app[n].seq
        BY <3>2
      <4> QED BY <2>1, <4>1
    <3> QED BY <2>2, <3>1, <3>2
  <2>4. \A x \in notified' : x[2] \in 1 .. Size
    BY <2>3 DEF Heard
  <2>5. NotifiedInv'
    BY <1>3, <2>3, <2>4, HeardStays DEF NotifiedInv
  <2> QED BY <1>13, <1>15, <2>5 DEF AppNotify, AppSet
<1> QED BY <1>9, <1>10, <1>11, <1>12, <1>14, <1>15 DEF AppWork

(* The invariant holds at the start.                                       *)
LEMMA AudienceInit == ASSUME Init PROVE AudienceInv
<1>1. DbInv
  <2>1. Len(<<>>) = 0
    BY SMTT(30)
  <2> QED BY <2>1 DEF Init, LogInit, DbInv, Size
<1>2. QueueInv
  BY RangeEmpty DEF Init, QueueInv
<1>3. FanoutInv /\ (\A n \in Nodes : AppInv(n)) /\ NotifiedInv
  BY DEF Init, FanoutInv, AppInv, NotifiedInv, Idle
<1> QED BY <1>1, <1>2, <1>3 DEF AudienceInv

(* Every step keeps it.                                                    *)
LEMMA AudienceNext == ASSUME Typed, AudienceInv, [Next]_vars PROVE AudienceInv'
<1>1. CASE UNCHANGED vars
  BY <1>1, SameGrows, DbKept, QueueKept, FanoutKept, AppKept, NotifiedKept
     DEF AudienceInv, vars, logVars, workVars, clientVars, history
<1> QED BY <1>1, StepKinds, AudienceRequests, AudienceConns, AudienceNodes, AudienceWorkers, AudienceApps

(* For any nodes, rosters, membership changes and faults: a push is queued *)
(* only for connections of users who belonged to the conversation when the *)
(* message was committed, and an app push goes only to such a user who is  *)
(* neither its sender nor muted (MessageService.VisibleTo, Delivery and    *)
(* offlinePush re-check after the cached roster).                          *)
THEOREM PushesReachMembersOnly == Spec => []AudienceOnly
<1>1. Init => AudienceInv
  BY AudienceInit
<1>2. Typed /\ AudienceInv /\ [Next]_vars => AudienceInv'
  BY AudienceNext
<1>3. AudienceInv => AudienceOnly
  BY DEF AudienceInv, QueueInv, NotifiedInv, AudienceOnly, Heard, Wanted
<1> QED BY <1>1, <1>2, <1>3, TypedInit, TypedNext, PTL DEF Spec

-----------------------------------------------------------------------------
(* The connection that sent a message learns its seq from the ACK: an      *)
(* event that leaves it out finds it closed or knowing the message.        *)
AckKnown(e) ==
    e.except \in Conns =>
        /\ conn[e.except] # "new"
        /\ conn[e.except] = "open" => e.seq \in known[e.except]
Flying(e) ==
    \/ \E n \in Nodes : e \in Range(chan[n]) \/ e \in Range(deliver[n])
    \/ \E w \in Workers : job[w].pc # "idle" /\ e = job[w].ev
ExceptInv ==
    /\ \A p \in unsent : p.except \in Conns => conn[p.except] # "new"
    /\ \A e : Flying(e) /\ e # GroupChanged => AckKnown(e)

(* Connections do not reopen and clients do not forget.                    *)
Ages ==
    \A c \in Conns : /\ conn[c] # "new" => conn'[c] # "new"
                     /\ conn'[c] = "open" => conn[c] \in {"new", "open"}
                     /\ known[c] \subseteq known'[c]

(* No step reopens a connection or takes a message from a client.          *)
LEMMA StepAges == ASSUME Typed, [Next]_vars PROVE Ages
<1> USE DEF logVars, busVars, workVars, clientVars, history
<1>0. ClientTyped /\ conn \in [Conns -> {"new", "open", "closed"}] /\ known \in [Conns -> SUBSET Nat]
  BY DEF Typed, ClientTyped
<1>1. CASE conn' = conn /\ known' = known
  BY <1>0, <1>1 DEF Ages
<1>2. ASSUME NEW T, NEW frame \in [Conns -> Frames \cup {Resync}], Enqueue(T, frame), known' = known PROVE Ages
  <2>1. \A c \in Conns : conn'[c] = "closed" \/ conn'[c] = conn[c]
    BY <1>2 DEF Enqueue
  <2> QED BY <1>0, <1>2, <2>1 DEF Ages
<1>3. ASSUME NEW T, CloseAll(T), known' = known PROVE Ages
  <2>1. \A c \in Conns : conn'[c] = "closed" \/ conn'[c] = conn[c]
    BY <1>3 DEF CloseAll
  <2> QED BY <1>0, <1>3, <2>1 DEF Ages
<1>4. ASSUME NEW s, NEW c, NEW ok, PublishPush(s, c, ok), conn' = conn PROVE Ages
  <2>1. known' = [d \in Conns |-> IF d = c /\ conn[d] = "open" THEN known[d] \cup {s} ELSE known[d]]
    BY <1>4 DEF PublishPush
  <2>2. \A d \in Conns : known[d] \subseteq known'[d]
    BY <2>1
  <2> QED BY <1>0, <1>4, <2>2 DEF Ages
<1>5. CASE Requests
  BY <1>1, <1>4, <1>5 DEF Requests, Commit, Change, Publish, Republish, NotifyChanged
<1>6. ASSUME NEW c \in Conns, ConnWork(c) PROVE Ages
  <2>1. CASE OpenConn(c)
    <3>1. conn[c] = "new" /\ conn' = [conn EXCEPT ![c] = "open"] /\ known' = known
      BY <2>1 DEF OpenConn
    <3> QED BY <1>0, <3>1 DEF Ages
  <2>2. CASE Close1(c)
    BY <1>3, <2>2 DEF Close1
  <2>3. CASE WriteLoop(c) \/ Pull(c)
    <3>1. conn' = conn /\ \E X : known' = [known EXCEPT ![c] = known[c] \cup X]
      <4>1. CASE Pull(c)
        BY <4>1 DEF Pull
      <4>2. CASE WriteLoop(c)
        <5> DEFINE f == Head(outq[c])
        <5>1. known' = [known EXCEPT ![c] = IF f.type = "push" THEN known[c] \cup {f.seq} ELSE known[c]] /\ conn' = conn
          BY <4>2 DEF WriteLoop
        <5> HIDE DEF f
        <5>2. CASE f.type = "push"
          BY <5>1, <5>2
        <5>3. CASE f.type # "push"
          <6>1. known[c] = known[c] \cup {}
            OBVIOUS
          <6>2. known' = [known EXCEPT ![c] = known[c] \cup {}]
            BY <5>1, <5>3, <6>1
          <6> QED BY <5>1, <6>2
        <5> QED BY <5>2, <5>3
      <4> QED BY <2>3, <4>1, <4>2
    <3>2. \A d \in Conns : known[d] \subseteq known'[d]
      BY <1>0, <3>1
    <3> QED BY <1>0, <3>1, <3>2 DEF Ages
  <2> QED BY <1>6, <2>1, <2>2, <2>3 DEF ConnWork
<1>7. ASSUME NEW n \in Nodes, NodeWork(n) PROVE Ages
  <2>1. CASE Connect(n) /\ sub[n] = "down"
    <3>1. Enqueue(OpenAt(n), [c \in Conns |-> Resync]) /\ known' = known
      BY <2>1 DEF Connect, ResyncAll
    <3>2. [c \in Conns |-> Resync] \in [Conns -> Frames \cup {Resync}]
      OBVIOUS
    <3> QED BY <1>2, <3>1, <3>2
  <2>2. CASE Crash(n)
    BY <1>3, <2>2 DEF Crash
  <2> QED BY <1>1, <1>7, <2>1, <2>2 DEF NodeWork, Connect, Disconnect, Consume, Expire
<1>8. ASSUME NEW n \in Nodes, AppWork(n) PROVE Ages
  BY <1>1, <1>8 DEF AppWork, AppRosterHit, AppRosterRead, AppRosterSet, AppVisible, AppFails, AppNotify, AppStep
<1>9. ASSUME NEW w \in Workers, WorkerWork(w) PROVE Ages
  <2>1. CASE Fanout(w)
    <3> DEFINE T == Targets(w[1], job[w].ids, job[w].ev)
    <3>1. PICK over \in SUBSET T : PushOrResync(T, job[w].ev, over)
      BY <2>1 DEF Fanout
    <3>2. job[w].ev \in Pushes
      BY <2>1, JobFacts DEF Fanout, Typed, WorkTyped
    <3> DEFINE frame == [c \in Conns |-> IF c \in over THEN Resync ELSE PushFrame(job[w].ev)]
    <3>3. frame \in [Conns -> Frames \cup {Resync}] /\ Enqueue(T, frame) /\ known' = known
      BY <2>1, <3>1, <3>2, EventFacts DEF PushOrResync, Fanout, WorkerStep
    <3> QED BY <1>2, <3>3
  <2> QED BY <1>1, <1>9, <2>1 DEF WorkerWork, Take, RosterHit, RosterRead, RosterSet, CheckVisible, DeliverFails,
             WithCandidates, WorkerStep
<1>10. CASE UNCHANGED vars
  BY <1>1, <1>10 DEF vars
<1> QED BY <1>5, <1>6, <1>7, <1>8, <1>9, <1>10, StepKinds

(* A step that brings no new event keeps ExceptInv.                        *)
LEMMA ExceptKept ==
    ASSUME Ages, ExceptInv, unsent' \subseteq unsent, \A e : Flying(e)' => Flying(e) \/ e = GroupChanged
    PROVE  ExceptInv'
<1>1. ASSUME NEW e, AckKnown(e) PROVE AckKnown(e)'
  BY <1>1 DEF AckKnown, Ages
<1>2. \A e : Flying(e)' /\ e # GroupChanged => AckKnown(e)'
  BY <1>1 DEF ExceptInv
<1>3. \A p \in unsent' : p.except \in Conns => conn'[p.except] # "new"
  BY DEF ExceptInv, Ages
<1> QED BY <1>2, <1>3 DEF ExceptInv

(* A publication: its event enters channels and only they; the node gets   *)
(* it, will be told to compare, or the loss is recorded.                   *)
Announces(ev, s, c) ==
    /\ ev.seq = s /\ ev.except = c /\ ev.no = pubs + 1
    /\ \A n \in Nodes : Range(chan[n]) \subseteq Range(chan'[n]) /\ Range(chan'[n]) \subseteq Range(chan[n]) \cup {ev}
    /\ \A n \in Nodes : ev \in Range(chan'[n]) \/ sub'[n] = "down" \/ s \in dropped'[n]
    /\ \A n \in Nodes : dropped[n] \subseteq dropped'[n]
    /\ c \in Conns /\ conn[c] = "open" => s \in known'[c]
    /\ \A n \in Nodes : chan'[n] = chan[n] \/ chan'[n] = Append(chan[n], ev)

(* PublishPush is such a publication.                                      *)
LEMMA PublishEffect ==
    ASSUME Typed, NEW s \in Nat, NEW c \in Excepts, NEW ok \in BOOLEAN, PublishPush(s, c, ok), sub' = sub
    PROVE  \E ev \in Pushes : Announces(ev, s, c)
<1> DEFINE ev == [type |-> "push", seq |-> s, except |-> c, no |-> pubs + 1]
           N == {n \in Nodes : ~ok \/ ~Receives(n)}
<1>1. pubs + 1 \in Nat
  BY SMTT(30) DEF Typed, BusTyped
<1>2. ev \in Pushes /\ ev.seq = s /\ ev.except = c /\ ev.no = pubs + 1
  BY <1>1 DEF Pushes
<1>3. IF ok THEN Broadcast(ev) ELSE chan' = chan
  BY DEF PublishPush
<1>4. dropped' = [n \in Nodes |-> IF sub[n] # "down" /\ n \in N THEN dropped[n] \cup {s} ELSE dropped[n]]
  BY DEF PublishPush, Lose
<1>5. known' = [d \in Conns |-> IF d = c /\ conn[d] = "open" THEN known[d] \cup {s} ELSE known[d]]
  BY DEF PublishPush
<1>6. c \in Conns /\ conn[c] = "open" => s \in known'[c]
  BY <1>5
<1>7. \A n \in Nodes : dropped[n] \subseteq dropped'[n] /\ (n \in N => sub[n] = "down" \/ s \in dropped'[n])
  <2> HIDE DEF N
  <2> QED BY <1>4
<1>8. \A n \in Nodes : IF n \in N THEN chan'[n] = chan[n]
                       ELSE chan'[n] = Append(chan[n], ev) /\ Range(chan'[n]) = Range(chan[n]) \cup {ev}
  <2>1. CASE ok
    <3> HIDE DEF ev
    <3>1. /\ \A n \in Nodes : IF Receives(n) THEN chan'[n] = Append(chan[n], ev) ELSE chan'[n] = chan[n]
          /\ \A n \in Nodes : Receives(n) => Range(chan'[n]) = Range(chan[n]) \cup {ev}
      BY <1>2, <1>3, <2>1, BroadcastEffect DEF Typed
    <3> QED BY <2>1, <3>1
  <2>2. CASE ~ok
    BY <1>3, <2>2
  <2> QED BY <2>1, <2>2
<1> HIDE DEF ev, N
<1>9. \A n \in Nodes : Range(chan[n]) \subseteq Range(chan'[n]) /\ Range(chan'[n]) \subseteq Range(chan[n]) \cup {ev}
  BY <1>8
<1>10. \A n \in Nodes : ev \in Range(chan'[n]) \/ sub'[n] = "down" \/ s \in dropped'[n]
  BY <1>7, <1>8
<1>11. \A n \in Nodes : chan'[n] = chan[n] \/ chan'[n] = Append(chan[n], ev)
  BY <1>8
<1>12. Announces(ev, s, c)
  BY <1>2, <1>6, <1>7, <1>9, <1>10, <1>11 DEF Announces
<1> QED BY <1>2, <1>12

(* A step that leaves the channels, the shards and the workers alone.      *)
LEMMA FlyingSame == ASSUME UNCHANGED <<chan, deliver, job>> PROVE \A e : Flying(e)' => Flying(e)
BY DEF Flying

(* Requests keep ExceptInv.                                                *)
LEMMA ExceptRequests == ASSUME Typed, Ages, ExceptInv, Requests PROVE ExceptInv'
<1> USE DEF logVars, busVars, workVars, clientVars, history
<1>1. ASSUME NEW u, NEW k, NEW n, NEW c \in Excepts, Commit(u, k, n, c) PROVE ExceptInv'
  <2> DEFINE q == [seq |-> Size + 1, node |-> n, except |-> c]
  <2>1. UNCHANGED <<chan, deliver, job, conn, known>> /\ unsent' = unsent \cup {q}
    BY <1>1 DEF Commit
  <2>2. q.except = c /\ (c \in Conns => conn[c] = "open")
    BY <1>1, DeliveryAssumption DEF Commit, OpenAt
  <2> HIDE DEF q
  <2>3. \A p \in unsent' : p.except \in Conns => conn'[p.except] # "new"
    BY <2>1, <2>2 DEF ExceptInv
  <2>4. \A e : Flying(e)' /\ e # GroupChanged => AckKnown(e)'
    <3>1. \A e : AckKnown(e) => AckKnown(e)'
      BY <2>1 DEF AckKnown
    <3> QED BY <2>1, <3>1, FlyingSame DEF ExceptInv
  <2> QED BY <2>3, <2>4 DEF ExceptInv
<1>2. ASSUME NEW u, Change(u) PROVE ExceptInv'
  BY <1>2, ExceptKept, FlyingSame DEF Change
<1>3. ASSUME NEW s \in Nat, NEW c \in Excepts, NEW ok \in BOOLEAN, PublishPush(s, c, ok), c \in Conns => conn[c] # "new",
             UNCHANGED <<sub, conn, deliver, job>>, unsent' \subseteq unsent
      PROVE  ExceptInv'
  <2>1. PICK ev \in Pushes : Announces(ev, s, c)
    BY <1>3, PublishEffect
  <2>0. UNCHANGED <<deliver, job>> /\ \A n \in Nodes : Range(chan'[n]) \subseteq Range(chan[n]) \cup {ev}
    BY <1>3, <2>1 DEF Announces
  <2>2. \A e : Flying(e)' => Flying(e) \/ e = ev
    BY <2>0 DEF Flying
  <2>3. AckKnown(ev)'
    BY <1>3, <2>1 DEF AckKnown, Announces
  <2>4. \A e : AckKnown(e) => AckKnown(e)'
    BY <1>3 DEF AckKnown, Ages
  <2>5. \A e : Flying(e)' /\ e # GroupChanged => AckKnown(e)'
    BY <2>2, <2>3, <2>4 DEF ExceptInv
  <2> QED BY <1>3, <2>5 DEF ExceptInv
<1>4. ASSUME NEW p \in unsent, NEW ok \in BOOLEAN, Publish(p, ok) PROVE ExceptInv'
  <2>1. p.seq \in Nat /\ p.except \in Excepts /\ (p.except \in Conns => conn[p.except] # "new")
    BY DEF Typed, BusTyped, Pending, ExceptInv
  <2> QED BY <1>3, <1>4, <2>1 DEF Publish
<1>5. ASSUME NEW s \in 1 .. Size, NEW c \in Excepts, NEW ok \in BOOLEAN, Republish(s, c, ok) PROVE ExceptInv'
  <2>1. s \in Nat
    BY SMTT(30) DEF Typed, DbTyped, Size
  <2>2. c \in Conns => conn[c] # "new"
    BY <1>5, DeliveryAssumption DEF Republish
  <2> QED BY <1>3, <1>5, <2>1, <2>2 DEF Republish
<1>6. ASSUME NEW ok \in BOOLEAN, NotifyChanged(ok) PROVE ExceptInv'
  <2>1. \A n \in Nodes : Range(chan'[n]) \subseteq Range(chan[n]) \cup {GroupChanged}
    <3>1. CASE ok
      <4>1. Broadcast(GroupChanged)
        BY <1>6, <3>1 DEF NotifyChanged
      <4>2. /\ \A n \in Nodes : IF Receives(n) THEN chan'[n] = Append(chan[n], GroupChanged) ELSE chan'[n] = chan[n]
            /\ \A n \in Nodes : Receives(n) => Range(chan'[n]) = Range(chan[n]) \cup {GroupChanged}
        BY <4>1, BroadcastEffect DEF Typed
      <4> QED BY <4>2
    <3>2. CASE ~ok
      BY <1>6, <3>2 DEF NotifyChanged
    <3> QED BY <3>1, <3>2
  <2>2. UNCHANGED <<deliver, job>>
    BY <1>6 DEF NotifyChanged
  <2>3. \A e : Flying(e)' => Flying(e) \/ e = GroupChanged
    BY <2>1, <2>2 DEF Flying
  <2> QED BY <1>6, <2>3, ExceptKept DEF NotifyChanged
<1> QED BY <1>1, <1>2, <1>4, <1>5, <1>6 DEF Requests

(* What a worker's step does to its job: it begins with the event at the   *)
(* head of its shard, goes on with the event it has, or ends.              *)
LEMMA WorkerEffect ==
    ASSUME Typed, NEW w \in Workers, WorkerWork(w)
    PROVE  /\ \A v \in Workers : v # w => job'[v] = job[v]
           /\ \/ Take(w) /\ job'[w].pc = "recipients" /\ job'[w].ev = Head(deliver[w[1]])
              \/ job[w].pc # "idle" /\ job'[w].pc # "idle" /\ job'[w].ev = job[w].ev /\ deliver' = deliver
              \/ job[w].pc # "idle" /\ job'[w] = Idle /\ deliver' = deliver
<1>0. job \in [Workers -> Jobs] /\ Idle.pc = "idle"
  BY DEF Typed, WorkTyped, Idle
<1>1. CASE Take(w)
  <2> DEFINE j == [pc |-> "recipients", ev |-> Head(deliver[w[1]])]
  <2>1. job' = [job EXCEPT ![w] = j] /\ j.pc = "recipients" /\ j.ev = Head(deliver[w[1]])
    BY <1>1 DEF Take
  <2> HIDE DEF j
  <2> QED BY <1>0, <1>1, <2>1
<1>2. CASE Fanout(w) \/ DeliverFails(w)
  <2>1. job' = [job EXCEPT ![w] = Idle] /\ deliver' = deliver /\ job[w].pc # "idle"
    BY <1>2 DEF Fanout, DeliverFails
  <2> QED BY <1>0, <2>1
<1>3. ASSUME NEW l \in {"roster", "visible", "fanout"}, NEW S, deliver' = deliver, job[w].pc # "idle",
             job' = [job EXCEPT ![w] = [pc |-> l, ev |-> job[w].ev, ids |-> S]]
      PROVE  /\ \A v \in Workers : v # w => job'[v] = job[v]
             /\ job[w].pc # "idle" /\ job'[w].pc # "idle" /\ job'[w].ev = job[w].ev /\ deliver' = deliver
  <2> DEFINE j == [pc |-> l, ev |-> job[w].ev, ids |-> S]
  <2>1. j.pc = l /\ j.ev = job[w].ev /\ job' = [job EXCEPT ![w] = j]
    BY <1>3
  <2> HIDE DEF j
  <2> QED BY <1>0, <1>3, <2>1
<1>4. CASE RosterRead(w) \/ CheckVisible(w)
  <2>1. CASE RosterRead(w)
    BY <1>3, <2>1 DEF RosterRead
  <2>2. CASE CheckVisible(w)
    BY <1>3, <2>2 DEF CheckVisible
  <2> QED BY <1>4, <2>1, <2>2
<1>5. ASSUME NEW R, WithCandidates(w, R), job[w].pc # "idle"
      PROVE  /\ \A v \in Workers : v # w => job'[v] = job[v]
             /\ \/ job[w].pc # "idle" /\ job'[w].pc # "idle" /\ job'[w].ev = job[w].ev /\ deliver' = deliver
                \/ job[w].pc # "idle" /\ job'[w] = Idle /\ deliver' = deliver
  <2> DEFINE local == OnlineExcept(w[1], R, job[w].ev.except)
             j == [pc |-> "visible", ev |-> job[w].ev, ids |-> local]
  <2>1. job' = [job EXCEPT ![w] = IF local = {} THEN Idle ELSE j] /\ deliver' = deliver
    BY <1>5 DEF WithCandidates
  <2>2. CASE local = {}
    <3>1. job' = [job EXCEPT ![w] = Idle]
      BY <2>1, <2>2
    <3> QED BY <1>0, <1>5, <2>1, <3>1
  <2>3. CASE local # {}
    <3>1. job' = [job EXCEPT ![w] = [pc |-> "visible", ev |-> job[w].ev, ids |-> local]]
      BY <2>1, <2>3
    <3> HIDE DEF local
    <3> QED BY <1>3, <1>5, <2>1, <3>1
  <2> QED BY <2>2, <2>3
<1>6. CASE RosterHit(w) \/ RosterSet(w)
  BY <1>5, <1>6 DEF RosterHit, RosterSet
<1> QED BY <1>1, <1>2, <1>4, <1>6 DEF WorkerWork

(* Every other step keeps ExceptInv: events only move on or disappear.     *)
LEMMA ExceptNext == ASSUME Typed, ExceptInv, [Next]_vars PROVE ExceptInv'
<1> USE DEF logVars, busVars, workVars, clientVars, history
<1>0. Ages
  BY StepAges
<1>1. CASE Requests
  BY <1>0, <1>1, ExceptRequests
<1>2. ASSUME NEW c \in Conns, ConnWork(c) PROVE ExceptInv'
  BY <1>0, <1>2, ExceptKept, FlyingSame DEF ConnWork, OpenConn, Close1, WriteLoop, Pull
<1>3. ASSUME NEW n \in Nodes, NodeWork(n) PROVE ExceptInv'
  <2>1. unsent' \subseteq unsent
    BY <1>3 DEF NodeWork, Connect, Disconnect, Consume, Expire, Crash
  <2>2. CASE Connect(n) \/ Expire(n)
    BY <1>0, <2>1, <2>2, ExceptKept, FlyingSame DEF Connect, Expire
  <2>3. CASE Disconnect(n)
    <3>1. UNCHANGED <<deliver, job>> /\ chan' = [chan EXCEPT ![n] = <<>>] /\ chan \in [Nodes -> Seq(Pushes \cup {GroupChanged})]
      BY <2>3 DEF Disconnect, Typed, BusTyped
    <3>2. \A m \in Nodes : chan'[m] = chan[m] \/ chan'[m] = <<>>
      BY <3>1
    <3>3. \A m \in Nodes : Range(chan'[m]) \subseteq Range(chan[m])
      BY <3>2, RangeEmpty
    <3>4. \A e : Flying(e)' => Flying(e)
      BY <3>1, <3>3 DEF Flying
    <3> QED BY <1>0, <2>1, <3>4, ExceptKept
  <2>4. CASE Crash(n)
    <3>1. /\ chan' = [chan EXCEPT ![n] = <<>>] /\ chan \in [Nodes -> Seq(Pushes \cup {GroupChanged})]
          /\ deliver' = [deliver EXCEPT ![n] = <<>>] /\ deliver \in [Nodes -> Seq(Pushes)]
          /\ job' = [w \in Workers |-> IF w[1] = n THEN Idle ELSE job[w]]
      BY <2>4 DEF Crash, Typed, BusTyped, WorkTyped
    <3>2. \A m \in Nodes : (chan'[m] = chan[m] \/ chan'[m] = <<>>) /\ (deliver'[m] = deliver[m] \/ deliver'[m] = <<>>)
      BY <3>1
    <3>3. \A m \in Nodes : Range(chan'[m]) \subseteq Range(chan[m]) /\ Range(deliver'[m]) \subseteq Range(deliver[m])
      BY <3>2, RangeEmpty
    <3>4. Idle.pc = "idle"
      BY DEF Idle
    <3>5. \A w \in Workers : job'[w].pc # "idle" => job'[w] = job[w]
      BY <3>1, <3>4
    <3>6. \A e : Flying(e)' => Flying(e)
      BY <3>3, <3>5 DEF Flying
    <3> QED BY <1>0, <2>1, <3>6, ExceptKept
  <2>5. CASE Consume(n)
    <3> DEFINE ev == Head(chan[n])
    <3>1. chan[n] \in Seq(Pushes \cup {GroupChanged}) /\ chan[n] # <<>> /\ chan' = [chan EXCEPT ![n] = Tail(chan[n])] /\ job' = job
      BY <2>5 DEF Consume, Typed, BusTyped
    <3>2. Range(chan[n]) = {ev} \cup Range(Tail(chan[n])) /\ ev \in Pushes \cup {GroupChanged}
      BY <3>1, RangeTail
    <3>3. \A m \in Nodes : Range(chan'[m]) \subseteq Range(chan[m])
      <4>1. chan \in [Nodes -> Seq(Pushes \cup {GroupChanged})]
        BY DEF Typed, BusTyped
      <4>2. \A m \in Nodes : chan'[m] = IF m = n THEN Tail(chan[n]) ELSE chan[m]
        BY <3>1, <4>1
      <4> QED BY <3>2, <4>2
    <3>4. \A m \in Nodes : Range(deliver'[m]) \subseteq Range(deliver[m]) \cup {ev}
      <4>1. CASE deliver' = deliver
        BY <4>1
      <4>2. CASE deliver' # deliver
        <5>0. ev # GroupChanged
          BY <2>5, <4>2 DEF Consume, OnGroupChanged
        <5>1. ev \in Pushes /\ deliver \in [Nodes -> Seq(Pushes)]
          BY <3>2, <5>0 DEF Typed, WorkTyped
        <5>2. OnPush(n, ev)
          BY <2>5, <5>0 DEF Consume
        <5> HIDE DEF ev
        <5>3. deliver' = [deliver EXCEPT ![n] = IF Len(deliver[n]) >= DeliverQueue THEN deliver[n] ELSE Append(deliver[n], ev)]
          BY <5>2 DEF OnPush
        <5>4. \A m \in Nodes : deliver'[m] = deliver[m] \/ deliver'[m] = Append(deliver[m], ev)
          BY <5>1, <5>3
        <5>5. \A m \in Nodes : Range(Append(deliver[m], ev)) = Range(deliver[m]) \cup {ev}
          <6> TAKE m \in Nodes
          <6>1. deliver[m] \in Seq(Pushes)
            BY <5>1
          <6> QED BY <5>1, <6>1, RangeAppend, SMTT(30)
        <5> QED BY <5>4, <5>5
      <4> QED BY <4>1, <4>2
    <3> HIDE DEF ev
    <3>5. \A e : Flying(e)' => Flying(e)
      BY <3>1, <3>2, <3>3, <3>4 DEF Flying
    <3> QED BY <1>0, <2>1, <3>5, ExceptKept
  <2> QED BY <1>3, <2>2, <2>3, <2>4, <2>5 DEF NodeWork
<1>4. ASSUME NEW n \in Nodes, AppWork(n) PROVE ExceptInv'
  BY <1>0, <1>4, ExceptKept, FlyingSame
     DEF AppWork, AppRosterHit, AppRosterRead, AppRosterSet, AppVisible, AppFails, AppNotify, AppStep
<1>5. ASSUME NEW w \in Workers, WorkerWork(w) PROVE ExceptInv'
  <2> DEFINE n == w[1]
  <2>1. chan' = chan /\ unsent' = unsent
    BY <1>5 DEF WorkerWork, Take, RosterHit, RosterRead, RosterSet, CheckVisible, Fanout, DeliverFails, WorkerStep
  <2>2. Idle.pc = "idle" /\ n \in Nodes
    BY OneWorker DEF Idle
  <2>3. CASE Take(w)
    <3>1. deliver[n] \in Seq(Pushes) /\ deliver[n] # <<>> /\ deliver' = [deliver EXCEPT ![n] = Tail(deliver[n])]
      BY <2>2, <2>3 DEF Take, Typed, WorkTyped
    <3>2. Range(deliver[n]) = {Head(deliver[n])} \cup Range(Tail(deliver[n]))
      BY <3>1, RangeTail
    <3>3. \A m \in Nodes : Range(deliver'[m]) \subseteq Range(deliver[m])
      <4>1. \A m \in Nodes : deliver'[m] = IF m = n THEN Tail(deliver[n]) ELSE deliver[m]
        BY <3>1 DEF Typed, WorkTyped
      <4> QED BY <3>2, <4>1
    <3>4. /\ \A v \in Workers : v # w => job'[v] = job[v]
          /\ job'[w].ev = Head(deliver[n]) \/ (job[w].pc # "idle" /\ job'[w].ev = job[w].ev) \/ job'[w].pc = "idle"
      BY <1>5, <2>2, WorkerEffect
    <3>5. \A e : Flying(e)' => Flying(e)
      BY <2>1, <2>2, <3>2, <3>3, <3>4 DEF Flying
    <3> QED BY <1>0, <2>1, <3>5, ExceptKept
  <2>4. CASE ~Take(w)
    <3>1. /\ \A v \in Workers : v # w => job'[v] = job[v]
          /\ (job[w].pc # "idle" /\ job'[w].ev = job[w].ev) \/ job'[w].pc = "idle"
          /\ deliver' = deliver
      BY <1>5, <2>2, <2>4, WorkerEffect
    <3>2. \A e : Flying(e)' => Flying(e)
      BY <2>1, <3>1 DEF Flying
    <3> QED BY <1>0, <2>1, <3>2, ExceptKept
  <2> QED BY <2>3, <2>4
<1>6. CASE UNCHANGED vars
  BY <1>0, <1>6, ExceptKept, FlyingSame DEF vars
<1> QED BY <1>1, <1>2, <1>3, <1>4, <1>5, <1>6, StepKinds

-----------------------------------------------------------------------------
(* Why a message that a client lacks is not lost silently: the client will *)
(* read it or compare, the loss was recorded or will be told, or the       *)
(* message is on its way.                                                  *)
Queued(c, s) == due[c] \/ Resync \in Range(outq[c]) \/ \E f \in Range(outq[c]) : f # Resync /\ f.seq = s
Told(c, s) == sub[NodeOf[c]] = "down" \/ s \in dropped[NodeOf[c]] \/ <<UserOf[c], s>> \in stale[NodeOf[c]]
Unsent(s) == \E p \in unsent : p.seq = s
InQueue(n, s) == \E e \in Range(chan[n]) \cup Range(deliver[n]) : e # GroupChanged /\ e.seq = s
AtWork(w, u, s) ==
    job[w] # Idle /\ job[w].ev.seq = s /\ (job[w].pc \in {"visible", "fanout"} => u \in job[w].ids)
Worked(n, u, s) == \E w \in Workers : w[1] = n /\ AtWork(w, u, s)
Safe(c, s) == Queued(c, s) \/ Told(c, s) \/ Unsent(s) \/ InQueue(NodeOf[c], s) \/ Worked(NodeOf[c], UserOf[c], s)
Owed(c, s) == conn[c] = "open" /\ UserOf[c] \in members /\ s \in entitled[UserOf[c]] /\ s \notin known[c]

(* NoSilentLoss in these terms.                                            *)
LEMMA LossAsSafe == NoSilentLoss <=> \A c \in Conns : \A s : Owed(c, s) => Safe(c, s)
<1>1. \A c \in Conns : \A s : OnItsWay(NodeOf[c], UserOf[c], s) <=>
                               Unsent(s) \/ InQueue(NodeOf[c], s) \/ Worked(NodeOf[c], UserOf[c], s)
  BY DEF OnItsWay, Unsent, InQueue, Worked, AtWork
<1>2. ASSUME NoSilentLoss, NEW c \in Conns, NEW s, Owed(c, s) PROVE Safe(c, s)
  BY <1>1, <1>2 DEF NoSilentLoss, Owed, Safe, Queued, Told
<1>3. ASSUME \A c \in Conns : \A s : Owed(c, s) => Safe(c, s) PROVE NoSilentLoss
  <2> SUFFICES ASSUME NEW c \in Conns, conn[c] = "open", UserOf[c] \in members, NEW s \in entitled[UserOf[c]] \ known[c]
               PROVE  \/ due[c] \/ Resync \in Range(outq[c]) \/ sub[NodeOf[c]] = "down"
                      \/ \E f \in Range(outq[c]) : f # Resync /\ f.seq = s
                      \/ OnItsWay(NodeOf[c], UserOf[c], s)
                      \/ s \in dropped[NodeOf[c]] \/ <<UserOf[c], s>> \in stale[NodeOf[c]]
    BY DEF NoSilentLoss
  <2>1. Safe(c, s)
    BY <1>3 DEF Owed
  <2> QED BY <1>1, <2>1 DEF Safe, Queued, Told
<1> QED BY <1>2, <1>3

LossInv == \A c \in Conns : \A s : Owed(c, s) => Safe(c, s)

(* Steps that change nothing a connection's safety rests on.               *)
LEMMA SafeSame ==
    ASSUME NEW c \in Conns, NEW s, Safe(c, s), UNCHANGED <<due, outq, sub, dropped, stale, chan, deliver, job>>,
           Unsent(s) => Unsent(s)'
    PROVE  Safe(c, s)'
BY DEF Safe, Queued, Told, InQueue, Worked, AtWork

(* A message is due to the same connections as before, or to fewer.        *)
LEMMA OwedBefore ==
    ASSUME Ages, UNCHANGED <<members, entitled>>, NEW c \in Conns, conn'[c] = "open" => conn[c] = "open", NEW s, Owed(c, s)'
    PROVE  Owed(c, s)
BY DEF Ages, Owed

(* Requests keep LossInv.                                                  *)
LEMMA LossRequests == ASSUME Typed, Ages, LossInv, Requests PROVE LossInv'
<1> USE DEF logVars, busVars, workVars, clientVars, history
<1> SUFFICES ASSUME NEW c \in Conns, NEW s, Owed(c, s)' PROVE Safe(c, s)'
  BY DEF LossInv
<1>0. NodeOf[c] \in Nodes /\ UserOf[c] \in LogUsers
  BY DeliveryAssumption
<1>1. ASSUME NEW u, NEW k, NEW n, NEW d, Commit(u, k, n, d) PROVE Safe(c, s)'
  <2> DEFINE q == [seq |-> Size + 1, node |-> n, except |-> d]
  <2>1. UNCHANGED <<members, conn, known, due, outq, sub, dropped, stale, chan, deliver, job>> /\ unsent' = unsent \cup {q}
    BY <1>1 DEF Commit, Append1
  <2>2. q.seq = Size + 1
    OBVIOUS
  <2> HIDE DEF q
  <2>3. entitled' = [v \in LogUsers |-> IF v \in members THEN entitled[v] \cup {Size + 1} ELSE entitled[v]]
    BY <1>1 DEF Commit, Append1
  <2>4. s \in entitled[UserOf[c]] \/ s = Size + 1
    BY <1>0, <2>3 DEF Owed
  <2>5. CASE s = Size + 1
    <3>1. \E p \in unsent' : p.seq = s
      BY <2>1, <2>2, <2>5
    <3> QED BY <3>1 DEF Safe, Unsent
  <2>6. CASE s \in entitled[UserOf[c]]
    <3>1. Owed(c, s)
      BY <2>1, <2>6 DEF Owed
    <3>2. Unsent(s) => Unsent(s)'
      BY <2>1 DEF Unsent
    <3> QED BY <2>1, <3>1, <3>2, SafeSame DEF LossInv
  <2> QED BY <2>4, <2>5, <2>6
<1>2. ASSUME NEW u, Change(u) PROVE Safe(c, s)'
  <2>1. UNCHANGED <<unsent, conn, known, due, outq, sub, dropped, stale, chan, deliver, job>>
    BY <1>2 DEF Change
  <2>2. Owed(c, s)
    <3>1. entitled \in [LogUsers -> SUBSET Nat]
      BY DEF Typed, DbTyped
    <3>2. CASE Leave(u)
      BY <2>1, <3>2 DEF Leave, Owed
    <3>3. CASE Enter(u)
      <4>1. members' = members \cup {u} /\ entitled' = [entitled EXCEPT ![u] = {}]
        BY <3>3 DEF Enter
      <4>2. CASE UserOf[c] = u
        <5>1. entitled'[UserOf[c]] = {}
          BY <1>0, <3>1, <4>1, <4>2
        <5> QED BY <5>1 DEF Owed
      <4>3. CASE UserOf[c] # u
        <5>1. entitled'[UserOf[c]] = entitled[UserOf[c]]
          BY <1>0, <3>1, <4>1, <4>3
        <5> QED BY <2>1, <4>1, <4>3, <5>1 DEF Owed
      <4> QED BY <4>2, <4>3
    <3> QED BY <1>2, <3>2, <3>3 DEF Change
  <2>3. Unsent(s) => Unsent(s)'
    BY <2>1 DEF Unsent
  <2> QED BY <2>1, <2>2, <2>3, SafeSame DEF LossInv
<1>3. ASSUME NEW t \in Nat, NEW d \in Excepts, NEW ok \in BOOLEAN, PublishPush(t, d, ok),
             UNCHANGED <<members, entitled, sub, conn, outq, due, deliver, job, stale>>,
             \A p \in unsent : p \in unsent' \/ p.seq = t
      PROVE  Safe(c, s)'
  <2>1. PICK ev \in Pushes : Announces(ev, t, d)
    BY <1>3, PublishEffect
  <2>2. Owed(c, s)
    BY <1>3, OwedBefore
  <2>3. Safe(c, s)
    BY <2>2 DEF LossInv
  <2>4. ev # GroupChanged /\ ev.seq = t
    BY <2>1, EventFacts DEF Announces
  <2>5. /\ Range(chan[NodeOf[c]]) \subseteq Range(chan'[NodeOf[c]]) /\ dropped[NodeOf[c]] \subseteq dropped'[NodeOf[c]]
        /\ ev \in Range(chan'[NodeOf[c]]) \/ sub'[NodeOf[c]] = "down" \/ t \in dropped'[NodeOf[c]]
    BY <1>0, <2>1 DEF Announces
  <2>6. CASE Unsent(s)
    <3>1. Unsent(s)' \/ s = t
      BY <1>3, <2>6 DEF Unsent
    <3>2. CASE s = t
      BY <2>4, <2>5, <3>2 DEF Safe, Told, InQueue
    <3> QED BY <3>1, <3>2 DEF Safe
  <2>7. CASE Queued(c, s) \/ Told(c, s)
    BY <1>3, <2>5, <2>7 DEF Safe, Queued, Told
  <2>8. CASE InQueue(NodeOf[c], s)
    BY <1>3, <2>5, <2>8 DEF Safe, InQueue
  <2>9. CASE Worked(NodeOf[c], UserOf[c], s)
    BY <1>3, <2>9 DEF Safe, Worked, AtWork
  <2> QED BY <2>3, <2>6, <2>7, <2>8, <2>9 DEF Safe
<1>4. ASSUME NEW p \in unsent, NEW ok \in BOOLEAN, Publish(p, ok) PROVE Safe(c, s)'
  <2>1. p.seq \in Nat /\ p.except \in Excepts
    BY DEF Typed, BusTyped, Pending
  <2>2. \A q \in unsent : q \in unsent' \/ q.seq = p.seq
    BY <1>4 DEF Publish
  <2> QED BY <1>3, <1>4, <2>1, <2>2 DEF Publish
<1>5. ASSUME NEW t \in 1 .. Size, NEW d \in Excepts, NEW ok \in BOOLEAN, Republish(t, d, ok) PROVE Safe(c, s)'
  <2>1. t \in Nat
    BY SMTT(30) DEF Typed, DbTyped, Size
  <2> QED BY <1>3, <1>5, <2>1 DEF Republish
<1>6. ASSUME NEW ok \in BOOLEAN, NotifyChanged(ok) PROVE Safe(c, s)'
  <2>1. UNCHANGED <<members, entitled, sub, conn, known, outq, due, deliver, job, stale, dropped, unsent>>
    BY <1>6 DEF NotifyChanged
  <2>2. Range(chan[NodeOf[c]]) \subseteq Range(chan'[NodeOf[c]])
    <3>1. CASE ok
      <4>1. Broadcast(GroupChanged)
        BY <1>6, <3>1 DEF NotifyChanged
      <4>2. /\ \A n \in Nodes : IF Receives(n) THEN chan'[n] = Append(chan[n], GroupChanged) ELSE chan'[n] = chan[n]
            /\ \A n \in Nodes : Receives(n) => Range(chan'[n]) = Range(chan[n]) \cup {GroupChanged}
        BY <4>1, BroadcastEffect DEF Typed
      <4> QED BY <1>0, <4>2
    <3>2. CASE ~ok
      BY <1>6, <3>2 DEF NotifyChanged
    <3> QED BY <3>1, <3>2
  <2>3. Safe(c, s)
    BY <2>1 DEF LossInv, Owed
  <2> QED BY <2>1, <2>2, <2>3 DEF Safe, Queued, Told, Unsent, InQueue, Worked, AtWork
<1> QED BY <1>1, <1>2, <1>4, <1>5, <1>6 DEF Requests

(* A connection's steps keep LossInv: what the writer takes from the queue *)
(* the client gets, and a client that pulls gets all it may see.           *)
LEMMA LossConns == ASSUME Typed, Ages, LossInv, NEW d \in Conns, ConnWork(d) PROVE LossInv'
<1> USE DEF logVars, busVars, workVars, clientVars, history
<1> SUFFICES ASSUME NEW c \in Conns, NEW s, Owed(c, s)' PROVE Safe(c, s)'
  BY DEF LossInv
<1>0. ClientTyped /\ conn \in [Conns -> {"new", "open", "closed"}] /\ outq \in [Conns -> Seq(Frames \cup {Resync})]
      /\ due \in [Conns -> BOOLEAN] /\ known \in [Conns -> SUBSET Nat]
  BY DEF Typed, ClientTyped
<1>1. UNCHANGED <<members, entitled, sub, dropped, stale, chan, deliver, job, unsent>>
  BY DEF ConnWork, OpenConn, Close1, WriteLoop, Pull
<1>2. ASSUME conn'[c] = conn[c], Queued(c, s) => Queued(c, s)' PROVE Safe(c, s)'
  <2>1. Safe(c, s)
    BY <1>1, <1>2, OwedBefore DEF LossInv
  <2> QED BY <1>1, <1>2, <2>1 DEF Safe, Told, Unsent, InQueue, Worked, AtWork
<1>3. CASE OpenConn(d)
  <2>1. conn' = [conn EXCEPT ![d] = "open"] /\ due' = [due EXCEPT ![d] = TRUE] /\ outq' = outq
    BY <1>3 DEF OpenConn
  <2>2. CASE c = d
    BY <1>0, <2>1, <2>2 DEF Safe, Queued
  <2>3. CASE c # d
    <3>1. conn'[c] = conn[c] /\ due'[c] = due[c]
      BY <1>0, <2>1, <2>3
    <3> QED BY <1>2, <2>1, <3>1 DEF Queued
  <2> QED BY <2>2, <2>3
<1>4. CASE Close1(d)
  <2>1. CloseAll({d})
    BY <1>4 DEF Close1
  <2>2. IF c \in {d} THEN conn'[c] = "closed" /\ outq'[c] = <<>>
        ELSE conn'[c] = conn[c] /\ outq'[c] = outq[c] /\ due'[c] = due[c]
    BY <1>0, <2>1, CloseEffect
  <2>3. conn'[c] = conn[c] /\ outq'[c] = outq[c] /\ due'[c] = due[c]
    BY <2>2 DEF Owed
  <2> QED BY <1>2, <2>3 DEF Queued
<1>5. CASE WriteLoop(d)
  <2> DEFINE f == Head(outq[d])
  <2>1. /\ outq[d] \in Seq(Frames \cup {Resync}) /\ outq[d] # <<>>
        /\ outq' = [outq EXCEPT ![d] = Tail(outq[d])] /\ conn' = conn
        /\ known' = [known EXCEPT ![d] = IF f.type = "push" THEN known[d] \cup {f.seq} ELSE known[d]]
        /\ due' = [due EXCEPT ![d] = due[d] \/ f = Resync]
    BY <1>0, <1>5 DEF WriteLoop
  <2>2. Range(outq[d]) = {f} \cup Range(Tail(outq[d])) /\ f \in Frames \cup {Resync}
    BY <2>1, RangeTail
  <2>3. f # Resync => f.type = "push"
    BY <2>2, EventFacts
  <2> HIDE DEF f
  <2>4. CASE c # d
    <3>1. outq'[c] = outq[c] /\ due'[c] = due[c]
      BY <1>0, <2>1, <2>4
    <3> QED BY <1>2, <2>1, <3>1 DEF Queued
  <2>5. CASE c = d
    <3>1. outq'[d] = Tail(outq[d]) /\ due'[d] = (due[d] \/ f = Resync)
      BY <1>0, <2>1
    <3>2. f # Resync => f.seq \in known'[d]
      BY <1>0, <2>1, <2>3
    <3>3. ASSUME Queued(c, s) PROVE Queued(c, s)'
      <4>1. CASE due[c]
        BY <2>5, <3>1, <4>1 DEF Queued
      <4>2. CASE Resync \in Range(outq[c])
        BY <2>2, <2>5, <3>1, <4>2 DEF Queued
      <4>3. ASSUME NEW g \in Range(outq[c]), g # Resync, g.seq = s PROVE Queued(c, s)'
        <5>1. g # f
          BY <2>5, <3>2, <4>3 DEF Owed
        <5>2. g \in Range(outq'[c])
          BY <2>2, <2>5, <3>1, <5>1
        <5> QED BY <4>3, <5>2 DEF Queued
      <4> QED BY <3>3, <4>1, <4>2, <4>3 DEF Queued
    <3> QED BY <1>2, <2>1, <3>3
  <2> QED BY <2>4, <2>5
<1>6. CASE Pull(d)
  <2>1. due' = [due EXCEPT ![d] = FALSE] /\ known' = [known EXCEPT ![d] = known[d] \cup entitled[UserOf[d]]]
        /\ UNCHANGED <<outq, conn>>
    BY <1>6 DEF Pull
  <2>2. c # d
    <3>1. ASSUME c = d PROVE FALSE
      <4>1. known'[c] = known[c] \cup entitled[UserOf[c]]
        BY <1>0, <2>1, <3>1
      <4> QED BY <1>1, <4>1 DEF Owed
    <3> QED BY <3>1
  <2>3. due'[c] = due[c]
    BY <1>0, <2>1, <2>2
  <2> QED BY <1>2, <2>1, <2>3 DEF Queued
<1> QED BY <1>3, <1>4, <1>5, <1>6 DEF ConnWork

(* A node's steps keep LossInv.                                            *)
LEMMA LossNodes == ASSUME Typed, Ages, LossInv, NEW n \in Nodes, NodeWork(n) PROVE LossInv'
<1> USE DEF logVars, busVars, workVars, clientVars, history
<1> SUFFICES ASSUME NEW c \in Conns, NEW s, Owed(c, s)' PROVE Safe(c, s)'
  BY DEF LossInv
<1> DEFINE m == NodeOf[c]
           Ev == Pushes \cup {GroupChanged}
<1>0. m \in Nodes /\ UserOf[c] \in LogUsers
  BY DeliveryAssumption
<1>01. sub \in [Nodes -> {"never", "up", "down"}] /\ chan \in [Nodes -> Seq(Ev)] /\ deliver \in [Nodes -> Seq(Pushes)]
       /\ dropped \in [Nodes -> SUBSET Nat] /\ ClientTyped
  BY DEF Typed, BusTyped, WorkTyped, LossTyped
<1>02. UNCHANGED <<members, entitled, known, stale>>
  BY DEF NodeWork, Connect, Disconnect, Consume, Expire, Crash
<1>03. ASSUME conn'[c] = conn[c] PROVE Safe(c, s)
  BY <1>02, <1>03, OwedBefore DEF LossInv
<1>1. CASE Connect(n)
  <2>1. UNCHANGED <<unsent, chan, deliver, job, dropped>> /\ sub' = [sub EXCEPT ![n] = "up"]
    BY <1>1 DEF Connect
  <2>2. CASE sub[n] = "down"
    <3> DEFINE frame == [x \in Conns |-> Resync]
    <3>1. frame \in [Conns -> Frames \cup {Resync}] /\ frame[c] = Resync /\ Enqueue(OpenAt(n), frame)
      BY <1>1, <2>2 DEF Connect, ResyncAll
    <3> HIDE DEF frame
    <3>2. \/ c \in OpenAt(n) /\ conn'[c] = "closed" /\ outq'[c] = <<>>
          \/ /\ c \in OpenAt(n) /\ conn'[c] = conn[c] /\ due'[c] = due[c] /\ outq'[c] = Append(outq[c], frame[c])
             /\ Range(outq'[c]) = Range(outq[c]) \cup {frame[c]}
          \/ c \notin OpenAt(n) /\ conn'[c] = conn[c] /\ outq'[c] = outq[c] /\ due'[c] = due[c]
      BY <1>01, <3>1, EnqueueEffect
    <3>3. CASE c \in OpenAt(n) /\ Range(outq'[c]) = Range(outq[c]) \cup {frame[c]}
      BY <3>1, <3>3 DEF Safe, Queued
    <3>4. CASE c \notin OpenAt(n) /\ conn'[c] = conn[c] /\ outq'[c] = outq[c] /\ due'[c] = due[c]
      <4>1. m # n
        BY <3>4 DEF OpenAt, Owed
      <4>2. sub'[m] = sub[m] /\ Safe(c, s)
        BY <1>0, <1>01, <1>03, <2>1, <3>4, <4>1
      <4> QED BY <1>02, <2>1, <3>4, <4>2 DEF Safe, Queued, Told, Unsent, InQueue, Worked, AtWork
    <3> QED BY <3>2, <3>3, <3>4 DEF Owed
  <2>3. CASE sub[n] # "down"
    <3>1. UNCHANGED <<conn, outq, due>>
      BY <1>1, <2>3 DEF Connect
    <3>2. sub[m] = "down" => sub'[m] = "down"
      BY <1>0, <1>01, <2>1, <2>3
    <3>3. Safe(c, s)
      BY <1>03, <3>1
    <3> QED BY <1>02, <2>1, <3>1, <3>2, <3>3 DEF Safe, Queued, Told, Unsent, InQueue, Worked, AtWork
  <2> QED BY <2>2, <2>3
<1>2. CASE Disconnect(n)
  <2>1. UNCHANGED <<unsent, deliver, job, dropped, conn, outq, due>> /\ sub' = [sub EXCEPT ![n] = "down"]
        /\ chan' = [chan EXCEPT ![n] = <<>>]
    BY <1>2 DEF Disconnect
  <2>2. CASE m = n
    <3>1. sub'[m] = "down"
      BY <1>0, <1>01, <2>1, <2>2
    <3> QED BY <3>1 DEF Safe, Told
  <2>3. CASE m # n
    <3>1. sub'[m] = sub[m] /\ chan'[m] = chan[m]
      BY <1>0, <1>01, <2>1, <2>3
    <3>2. Safe(c, s)
      BY <1>03, <2>1
    <3> QED BY <1>02, <2>1, <3>1, <3>2 DEF Safe, Queued, Told, Unsent, InQueue, Worked, AtWork
  <2> QED BY <2>2, <2>3
<1>3. CASE Consume(n)
  <2> DEFINE ev == Head(chan[n])
  <2>1. /\ UNCHANGED <<unsent, job, conn, outq, due, sub>> /\ chan' = [chan EXCEPT ![n] = Tail(chan[n])]
        /\ chan[n] \in Seq(Ev) /\ chan[n] # <<>>
        /\ IF ev = GroupChanged THEN OnGroupChanged(n) ELSE OnPush(n, ev)
    BY <1>01, <1>3 DEF Consume
  <2>2. Range(chan[n]) = {ev} \cup Range(Tail(chan[n])) /\ ev \in Ev
    BY <2>1, RangeTail
  <2>3. Safe(c, s)
    BY <1>03, <2>1
  <2> HIDE DEF ev
  <2>4. /\ dropped[m] \subseteq dropped'[m] /\ Range(deliver[m]) \subseteq Range(deliver'[m])
        /\ m = n /\ ev # GroupChanged => ev \in Range(deliver'[m]) \/ ev.seq \in dropped'[m]
    <3>1. CASE ev = GroupChanged
      BY <2>1, <3>1 DEF OnGroupChanged
    <3>2. CASE ev # GroupChanged
      <4> DEFINE full == Len(deliver[n]) >= DeliverQueue
      <4>1. /\ deliver' = [deliver EXCEPT ![n] = IF full THEN deliver[n] ELSE Append(deliver[n], ev)]
            /\ dropped' = [dropped EXCEPT ![n] = IF full THEN dropped[n] \cup {ev.seq} ELSE dropped[n]]
        BY <2>1, <3>2 DEF OnPush
      <4> HIDE DEF full
      <4>2. deliver[n] \in Seq(Pushes) /\ ev \in Pushes
        BY <1>01, <2>2, <3>2
      <4>3. Range(Append(deliver[n], ev)) = Range(deliver[n]) \cup {ev}
        BY <4>2, RangeAppend, SMTT(30)
      <4>4. CASE m # n
        BY <1>0, <1>01, <4>1, <4>4
      <4>5. CASE m = n
        <5>1. /\ deliver'[m] = IF full THEN deliver[m] ELSE Append(deliver[m], ev)
              /\ dropped'[m] = IF full THEN dropped[m] \cup {ev.seq} ELSE dropped[m]
          BY <1>0, <1>01, <4>1, <4>5
        <5> QED BY <4>3, <4>5, <5>1
      <4> QED BY <4>4, <4>5
    <3> QED BY <3>1, <3>2
  <2>5. CASE InQueue(m, s)
    <3>1. PICK e \in Range(chan[m]) \cup Range(deliver[m]) : e # GroupChanged /\ e.seq = s
      BY <2>5 DEF InQueue
    <3>2. e \in Range(chan'[m]) \/ e \in Range(deliver'[m]) \/ (m = n /\ e = ev)
      <4>1. chan'[m] = IF m = n THEN Tail(chan[n]) ELSE chan[m]
        BY <1>0, <1>01, <2>1
      <4> QED BY <2>2, <2>4, <3>1, <4>1
    <3>3. CASE m = n /\ e = ev
      BY <2>4, <3>1, <3>3 DEF Safe, InQueue, Told
    <3> QED BY <3>1, <3>2, <3>3 DEF Safe, InQueue
  <2>6. CASE Told(c, s)
    BY <1>02, <2>1, <2>4, <2>6 DEF Safe, Told
  <2>7. CASE Queued(c, s) \/ Unsent(s) \/ Worked(m, UserOf[c], s)
    BY <2>1, <2>7 DEF Safe, Queued, Unsent, Worked, AtWork
  <2> QED BY <2>3, <2>5, <2>6, <2>7 DEF Safe
<1>4. CASE Expire(n)
  <2>1. UNCHANGED <<due, outq, sub, dropped, chan, deliver, job, unsent, conn>>
    BY <1>4 DEF Expire
  <2>2. Safe(c, s) /\ (Unsent(s) => Unsent(s)')
    BY <1>03, <2>1 DEF Unsent
  <2> QED BY <1>02, <2>1, <2>2, SafeSame
<1>5. CASE Crash(n)
  <2>1. CloseAll(OpenAt(n))
    BY <1>5 DEF Crash
  <2>2. IF c \in OpenAt(n) THEN conn'[c] = "closed" /\ outq'[c] = <<>>
        ELSE conn'[c] = conn[c] /\ outq'[c] = outq[c] /\ due'[c] = due[c]
    BY <1>01, <2>1, CloseEffect
  <2>3. c \notin OpenAt(n) /\ conn'[c] = conn[c] /\ outq'[c] = outq[c] /\ due'[c] = due[c]
    BY <2>2 DEF Owed
  <2>4. m # n /\ Safe(c, s)
    BY <1>03, <2>3 DEF OpenAt, Owed
  <2>5. /\ sub' = [sub EXCEPT ![n] = "never"]
        /\ chan' = [chan EXCEPT ![n] = <<>>]
        /\ deliver' = [deliver EXCEPT ![n] = <<>>]
        /\ job' = [w \in Workers |-> IF w[1] = n THEN Idle ELSE job[w]]
        /\ dropped' = [x \in Nodes |-> IF sub[x] = "down" THEN dropped[x]
                                       ELSE dropped[x] \cup {p.seq : p \in unsent \ unsent'}]
    BY <1>5 DEF Crash
  <2>6. sub'[m] = sub[m] /\ chan'[m] = chan[m] /\ deliver'[m] = deliver[m]
    BY <1>0, <1>01, <2>4, <2>5
  <2>7. dropped'[m] = IF sub[m] = "down" THEN dropped[m] ELSE dropped[m] \cup {p.seq : p \in unsent \ unsent'}
    BY <1>0, <2>5
  <2>8. CASE Unsent(s)
    <3>1. Unsent(s)' \/ s \in {p.seq : p \in unsent \ unsent'}
      BY <2>8 DEF Unsent
    <3> QED BY <2>6, <2>7, <3>1 DEF Safe, Told
  <2>9. CASE Worked(m, UserOf[c], s)
    <3>1. \A w \in Workers : w[1] = m => job'[w] = job[w]
      BY <2>4, <2>5
    <3> QED BY <2>9, <3>1 DEF Safe, Worked, AtWork
  <2>10. CASE Queued(c, s) \/ Told(c, s) \/ InQueue(m, s)
    BY <1>02, <2>3, <2>6, <2>7, <2>10 DEF Safe, Queued, Told, InQueue
  <2> QED BY <2>4, <2>8, <2>9, <2>10 DEF Safe
<1> QED BY <1>1, <1>2, <1>3, <1>4, <1>5 DEF NodeWork

(* A worker's steps keep LossInv. A worker that goes on with a roster      *)
(* keeps every member it lists who has a connection here other than the    *)
(* sender's, and records the others as skipped; the visibility check and   *)
(* the fan-out then lose no user to whom the message is due.               *)
LEMMA LossWorkers ==
    ASSUME Typed, Ages, DbInv, ExceptInv, LossInv, NEW w \in Workers, WorkerWork(w) PROVE LossInv'
<1> USE DEF logVars, busVars, history
<1> SUFFICES ASSUME NEW c \in Conns, NEW s, Owed(c, s)' PROVE Safe(c, s)'
  BY DEF LossInv
<1> DEFINE n == w[1]
           m == NodeOf[c]
           u == UserOf[c]
<1>0. m \in Nodes /\ u \in LogUsers /\ n \in Nodes
  BY DeliveryAssumption, OneWorker
<1>01. /\ ClientTyped /\ job \in [Workers -> Jobs] /\ deliver \in [Nodes -> Seq(Pushes)]
       /\ dropped \in [Nodes -> SUBSET Nat] /\ stale \in [Nodes -> SUBSET (LogUsers \X Nat)]
  BY DEF Typed, WorkTyped, LossTyped
<1>1. UNCHANGED <<members, entitled, audience, known, sub, chan, unsent>>
  BY DEF WorkerWork, Take, RosterHit, RosterRead, RosterSet, CheckVisible, Fanout, DeliverFails, WorkerStep
<1>2. /\ \A v \in Workers : v # w => job'[v] = job[v]
      /\ \/ Take(w) /\ job'[w].pc = "recipients" /\ job'[w].ev = Head(deliver[n])
         \/ job[w].pc # "idle" /\ job'[w].pc # "idle" /\ job'[w].ev = job[w].ev /\ deliver' = deliver
         \/ job[w].pc # "idle" /\ job'[w] = Idle /\ deliver' = deliver
  BY WorkerEffect
<1>3. Idle.pc = "idle"
  BY DEF Idle
<1>4. ASSUME conn'[c] = conn[c] PROVE Owed(c, s) /\ Safe(c, s)
  BY <1>1, <1>4, OwedBefore DEF LossInv
<1>5. ASSUME Safe(c, s), Queued(c, s) => Queued(c, s)', dropped[m] \subseteq dropped'[m], stale[m] \subseteq stale'[m],
             InQueue(m, s) => Safe(c, s)', n = m /\ AtWork(w, u, s) => Safe(c, s)'
      PROVE  Safe(c, s)'
  <2>1. CASE Unsent(s)
    BY <1>1, <2>1 DEF Safe, Unsent
  <2>2. CASE Told(c, s)
    BY <1>1, <1>5, <2>2 DEF Safe, Told
  <2>3. CASE Worked(m, u, s)
    <3>1. PICK v \in Workers : v[1] = m /\ AtWork(v, u, s)
      BY <2>3 DEF Worked
    <3>2. CASE v = w
      BY <1>5, <3>1, <3>2
    <3>3. CASE v # w
      BY <1>2, <3>1, <3>3 DEF Safe, Worked, AtWork
    <3> QED BY <3>2, <3>3
  <2> QED BY <1>5, <2>1, <2>2, <2>3 DEF Safe
<1>6. InQueue(m, s) /\ deliver' = deliver => Safe(c, s)'
  BY <1>1 DEF InQueue, Safe
<1>7. CASE Take(w)
  <2>1. UNCHANGED <<conn, outq, due, dropped, stale>> /\ deliver' = [deliver EXCEPT ![n] = Tail(deliver[n])]
        /\ job[w] = Idle /\ deliver[n] # <<>>
    BY <1>7 DEF Take
  <2>2. deliver[n] \in Seq(Pushes) /\ Range(deliver[n]) = {Head(deliver[n])} \cup Range(Tail(deliver[n]))
    BY <1>0, <1>01, <2>1, RangeTail
  <2>3. job'[w].pc = "recipients" /\ job'[w].ev = Head(deliver[n])
    BY <1>2, <1>3, <2>1
  <2>4. ASSUME InQueue(m, s) PROVE Safe(c, s)'
    <3>1. PICK e \in Range(chan[m]) \cup Range(deliver[m]) : e # GroupChanged /\ e.seq = s
      BY <2>4 DEF InQueue
    <3>2. deliver'[m] = IF m = n THEN Tail(deliver[n]) ELSE deliver[m]
      BY <1>0, <1>01, <2>1
    <3>3. e \in Range(chan'[m]) \cup Range(deliver'[m]) \/ (m = n /\ e = Head(deliver[n]))
      BY <1>1, <2>2, <3>1, <3>2
    <3>4. CASE m = n /\ e = Head(deliver[n])
      <4>1. AtWork(w, u, s)'
        BY <1>3, <2>3, <3>1, <3>4 DEF AtWork
      <4> QED BY <3>4, <4>1 DEF Safe, Worked
    <3> QED BY <3>1, <3>3, <3>4 DEF Safe, InQueue
  <2>5. Safe(c, s) /\ (Queued(c, s) => Queued(c, s)') /\ ~AtWork(w, u, s)
    BY <1>4, <2>1 DEF Queued, AtWork
  <2> QED BY <1>5, <2>1, <2>4, <2>5
<1>8. ASSUME NEW R \in SUBSET LogUsers, job[w].pc # "idle", WithCandidates(w, R) PROVE Safe(c, s)'
  <2> DEFINE ev == job[w].ev
             local == OnlineExcept(n, R, ev.except)
             j == [pc |-> "visible", ev |-> ev, ids |-> local]
  <2>1. /\ UNCHANGED <<deliver, conn, outq, due, dropped>>
        /\ stale' = [stale EXCEPT ![n] = stale[n] \cup SkippedBy(R, ev.seq)]
        /\ job' = [job EXCEPT ![w] = IF local = {} THEN Idle ELSE j]
    BY <1>8 DEF WithCandidates
  <2>2. j.pc = "visible" /\ j.ev = ev /\ j.ids = local
    OBVIOUS
  <2>3. stale'[m] = IF m = n THEN stale[n] \cup SkippedBy(R, ev.seq) ELSE stale[m]
    BY <1>0, <1>01, <2>1
  <2>4. ev \in Pushes
    BY <1>01, <1>8, JobFacts
  <2>5. Owed(c, s) /\ Safe(c, s)
    BY <1>4, <2>1
  <2>6. ASSUME n = m, ev.seq = s PROVE Safe(c, s)'
    <3>1. CASE u \in R
      <4>1. c # ev.except
        <5>1. Flying(ev) /\ ev # GroupChanged
          BY <1>8, <2>4, EventFacts DEF Flying
        <5>2. AckKnown(ev)
          BY <5>1 DEF ExceptInv
        <5> QED BY <2>5, <2>6, <5>2 DEF AckKnown, Owed
      <4>2. u \in local
        BY <2>5, <2>6, <3>1, <4>1 DEF OnlineExcept, OpenAt, Own, Owed
      <4> HIDE DEF j, local, ev
      <4>3. job'[w] = j
        BY <1>01, <2>1, <4>2
      <4>4. AtWork(w, u, s)'
        BY <1>3, <2>2, <2>6, <4>2, <4>3 DEF AtWork, ev
      <4> QED BY <2>6, <4>4 DEF Safe, Worked
    <3>2. CASE u \notin R
      <4>1. u \in members /\ s \in entitled[u] /\ u \in audience[s]
        BY <1>0, <2>5 DEF Owed, DbInv, Heard
      <4>2. <<u, s>> \in SkippedBy(R, s)
        BY <3>2, <4>1 DEF SkippedBy
      <4> QED BY <2>3, <2>6, <4>2 DEF Safe, Told
    <3> QED BY <3>1, <3>2
  <2>7. AtWork(w, u, s) => ev.seq = s
    BY DEF AtWork
  <2>8. Queued(c, s) => Queued(c, s)'
    BY <2>1 DEF Queued
  <2>9. dropped[m] \subseteq dropped'[m] /\ stale[m] \subseteq stale'[m]
    <3>1. CASE m = n
      <4>1. stale'[m] = stale[m] \cup SkippedBy(R, ev.seq) /\ dropped' = dropped
        BY <2>1, <2>3, <3>1
      <4> QED BY <4>1
    <3>2. CASE m # n
      BY <2>1, <2>3, <3>2
    <3> QED BY <3>1, <3>2
  <2>10. n = m /\ AtWork(w, u, s) => Safe(c, s)'
    BY <2>6, <2>7
  <2> QED BY <1>5, <1>6, <2>1, <2>5, <2>8, <2>9, <2>10
<1>9. CASE RosterHit(w)
  <2>1. job[w].pc # "idle" /\ WithCandidates(w, Roster(n)) /\ Roster(n) # NoEntry
    BY <1>9 DEF RosterHit
  <2>2. Roster(n) \in SUBSET LogUsers
    BY <1>0, <2>1, DeliveryAssumption DEF Roster, Typed, WorkTyped
  <2> QED BY <1>8, <2>1, <2>2
<1>10. CASE RosterSet(w)
  <2>1. job[w].pc = "roster" /\ WithCandidates(w, job[w].ids)
    BY <1>10 DEF RosterSet
  <2>2. job[w].ids \in SUBSET LogUsers
    BY <1>01, <2>1, JobFacts
  <2> QED BY <1>8, <2>1, <2>2
<1>11. CASE RosterRead(w) \/ CheckVisible(w)
  <2>1. UNCHANGED <<deliver, conn, outq, due, dropped, stale>> /\ job[w].pc # "idle"
    BY <1>11 DEF RosterRead, CheckVisible
  <2>2. Owed(c, s) /\ Safe(c, s)
    BY <1>4, <2>1
  <2>3. Queued(c, s) => Queued(c, s)'
    BY <2>1 DEF Queued
  <2>4. ASSUME n = m, AtWork(w, u, s) PROVE Safe(c, s)'
    <3>1. CASE RosterRead(w)
      <4> DEFINE j == [pc |-> "roster", ev |-> job[w].ev, ids |-> members]
      <4>1. job' = [job EXCEPT ![w] = j] /\ j.pc = "roster" /\ j.ev = job[w].ev
        BY <3>1 DEF RosterRead
      <4> HIDE DEF j
      <4>2. AtWork(w, u, s)'
        BY <1>01, <1>3, <2>4, <4>1 DEF AtWork
      <4> QED BY <2>4, <4>2 DEF Safe, Worked
    <3>2. CASE CheckVisible(w)
      <4> DEFINE V == VisibleTo(job[w].ids, job[w].ev.seq)
                 j == [pc |-> "fanout", ev |-> job[w].ev, ids |-> V]
      <4>1. job' = [job EXCEPT ![w] = j] /\ j.pc = "fanout" /\ j.ev = job[w].ev /\ j.ids = V /\ job[w].pc = "visible"
        BY <3>2 DEF CheckVisible
      <4>2. u \in V
        BY <2>2, <2>4, <4>1 DEF AtWork, VisibleTo, Owed
      <4> HIDE DEF j, V
      <4>3. AtWork(w, u, s)'
        BY <1>01, <1>3, <2>4, <4>1, <4>2 DEF AtWork
      <4> QED BY <2>4, <4>3 DEF Safe, Worked
    <3> QED BY <1>11, <3>1, <3>2
  <2> QED BY <1>5, <1>6, <2>1, <2>2, <2>3, <2>4
<1>12. CASE DeliverFails(w)
  <2>1. UNCHANGED <<deliver, conn, outq, due, stale>>
        /\ dropped' = [dropped EXCEPT ![n] = dropped[n] \cup {job[w].ev.seq}]
    BY <1>12 DEF DeliverFails
  <2>2. Safe(c, s) /\ (Queued(c, s) => Queued(c, s)')
    BY <1>4, <2>1 DEF Queued
  <2>3. dropped'[m] = IF m = n THEN dropped[m] \cup {job[w].ev.seq} ELSE dropped[m]
    BY <1>0, <1>01, <2>1
  <2>4. n = m /\ AtWork(w, u, s) => Safe(c, s)'
    BY <2>3 DEF AtWork, Safe, Told
  <2>5. dropped[m] \subseteq dropped'[m] /\ stale[m] \subseteq stale'[m]
    <3>1. CASE m = n
      <4>1. dropped'[m] = dropped[m] \cup {job[w].ev.seq} /\ stale' = stale
        BY <2>1, <2>3, <3>1
      <4> QED BY <4>1
    <3>2. CASE m # n
      BY <2>1, <2>3, <3>2
    <3> QED BY <3>1, <3>2
  <2> QED BY <1>5, <1>6, <2>1, <2>2, <2>4, <2>5
<1>13. CASE Fanout(w)
  <2> DEFINE T == Targets(n, job[w].ids, job[w].ev)
             e == job[w].ev
  <2>1. job[w].pc = "fanout" /\ UNCHANGED <<deliver, dropped, stale>>
    BY <1>13 DEF Fanout
  <2>2. PICK over \in SUBSET T : PushOrResync(T, e, over)
    BY <1>13 DEF Fanout
  <2>3. e \in Pushes
    BY <1>01, <2>1, JobFacts
  <2> DEFINE frame == [d \in Conns |-> IF d \in over THEN Resync ELSE PushFrame(e)]
  <2>4. PushFrame(e) \in Frames /\ PushFrame(e).seq = e.seq /\ PushFrame(e) # Resync
    BY <2>3, EventFacts
  <2>5. frame \in [Conns -> Frames \cup {Resync}] /\ frame[c] \in {Resync, PushFrame(e)}
    BY <2>4
  <2>6. Enqueue(T, frame)
    BY <2>2 DEF PushOrResync
  <2>7. conn[c] = "open" /\ m = n /\ u \in job[w].ids /\ c # e.except => c \in T
    BY DEF Targets, OpenAt
  <2> HIDE DEF frame, T
  <2>8. \/ c \in T /\ conn'[c] = "closed" /\ outq'[c] = <<>>
        \/ /\ c \in T /\ conn'[c] = conn[c] /\ due'[c] = due[c] /\ outq'[c] = Append(outq[c], frame[c])
           /\ Range(outq'[c]) = Range(outq[c]) \cup {frame[c]}
        \/ c \notin T /\ conn'[c] = conn[c] /\ outq'[c] = outq[c] /\ due'[c] = due[c]
    BY <1>01, <2>5, <2>6, EnqueueEffect
  <2>9. conn'[c] = conn[c]
    BY <2>8 DEF Owed
  <2>10. Owed(c, s) /\ Safe(c, s)
    BY <1>4, <2>9
  <2>11. Queued(c, s) => Queued(c, s)'
    <3>1. CASE c \in T /\ due'[c] = due[c] /\ Range(outq'[c]) = Range(outq[c]) \cup {frame[c]}
      BY <3>1 DEF Queued
    <3>2. CASE outq'[c] = outq[c] /\ due'[c] = due[c]
      BY <3>2 DEF Queued
    <3> QED BY <2>8, <3>1, <3>2 DEF Owed
  <2>12. ASSUME n = m, AtWork(w, u, s) PROVE Safe(c, s)'
    <3>1. e.seq = s /\ u \in job[w].ids
      BY <2>1, <2>12 DEF AtWork
    <3>2. c # e.except
      <4>1. Flying(e) /\ e # GroupChanged
        BY <2>1, <2>3, EventFacts DEF Flying
      <4>2. AckKnown(e)
        BY <4>1 DEF ExceptInv
      <4> QED BY <2>10, <3>1, <4>2 DEF AckKnown, Owed
    <3>3. c \in T
      BY <2>7, <2>10, <2>12, <3>1, <3>2 DEF Owed
    <3>4. frame[c] \in Range(outq'[c])
      BY <2>8, <3>3 DEF Owed
    <3>5. Queued(c, s)'
      BY <2>4, <2>5, <3>1, <3>4 DEF Queued
    <3> QED BY <3>5 DEF Safe
  <2> QED BY <1>5, <1>6, <2>1, <2>10, <2>11, <2>12
<1> QED BY <1>7, <1>9, <1>10, <1>11, <1>12, <1>13 DEF WorkerWork

(* Every step keeps LossInv.                                               *)
LEMMA LossNext == ASSUME Typed, DbInv, ExceptInv, LossInv, [Next]_vars PROVE LossInv'
<1>1. Ages
  BY StepAges
<1>2. ASSUME UNCHANGED <<members, entitled, conn, known, due, outq, sub, dropped, stale, chan, deliver, job, unsent>>
      PROVE  LossInv'
  <2> SUFFICES ASSUME NEW c \in Conns, NEW s, Owed(c, s)' PROVE Safe(c, s)'
    BY DEF LossInv
  <2>1. Safe(c, s) /\ (Unsent(s) => Unsent(s)')
    BY <1>2 DEF LossInv, Owed, Unsent
  <2> QED BY <1>2, <2>1, SafeSame
<1>3. ASSUME NEW n \in Nodes, AppWork(n) PROVE LossInv'
  BY <1>2, <1>3 DEF AppWork, AppRosterHit, AppRosterRead, AppRosterSet, AppVisible, AppNotify, AppFails, AppStep,
                    logVars, busVars, clientVars
<1>4. CASE UNCHANGED vars
  BY <1>2, <1>4 DEF vars, logVars, busVars, workVars, clientVars, history
<1> QED BY <1>1, <1>3, <1>4, StepKinds, LossRequests, LossConns, LossNodes, LossWorkers

(* No silent loss, for every number of nodes, users, connections and       *)
(* messages, every capacity and every fault: a message that a member's     *)
(* open connection lacks is queued for it, on its way to it, covered by a  *)
(* comparison the client makes or will be told to make, or was lost in one *)
(* of the listed places: before or in Bus.Publish, in onEvent or Deliver,  *)
(* or by a roster without the user.                                        *)
THEOREM NothingLostSilently == Spec => []NoSilentLoss
<1>1. Init => ExceptInv
  <2> SUFFICES ASSUME Init PROVE ExceptInv
    OBVIOUS
  <2>1. /\ unsent = {} /\ chan = [n \in Nodes |-> <<>>] /\ deliver = [n \in Nodes |-> <<>>]
        /\ job = [w \in Workers |-> Idle] /\ Idle.pc = "idle"
    BY DEF Init, Idle
  <2>2. \A e : ~Flying(e)
    BY <2>1, RangeEmpty DEF Flying
  <2> QED BY <2>1, <2>2 DEF ExceptInv
<1>2. Init => LossInv
  BY DEF Init, LossInv, Owed
<1>3. Typed /\ AudienceInv /\ ExceptInv /\ LossInv /\ [Next]_vars => LossInv'
  BY LossNext DEF AudienceInv
<1>4. Typed /\ ExceptInv /\ [Next]_vars => ExceptInv'
  BY ExceptNext
<1>5. LossInv => NoSilentLoss
  BY LossAsSafe DEF LossInv
<1> QED BY <1>1, <1>2, <1>3, <1>4, <1>5, TypedInit, TypedNext, AudienceInit, AudienceNext, PTL DEF Spec

-----------------------------------------------------------------------------
(* The order of pushes. Every push waits in one of four places on its way  *)
(* through a node: the channel, the shard, the worker and the queues of    *)
(* connections; what is further on was published earlier.                  *)
Sent(q) == {x \in Range(q) : x.type = "push"}
Rising(q) == \A i, j \in DOMAIN q : i < j /\ q[i].type = "push" /\ q[j].type = "push" => q[i].no < q[j].no
Under(A, B) == \A x \in A, y \in B : x.no < y.no
Upto(A, k) == \A x \in A : x.no \in Nat /\ x.no <= k
Held(n) == {job[w].ev : w \in {v \in Workers : v[1] = n /\ job[v].pc # "idle"}}

NodeOrder(n) ==
    /\ Rising(chan[n]) /\ Rising(deliver[n])
    /\ Under(Held(n), Sent(deliver[n])) /\ Under(Held(n), Sent(chan[n])) /\ Under(Sent(deliver[n]), Sent(chan[n]))
    /\ Upto(Held(n) \cup Sent(deliver[n]) \cup Sent(chan[n]), pubs)
ConnOrder(c) ==
    LET n == NodeOf[c]
    IN /\ Rising(outq[c]) /\ Upto(Sent(outq[c]), pubs)
       /\ Under(Sent(outq[c]), Held(n)) /\ Under(Sent(outq[c]), Sent(deliver[n])) /\ Under(Sent(outq[c]), Sent(chan[n]))
OrderInv == (\A n \in Nodes : NodeOrder(n)) /\ (\A c \in Conns : ConnOrder(c))

(* An event at the end of a rising queue.                                  *)
LEMMA RisingAppend ==
    ASSUME NEW S, NEW q \in Seq(S), NEW e \in S, Rising(q), e.type = "push" => Under(Sent(q), {e})
    PROVE  Rising(Append(q, e))
<1>1. Append(q, e) \in Seq(S) /\ Len(Append(q, e)) = Len(q) + 1 /\ Len(q) \in Nat
  BY SMTT(30)
<1>2. DOMAIN q = 1 .. Len(q) /\ DOMAIN Append(q, e) = 1 .. Len(q) + 1
  BY <1>1, SMTT(30)
<1>3. Append(q, e)[Len(q) + 1] = e /\ \A i \in 1 .. Len(q) : Append(q, e)[i] = q[i]
  BY SMTT(30)
<1> DEFINE r == Append(q, e)
<1> SUFFICES ASSUME NEW i \in 1 .. Len(q) + 1, NEW j \in 1 .. Len(q) + 1, i < j, r[i].type = "push", r[j].type = "push"
             PROVE  r[i].no < r[j].no
  BY <1>2 DEF Rising
<1>4. i \in 1 .. Len(q)
  BY <1>1, SMTT(30)
<1>5. r[i] = q[i]
  BY <1>3, <1>4
<1>6. CASE j \in 1 .. Len(q)
  <2>1. r[j] = q[j]
    BY <1>3, <1>6
  <2> HIDE DEF r
  <2> QED BY <1>2, <1>4, <1>5, <1>6, <2>1 DEF Rising
<1>7. CASE j \notin 1 .. Len(q)
  <2>1. j = Len(q) + 1
    BY <1>1, <1>7, SMTT(30)
  <2>2. r[j] = e
    BY <1>3, <2>1
  <2>3. q[i] \in Range(q)
    BY <1>2, <1>4 DEF Range
  <2> HIDE DEF r
  <2> QED BY <1>5, <2>2, <2>3 DEF Sent, Under
<1> QED BY <1>6, <1>7

(* The rest of a rising queue, and its head before it.                     *)
LEMMA RisingTail ==
    ASSUME NEW S, NEW q \in Seq(S), q # <<>>, Rising(q)
    PROVE  /\ Rising(Tail(q)) /\ Sent(Tail(q)) \subseteq Sent(q)
           /\ Head(q).type = "push" => Head(q) \in Sent(q) /\ Under({Head(q)}, Sent(Tail(q)))
<1>1. Len(q) \in Nat /\ Len(q) >= 1 /\ DOMAIN q = 1 .. Len(q) /\ DOMAIN Tail(q) = 1 .. Len(q) - 1
  BY SMTT(30)
<1>2. Head(q) = q[1] /\ \A i \in 1 .. Len(q) - 1 : Tail(q)[i] = q[i + 1]
  BY <1>1, SMTT(30)
<1>3. 1 \in 1 .. Len(q) /\ \A i \in 1 .. Len(q) - 1 : i + 1 \in 1 .. Len(q) /\ 1 < i + 1
  BY <1>1, SMTT(30)
<1>4. \A i, j \in 1 .. Len(q) - 1 : i < j => i + 1 < j + 1
  BY <1>1, SMTT(30)
<1>5. Range(q) = {Head(q)} \cup Range(Tail(q))
  BY RangeTail
<1>6. Rising(Tail(q))
  <2> SUFFICES ASSUME NEW i \in 1 .. Len(q) - 1, NEW j \in 1 .. Len(q) - 1, i < j,
                      Tail(q)[i].type = "push", Tail(q)[j].type = "push"
               PROVE  Tail(q)[i].no < Tail(q)[j].no
    BY <1>1 DEF Rising
  <2>1. Tail(q)[i] = q[i + 1] /\ Tail(q)[j] = q[j + 1] /\ i + 1 \in DOMAIN q /\ j + 1 \in DOMAIN q /\ i + 1 < j + 1
    BY <1>1, <1>2, <1>3, <1>4
  <2> QED BY <2>1 DEF Rising
<1>7. Under({Head(q)}, Sent(Tail(q))) \/ Head(q).type # "push"
  <2> SUFFICES ASSUME NEW y \in Sent(Tail(q)), Head(q).type = "push" PROVE Head(q).no < y.no
    BY DEF Under
  <2>1. PICK i \in 1 .. Len(q) - 1 : y = Tail(q)[i]
    BY <1>1 DEF Sent, Range
  <2>2. y = q[i + 1] /\ i + 1 \in DOMAIN q /\ 1 \in DOMAIN q /\ 1 < i + 1 /\ y.type = "push"
    BY <1>1, <1>2, <1>3, <2>1 DEF Sent
  <2> QED BY <1>2, <2>2 DEF Rising
<1> QED BY <1>5, <1>6, <1>7 DEF Sent

(* An empty queue.                                                         *)
LEMMA SentEmpty == Sent(<<>>) = {} /\ Rising(<<>>)
<1>1. DOMAIN <<>> = {}
  BY SMTT(30)
<1> QED BY <1>1, RangeEmpty DEF Sent, Rising

(* The pushes of a queue that something was put on.                        *)
LEMMA SentAppend ==
    ASSUME NEW S, NEW q \in Seq(S), NEW e \in S
    PROVE  /\ e.type = "push" => Sent(Append(q, e)) = Sent(q) \cup {e}
           /\ e.type # "push" => Sent(Append(q, e)) = Sent(q)
<1>1. Range(Append(q, e)) = Range(q) \cup {e}
  BY RangeAppend, SMTT(30)
<1> QED BY <1>1 DEF Sent

(* A node that keeps what it has or loses some of it.                      *)
LEMMA NodeLess ==
    ASSUME NEW n \in Nodes, NodeOrder(n), pubs' = pubs, Rising(chan'[n]), Rising(deliver'[n]),
           Sent(chan'[n]) \subseteq Sent(chan[n]), Sent(deliver'[n]) \subseteq Sent(deliver[n]), Held(n)' \subseteq Held(n)
    PROVE  NodeOrder(n)'
<1>1. Under(Held(n)', Sent(deliver'[n])) /\ Under(Held(n)', Sent(chan'[n])) /\ Under(Sent(deliver'[n]), Sent(chan'[n]))
  BY DEF NodeOrder, Under
<1>2. Upto(Held(n)' \cup Sent(deliver'[n]) \cup Sent(chan'[n]), pubs')
  BY DEF NodeOrder, Upto
<1> QED BY <1>1, <1>2 DEF NodeOrder

(* The same for a connection.                                              *)
LEMMA ConnLess ==
    ASSUME NEW c \in Conns, ConnOrder(c), pubs' = pubs, Rising(outq'[c]), Sent(outq'[c]) \subseteq Sent(outq[c]),
           LET n == NodeOf[c]
           IN Sent(chan'[n]) \subseteq Sent(chan[n]) /\ Sent(deliver'[n]) \subseteq Sent(deliver[n]) /\ Held(n)' \subseteq Held(n)
    PROVE  ConnOrder(c)'
<1> DEFINE n == NodeOf[c]
<1>1. Sent(chan'[n]) \subseteq Sent(chan[n]) /\ Sent(deliver'[n]) \subseteq Sent(deliver[n]) /\ Held(n)' \subseteq Held(n)
  OBVIOUS
<1>2. /\ Rising(outq[c]) /\ Upto(Sent(outq[c]), pubs)
      /\ Under(Sent(outq[c]), Held(n)) /\ Under(Sent(outq[c]), Sent(deliver[n])) /\ Under(Sent(outq[c]), Sent(chan[n]))
  BY DEF ConnOrder
<1>3. /\ Under(Sent(outq'[c]), Held(n)') /\ Under(Sent(outq'[c]), Sent(deliver'[n])) /\ Under(Sent(outq'[c]), Sent(chan'[n]))
  BY <1>1, <1>2 DEF Under
<1>4. Upto(Sent(outq'[c]), pubs')
  BY <1>2 DEF Upto
<1> QED BY <1>3, <1>4 DEF ConnOrder

(* Numbers up to k are below k + 1.                                        *)
LEMMA NextNumber ==
    ASSUME NEW A, NEW k \in Nat, Upto(A, k)
    PROVE  Upto(A, k + 1) /\ \A x \in A : x.no < k + 1
<1>1. \A i \in Nat : i <= k => i <= k + 1 /\ i < k + 1
  BY SMTT(30)
<1> QED BY <1>1 DEF Upto

(* The worker of a node holds what it held, or nothing.                    *)
LEMMA HeldFrom ==
    ASSUME NEW n, \A v \in Workers : v[1] = n /\ job'[v].pc # "idle" => job[v].pc # "idle" /\ job'[v].ev = job[v].ev
    PROVE  Held(n)' \subseteq Held(n)
BY DEF Held

(* A step that only takes away, at every node and connection.              *)
LEMMA OrderLess ==
    ASSUME OrderInv, pubs' = pubs,
           \A n \in Nodes : /\ Rising(chan'[n]) /\ Sent(chan'[n]) \subseteq Sent(chan[n])
                            /\ Rising(deliver'[n]) /\ Sent(deliver'[n]) \subseteq Sent(deliver[n])
                            /\ Held(n)' \subseteq Held(n),
           \A c \in Conns : Rising(outq'[c]) /\ Sent(outq'[c]) \subseteq Sent(outq[c])
    PROVE  OrderInv'
<1>1. \A n \in Nodes : NodeOrder(n)'
  BY NodeLess DEF OrderInv
<1>2. \A c \in Conns : ConnOrder(c)'
  <2> TAKE c \in Conns
  <2>1. NodeOf[c] \in Nodes
    BY DeliveryAssumption
  <2> QED BY <2>1, ConnLess DEF OrderInv
<1> QED BY <1>1, <1>2 DEF OrderInv

(* Requests keep the order: the number of a publication is the largest.    *)
LEMMA OrderRequests == ASSUME Typed, OrderInv, Requests PROVE OrderInv'
<1> USE DEF logVars, busVars, workVars, clientVars, history
<1>0. /\ pubs \in Nat /\ chan \in [Nodes -> Seq(Pushes \cup {GroupChanged})]
      /\ \A n \in Nodes : NodeOrder(n)
      /\ \A c \in Conns : ConnOrder(c)
  BY DEF Typed, BusTyped, OrderInv
<1>00. /\ \A n \in Nodes : Rising(chan[n]) /\ Rising(deliver[n])
       /\ \A c \in Conns : Rising(outq[c])
  BY <1>0 DEF NodeOrder, ConnOrder
<1>1. ASSUME NEW u, NEW k, NEW n, NEW d, Commit(u, k, n, d) PROVE OrderInv'
  <2>1. UNCHANGED <<pubs, chan, deliver, job, outq>>
    BY <1>1 DEF Commit
  <2> QED BY <1>00, <2>1, HeldFrom, OrderLess
<1>2. ASSUME NEW u, Change(u) PROVE OrderInv'
  <2>1. UNCHANGED <<pubs, chan, deliver, job, outq>>
    BY <1>2 DEF Change
  <2> QED BY <1>00, <2>1, HeldFrom, OrderLess
<1>3. ASSUME NEW s \in Nat, NEW d \in Excepts, NEW ok \in BOOLEAN, PublishPush(s, d, ok),
             UNCHANGED <<sub, deliver, job, outq>>
      PROVE  OrderInv'
  <2>1. PICK ev \in Pushes : Announces(ev, s, d)
    BY <1>3, PublishEffect
  <2>2. ev.no = pubs + 1 /\ ev.type = "push" /\ pubs' = pubs + 1 /\ pubs + 1 \in Nat
    <3>1. ev.no = pubs + 1 /\ pubs' = pubs + 1
      BY <1>3, <2>1 DEF Announces, PublishPush
    <3> QED BY <3>1, EventFacts
  <2>3. \A n : Held(n)' = Held(n)
    BY <1>3 DEF Held
  <2>4. ASSUME NEW n \in Nodes
        PROVE  /\ Upto(Held(n) \cup Sent(deliver[n]) \cup Sent(chan[n]), pubs + 1)
               /\ \A x \in Held(n) \cup Sent(deliver[n]) \cup Sent(chan[n]) : x.no < pubs + 1
    <3>1. Upto(Held(n) \cup Sent(deliver[n]) \cup Sent(chan[n]), pubs)
      BY <1>0 DEF NodeOrder
    <3> QED BY <1>0, <3>1, NextNumber
  <2>5. ASSUME NEW n \in Nodes PROVE Rising(chan'[n]) /\ Sent(chan'[n]) \subseteq Sent(chan[n]) \cup {ev}
    <3>1. chan'[n] = chan[n] \/ chan'[n] = Append(chan[n], ev)
      BY <2>1 DEF Announces
    <3>2. CASE chan'[n] = Append(chan[n], ev)
      <4> DEFINE S == Pushes \cup {GroupChanged}
      <4>1. chan[n] \in Seq(S) /\ ev \in S
        BY <1>0
      <4>2. Under(Sent(chan[n]), {ev})
        BY <2>2, <2>4 DEF Under
      <4> HIDE DEF S
      <4>3. Rising(Append(chan[n], ev))
        BY <1>00, <4>1, <4>2, RisingAppend
      <4>4. Sent(Append(chan[n], ev)) = Sent(chan[n]) \cup {ev}
        BY <2>2, <4>1, SentAppend, SMTT(30)
      <4> QED BY <3>2, <4>3, <4>4
    <3> QED BY <1>00, <3>1, <3>2
  <2>6. ASSUME NEW n \in Nodes PROVE NodeOrder(n)'
    <3>1. Under(Held(n), Sent(deliver[n])) /\ Under(Held(n), Sent(chan[n])) /\ Under(Sent(deliver[n]), Sent(chan[n]))
      BY <1>0 DEF NodeOrder
    <3>2. Under(Held(n), Sent(chan'[n])) /\ Under(Sent(deliver[n]), Sent(chan'[n]))
      BY <2>2, <2>4, <2>5, <3>1 DEF Under
    <3>3. ev.no \in Nat /\ ev.no <= pubs + 1
      BY <1>0, <2>2, SMTT(30)
    <3>4. Upto(Held(n) \cup Sent(deliver[n]) \cup Sent(chan'[n]), pubs + 1)
      <4>1. \A x \in Held(n) \cup Sent(deliver[n]) \cup Sent(chan[n]) : x.no \in Nat /\ x.no <= pubs + 1
        BY <2>4 DEF Upto
      <4>2. \A x \in Sent(chan'[n]) : x \in Sent(chan[n]) \/ x = ev
        BY <2>5
      <4> QED BY <3>3, <4>1, <4>2 DEF Upto
    <3> QED BY <1>00, <1>3, <2>2, <2>3, <2>5, <3>1, <3>2, <3>4 DEF NodeOrder
  <2>7. ASSUME NEW c \in Conns PROVE ConnOrder(c)'
    <3> DEFINE n == NodeOf[c]
    <3>1. n \in Nodes
      BY DeliveryAssumption
    <3>2. /\ Upto(Sent(outq[c]), pubs) /\ Under(Sent(outq[c]), Held(n))
          /\ Under(Sent(outq[c]), Sent(deliver[n])) /\ Under(Sent(outq[c]), Sent(chan[n]))
      BY <1>0 DEF ConnOrder
    <3>3. Upto(Sent(outq[c]), pubs + 1) /\ \A x \in Sent(outq[c]) : x.no < pubs + 1
      BY <1>0, <3>2, NextNumber
    <3>4. Under(Sent(outq[c]), Sent(chan'[n]))
      BY <2>2, <2>5, <3>1, <3>2, <3>3 DEF Under
    <3> QED BY <1>00, <1>3, <2>2, <2>3, <3>2, <3>3, <3>4 DEF ConnOrder
  <2> QED BY <2>6, <2>7 DEF OrderInv
<1>4. ASSUME NEW p \in unsent, NEW ok \in BOOLEAN, Publish(p, ok) PROVE OrderInv'
  <2>1. p.seq \in Nat /\ p.except \in Excepts
    BY DEF Typed, BusTyped, Pending
  <2> QED BY <1>3, <1>4, <2>1 DEF Publish
<1>5. ASSUME NEW t \in 1 .. Size, NEW d \in Excepts, NEW ok \in BOOLEAN, Republish(t, d, ok) PROVE OrderInv'
  <2>1. t \in Nat
    BY SMTT(30) DEF Typed, DbTyped, Size
  <2> QED BY <1>3, <1>5, <2>1 DEF Republish
<1>6. ASSUME NEW ok \in BOOLEAN, NotifyChanged(ok) PROVE OrderInv'
  <2>1. UNCHANGED <<pubs, deliver, job, outq>>
    BY <1>6 DEF NotifyChanged
  <2>2. ASSUME NEW n \in Nodes PROVE Rising(chan'[n]) /\ Sent(chan'[n]) \subseteq Sent(chan[n])
    <3>1. chan'[n] = chan[n] \/ chan'[n] = Append(chan[n], GroupChanged)
      <4>1. CASE ok
        <5>1. Broadcast(GroupChanged)
          BY <1>6, <4>1 DEF NotifyChanged
        <5> QED BY <5>1, BroadcastEffect DEF Typed
      <4>2. CASE ~ok
        BY <1>6, <4>2 DEF NotifyChanged
      <4> QED BY <4>1, <4>2
    <3>2. CASE chan'[n] = Append(chan[n], GroupChanged)
      <4> DEFINE S == Pushes \cup {GroupChanged}
      <4>1. chan[n] \in Seq(S) /\ GroupChanged \in S /\ GroupChanged.type # "push"
        BY <1>0, EventFacts
      <4> HIDE DEF S
      <4>2. Rising(Append(chan[n], GroupChanged)) /\ Sent(Append(chan[n], GroupChanged)) = Sent(chan[n])
        BY <1>00, <4>1, RisingAppend, SentAppend
      <4> QED BY <3>2, <4>2
    <3> QED BY <1>00, <3>1, <3>2
  <2> QED BY <1>00, <2>1, <2>2, HeldFrom, OrderLess
<1> QED BY <1>1, <1>2, <1>4, <1>5, <1>6 DEF Requests

(* So do the connections, which only take from their queues.               *)
LEMMA OrderConns == ASSUME Typed, OrderInv, NEW d \in Conns, ConnWork(d) PROVE OrderInv'
<1> USE DEF logVars, busVars, workVars, clientVars, history
<1>0. /\ \A n \in Nodes : Rising(chan[n]) /\ Rising(deliver[n])
      /\ \A c \in Conns : Rising(outq[c])
      /\ ClientTyped /\ outq \in [Conns -> Seq(Frames \cup {Resync})]
  BY DEF OrderInv, NodeOrder, ConnOrder, Typed, ClientTyped
<1>1. UNCHANGED <<pubs, chan, deliver, job>>
  BY DEF ConnWork, OpenConn, Close1, WriteLoop, Pull
<1>2. ASSUME NEW c \in Conns PROVE Rising(outq'[c]) /\ Sent(outq'[c]) \subseteq Sent(outq[c])
  <2>1. CASE outq' = outq
    BY <1>0, <2>1
  <2>2. CASE Close1(d)
    <3>1. CloseAll({d})
      BY <2>2 DEF Close1
    <3>2. outq'[c] = <<>> \/ outq'[c] = outq[c]
      BY <1>0, <3>1, CloseEffect
    <3> QED BY <1>0, <3>2, SentEmpty
  <2>3. CASE WriteLoop(d)
    <3>1. outq[d] # <<>> /\ outq' = [outq EXCEPT ![d] = Tail(outq[d])]
      BY <2>3 DEF WriteLoop
    <3>2. outq'[c] = IF c = d THEN Tail(outq[d]) ELSE outq[c]
      BY <1>0, <3>1
    <3>3. Rising(Tail(outq[d])) /\ Sent(Tail(outq[d])) \subseteq Sent(outq[d])
      BY <1>0, <3>1, RisingTail
    <3> QED BY <1>0, <3>2, <3>3
  <2> QED BY <2>1, <2>2, <2>3 DEF ConnWork, OpenConn, Pull
<1> QED BY <1>0, <1>1, <1>2, HeldFrom, OrderLess

(* So do the nodes: the consumer moves the oldest event of the channel to  *)
(* the end of the shard.                                                   *)
LEMMA OrderNodes == ASSUME Typed, OrderInv, NEW n \in Nodes, NodeWork(n) PROVE OrderInv'
<1> USE DEF logVars, busVars, workVars, clientVars, history
<1> DEFINE S == Frames \cup {Resync}
           Ev == Pushes \cup {GroupChanged}
<1>0. /\ \A x \in Nodes : Rising(chan[x]) /\ Rising(deliver[x])
      /\ \A c \in Conns : Rising(outq[c])
  BY DEF OrderInv, NodeOrder, ConnOrder
<1>1. /\ ClientTyped /\ outq \in [Conns -> Seq(S)] /\ chan \in [Nodes -> Seq(Ev)] /\ deliver \in [Nodes -> Seq(Pushes)]
  BY DEF Typed, ClientTyped, BusTyped, WorkTyped
<1>2. pubs' = pubs
  BY DEF NodeWork, Connect, Disconnect, Consume, Expire, Crash
<1>3. CASE Connect(n)
  <2>1. UNCHANGED <<chan, deliver, job>>
    BY <1>3 DEF Connect
  <2>2. ASSUME NEW c \in Conns PROVE Rising(outq'[c]) /\ Sent(outq'[c]) \subseteq Sent(outq[c])
    <3>1. CASE outq' = outq
      BY <1>0, <3>1
    <3>2. CASE ResyncAll(n)
      <4> DEFINE frame == [x \in Conns |-> Resync]
      <4>1. frame \in [Conns -> S] /\ frame[c] = Resync /\ Enqueue(OpenAt(n), frame)
        BY <3>2 DEF ResyncAll
      <4> HIDE DEF frame
      <4>2. outq'[c] = <<>> \/ outq'[c] = Append(outq[c], Resync) \/ outq'[c] = outq[c]
        <5>1. \/ c \in OpenAt(n) /\ conn'[c] = "closed" /\ outq'[c] = <<>>
              \/ /\ c \in OpenAt(n) /\ conn'[c] = conn[c] /\ due'[c] = due[c] /\ outq'[c] = Append(outq[c], frame[c])
                 /\ Range(outq'[c]) = Range(outq[c]) \cup {frame[c]}
              \/ c \notin OpenAt(n) /\ conn'[c] = conn[c] /\ outq'[c] = outq[c] /\ due'[c] = due[c]
          BY <1>1, <4>1, EnqueueEffect
        <5> QED BY <4>1, <5>1
      <4>3. outq[c] \in Seq(S) /\ Resync \in S /\ Resync.type # "push"
        BY <1>1, EventFacts
      <4> HIDE DEF S
      <4>4. Rising(Append(outq[c], Resync))
        BY <1>0, <4>3, RisingAppend
      <4>5. Sent(Append(outq[c], Resync)) = Sent(outq[c])
        BY <4>3, SentAppend, SMTT(30)
      <4> QED BY <1>0, <4>2, <4>4, <4>5, SentEmpty
    <3> QED BY <1>3, <3>1, <3>2 DEF Connect
  <2> QED BY <1>0, <1>2, <2>1, <2>2, HeldFrom, OrderLess
<1>4. CASE Disconnect(n)
  <2>1. UNCHANGED <<deliver, job, outq>> /\ chan' = [chan EXCEPT ![n] = <<>>]
    BY <1>4 DEF Disconnect
  <2>2. \A x \in Nodes : chan'[x] = <<>> \/ chan'[x] = chan[x]
    BY <1>1, <2>1
  <2>3. \A x \in Nodes : Rising(chan'[x]) /\ Sent(chan'[x]) \subseteq Sent(chan[x])
    BY <1>0, <2>2, SentEmpty
  <2> QED BY <1>0, <1>2, <2>1, <2>3, HeldFrom, OrderLess
<1>5. CASE Expire(n)
  <2>1. UNCHANGED <<chan, deliver, job, outq>>
    BY <1>5 DEF Expire
  <2> QED BY <1>0, <1>2, <2>1, HeldFrom, OrderLess
<1>6. CASE Crash(n)
  <2>1. /\ chan' = [chan EXCEPT ![n] = <<>>] /\ deliver' = [deliver EXCEPT ![n] = <<>>] /\ CloseAll(OpenAt(n))
        /\ job' = [w \in Workers |-> IF w[1] = n THEN Idle ELSE job[w]]
    BY <1>6 DEF Crash
  <2>2. \A x \in Nodes : (chan'[x] = <<>> \/ chan'[x] = chan[x]) /\ (deliver'[x] = <<>> \/ deliver'[x] = deliver[x])
    BY <1>1, <2>1
  <2>3. \A c \in Conns : outq'[c] = <<>> \/ outq'[c] = outq[c]
    BY <1>1, <2>1, CloseEffect
  <2>4. \A v \in Workers : job'[v].pc # "idle" => job'[v] = job[v]
    BY <2>1 DEF Idle
  <2>5. \A x \in Nodes : Held(x)' \subseteq Held(x)
    BY <2>4, HeldFrom
  <2>6. \A x \in Nodes : /\ Rising(chan'[x]) /\ Sent(chan'[x]) \subseteq Sent(chan[x])
                         /\ Rising(deliver'[x]) /\ Sent(deliver'[x]) \subseteq Sent(deliver[x])
    BY <1>0, <2>2, SentEmpty
  <2>7. \A c \in Conns : Rising(outq'[c]) /\ Sent(outq'[c]) \subseteq Sent(outq[c])
    BY <1>0, <2>3, SentEmpty
  <2> QED BY <1>2, <2>5, <2>6, <2>7, OrderLess
<1>7. CASE Consume(n)
  <2> DEFINE ev == Head(chan[n])
  <2>1. /\ UNCHANGED <<job, outq>> /\ chan' = [chan EXCEPT ![n] = Tail(chan[n])] /\ chan[n] # <<>> /\ chan[n] \in Seq(Ev)
        /\ IF ev = GroupChanged THEN OnGroupChanged(n) ELSE OnPush(n, ev)
    BY <1>1, <1>7 DEF Consume
  <2>2. \A x \in Nodes : chan'[x] = IF x = n THEN Tail(chan[n]) ELSE chan[x]
    BY <1>1, <2>1
  <2>3. /\ Rising(Tail(chan[n])) /\ Sent(Tail(chan[n])) \subseteq Sent(chan[n]) /\ ev \in Ev
        /\ ev.type = "push" => ev \in Sent(chan[n]) /\ Under({ev}, Sent(Tail(chan[n])))
    BY <1>0, <2>1, RangeTail, RisingTail
  <2> HIDE DEF ev
  <2>4. \A x \in Nodes : Rising(chan'[x]) /\ Sent(chan'[x]) \subseteq Sent(chan[x])
    BY <1>0, <2>2, <2>3
  <2>5. \A x : Held(x)' = Held(x)
    BY <2>1 DEF Held
  <2>6. CASE deliver' = deliver
    BY <1>0, <1>2, <2>1, <2>4, <2>5, <2>6, OrderLess
  <2>7. CASE deliver' # deliver
    <3>1. OnPush(n, ev) /\ ev # GroupChanged
      BY <2>1, <2>7 DEF OnGroupChanged
    <3>2. ev \in Pushes /\ ev.type = "push"
      BY <2>3, <3>1, EventFacts
    <3>3. deliver' = [deliver EXCEPT ![n] = Append(deliver[n], ev)]
      <4>1. deliver' = [deliver EXCEPT ![n] = IF Len(deliver[n]) >= DeliverQueue THEN deliver[n] ELSE Append(deliver[n], ev)]
        BY <3>1 DEF OnPush
      <4>2. [deliver EXCEPT ![n] = deliver[n]] = deliver
        BY <1>1
      <4> QED BY <2>7, <4>1, <4>2
    <3>4. \A x \in Nodes : deliver'[x] = IF x = n THEN Append(deliver[n], ev) ELSE deliver[x]
      BY <1>1, <3>3
    <3>5. /\ Under(Held(n), Sent(deliver[n])) /\ Under(Held(n), Sent(chan[n])) /\ Under(Sent(deliver[n]), Sent(chan[n]))
          /\ Upto(Held(n) \cup Sent(deliver[n]) \cup Sent(chan[n]), pubs)
      BY DEF OrderInv, NodeOrder
    <3>6. ev \in Sent(chan[n]) /\ Under({ev}, Sent(chan'[n])) /\ Sent(chan'[n]) \subseteq Sent(chan[n])
      BY <2>2, <2>3, <3>2
    <3>7. deliver[n] \in Seq(Pushes) /\ Under(Sent(deliver[n]), {ev})
      BY <1>1, <3>5, <3>6 DEF Under
    <3>8. Rising(deliver'[n]) /\ Sent(deliver'[n]) = Sent(deliver[n]) \cup {ev}
      <4>1. Rising(Append(deliver[n], ev))
        BY <1>0, <3>2, <3>7, RisingAppend
      <4>2. Sent(Append(deliver[n], ev)) = Sent(deliver[n]) \cup {ev}
        BY <3>2, <3>7, SentAppend, SMTT(30)
      <4> QED BY <3>4, <4>1, <4>2
    <3>9. NodeOrder(n)'
      <4>1. /\ Under(Held(n), Sent(deliver'[n])) /\ Under(Held(n), Sent(chan'[n]))
            /\ Under(Sent(deliver'[n]), Sent(chan'[n]))
        BY <3>5, <3>6, <3>8 DEF Under
      <4>2. Upto(Held(n) \cup Sent(deliver'[n]) \cup Sent(chan'[n]), pubs)
        BY <3>5, <3>6, <3>8 DEF Upto
      <4> QED BY <1>2, <2>4, <2>5, <3>8, <4>1, <4>2 DEF NodeOrder
    <3>10. ASSUME NEW x \in Nodes, x # n PROVE NodeOrder(x)'
      <4>1. deliver'[x] = deliver[x] /\ NodeOrder(x)
        BY <3>4, <3>10 DEF OrderInv
      <4> QED BY <1>0, <1>2, <2>4, <2>5, <4>1, NodeLess
    <3>11. ASSUME NEW c \in Conns PROVE ConnOrder(c)'
      <4> DEFINE m == NodeOf[c]
      <4>1. m \in Nodes /\ ConnOrder(c)
        BY DeliveryAssumption DEF OrderInv
      <4>2. CASE m # n
        <5>1. deliver'[m] = deliver[m] /\ outq'[c] = outq[c]
          BY <2>1, <3>4, <4>1, <4>2
        <5> QED BY <1>0, <1>2, <2>4, <2>5, <4>1, <5>1, ConnLess
      <4>3. CASE m = n
        <5>1. /\ Upto(Sent(outq[c]), pubs) /\ Under(Sent(outq[c]), Held(n))
              /\ Under(Sent(outq[c]), Sent(deliver[n])) /\ Under(Sent(outq[c]), Sent(chan[n]))
          BY <4>1, <4>3 DEF ConnOrder
        <5>2. Under(Sent(outq[c]), Sent(deliver'[n])) /\ Under(Sent(outq[c]), Sent(chan'[n]))
          BY <3>6, <3>8, <5>1 DEF Under
        <5> QED BY <1>0, <1>2, <2>1, <2>5, <4>3, <5>1, <5>2 DEF ConnOrder
      <4> QED BY <4>2, <4>3
    <3> QED BY <3>9, <3>10, <3>11 DEF OrderInv
  <2> QED BY <2>6, <2>7
<1> QED BY <1>3, <1>4, <1>5, <1>6, <1>7 DEF NodeWork

(* So does the one worker of a shard, which takes the next event when it   *)
(* is done with the last.                                                  *)
LEMMA OrderWorkers == ASSUME Typed, OrderInv, NEW w \in Workers, WorkerWork(w) PROVE OrderInv'
<1> USE DEF logVars, busVars, history
<1> DEFINE n == w[1]
           S == Frames \cup {Resync}
<1>0. /\ \A x \in Nodes : Rising(chan[x]) /\ Rising(deliver[x])
      /\ \A c \in Conns : Rising(outq[c])
  BY DEF OrderInv, NodeOrder, ConnOrder
<1>1. /\ ClientTyped /\ outq \in [Conns -> Seq(S)] /\ deliver \in [Nodes -> Seq(Pushes)] /\ job \in [Workers -> Jobs]
      /\ n \in Nodes /\ \A v \in Workers : v[1] = n => v = w
  BY OneWorker DEF Typed, ClientTyped, WorkTyped
<1>2. UNCHANGED <<pubs, chan>>
  BY DEF WorkerWork, Take, RosterHit, RosterRead, RosterSet, CheckVisible, Fanout, DeliverFails, WorkerStep
<1>3. /\ \A v \in Workers : v # w => job'[v] = job[v]
      /\ \/ Take(w) /\ job'[w].pc = "recipients" /\ job'[w].ev = Head(deliver[n])
         \/ job[w].pc # "idle" /\ job'[w].pc # "idle" /\ job'[w].ev = job[w].ev /\ deliver' = deliver
         \/ job[w].pc # "idle" /\ job'[w] = Idle /\ deliver' = deliver
  BY WorkerEffect
<1>4. Idle.pc = "idle"
  BY DEF Idle
<1>5. ASSUME NEW x, x # n PROVE Held(x)' \subseteq Held(x)
  <2>1. \A v \in Workers : v[1] = x => job'[v] = job[v]
    BY <1>3, <1>5
  <2> QED BY <2>1, HeldFrom
<1>6. CASE Take(w)
  <2> DEFINE e == Head(deliver[n])
  <2>1. outq' = outq /\ deliver' = [deliver EXCEPT ![n] = Tail(deliver[n])] /\ deliver[n] # <<>> /\ job[w] = Idle
    BY <1>6 DEF Take
  <2>2. \A x \in Nodes : deliver'[x] = IF x = n THEN Tail(deliver[n]) ELSE deliver[x]
    BY <1>1, <2>1
  <2>3. e \in Pushes
    BY <1>1, <2>1, RangeTail
  <2>4. /\ Rising(Tail(deliver[n])) /\ Sent(Tail(deliver[n])) \subseteq Sent(deliver[n])
        /\ e \in Sent(deliver[n]) /\ Under({e}, Sent(Tail(deliver[n])))
    BY <1>0, <1>1, <2>1, <2>3, EventFacts, RisingTail
  <2>5. Held(n)' = {e}
    BY <1>1, <1>3, <1>4, <2>1 DEF Held
  <2> HIDE DEF e
  <2>6. \A x \in Nodes : Rising(deliver'[x]) /\ Sent(deliver'[x]) \subseteq Sent(deliver[x])
    BY <1>0, <2>2, <2>4
  <2>7. NodeOrder(n)'
    <3>1. Under(Sent(deliver[n]), Sent(chan[n])) /\ Upto(Held(n) \cup Sent(deliver[n]) \cup Sent(chan[n]), pubs)
      BY <1>1 DEF OrderInv, NodeOrder
    <3>2. deliver'[n] = Tail(deliver[n])
      BY <1>1, <2>2
    <3>3. /\ Under({e}, Sent(deliver'[n])) /\ Under({e}, Sent(chan[n])) /\ Under(Sent(deliver'[n]), Sent(chan[n]))
      BY <2>4, <3>1, <3>2 DEF Under
    <3>4. Upto({e} \cup Sent(deliver'[n]) \cup Sent(chan[n]), pubs)
      BY <2>4, <3>1, <3>2 DEF Upto
    <3> QED BY <1>0, <1>1, <1>2, <2>5, <2>6, <3>3, <3>4 DEF NodeOrder
  <2>8. ASSUME NEW x \in Nodes, x # n PROVE NodeOrder(x)'
    <3>1. Held(x)' \subseteq Held(x) /\ NodeOrder(x)
      BY <1>5, <2>8 DEF OrderInv
    <3> QED BY <1>0, <1>2, <2>6, <3>1, NodeLess
  <2>9. ASSUME NEW c \in Conns PROVE ConnOrder(c)'
    <3> DEFINE m == NodeOf[c]
    <3>1. m \in Nodes /\ ConnOrder(c)
      BY DeliveryAssumption DEF OrderInv
    <3>2. CASE m # n
      <4>1. Held(m)' \subseteq Held(m)
        BY <1>5, <3>2
      <4> QED BY <1>0, <1>2, <2>1, <2>6, <3>1, <4>1, ConnLess
    <3>3. CASE m = n
      <4>1. /\ Upto(Sent(outq[c]), pubs) /\ Under(Sent(outq[c]), Sent(deliver[n])) /\ Under(Sent(outq[c]), Sent(chan[n]))
        BY <3>1, <3>3 DEF ConnOrder
      <4>2. Under(Sent(outq[c]), {e}) /\ Under(Sent(outq[c]), Sent(deliver'[n]))
        BY <1>1, <2>4, <2>6, <4>1 DEF Under
      <4> QED BY <1>0, <1>2, <2>1, <2>5, <3>3, <4>1, <4>2 DEF ConnOrder
    <3> QED BY <3>2, <3>3
  <2> QED BY <2>7, <2>8, <2>9 DEF OrderInv
<1>7. CASE ~Take(w)
  <2>1. deliver' = deliver
    BY <1>3, <1>7
  <2>2. \A x : Held(x)' \subseteq Held(x)
    BY <1>3, <1>4, <1>7, HeldFrom
  <2>3. CASE outq' = outq
    BY <1>0, <1>2, <2>1, <2>2, <2>3, OrderLess
  <2>4. CASE Fanout(w)
    <3> DEFINE e == job[w].ev
               T == Targets(n, job[w].ids, e)
    <3>1. job[w].pc = "fanout" /\ job' = [job EXCEPT ![w] = Idle]
      BY <2>4 DEF Fanout
    <3>2. PICK over \in SUBSET T : PushOrResync(T, e, over)
      BY <2>4 DEF Fanout
    <3>3. e \in Pushes
      BY <1>1, <3>1, JobFacts
    <3> DEFINE frame == [d \in Conns |-> IF d \in over THEN Resync ELSE PushFrame(e)]
    <3>4. PushFrame(e) \in Frames /\ PushFrame(e).no = e.no
      BY <3>3, EventFacts
    <3>5. frame \in [Conns -> S] /\ \A c \in Conns : frame[c] = Resync \/ frame[c] = PushFrame(e)
      BY <3>4
    <3>6. Enqueue(T, frame)
      BY <3>2 DEF PushOrResync
    <3>7. \A c \in T : NodeOf[c] = n
      BY DEF Targets, OpenAt
    <3>8. e \in Held(n)
      BY <3>1 DEF Held
    <3>9. Held(n)' = {}
      <4>1. job'[w].pc = "idle"
        BY <1>1, <1>4, <3>1
      <4> QED BY <1>1, <4>1 DEF Held
    <3> HIDE DEF frame, T, e
    <3>10. ASSUME NEW x \in Nodes PROVE NodeOrder(x)'
      BY <1>0, <1>2, <2>1, <2>2, NodeLess DEF OrderInv
    <3>11. ASSUME NEW c \in Conns PROVE ConnOrder(c)'
      <4>1. \/ c \in T /\ conn'[c] = "closed" /\ outq'[c] = <<>>
            \/ /\ c \in T /\ conn'[c] = conn[c] /\ due'[c] = due[c] /\ outq'[c] = Append(outq[c], frame[c])
               /\ Range(outq'[c]) = Range(outq[c]) \cup {frame[c]}
            \/ c \notin T /\ conn'[c] = conn[c] /\ outq'[c] = outq[c] /\ due'[c] = due[c]
        BY <1>1, <3>5, <3>6, EnqueueEffect
      <4>2. NodeOf[c] \in Nodes /\ ConnOrder(c)
        BY DeliveryAssumption DEF OrderInv
      <4>3. outq[c] \in Seq(S) /\ frame[c] \in S
        BY <1>1, <3>5
      <4>4. ASSUME Rising(outq'[c]), Sent(outq'[c]) \subseteq Sent(outq[c]) PROVE ConnOrder(c)'
        BY <1>2, <2>1, <2>2, <4>2, <4>4, ConnLess
      <4>5. CASE outq'[c] = <<>> \/ outq'[c] = outq[c]
        BY <1>0, <4>4, <4>5, SentEmpty
      <4>6. CASE outq'[c] = Append(outq[c], frame[c]) /\ frame[c].type # "push"
        <5> HIDE DEF S
        <5>1. Rising(Append(outq[c], frame[c]))
          BY <1>0, <4>3, <4>6, RisingAppend
        <5>2. Sent(Append(outq[c], frame[c])) = Sent(outq[c])
          BY <4>3, <4>6, SentAppend, SMTT(30)
        <5> QED BY <4>4, <4>6, <5>1, <5>2
      <4>7. CASE c \in T /\ outq'[c] = Append(outq[c], frame[c]) /\ frame[c].type = "push"
        <5>1. NodeOf[c] = n /\ frame[c].no = e.no
          BY <3>4, <3>5, <3>7, <4>7, EventFacts
        <5>2. /\ Upto(Sent(outq[c]), pubs) /\ Under(Sent(outq[c]), Held(n))
              /\ Under(Sent(outq[c]), Sent(deliver[n])) /\ Under(Sent(outq[c]), Sent(chan[n]))
          BY <4>2, <5>1 DEF ConnOrder
        <5>3. /\ Under(Held(n), Sent(deliver[n])) /\ Under(Held(n), Sent(chan[n])) /\ Upto(Held(n), pubs)
          BY <1>1 DEF OrderInv, NodeOrder, Upto
        <5>4. Under(Sent(outq[c]), {frame[c]})
          BY <3>8, <5>1, <5>2 DEF Under
        <5> HIDE DEF S
        <5>5. Rising(outq'[c]) /\ Sent(outq'[c]) = Sent(outq[c]) \cup {frame[c]}
          <6>1. Rising(Append(outq[c], frame[c]))
            BY <1>0, <4>3, <5>4, RisingAppend
          <6>2. Sent(Append(outq[c], frame[c])) = Sent(outq[c]) \cup {frame[c]}
            BY <4>3, <4>7, SentAppend, SMTT(30)
          <6> QED BY <4>7, <6>1, <6>2
        <5>6. /\ Under(Sent(outq'[c]), Sent(deliver[n])) /\ Under(Sent(outq'[c]), Sent(chan[n]))
              /\ Upto(Sent(outq'[c]), pubs) /\ Under(Sent(outq'[c]), Held(n)')
          BY <3>8, <3>9, <5>1, <5>2, <5>3, <5>5 DEF Under, Upto
        <5> QED BY <1>2, <2>1, <5>1, <5>5, <5>6 DEF ConnOrder
      <4> QED BY <4>1, <4>5, <4>6, <4>7
    <3> QED BY <3>10, <3>11 DEF OrderInv
  <2> QED BY <1>7, <2>3, <2>4 DEF WorkerWork, RosterHit, RosterRead, RosterSet, CheckVisible, DeliverFails, WithCandidates
<1> QED BY <1>6, <1>7

(* Pushes of a conversation are queued for a connection in the order they  *)
(* were published, for any number of nodes, messages and retries: the Bus  *)
(* keeps the order, one goroutine consumes it and a shard has one worker.  *)
THEOREM PushesInOrder == Spec => []PushOrder
<1>1. Init => OrderInv
  <2> SUFFICES ASSUME Init PROVE OrderInv
    OBVIOUS
  <2>1. /\ chan = [n \in Nodes |-> <<>>] /\ deliver = [n \in Nodes |-> <<>>] /\ outq = [c \in Conns |-> <<>>]
        /\ job = [w \in Workers |-> Idle] /\ Idle.pc = "idle"
    BY DEF Init, Idle
  <2>2. \A n : Held(n) = {}
    BY <2>1 DEF Held
  <2>3. \A n \in Nodes : NodeOrder(n)
    BY <2>1, <2>2, SentEmpty DEF NodeOrder, Under, Upto
  <2>4. \A c \in Conns : ConnOrder(c)
    BY <2>1, SentEmpty DEF ConnOrder, Under, Upto
  <2> QED BY <2>3, <2>4 DEF OrderInv
<1>2. Typed /\ OrderInv /\ [Next]_vars => OrderInv'
  <2> SUFFICES ASSUME Typed, OrderInv, [Next]_vars PROVE OrderInv'
    OBVIOUS
  <2>1. ASSUME UNCHANGED <<pubs, chan, deliver, job, outq>> PROVE OrderInv'
    BY <2>1, HeldFrom, OrderLess DEF OrderInv, NodeOrder, ConnOrder
  <2>2. ASSUME NEW n \in Nodes, AppWork(n) PROVE OrderInv'
    BY <2>1, <2>2 DEF AppWork, AppRosterHit, AppRosterRead, AppRosterSet, AppVisible, AppNotify, AppFails, AppStep,
                      busVars, clientVars
  <2>3. CASE UNCHANGED vars
    BY <2>1, <2>3 DEF vars, busVars, workVars, clientVars
  <2> QED BY <2>2, <2>3, StepKinds, OrderRequests, OrderConns, OrderNodes, OrderWorkers
<1>3. Typed /\ OrderInv => PushOrder
  <2> SUFFICES ASSUME Typed, OrderInv, NEW c \in Conns, NEW i \in DOMAIN outq[c], NEW j \in DOMAIN outq[c],
                      i < j, outq[c][i] # Resync, outq[c][j] # Resync
               PROVE  outq[c][i].no < outq[c][j].no
    BY DEF PushOrder
  <2>1. Rising(outq[c]) /\ outq[c] \in Seq(Frames \cup {Resync})
    BY DEF OrderInv, ConnOrder, Typed, ClientTyped
  <2>2. outq[c][i] \in Frames \cup {Resync} /\ outq[c][j] \in Frames \cup {Resync}
    BY <2>1, SMTT(30)
  <2>3. outq[c][i].type = "push" /\ outq[c][j].type = "push"
    BY <2>2, EventFacts
  <2> QED BY <2>1, <2>3 DEF Rising
<1> QED BY <1>1, <1>2, <1>3, TypedInit, TypedNext, PTL DEF Spec
=============================================================================
