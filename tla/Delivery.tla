-------------------------------- MODULE Delivery --------------------------------
(***************************************************************************)
(* How a committed message reaches the connections of its conversation:    *)
(* the sending request publishes a push event on the Bus, every node       *)
(* consumes the Bus on one goroutine and queues pushes for the delivery    *)
(* worker of the conversation, the worker finds candidates in the node's   *)
(* roster cache, re-checks visibility in the database and fans the frame   *)
(* out to the local connections, whose single writers send it. App pushes  *)
(* to offline users run on the sending node over the same roster cache.    *)
(* The database is MessageLog, which Conversation implements; one          *)
(* conversation stands for the shard it hashes to. The Bus is at most      *)
(* once: what is lost, and who is told, is the subject of the module.      *)
(***************************************************************************)
EXTENDS MessageLog, FiniteSets, Functions

CONSTANTS
    Nodes, Conns, NoConn, NoEntry,
    UserOf, NodeOf,     \* connection |-> its user, its node
    SessionType,        \* "single" or "group"
    Muted,              \* users who muted the conversation
    Pusher,             \* TRUE: an app pusher is configured
    Faults,             \* what goes wrong in an instance: "publish", "bus", "lookup", "crash"
    Senders, Movers,    \* users who send, users who join and leave
    MaxMsgs, MaxPubs, MaxChanges,   \* bounds: messages, publishes, membership changes
    BusQueue, DeliverQueue, SendQueue  \* capacities of the Bus, shard and connection queues

ASSUME DeliveryAssumption ==
    /\ IsFiniteSet(Nodes) /\ IsFiniteSet(Conns) /\ NoConn \notin Conns
    /\ UserOf \in [Conns -> LogUsers] /\ NodeOf \in [Conns -> Nodes]
    /\ SessionType \in {"single", "group"} /\ Muted \subseteq LogUsers /\ Pusher \in BOOLEAN
    /\ Faults \subseteq {"publish", "bus", "lookup", "crash"}
    /\ Senders \cup Movers \cup Participants \subseteq LogUsers
    /\ {MaxMsgs, MaxPubs, MaxChanges} \subseteq Nat
    /\ {BusQueue, DeliverQueue, SendQueue} \subseteq Nat \ {0}

VARIABLES
    unsent,     \* committed sends whose request has not published yet
    moves,      \* membership changes so far
    changes,    \* those whose request has not published group_changed yet
    pubs,       \* push events published so far
    sub,        \* node |-> "never", "up" or "down": its Bus subscription
    chan,       \* node |-> events on their way to it
    cache,      \* node |-> the cached roster, or NoEntry
    deliver,    \* node |-> queue of the conversation's shard
    job,        \* delivery worker |-> what it is doing
    app,        \* node |-> its offline push job
    conn,       \* connection |-> "new", "open" or "closed"
    outq,       \* connection |-> frames waiting for the writer
    due,        \* connection |-> the client is about to compare and pull
    known,      \* connection |-> messages the client has
    audience,   \* history: seq |-> the members when it was committed
    dropped,    \* history: node |-> pushes lost where the code logs or counts it
    stale,      \* history: node |-> <<user, seq>> skipped because the roster lacked the user
    noticeLost, \* history: a group_changed event was lost
    raced,      \* history: a member was skipped when every group_changed had arrived
    notified    \* history: <<user, seq>> handed to the app pusher

clientVars == <<conn, outq, due, known>>
busVars == <<sub, chan>>
history == <<dropped, stale, noticeLost, raced, notified>>
workVars == <<cache, deliver, job, app>>
vars == <<logVars, unsent, moves, changes, pubs, busVars, workVars, clientVars, audience, history>>

Seqs == 1 .. MaxMsgs
Pushed == [type : {"push"}, seq : Seqs, except : Conns \cup {NoConn}, no : 1 .. MaxPubs]
GroupChanged == [type |-> "group_changed"]
PushFrame(e) == [type |-> "push", seq |-> e.seq, no |-> e.no]
Resync == [type |-> "resync"]

(* A push pool runs one worker per shard. *)
PerQueueTwo == 2
PerQueue == 1
Workers == Nodes \X (1 .. PerQueue)
Idle == [pc |-> "idle"]

OpenAt(n) == {c \in Conns : conn[c] = "open" /\ NodeOf[c] = n}
Own(u) == {c \in Conns : UserOf[c] = u}

(***************************************************************************)
(* The database: sends, joins and departures of MessageLog. The request    *)
(* behind each still has to publish.                                       *)
(***************************************************************************)
Init ==
    /\ LogInit
    /\ unsent = {} /\ moves = 0 /\ changes = 0 /\ pubs = 0
    /\ sub = [n \in Nodes |-> "never"]
    /\ chan = [n \in Nodes |-> <<>>]
    /\ cache = [n \in Nodes |-> NoEntry]
    /\ deliver = [n \in Nodes |-> <<>>]
    /\ job = [w \in Workers |-> Idle]
    /\ app = [n \in Nodes |-> Idle]
    /\ conn = [c \in Conns |-> "new"]
    /\ outq = [c \in Conns |-> <<>>]
    /\ due = [c \in Conns |-> FALSE]
    /\ known = [c \in Conns |-> {}]
    /\ audience = <<>>
    /\ dropped = [n \in Nodes |-> {}]
    /\ stale = [n \in Nodes |-> {}]
    /\ noticeLost = FALSE /\ raced = FALSE
    /\ notified = {}

(* A send commits on a node, over one of the sender's connections there or over REST. *)
Commit(u, k, n, c) ==
    /\ Size < MaxMsgs
    /\ c # NoConn => c \in OpenAt(n) \cap Own(u)
    /\ Append1(u, k, FALSE)
    /\ audience' = Append(audience, members)
    /\ unsent' = unsent \cup {[seq |-> Size + 1, node |-> n, except |-> c]}
    /\ UNCHANGED <<moves, changes, pubs, busVars, workVars, clientVars, history>>

Change(u) ==
    /\ SessionType = "group" /\ moves < MaxChanges
    /\ Enter(u) \/ Leave(u)
    /\ moves' = moves + 1
    /\ changes' = changes + 1
    /\ UNCHANGED <<unsent, pubs, busVars, workVars, clientVars, audience, history>>

(***************************************************************************)
(* Publishing. A node whose subscription is up and whose channel has room  *)
(* gets the event; one whose subscription is down will be told when it is  *)
(* up again; every other loss is one nobody is told about.                 *)
(***************************************************************************)
Receives(n) == sub[n] = "up" /\ Len(chan[n]) < BusQueue
Broadcast(ev) == chan' = [n \in Nodes |-> IF Receives(n) THEN Append(chan[n], ev) ELSE chan[n]]
Lose(s, N) == dropped' = [n \in Nodes |-> IF sub[n] # "down" /\ n \in N THEN dropped[n] \cup {s} ELSE dropped[n]]

(* Bus.Publish of a push; ok is FALSE when the driver fails. The connection *)
(* that sent learns the seq from its ACK.                                   *)
PublishPush(s, c, ok) ==
    /\ pubs < MaxPubs /\ (ok \/ "publish" \in Faults)
    /\ pubs' = pubs + 1
    /\ IF ok THEN Broadcast([type |-> "push", seq |-> s, except |-> c, no |-> pubs + 1]) ELSE UNCHANGED chan
    /\ Lose(s, {n \in Nodes : ~ok \/ ~Receives(n)})
    /\ known' = [d \in Conns |-> IF d = c /\ conn[d] = "open" THEN known[d] \cup {s} ELSE known[d]]

(* A first send publishes and starts an app push, unless all workers are busy. *)
Publish(p, ok) ==
    /\ PublishPush(p.seq, p.except, ok)
    /\ unsent' = unsent \ {p}
    /\ app' = [app EXCEPT ![p.node] = IF Pusher /\ @ = Idle THEN [pc |-> "recipients", seq |-> p.seq] ELSE @]
    /\ UNCHANGED <<logVars, moves, changes, sub, cache, deliver, job, conn, outq, due, audience, stale, noticeLost, raced, notified>>

(* A retried send that hits the stored message publishes it again. The bound *)
(* on publishes leaves room for the first publish of every message.          *)
Republish(s, c, ok) ==
    /\ s \in 1 .. Size
    /\ pubs + Cardinality(unsent) + (MaxMsgs - Size) < MaxPubs
    /\ c # NoConn => c \in Own(log[s].sender) /\ conn[c] = "open"
    /\ PublishPush(s, c, ok)
    /\ UNCHANGED <<logVars, unsent, moves, changes, sub, workVars, conn, outq, due, audience, stale, noticeLost, raced, notified>>

NotifyChanged(ok) ==
    /\ changes > 0 /\ (ok \/ "publish" \in Faults)
    /\ changes' = changes - 1
    /\ IF ok THEN Broadcast(GroupChanged) ELSE UNCHANGED chan
    /\ noticeLost' = (noticeLost \/ ~ok \/ \E n \in Nodes : ~Receives(n))
    /\ UNCHANGED <<logVars, unsent, moves, pubs, sub, workVars, clientVars, audience, dropped, stale, raced, notified>>

(***************************************************************************)
(* Connections. Client.enqueue: a full queue closes the connection rather  *)
(* than dropping a frame.                                                  *)
(***************************************************************************)
OpenConn(c) ==
    /\ conn[c] = "new"
    /\ conn' = [conn EXCEPT ![c] = "open"]
    /\ due' = [due EXCEPT ![c] = TRUE]
    /\ UNCHANGED <<logVars, unsent, moves, changes, pubs, busVars, workVars, outq, known, audience, history>>

CloseAll(S) ==
    /\ conn' = [c \in Conns |-> IF c \in S THEN "closed" ELSE conn[c]]
    /\ outq' = [c \in Conns |-> IF c \in S THEN <<>> ELSE outq[c]]
    /\ due' = [c \in Conns |-> due[c] /\ c \notin S]

Close1(c) ==
    /\ conn[c] = "open"
    /\ CloseAll({c})
    /\ UNCHANGED <<logVars, unsent, moves, changes, pubs, busVars, workVars, known, audience, history>>

Full(c) == Len(outq[c]) >= SendQueue
Enqueue(T, frame) ==
    LET slow == {c \in T : Full(c)}
    IN /\ conn' = [c \in Conns |-> IF c \in slow THEN "closed" ELSE conn[c]]
       /\ outq' = [c \in Conns |-> IF c \in slow THEN <<>> ELSE IF c \in T THEN Append(outq[c], frame[c]) ELSE outq[c]]
       /\ due' = [c \in Conns |-> due[c] /\ c \notin slow]

(* The single writer sends the oldest frame; the client acts on it. *)
WriteLoop(c) ==
    /\ outq[c] # <<>>
    /\ outq' = [outq EXCEPT ![c] = Tail(@)]
    /\ LET f == Head(outq[c])
       IN /\ known' = [known EXCEPT ![c] = IF f.type = "push" THEN @ \cup {f.seq} ELSE @]
          /\ due' = [due EXCEPT ![c] = @ \/ f = Resync]
    /\ UNCHANGED <<logVars, unsent, moves, changes, pubs, busVars, workVars, conn, audience, history>>

(* The client compares its seqs with the server's and pulls the difference. *)
Pull(c) ==
    /\ due[c]
    /\ due' = [due EXCEPT ![c] = FALSE]
    /\ known' = [known EXCEPT ![c] = @ \cup entitled[UserOf[c]]]
    /\ UNCHANGED <<logVars, unsent, moves, changes, pubs, busVars, workVars, conn, outq, audience, history>>

(***************************************************************************)
(* The subscription and its consumer goroutine.                            *)
(***************************************************************************)
ResyncAllNever(n) == UNCHANGED <<conn, outq, due>>
ResyncAll(n) == Enqueue(OpenAt(n), [c \in Conns |-> Resync])

(* onConnected: local connections are resynced on every connect but the first. *)
Connect(n) ==
    /\ sub[n] # "up"
    /\ sub' = [sub EXCEPT ![n] = "up"]
    /\ IF sub[n] = "down" THEN ResyncAll(n) ELSE UNCHANGED <<conn, outq, due>>
    /\ UNCHANGED <<logVars, unsent, moves, changes, pubs, chan, workVars, known, audience, history>>

Disconnect(n) ==
    /\ sub[n] = "up" /\ "bus" \in Faults
    /\ sub' = [sub EXCEPT ![n] = "down"]
    /\ chan' = [chan EXCEPT ![n] = <<>>]
    /\ noticeLost' = (noticeLost \/ \E i \in DOMAIN chan[n] : chan[n][i] = GroupChanged)
    /\ UNCHANGED <<logVars, unsent, moves, changes, pubs, workVars, clientVars, audience, dropped, stale, raced, notified>>

(* onEvent: a push goes to its shard or, when that is full, nowhere; *)
(* group_changed drops the cached roster.                            *)
OnPush(n, ev) ==
    LET full == Len(deliver[n]) >= DeliverQueue
    IN /\ deliver' = [deliver EXCEPT ![n] = IF full THEN @ ELSE Append(@, ev)]
       /\ dropped' = [dropped EXCEPT ![n] = IF full THEN @ \cup {ev.seq} ELSE @]
       /\ UNCHANGED cache
OnGroupChanged(n) ==
    /\ cache' = [cache EXCEPT ![n] = NoEntry]
    /\ UNCHANGED <<deliver, dropped>>

Consume(n) ==
    /\ chan[n] # <<>>
    /\ chan' = [chan EXCEPT ![n] = Tail(@)]
    /\ LET ev == Head(chan[n])
       IN IF ev = GroupChanged THEN OnGroupChanged(n) ELSE OnPush(n, ev)
    /\ UNCHANGED <<logVars, unsent, moves, changes, pubs, sub, job, app, clientVars, audience, stale, noticeLost, raced, notified>>

(* An entry outlives its ttl, or the full cache is cleared. *)
Expire(n) ==
    /\ cache[n] # NoEntry
    /\ cache' = [cache EXCEPT ![n] = NoEntry]
    /\ UNCHANGED <<logVars, unsent, moves, changes, pubs, busVars, deliver, job, app, clientVars, audience, history>>

(***************************************************************************)
(* Recipients: both parties of a single chat, or the cached roster, or the *)
(* roster read from the database and then cached. VisibleTo decides.       *)
(***************************************************************************)
Roster(n) == IF SessionType = "single" THEN Participants ELSE cache[n]
VisibleToAnyone(S, s) == S
VisibleTo(S, s) == {u \in S : s \in entitled[u]}
OnlineExcept(n, S, c) == {u \in S : (OpenAt(n) \cap Own(u)) \ {c} # {}}
SkippedBy(R, s) == {<<u, s>> : u \in {v \in (members \cap audience[s]) \ R : s \in entitled[v]}}

NoticePending(n) == changes > 0 \/ GroupChanged \in Range(chan[n])

(***************************************************************************)
(* The delivery worker.                                                    *)
(***************************************************************************)
WorkerStep == UNCHANGED <<logVars, unsent, moves, changes, pubs, busVars, app, known, audience, noticeLost, notified>>

Take(w) ==
    LET n == w[1]
    IN /\ job[w] = Idle /\ deliver[n] # <<>>
       /\ deliver' = [deliver EXCEPT ![n] = Tail(@)]
       /\ job' = [job EXCEPT ![w] = [pc |-> "recipients", ev |-> Head(deliver[n])]]
       /\ UNCHANGED <<cache, conn, outq, due, dropped, stale, raced>>
       /\ WorkerStep

(* Deliver goes on with the candidates that have another connection here. *)
WithCandidates(w, R) ==
    LET n == w[1]
        ev == job[w].ev
        local == OnlineExcept(n, R, ev.except)
    IN /\ job' = [job EXCEPT ![w] = IF local = {} THEN Idle ELSE [pc |-> "visible", ev |-> ev, ids |-> local]]
       /\ stale' = [stale EXCEPT ![n] = @ \cup SkippedBy(R, ev.seq)]
       /\ raced' = (raced \/ (SkippedBy(R, ev.seq) # {} /\ ~NoticePending(n) /\ ~noticeLost))
       /\ UNCHANGED <<deliver, conn, outq, due, dropped>>

RosterHit(w) ==
    /\ job[w].pc = "recipients" /\ Roster(w[1]) # NoEntry
    /\ WithCandidates(w, Roster(w[1]))
    /\ UNCHANGED cache
    /\ WorkerStep

RosterRead(w) ==
    /\ job[w].pc = "recipients" /\ Roster(w[1]) = NoEntry
    /\ job' = [job EXCEPT ![w] = [pc |-> "roster", ev |-> @.ev, ids |-> members]]
    /\ UNCHANGED <<cache, deliver, conn, outq, due, dropped, stale, raced>>
    /\ WorkerStep

RosterSet(w) ==
    /\ job[w].pc = "roster"
    /\ cache' = [cache EXCEPT ![w[1]] = job[w].ids]
    /\ WithCandidates(w, job[w].ids)
    /\ WorkerStep

CheckVisible(w) ==
    /\ job[w].pc = "visible"
    /\ job' = [job EXCEPT ![w] = [pc |-> "fanout", ev |-> @.ev, ids |-> VisibleTo(@.ids, @.ev.seq)]]
    /\ UNCHANGED <<cache, deliver, conn, outq, due, dropped, stale, raced>>
    /\ WorkerStep

(* fanout and Client.Push: a push over the node's byte budget is replaced *)
(* by Resync; the connection that sent the message is left out.           *)
Targets(n, ids, ev) == {c \in OpenAt(n) : UserOf[c] \in ids /\ c # ev.except}
PushOrDrop(T, ev, over) == Enqueue(T \ over, [c \in Conns |-> PushFrame(ev)])
PushOrResync(T, ev, over) == Enqueue(T, [c \in Conns |-> IF c \in over THEN Resync ELSE PushFrame(ev)])

Fanout(w) ==
    /\ job[w].pc = "fanout"
    /\ LET T == Targets(w[1], job[w].ids, job[w].ev)
       IN \E over \in SUBSET T : PushOrResync(T, job[w].ev, over)
    /\ job' = [job EXCEPT ![w] = Idle]
    /\ UNCHANGED <<cache, deliver, dropped, stale, raced>>
    /\ WorkerStep

(* ResolvePush, Recipients or VisibleTo fails: the push is logged and gone. *)
DeliverFails(w) ==
    /\ job[w].pc \in {"recipients", "visible"} /\ "lookup" \in Faults
    /\ job' = [job EXCEPT ![w] = Idle]
    /\ dropped' = [dropped EXCEPT ![w[1]] = @ \cup {job[w].ev.seq}]
    /\ UNCHANGED <<cache, deliver, conn, outq, due, stale, raced>>
    /\ WorkerStep

(***************************************************************************)
(* The offline push job of the sending node.                               *)
(***************************************************************************)
AppStep == UNCHANGED <<logVars, unsent, moves, changes, pubs, busVars, deliver, job, clientVars, audience, dropped, stale, noticeLost, raced>>
AppSet(n, rec) == app' = [app EXCEPT ![n] = rec]
AppRest(n, ids, pc) == IF ids = {} THEN AppSet(n, Idle) ELSE AppSet(n, [pc |-> pc, seq |-> app[n].seq, ids |-> ids])
Unmuted(S, s) == S \ (Muted \cup {log[s].sender})

AppRosterHit(n) ==
    /\ app[n].pc = "recipients" /\ Roster(n) # NoEntry
    /\ AppRest(n, Unmuted(Roster(n), app[n].seq), "visible")
    /\ UNCHANGED <<cache, notified>>
    /\ AppStep

AppRosterRead(n) ==
    /\ app[n].pc = "recipients" /\ Roster(n) = NoEntry
    /\ AppSet(n, [pc |-> "roster", seq |-> app[n].seq, ids |-> members])
    /\ UNCHANGED <<cache, notified>>
    /\ AppStep

AppRosterSet(n) ==
    /\ app[n].pc = "roster"
    /\ cache' = [cache EXCEPT ![n] = app[n].ids]
    /\ AppRest(n, Unmuted(app[n].ids, app[n].seq), "visible")
    /\ UNCHANGED notified
    /\ AppStep

AppVisible(n) ==
    /\ app[n].pc = "visible"
    /\ AppRest(n, VisibleTo(app[n].ids, app[n].seq), "online")
    /\ UNCHANGED <<cache, notified>>
    /\ AppStep

(* OnlineStore answers some of them; the others are handed to the pusher. *)
AppNotify(n, online) ==
    /\ app[n].pc = "online"
    /\ notified' = notified \cup {<<u, app[n].seq>> : u \in app[n].ids \ online}
    /\ AppSet(n, Idle)
    /\ UNCHANGED cache
    /\ AppStep

AppFails(n) ==
    /\ app[n].pc \in {"recipients", "visible", "online"} /\ "lookup" \in Faults
    /\ AppSet(n, Idle)
    /\ UNCHANGED <<cache, notified>>
    /\ AppStep

(* The process dies with everything in memory; a restarted node starts afresh. *)
Crash(n) ==
    /\ sub[n] # "never" /\ "crash" \in Faults
    /\ CloseAll(OpenAt(n))
    /\ sub' = [sub EXCEPT ![n] = "never"]
    /\ chan' = [chan EXCEPT ![n] = <<>>]
    /\ cache' = [cache EXCEPT ![n] = NoEntry]
    /\ deliver' = [deliver EXCEPT ![n] = <<>>]
    /\ job' = [w \in Workers |-> IF w[1] = n THEN Idle ELSE job[w]]
    /\ app' = [app EXCEPT ![n] = Idle]
    /\ unsent' = {p \in unsent : p.node # n}
    /\ dropped' = [m \in Nodes |-> IF sub[m] = "down" THEN dropped[m]
                                   ELSE dropped[m] \cup {p.seq : p \in unsent \ unsent'}]
    /\ noticeLost' = TRUE
    /\ UNCHANGED <<logVars, moves, changes, pubs, known, audience, stale, raced, notified>>

Next ==
    \/ \E u \in Senders, k \in LogKeys, n \in Nodes, c \in Conns \cup {NoConn} : Commit(u, k, n, c)
    \/ \E u \in Movers : Change(u)
    \/ \E p \in unsent, ok \in BOOLEAN : Publish(p, ok)
    \/ \E s \in 1 .. Size, c \in Conns \cup {NoConn}, ok \in BOOLEAN : Republish(s, c, ok)
    \/ \E ok \in BOOLEAN : NotifyChanged(ok)
    \/ \E c \in Conns : OpenConn(c) \/ Close1(c) \/ WriteLoop(c) \/ Pull(c)
    \/ \E n \in Nodes : Connect(n) \/ Disconnect(n) \/ Consume(n) \/ Expire(n) \/ Crash(n)
    \/ \E w \in Workers : Take(w) \/ RosterHit(w) \/ RosterRead(w) \/ RosterSet(w) \/ CheckVisible(w) \/ Fanout(w) \/ DeliverFails(w)
    \/ \E n \in Nodes : AppRosterHit(n) \/ AppRosterRead(n) \/ AppRosterSet(n) \/ AppVisible(n) \/ AppFails(n)
    \/ \E n \in Nodes : app[n].pc = "online" /\ \E online \in SUBSET app[n].ids : AppNotify(n, online)

Spec == Init /\ [][Next]_vars

(* Requests go on to publish, the Bus consumer, the workers and the writers *)
(* are loops, drivers reconnect, and a client that was told to pull pulls.  *)
Progress ==
    /\ WF_vars(\E p \in unsent, ok \in BOOLEAN : Publish(p, ok))
    /\ \A n \in Nodes : WF_vars(Connect(n)) /\ WF_vars(Consume(n))
    /\ \A w \in Workers : WF_vars(Take(w) \/ RosterHit(w) \/ RosterRead(w) \/ RosterSet(w) \/ CheckVisible(w) \/ Fanout(w) \/ DeliverFails(w))
    /\ \A c \in Conns : WF_vars(WriteLoop(c)) /\ WF_vars(Pull(c))

-----------------------------------------------------------------------------
(* The roster cache only narrows candidates: however stale it is, a push is *)
(* only ever queued for a user who belonged to the conversation when the    *)
(* message was committed (members.go, "a stale entry can never leak"). The  *)
(* same holds for app pushes, which never go to the sender or to a user who *)
(* muted the conversation (offlinePush).                                    *)
AudienceOnly ==
    /\ \A c \in Conns : \A f \in Range(outq[c]) : f # Resync => UserOf[c] \in audience[f.seq]
    /\ \A x \in notified : x[1] \in audience[x[2]] \ (Muted \cup {log[x[2]].sender})

(* Pushes of one conversation are queued for a connection in the order they *)
(* were published: one consumer, one shard, one worker per shard.           *)
PushOrder ==
    \A c \in Conns : \A i, j \in DOMAIN outq[c] :
        i < j /\ outq[c][i] # Resync /\ outq[c][j] # Resync => outq[c][i].no < outq[c][j].no

OnItsWay(n, u, s) ==
    \/ \E p \in unsent : p.seq = s
    \/ \E ev \in Range(chan[n]) \cup Range(deliver[n]) : ev # GroupChanged /\ ev.seq = s
    \/ \E w \in Workers :
        /\ w[1] = n /\ job[w] # Idle /\ job[w].ev.seq = s
        /\ job[w].pc \in {"visible", "fanout"} => u \in job[w].ids

(* No silent loss: a message that a member's open connection should have is *)
(* known to the client, queued for it, on its way through the node, covered *)
(* by a comparison that the client was told to make or will be told to make *)
(* when the subscription is back, or was lost in one of the places that     *)
(* docs/sync-design.md lists: a publish that failed, was dropped or never   *)
(* came (a crash after the commit), a first subscription that is not up     *)
(* yet, a full shard, a failed lookup, a roster without the user. The crash *)
(* and the roster are noticed by no node; the others are logged or counted. *)
NoSilentLoss ==
    \A c \in Conns :
        LET n == NodeOf[c]
            u == UserOf[c]
        IN conn[c] = "open" /\ u \in members =>
            \A s \in entitled[u] \ known[c] :
                \/ due[c] \/ Resync \in Range(outq[c]) \/ sub[n] = "down"
                \/ \E f \in Range(outq[c]) : f # Resync /\ f.seq = s
                \/ OnItsWay(n, u, s)
                \/ s \in dropped[n] \/ <<u, s>> \in stale[n]

(* A roster skips a member of the conversation only when a group_changed    *)
(* event was lost or is still on its way: once every notice has arrived,    *)
(* the cached roster is good (docs/sync-design.md, table of lost pushes).   *)
SkippedOnlyIfNoticeLost == ~raced
=============================================================================
