-------------------------- MODULE OnlineSubscriptions --------------------------
(***************************************************************************)
(* The online-status subscriptions of one gateway node: the subscription   *)
(* table with its reverse index and reference count, the queue of pending  *)
(* refreshes, the dispatcher that sleeps on a timer and a wake channel,    *)
(* the worker pool that reads the OnlineStore outside the lock, and the    *)
(* adoption of a finished read.  One step is one critical section of       *)
(* onlineSubscriptions.mu, or one operation outside it.                    *)
(*                                                                         *)
(* Time is kept as what remains of every deadline, so that the state space *)
(* is finite without a last moment: ready, hold and timer count down to 0  *)
(* with Tick, age counts up to StaleAfter.  due is the heap in the order   *)
(* in which it is popped.  Two entries that become due in the very same    *)
(* instant are kept in the order in which they got their readyAt, where    *)
(* the code compares seq; the marks of one event reach the connections in  *)
(* any order, as the code ranges over a map, and one of them is the head   *)
(* afterwards exactly when the code has notified the dispatcher.           *)
(*                                                                         *)
(* Left out: the platforms of an online user, the counters for Stats, the  *)
(* validation of ids, and requests that are answered with an error.        *)
(***************************************************************************)
EXTENDS Integers, Sequences, FiniteSets, Functions

CONSTANTS
    Conns,          \* connections of the node
    Users,          \* users that are subscribed to
    Closers,        \* bound: the connections that may be drained or closed
    Changers,       \* bound: the connections that use more than one revision
    Workers,        \* onlineRefreshWorkers refresh slots
    NoJob,          \* a worker is idle
    Exited,         \* a worker has returned
    NoTimer,        \* the dispatcher's timer is not armed
    Never,          \* lastSuccess is zero
    MaxRefs,        \* maxOnlineSubscriptionRefs
    Interval,       \* onlineSnapshotInterval, in ticks
    MinInterval,    \* onlineRefreshMinInterval, in ticks
    StaleAfter,     \* onlineStaleAfter, in ticks
    FramesPerTick,  \* onlineFramesPerSecond
    MaxRevision,    \* bound: revisions a client uses
    MaxFlips,       \* bound: users that come online or go offline
    MaxFailures     \* bound: failed reads, dropped frames and full queues

VARIABLES
    conn,           \* conn |-> "up", "draining" (activeCtx has ended) or "closed" (and unregistered)
    linked,         \* connections with a Client.onlineSub
    revision, userIds, cancel, remark, lastSuccess,   \* conn |-> fields of its onlineSubscription
    ready,          \* conn |-> ticks until readyAt, while it is queued
    hold,           \* conn |-> ticks until nextAttempt
    active, byUser, due, reads, refs, stopped,        \* fields of onlineSubscriptions
    jobs,           \* the channel to the workers
    worker,         \* worker |-> what it works on
    wake,           \* a value is in the wake channel
    timer,          \* ticks until the dispatcher's timer fires
    disp,           \* the dispatcher: "pass", "send" (holding mu), "select" or "done"
    outgoing,       \* the jobs it is about to send
    tokens,         \* what the frame limiter would admit now
    closing,        \* Gateway.closing
    ctxDone,        \* the context of Run has ended
    nodeDone,       \* opsCtx and g.ctx are cancelled
    online,         \* users with a valid row in the OnlineStore
    flips,          \* how often online has changed
    seen,           \* conn |-> the last snapshot put into its send queue
    failures,       \* failures so far
    owed            \* history: connections marked since their last read was admitted

subs == <<linked, revision, userIds, cancel, remark, lastSuccess, ready, hold, active, byUser, due, refs>>
pool == <<jobs, worker, reads>>
loop == <<wake, timer, disp, outgoing, tokens>>
node == <<conn, closing, ctxDone, nodeDone, stopped>>
world == <<online, flips, seen, failures>>
onlineVars == <<subs, pool, loop, node, world, owed>>

Snapshot == [revision : 0 .. MaxRevision, items : SUBSET Users, stale : BOOLEAN, at : 0 .. MaxFlips]
NoSnapshot == [revision |-> 0, items |-> {}, stale |-> FALSE, at |-> 0]
Job == [sub : Conns, revision : 1 .. MaxRevision, userIds : SUBSET Users, cancelled : BOOLEAN,
        step : {"queued", "read", "finish", "close"}, result : {"none", "ok", "failed", "cancelled"},
        items : SUBSET Users, at : 0 .. MaxFlips]

ASSUME OnlineAssumption ==
    /\ NoJob # Exited /\ {NoJob, Exited} \cap Job = {} /\ NoTimer \notin Nat /\ Never \notin Nat
    /\ {MaxRefs, Interval, MinInterval, StaleAfter, FramesPerTick, MaxRevision, MaxFlips, MaxFailures} \subseteq Nat
    /\ 0 < MaxRevision /\ 0 < MinInterval /\ MinInterval <= Interval /\ Interval <= StaleAfter /\ 0 < FramesPerTick
    /\ Closers \subseteq Conns /\ Changers \subseteq Conns
    /\ IsFiniteSet(Conns) /\ IsFiniteSet(Users) /\ IsFiniteSet(Workers) /\ Workers # {}

AtWork(w) == worker[w] \notin {NoJob, Exited}

(* The reads of connection c: readOnline runs, or is about to run, for it. *)
InFlight(c) == {w \in Workers : AtWork(w) /\ worker[w].sub = c /\ worker[w].step # "close"}
Reads(c) ==
    {<<"worker", w>> : w \in InFlight(c)}
    \cup {<<"jobs", i>> : i \in {k \in DOMAIN jobs : jobs[k].sub = c}}
    \cup {<<"outgoing", i>> : i \in {k \in DOMAIN outgoing : outgoing[k].sub = c}}

OnlineInit ==
    /\ conn = [c \in Conns |-> "up"]
    /\ linked = {} /\ active = {} /\ refs = 0 /\ due = <<>> /\ reads = 0
    /\ revision = [c \in Conns |-> 0]
    /\ userIds = [c \in Conns |-> {}]
    /\ cancel = [c \in Conns |-> FALSE]
    /\ remark = [c \in Conns |-> FALSE]
    /\ lastSuccess = [c \in Conns |-> Never]
    /\ ready = [c \in Conns |-> 0]
    /\ hold = [c \in Conns |-> 0]
    /\ byUser = [u \in Users |-> {}]
    /\ stopped = FALSE /\ closing = FALSE /\ ctxDone = FALSE /\ nodeDone = FALSE
    /\ jobs = <<>> /\ worker = [w \in Workers |-> NoJob]
    /\ wake = FALSE /\ timer = NoTimer /\ disp = "pass" /\ outgoing = <<>> /\ tokens = FramesPerTick
    /\ online = {} /\ flips = 0 /\ failures = 0
    /\ seen = [c \in Conns |-> NoSnapshot]
    /\ owed = {}

-----------------------------------------------------------------------------
(* The queue. *)

Queued(c) == c \in Range(due)

(* c is popped before d. *)
Ahead(c, d) == \A i, j \in DOMAIN due : due[i] = c /\ due[j] = d => i < j

Lifo(c, d, M) == d \in M => c \in M

(* Of two that are due at the same time, the one that waits longer. *)
Fifo(c, d, M) == c \in M => d \in M

(* The heap with the entries E, of which M have got the new times rd: the  *)
(* others stay in their order.                                             *)
Heaps(E, M, rd) ==
    {s \in [1 .. Cardinality(E) -> E] :
        /\ Range(s) = E
        /\ \A i, j \in DOMAIN s : i < j =>
              /\ s[i] # s[j]
              /\ rd[s[i]] <= rd[s[j]]
              /\ rd[s[i]] = rd[s[j]] => Fifo(s[i], s[j], M)
              /\ {s[i], s[j]} \cap M = {} => Ahead(s[i], s[j])}

Earliest(c, at) == IF at < hold[c] THEN hold[c] ELSE at

(* Of the connections S, those not among the entries E, or queued for later. *)
Moved(E, S, at) == {c \in S : c \notin E \/ Earliest(c, at) < ready[c]}

(* requeue for the connections S, one after the other in some order, in a  *)
(* heap with the entries E.                                                *)
requeue(E, S, at) ==
    LET M == Moved(E, S, at)
    IN  /\ ready' = [c \in Conns |-> IF c \in M THEN Earliest(c, at) ELSE ready[c]]
        /\ due' \in Heaps(E \cup M, M, ready')

WakeNever(d, M) == FALSE

(* Only a new head changes what the dispatcher does next. *)
WakeIfHead(d, M) == d # <<>> /\ Head(d) \in M

markAtOnce(E, rm, S) ==
    /\ remark' = rm
    /\ requeue(E, S, 0)
    /\ wake' = (wake \/ WakeIfHead(due', Moved(E, S, 0)))

(* mark for the connections S, when rm are the remarks.  A read in flight  *)
(* keeps the mark until it completes.                                      *)
mark(E, rm, S) ==
    LET free == {c \in S : ~cancel[c]}
    IN  /\ remark' = [c \in Conns |-> rm[c] \/ c \in S \ free]
        /\ requeue(E, free, 0)
        /\ wake' = (wake \/ WakeIfHead(due', Moved(E, free, 0)))

-----------------------------------------------------------------------------
(* Subscribing and unsubscribing. *)

MuFree == disp # "send"
ReadCancelled(j) == j.cancelled \/ conn[j.sub] # "up" \/ nodeDone
CancelIf(j, S) == [j EXCEPT !.cancelled = @ \/ j.sub \in S]

CancelReads(S) ==
    /\ jobs' = [i \in DOMAIN jobs |-> CancelIf(jobs[i], S)]
    /\ worker' = [w \in Workers |-> IF AtWork(w) THEN CancelIf(worker[w], S) ELSE worker[w]]

Unremarked(S) == [c \in Conns |-> remark[c] /\ c \notin S]

(* remove leaves cancel set: the read keeps its claim until it exits. *)
CancelAfterRemove(S) == cancel

RefsFreedNone(S) == 0

(* The references the connections S hold. *)
RefsOf(S) == {ref \in S \X Users : ref[2] \in userIds[ref[1]]}

RefsFreed(S) == Cardinality(RefsOf(S \cap active))

(* The same revision again is acknowledged and changes nothing. *)
NewRevision(c, r) == r > revision[c]

setOnlineSubscriptions(c, r, ids) ==
    LET wanted == IF ids = {} THEN {} ELSE {c}
    IN  /\ MuFree /\ ~stopped /\ ~closing /\ conn[c] = "up"
        /\ NewRevision(c, r)
        /\ refs - Cardinality(userIds[c]) + Cardinality(ids) <= MaxRefs
        /\ CancelReads({c})
        /\ cancel' = CancelAfterRemove({c})
        /\ revision' = [revision EXCEPT ![c] = r]
        /\ userIds' = [userIds EXCEPT ![c] = ids]
        /\ lastSuccess' = [lastSuccess EXCEPT ![c] = Never]
        /\ linked' = linked \cup {c}
        /\ active' = (active \ {c}) \cup wanted
        /\ byUser' = [u \in Users |-> IF u \in ids THEN byUser[u] \cup {c} ELSE byUser[u] \ {c}]
        /\ refs' = refs - RefsFreed({c}) + Cardinality(ids)
        /\ mark(Range(due) \ {c}, Unremarked({c}), wanted)
        /\ owed' = (owed \ {c}) \cup wanted
        /\ UNCHANGED <<hold, reads, timer, disp, outgoing, tokens, node, world>>

(* remove, for the connections S. *)
RemoveAll(S) ==
    /\ CancelReads(S)
    /\ cancel' = CancelAfterRemove(S)
    /\ mark(Range(due) \ S, Unremarked(S), {})
    /\ active' = active \ S
    /\ refs' = refs - RefsFreed(S)
    /\ byUser' = [u \in Users |-> byUser[u] \ S]
    /\ linked' = linked \ S
    /\ owed' = owed \ S
    /\ UNCHANGED <<revision, userIds, lastSuccess, hold, reads, world>>

(* drainConn and closeConn end activeCtx; closeConn also unregisters the   *)
(* connection.  Both are followed by removeOnlineSubscriptions.            *)
drainConn(c) ==
    /\ conn[c] = "up"
    /\ conn' = [conn EXCEPT ![c] = "draining"]
    /\ UNCHANGED <<subs, pool, loop, closing, ctxDone, nodeDone, stopped, world, owed>>

closeConn(c) ==
    /\ conn[c] # "closed"
    /\ conn' = [conn EXCEPT ![c] = "closed"]
    /\ UNCHANGED <<subs, pool, loop, closing, ctxDone, nodeDone, stopped, world, owed>>

removeOnlineSubscriptions(c) ==
    /\ MuFree /\ conn[c] # "up" /\ c \in linked
    /\ RemoveAll({c})
    /\ UNCHANGED <<timer, disp, outgoing, tokens, node>>

(* A presence_changed event, from this node or from the Bus. *)
markOnlineChanged(S) ==
    LET affected == UNION {byUser[u] : u \in S}
    IN  /\ MuFree /\ ~stopped /\ ~closing
        /\ affected # {}
        /\ mark(Range(due), remark, affected)
        /\ owed' = owed \cup affected
        /\ UNCHANGED <<linked, revision, userIds, cancel, lastSuccess, hold, active, byUser, refs,
                       pool, timer, disp, outgoing, tokens, node, world>>

-----------------------------------------------------------------------------
(* The dispatcher. *)

(* One pass admits k entries: all are due, and have a slot and a token;    *)
(* it ends with the queue, or at an entry that lacks one of the three.     *)
Admits(k) ==
    IF closing \/ stopped THEN k = 0
    ELSE /\ \A i \in 1 .. k : ready[due[i]] = 0
         /\ reads + k <= Cardinality(Workers) /\ k <= tokens
         /\ k < Len(due) => ready[due[k + 1]] > 0 \/ reads + k = Cardinality(Workers) \/ k = tokens

(* What dispatchOnline returns after k admissions. *)
WaitFor(k) ==
    IF closing \/ stopped \/ k = Len(due) THEN NoTimer
    ELSE IF ready[due[k + 1]] > 0 THEN ready[due[k + 1]]
    ELSE IF reads + k = Cardinality(Workers) THEN NoTimer
    ELSE 1

NewJob(c) ==
    [sub |-> c, revision |-> revision[c], userIds |-> userIds[c], cancelled |-> FALSE,
     step |-> "queued", result |-> "none", items |-> {}, at |-> 0]

dispatchOnline == \E k \in 0 .. Len(due) :
    LET admitted == {due[i] : i \in 1 .. k}
    IN  /\ disp = "pass" /\ Admits(k)
        /\ outgoing' = [i \in 1 .. k |-> NewJob(due[i])]
        /\ due' = SubSeq(due, k + 1, Len(due))
        /\ reads' = reads + k
        /\ tokens' = tokens - k
        /\ cancel' = [c \in Conns |-> c \in admitted \/ cancel[c]]
        /\ remark' = [c \in Conns |-> c \notin admitted /\ remark[c]]
        /\ hold' = [c \in Conns |-> IF c \in admitted THEN MinInterval ELSE hold[c]]
        /\ timer' = WaitFor(k)
        /\ disp' = IF k = 0 THEN "select" ELSE "send"
        /\ owed' = owed \ admitted
        /\ UNCHANGED <<linked, revision, userIds, lastSuccess, ready, active, byUser, refs, jobs, worker, wake, node, world>>

(* The closing flag was read under mu; Shutdown does not take mu. *)
SendJobs ==
    /\ disp = "send"
    /\ jobs' = jobs \o outgoing
    /\ outgoing' = <<>> /\ disp' = "select"
    /\ UNCHANGED <<subs, worker, reads, wake, timer, tokens, node, world, owed>>

Woken ==
    /\ disp = "select" /\ wake
    /\ wake' = FALSE /\ disp' = "pass"
    /\ UNCHANGED <<subs, pool, timer, outgoing, tokens, node, world, owed>>

TimerFires ==
    /\ disp = "select" /\ timer = 0
    /\ timer' = NoTimer /\ disp' = "pass"
    /\ UNCHANGED <<subs, pool, wake, outgoing, tokens, node, world, owed>>

(* runOnlineSubscriptions returns: its deferred function drops everything. *)
StopOnline ==
    /\ disp = "select" /\ ctxDone
    /\ disp' = "done" /\ stopped' = TRUE
    /\ RemoveAll(active)
    /\ UNCHANGED <<timer, outgoing, tokens, conn, closing, ctxDone, nodeDone>>

-----------------------------------------------------------------------------
(* The workers. *)

Working(w, step) == AtWork(w) /\ worker[w].step = step

Take(w) ==
    /\ worker[w] = NoJob /\ jobs # <<>>
    /\ worker' = [worker EXCEPT ![w] = [Head(jobs) EXCEPT !.step = "read"]]
    /\ jobs' = Tail(jobs)
    /\ UNCHANGED <<subs, reads, loop, node, world, owed>>

(* OnlineStatus answers, or the read fails or was cancelled. *)
ReadOk(w) ==
    /\ Working(w, "read") /\ ~ReadCancelled(worker[w])
    /\ worker' = [worker EXCEPT ![w] = [@ EXCEPT !.step = "finish", !.result = "ok",
                                        !.items = online \cap worker[w].userIds, !.at = flips]]
    /\ UNCHANGED <<subs, jobs, reads, loop, node, world, owed>>

ReadError(w) ==
    /\ Working(w, "read")
    /\ \/ ReadCancelled(worker[w]) /\ failures' = failures
       \/ ~ReadCancelled(worker[w]) /\ failures < MaxFailures /\ failures' = failures + 1
    /\ worker' = [worker EXCEPT ![w] = [@ EXCEPT !.step = "finish",
                                        !.result = IF ReadCancelled(worker[w]) THEN "cancelled" ELSE "failed"]]
    /\ UNCHANGED <<subs, jobs, reads, loop, node, online, flips, seen, owed>>

(* What every finishOnlineRead does: give back the slot, wake the loop. *)
ReadEnds(w, next) ==
    /\ MuFree /\ Working(w, "finish")
    /\ worker' = [worker EXCEPT ![w] = next]
    /\ reads' = reads - 1
    /\ cancel' = [cancel EXCEPT ![worker[w].sub] = FALSE]
    /\ wake' = TRUE
    /\ UNCHANGED <<linked, revision, userIds, hold, active, byUser, refs, jobs, timer, disp, outgoing, tokens,
                   node, online, flips, owed>>

(* The subscription is still wanted by a connection that still exists. *)
Kept(c) == ~stopped /\ ~closing /\ conn[c] = "up" /\ c \in linked /\ userIds[c] # {}

FinishDropped(w) ==
    /\ ReadEnds(w, NoJob)
    /\ ~Kept(worker[w].sub)
    /\ UNCHANGED <<due, ready, remark, lastSuccess, seen, failures>>

NextRefresh(c) == IF remark[c] THEN 0 ELSE Interval

RequeueNone(c) == due' = due /\ ready' = ready /\ remark' = Unremarked({c})

(* Its notify is followed by that of every finishOnlineRead. *)
RequeueNext(c) == requeue(Range(due), {c}, NextRefresh(c)) /\ remark' = Unremarked({c})

SameRevision(j) == revision[j.sub] = j.revision

FinishReplaced(w) ==
    /\ ReadEnds(w, NoJob)
    /\ Kept(worker[w].sub) /\ ~SameRevision(worker[w])
    /\ RequeueNext(worker[w].sub)
    /\ UNCHANGED <<lastSuccess, seen, failures>>

(* A failure is told to the client only once the last success is too old. *)
StaleDue(c) == lastSuccess[c] # Never /\ lastSuccess[c] >= StaleAfter

FinishSilent(w) ==
    /\ ReadEnds(w, NoJob)
    /\ Kept(worker[w].sub) /\ SameRevision(worker[w])
    /\ worker[w].result # "ok" /\ ~StaleDue(worker[w].sub)
    /\ RequeueNext(worker[w].sub)
    /\ UNCHANGED <<lastSuccess, seen, failures>>

SnapshotOf(j) ==
    [revision |-> j.revision, items |-> IF j.result = "ok" THEN j.items ELSE {},
     stale |-> j.result # "ok", at |-> IF j.result = "ok" THEN j.at ELSE seen[j.sub].at]

(* queueOnlineSnapshot: queued, dropped by the byte budget, or the queue   *)
(* is full and the worker closes the connection, outside the lock.         *)
FinishSend(w, outcome) ==
    LET c == worker[w].sub
    IN  /\ ReadEnds(w, IF outcome = "full" THEN [worker[w] EXCEPT !.step = "close"] ELSE NoJob)
        /\ Kept(c) /\ SameRevision(worker[w])
        /\ worker[w].result = "ok" \/ StaleDue(c)
        /\ RequeueNext(c)
        /\ lastSuccess' = IF worker[w].result = "ok" THEN [lastSuccess EXCEPT ![c] = 0] ELSE lastSuccess
        /\ \/ outcome = "queued" /\ seen' = [seen EXCEPT ![c] = SnapshotOf(worker[w])] /\ failures' = failures
           \/ outcome # "queued" /\ seen' = seen /\ failures < MaxFailures /\ failures' = failures + 1

CloseFull(w) ==
    /\ Working(w, "close")
    /\ closeConn(worker[w].sub)

CloseFullEnds(w) ==
    /\ Working(w, "close") /\ conn[worker[w].sub] = "closed" /\ worker[w].sub \notin linked
    /\ worker' = [worker EXCEPT ![w] = NoJob]
    /\ UNCHANGED <<subs, jobs, reads, loop, node, world, owed>>

(* startPool: a worker returns when g.ctx is done and nothing is queued. *)
WorkerExits(w) ==
    /\ nodeDone /\ worker[w] = NoJob /\ jobs = <<>>
    /\ worker' = [worker EXCEPT ![w] = Exited]
    /\ UNCHANGED <<subs, jobs, reads, loop, node, world, owed>>

-----------------------------------------------------------------------------
(* Shutdown, the registry and time. *)

ShutdownBegins ==
    /\ ~closing
    /\ closing' = TRUE
    /\ UNCHANGED <<subs, pool, loop, conn, ctxDone, nodeDone, stopped, world, owed>>

CancelRun ==
    /\ closing /\ ~ctxDone
    /\ ctxDone' = TRUE
    /\ UNCHANGED <<subs, pool, loop, conn, closing, nodeDone, stopped, world, owed>>

(* Shutdown cancels the operations and g.ctx once no connection is left. *)
CancelNode ==
    /\ ctxDone /\ ~nodeDone
    /\ \A c \in Conns : conn[c] = "closed"
    /\ nodeDone' = TRUE
    /\ UNCHANGED <<subs, pool, loop, conn, closing, ctxDone, stopped, world, owed>>

(* A user's rows appear, are removed or expire in the OnlineStore. *)
Flip(u) ==
    /\ flips < MaxFlips
    /\ flips' = flips + 1
    /\ online' = IF u \in online THEN online \ {u} ELSE online \cup {u}
    /\ UNCHANGED <<subs, pool, loop, node, seen, failures, owed>>

Less(n) == IF n > 0 THEN n - 1 ELSE n

Tick ==
    /\ ready' = [c \in Conns |-> Less(ready[c])]
    /\ hold' = [c \in Conns |-> Less(hold[c])]
    /\ timer' = IF timer = NoTimer THEN NoTimer ELSE Less(timer)
    /\ lastSuccess' = [c \in Conns |-> IF lastSuccess[c] \in {Never, StaleAfter} THEN lastSuccess[c] ELSE lastSuccess[c] + 1]
    /\ tokens' = FramesPerTick
    /\ UNCHANGED <<linked, revision, userIds, cancel, remark, active, byUser, due, refs, pool, wake, disp, outgoing,
                   node, world, owed>>

WorkerStep(w) ==
    \/ Take(w) \/ ReadOk(w) \/ ReadError(w)
    \/ FinishDropped(w) \/ FinishReplaced(w) \/ FinishSilent(w)
    \/ \E outcome \in {"queued", "dropped", "full"} : FinishSend(w, outcome)
    \/ CloseFull(w) \/ CloseFullEnds(w)

Serving ==
    \/ \E c \in Conns, ids \in SUBSET Users : setOnlineSubscriptions(c, 1, ids)
    \/ \E c \in Changers, r \in 2 .. MaxRevision, ids \in SUBSET Users : setOnlineSubscriptions(c, r, ids)
    \/ \E c \in Closers : drainConn(c) \/ closeConn(c)
    \/ \E c \in Conns : removeOnlineSubscriptions(c)
    \/ \E S \in SUBSET Users : markOnlineChanged(S)
    \/ dispatchOnline \/ SendJobs \/ Woken \/ TimerFires
    \/ \E w \in Workers : WorkerStep(w)
    \/ \E u \in Users : Flip(u)
    \/ Tick

Stopping ==
    \/ ShutdownBegins \/ CancelRun \/ StopOnline \/ CancelNode
    \/ \E w \in Workers : WorkerExits(w)

OnlineNext == Serving \/ Stopping

OnlineSpec == OnlineInit /\ [][OnlineNext]_onlineVars

(* The dispatcher and the workers are goroutines, so they run, time passes, *)
(* and a connection that is going away does remove its subscriptions.      *)
OnlineFairness ==
    /\ WF_onlineVars(Tick)
    /\ WF_onlineVars(dispatchOnline) /\ WF_onlineVars(SendJobs) /\ WF_onlineVars(Woken) /\ WF_onlineVars(TimerFires)
    /\ \A w \in Workers : WF_onlineVars(WorkerStep(w))
    /\ \A c \in Conns : WF_onlineVars(removeOnlineSubscriptions(c))

-----------------------------------------------------------------------------
(* Properties. *)

(* The reverse index, the reference count and the queue agree with the     *)
(* subscriptions through every change of revision, removal and stop, and   *)
(* the node's reference limit is kept (set, remove and the deferred        *)
(* function of runOnlineSubscriptions).                                    *)
IndexConsistent ==
    /\ \A u \in Users : byUser[u] = {c \in active : u \in userIds[c]}
    /\ refs = Cardinality(RefsOf(active))
    /\ refs <= MaxRefs
    /\ \A i, j \in DOMAIN due : due[i] \in active /\ (due[i] = due[j] => i = j)

(* "An active subscription is always either queued or reading, and nothing *)
(* else retries": no path of finishOnlineRead forgets a subscription. It   *)
(* has one read in flight at most, also when the client cancels and        *)
(* subscribes again while the read is running.                             *)
AlwaysScheduled ==
    \A c \in Conns :
        /\ c \in active /\ Kept(c) => Queued(c) \/ Reads(c) # {}
        /\ \A x, y \in Reads(c) : x = y

(* The dispatcher never sleeps past work it could do: with something       *)
(* queued it has a wake-up pending, waits for a slot that really is in     *)
(* use, or has its timer armed no later than the head, or the next frame   *)
(* token. No event is postponed to the periodic refresh either: a marked   *)
(* connection is queued for the earliest moment its minimum interval       *)
(* allows, or the read that was running will queue it.                     *)
NoLostWake ==
    /\ disp = "select" /\ due # <<>> /\ ~closing =>
        \/ wake
        \/ reads = Cardinality(Workers)
        \/ timer # NoTimer /\ (timer <= ready[Head(due)] \/ (tokens = 0 /\ timer <= 1))
    /\ reads = Len(jobs) + Len(outgoing) + Cardinality({w \in Workers : AtWork(w) /\ worker[w].step # "close"})
    /\ reads <= Cardinality(Workers)
    /\ \A c \in owed : Kept(c) =>
        \/ Queued(c) /\ ready[c] <= hold[c]
        \/ Reads(c) # {} /\ remark[c]

(* Snapshots reach the send queue in the order of the states they report   *)
(* and of the revisions: an old state never replaces a newer one.          *)
SnapshotsInOrder ==
    [][\A c \in Conns : seen'[c].at >= seen[c].at /\ seen'[c].revision >= seen[c].revision]_onlineVars

(* A connection that keeps its subscription ends up with the true status   *)
(* of its users, although every event may be lost, and reads, frames and   *)
(* competing connections get in the way: the periodic refresh sees to it.  *)
EventuallyCurrent ==
    \A c \in Conns :
        <>[]Kept(c) => <>[](/\ seen[c].revision = revision[c] /\ ~seen[c].stale
                            /\ seen[c].items = online \cap userIds[c])

(* startPool: "what is already queued when g.ctx is cancelled still runs", *)
(* and "nothing refills the queue past this point": once every worker has  *)
(* returned no read is left in the channel.                                *)
QueueDrained ==
    (\A w \in Workers : worker[w] = Exited) => jobs = <<>>
=============================================================================
