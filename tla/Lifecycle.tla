------------------------------ MODULE Lifecycle ------------------------------
(***************************************************************************)
(* The life of a standalone node: ListenAndServe validates the             *)
(* configuration, builds the node dependency by dependency, starts the     *)
(* Bus loop and the HTTP server, and stops on a signal or on a failure.    *)
(* HTTP handlers, WebSocket handlers and the offline pushes both start     *)
(* work on the dependencies meanwhile. One action is a step of one         *)
(* goroutine between two of its waits.                                     *)
(***************************************************************************)
EXTENDS Integers, Sequences, FiniteSets, Functions

CONSTANTS
    Https,      \* HTTP requests
    Wss,        \* requests on WebSocket connections
    NodeFaults  \* "open", "listen", "bus", "late", "strand"

VARIABLES
    cfg,        \* the configuration, until the node is built
    owned,      \* dependencies the node has to close
    opened,     \* a.closers: dependencies in the order they were opened
    closed,     \* what was closed, in order
    main,       \* ListenAndServe
    failure,    \* why New failed, or what ListenAndServe returns
    run,        \* the goroutine of Start that runs the gateway's loops
    runErr,     \* the channel runErr
    signalled,  \* ctx of ListenAndServe is done
    http,       \* the HTTP server
    drainCall,  \* Drain
    task,       \* request |-> what its handler, then its offline push, does
    late,       \* a wait of the shutdown timed out
    misused     \* a dependency was used after it was closed

nodeVars == <<cfg, owned, opened, closed, main, failure, run, runErr, signalled, http, drainCall, task, late, misused>>

Tasks == Https \cup Wss

(* ---------------------------- the configuration -------------------------- *)

\* What decides which dependencies a node opens and with which address.
Config ==
    [driver : {"postgres", "mysql"}, access : {"gorm", "sqlc"}, dsn : BOOLEAN,
     injected : {"none", "gorm", "pool"}, redis : BOOLEAN, bus : {"redis", "postgres", "local"},
     online : {"db", "redis"}, cache : {"redis", "pg", "local"}, native : BOOLEAN, internal : BOOLEAN,
     sections : BOOLEAN]    \* every section is complete and in range by itself

NoConfig == [driver |-> "none"]

\* DbConfig.validate.
DbValid(c) ==
    /\ c.dsn \/ c.injected # "none"
    /\ c.driver = "mysql" => c.access = "gorm"

\* bus=postgres and cache=pg open connections of their own.
OwnPgAnyDsn(c) ==
    c.bus = "postgres" \/ c.cache = "pg" => c.driver = "postgres"

OwnPg(c) ==
    c.bus = "postgres" \/ c.cache = "pg" => c.driver = "postgres" /\ c.dsn

Validate(c) ==
    /\ c.sections /\ DbValid(c) /\ OwnPg(c)
    /\ "redis" \in {c.bus, c.online, c.cache} => c.redis
    /\ c.bus # "local" /\ c.cache = "local" => ~c.native /\ ~c.internal

(* -------------------------------- building ------------------------------- *)

\* The dependencies, in the order Build opens them.
Dependencies == <<"store", "cache", "bus", "online">>

\* An injected connection stays the host's; a local bus and the online_conns table
\* have nothing to close.
Owns(c) ==
    {"cache"} \cup (IF c.injected = "none" THEN {"store"} ELSE {})
              \cup (IF c.bus # "local" THEN {"bus"} ELSE {})
              \cup (IF c.online = "redis" THEN {"online"} ELSE {})

\* openStore refuses a host connection of the other kind.
Mismatched(c) == (c.injected = "gorm" /\ c.access # "gorm") \/ (c.injected = "pool" /\ c.access # "sqlc")

\* The address a dependency is opened with is configured.
HasAddress(c, d) ==
    CASE d = "store" -> c.dsn \/ c.injected # "none"
      [] d = "cache" -> (c.cache = "redis" => c.redis) /\ (c.cache = "pg" => c.dsn)
      [] d = "bus" -> (c.bus = "redis" => c.redis) /\ (c.bus = "postgres" => c.dsn)
      [] d = "online" -> c.online = "redis" => c.redis

NodeInit ==
    /\ cfg \in Config
    /\ owned = {} /\ opened = <<>> /\ closed = <<>>
    /\ main = "new" /\ failure = "none"
    /\ run = "off" /\ runErr = <<>> /\ signalled = FALSE
    /\ http = "off" /\ drainCall = "off"
    /\ task = [t \in Tasks |-> "none"]
    /\ late = FALSE /\ misused = FALSE

\* New: an invalid configuration opens nothing.
New ==
    /\ main = "new"
    /\ IF Validate(cfg)
       THEN main' = "build" /\ owned' = Owns(cfg) /\ UNCHANGED <<cfg, failure>>
       ELSE main' = "returned" /\ failure' = "invalid" /\ cfg' = NoConfig /\ UNCHANGED owned
    /\ UNCHANGED <<opened, closed, run, runErr, signalled, http, drainCall, task, late, misused>>

Opens(d) == opened' = Append(opened, d) /\ UNCHANGED <<cfg, failure>>
OpenFails(why) == main' = "undo" /\ failure' = why /\ cfg' = NoConfig /\ UNCHANGED opened

\* Build opens the next dependency; a failure closes those before it. The store is
\* pinged after it was added to the closers.
Build ==
    /\ main = "build" /\ Len(opened) < Len(Dependencies)
    /\ LET d == Dependencies[Len(opened) + 1] IN
       \/ /\ d = "store" /\ Mismatched(cfg) /\ OpenFails("mismatch")
       \/ /\ ~(d = "store" /\ Mismatched(cfg)) /\ ~HasAddress(cfg, d) /\ OpenFails("address")
       \/ /\ ~(d = "store" /\ Mismatched(cfg)) /\ HasAddress(cfg, d)
          /\ \/ Opens(d) /\ UNCHANGED main
             \/ "open" \in NodeFaults /\ OpenFails("open")
             \/ /\ "open" \in NodeFaults /\ d = "store"
                /\ opened' = Append(opened, d)
                /\ main' = "undo" /\ failure' = "open" /\ cfg' = NoConfig
    /\ UNCHANGED <<owned, closed, run, runErr, signalled, http, drainCall, task, late, misused>>

\* Start: the gateway's loops run; it returns when the Bus is subscribed, or later.
Start ==
    /\ main = "build" /\ Len(opened) = Len(Dependencies)
    /\ main' = "start" /\ run' = "running" /\ cfg' = NoConfig
    /\ UNCHANGED <<owned, opened, closed, failure, runErr, signalled, http, drainCall, task, late, misused>>

Listen ==
    /\ main = "start" /\ main' = "serve"
    /\ http' \in {"listening"} \cup (IF "listen" \in NodeFaults THEN {"failed"} ELSE {})
    /\ UNCHANGED <<cfg, owned, opened, closed, failure, run, runErr, signalled, drainCall, task, late, misused>>

(* --------------------------------- serving ------------------------------- *)

Idle == UNCHANGED <<cfg, owned, failure>>

\* A request arrives: the listener takes it, or a WebSocket connection that Drain has
\* not closed yet.
Begin(t) ==
    /\ task[t] = "none" /\ main # "returned"
    /\ IF t \in Https THEN http = "listening"
       ELSE http \in {"listening", "stopping", "stopped"} /\ drainCall # "done"
    /\ task' = [task EXCEPT ![t] = "running"]
    /\ Idle /\ UNCHANGED <<opened, closed, main, run, runErr, signalled, http, drainCall, late, misused>>

Uses(ds) == misused' = (misused \/ \E d \in ds \cap owned : d \in Range(closed))

\* A handler works and returns; a send may leave an offline push behind.
Handle(t) ==
    /\ task[t] = "running" /\ main # "returned"
    /\ task' \in {[task EXCEPT ![t] = "push"], [task EXCEPT ![t] = "ended"]}
    /\ Uses(Range(Dependencies))
    /\ Idle /\ UNCHANGED <<opened, closed, main, run, runErr, signalled, http, drainCall, late>>

\* The push asks the store for recipients and the OnlineStore who is online.
OfflinePush(t) ==
    /\ task[t] = "push" /\ main # "returned"
    /\ task' = [task EXCEPT ![t] = "ended"] /\ Uses({"store", "online"})
    /\ Idle /\ UNCHANGED <<opened, closed, main, run, runErr, signalled, http, drainCall, late>>

\* The loops renew rows and read the Bus while they run. Run ends when the signal,
\* Drain or the Bus ends it; only the last is an error.
Cancelled == signalled \/ drainCall # "off"

RunEnds ==
    /\ run = "running" /\ main # "returned" /\ (Cancelled \/ "bus" \in NodeFaults)
    /\ run' = "ended" /\ runErr' = <<IF Cancelled THEN "nil" ELSE "bus">>
    /\ Uses({"store", "bus", "online"})
    /\ Idle /\ UNCHANGED <<opened, closed, main, signalled, http, drainCall, task, late>>

Signal ==
    /\ main \in {"start", "serve"} /\ ~signalled /\ signalled' = TRUE
    /\ Idle /\ UNCHANGED <<opened, closed, main, run, runErr, http, drainCall, task, late, misused>>

HttpFails ==
    /\ "listen" \in NodeFaults /\ http = "listening" /\ main = "serve"
    /\ http' = "failed"
    /\ Idle /\ UNCHANGED <<opened, closed, main, run, runErr, signalled, drainCall, task, late, misused>>

(* --------------------------------- stopping ------------------------------ *)

\* ListenAndServe's select. A failure shuts down without a deadline and leaves the
\* HTTP server alone; everything else stops gracefully.
Stop ==
    /\ main = "serve"
    /\ \/ http = "failed" /\ main' = "drain" /\ drainCall' = "running" /\ failure' = "http" /\ UNCHANGED <<http, runErr>>
       \/ /\ runErr = <<"bus">> /\ runErr' = <<>>
          /\ main' = "drain" /\ drainCall' = "running" /\ failure' = "bus" /\ UNCHANGED http
       \/ /\ runErr = <<"nil">> \/ signalled
          /\ main' = "http" /\ drainCall' = "running" /\ http' = "stopping" /\ UNCHANGED <<failure, runErr>>
    /\ UNCHANGED <<cfg, owned, opened, closed, run, signalled, task, late, misused>>

Busy(ts, what) == \E t \in ts : task[t] = what

\* A wait ends when what it waits for is done, or at its deadline.
Waits(done) == (done /\ UNCHANGED late) \/ (~done /\ "late" \in NodeFaults /\ late' = TRUE)

\* A presence read is registered with the work group and queued after the workers that
\* would finish it have returned (OnlineSubscriptions: QueueDrained does not hold).
Strand ==
    /\ drainCall = "running" /\ "strand" \in NodeFaults /\ drainCall' = "stranded"
    /\ Idle /\ UNCHANGED <<opened, closed, main, run, runErr, signalled, http, task, late, misused>>

\* Drain waits for the WebSocket handlers, the loops and every call registered with the
\* work group, then purges the node's rows; only a graceful stop has a deadline.
Drained ==
    /\ drainCall \in {"running", "stranded"} /\ drainCall' = "done" /\ Uses({"store", "online"})
    /\ LET done == drainCall = "running" /\ ~Busy(Wss, "running") /\ run # "running" IN
       IF failure = "none" THEN Waits(done) ELSE done /\ UNCHANGED late
    /\ Idle /\ UNCHANGED <<opened, closed, main, run, runErr, signalled, http, task>>

\* h.Shutdown, then <-drained.
HttpStopped ==
    /\ main = "http" /\ main' = "drain" /\ http' = "stopped"
    /\ Waits(~Busy(Https, "running"))
    /\ Idle /\ UNCHANGED <<opened, closed, run, runErr, signalled, drainCall, task, misused>>

Close ==
    /\ main = "drain" /\ drainCall = "done" /\ main' = "close"
    /\ Idle /\ UNCHANGED <<opened, closed, run, runErr, signalled, http, drainCall, task, late, misused>>

\* Message.Wait.
PushesAssumedDone == TRUE
PushesDone == ~Busy(Tasks, "push")

Wait ==
    /\ main = "close" /\ main' = "closeall" /\ Waits(PushesDone)
    /\ Idle /\ UNCHANGED <<opened, closed, run, runErr, signalled, http, drainCall, task, misused>>

\* closeAll runs the closers in reverse; then the program returns.
closeAll == opened[Len(opened)]

CloseNext ==
    /\ main \in {"undo", "closeall"} /\ opened # <<>>
    /\ closed' = Append(closed, closeAll)
    /\ opened' = SubSeq(opened, 1, Len(opened) - 1)
    /\ Idle /\ UNCHANGED <<main, run, runErr, signalled, http, drainCall, task, late, misused>>

Return ==
    /\ main \in {"undo", "closeall"} /\ opened = <<>> /\ main' = "returned"
    /\ Idle /\ UNCHANGED <<opened, closed, run, runErr, signalled, http, drainCall, task, late, misused>>

(* ------------------------------ specification ---------------------------- *)

\* The steps the node takes by itself.
NodeGoesOn ==
    \/ New \/ Build \/ Start \/ Listen \/ Stop \/ Drained \/ HttpStopped \/ Close \/ Wait \/ CloseNext \/ Return
    \/ (Cancelled /\ RunEnds)
    \/ \E t \in Tasks : Handle(t) \/ OfflinePush(t)

NodeNext == NodeGoesOn \/ Strand \/ RunEnds \/ Signal \/ HttpFails \/ \E t \in Tasks : Begin(t)

NodeSpec == NodeInit /\ [][NodeNext]_nodeVars

(* ------------------------------- properties ------------------------------ *)

\* "Dependencies close only once both are done" (server.go): in a graceful stop no
\* handler, loop or offline push meets a closed dependency unless a wait timed out.
UsesOpen == misused => late \/ failure \in {"http", "bus"}

\* When the node ends, also half built, every dependency that was opened has been
\* closed, once, and before the ones it was opened after (app.go, fail and closeAll),
\* and none in use.
StopsClean ==
    /\ main = "returned" =>
          opened = <<>> /\ closed = [i \in 1 .. Len(closed) |-> Dependencies[Len(closed) + 1 - i]]
    /\ UsesOpen

\* Once asked to stop, by a signal or a failure, the node comes to an end: it rests only
\* when it has returned or while it serves. The exception is a stop after a failure, which
\* has no deadline, with a stranded read: work.wait then waits for ever.
EndsWhenAsked ==
    ~ENABLED NodeGoesOn =>
        \/ main = "returned"
        \/ main = "serve" /\ run = "running" /\ ~signalled /\ http = "listening"
        \/ drainCall = "stranded" /\ failure \in {"http", "bus"}

\* What Validate accepts can be opened: Build never lacks the address of a dependency.
ValidatedOpens == failure # "address"
=============================================================================
