-------------------------------- MODULE Gateway --------------------------------
(***************************************************************************)
(* The connections of one gateway node: the capacity slot a WebSocket      *)
(* handshake reserves and the many hands that may give it back, the        *)
(* registry of adopted clients, closing, the rows of the global            *)
(* OnlineStore with their retries, and the shutdown that has to leave      *)
(* nothing behind. One action is a step between two points where another   *)
(* goroutine may run; OnlineStore calls may fail after taking effect.      *)
(***************************************************************************)
EXTENDS Integers, FiniteSets

CONSTANTS
    Conns,          \* connection ids; each is used for one handshake
    Slot,           \* connection |-> its buckets: user, token id, address
    Limit,          \* bucket |-> limit; 0 is none
    Total,          \* the bucket of the node, in every slot
    NoOne,          \* the presence lock is free
    CleanupMax,     \* concurrent OnlineStore removals
    Faults          \* what goes wrong: "store", "lost_row", "upgrade", "deadline"

ASSUME GatewayAssumption ==
    /\ IsFiniteSet(Conns) /\ NoOne \notin Conns /\ "renew" \notin Conns /\ NoOne # "renew"
    /\ \A c \in Conns : Slot[c] \subseteq DOMAIN Limit /\ Total \in Slot[c] /\ IsFiniteSet(Slot[c])
    /\ Total \in DOMAIN Limit /\ \A b \in DOMAIN Limit : Limit[b] \in Nat
    /\ CleanupMax \in Nat
    /\ Faults \subseteq {"store", "lost_row", "upgrade", "deadline"}

VARIABLES
    hs,         \* connection |-> where its Handle goroutine is
    settled,    \* connection |-> its reservation was claimed or returned
    watch,      \* connection |-> the goroutine watching its upgrade
    count,      \* bucket |-> slots taken, as UserMap counts them
    reg,        \* adopted clients (UserMap.byUser)
    cl,         \* connection |-> progress of Client.close
    draining,   \* connection |-> beginDrain has cancelled its active context
    added,      \* connection |-> Client.onlineAdded
    rm,         \* connection |-> progress of Client.remove
    online,     \* rows of the OnlineStore
    lock,       \* holder of the presence lock
    renew,      \* the renewal in progress: [pc, refs, todo]
    driver,     \* the OnlineStore the node is configured with; never changes
    off,        \* what Shutdown has switched off so far
    sd,         \* where Shutdown is
    snap        \* the clients Shutdown has to drain

connVars == <<hs, settled, watch>>
mapVars == <<count, reg>>
clientVars == <<cl, draining>>
presenceVars == <<added, rm, online, lock, renew>>
downVars == <<driver, off, sd, snap>>
vars == <<connVars, mapVars, clientVars, presenceVars, downVars>>

Buckets == DOMAIN Limit
Off(x) == x \in off
OnlineStore == driver # "none"
NoRenew == [pc |-> "idle", refs |-> {}, todo |-> {}]

Init ==
    /\ hs = [c \in Conns |-> "new"]
    /\ settled = [c \in Conns |-> FALSE]
    /\ watch = [c \in Conns |-> "none"]
    /\ count = [b \in Buckets |-> 0]
    /\ reg = {}
    /\ cl = [c \in Conns |-> "none"]
    /\ draining = [c \in Conns |-> FALSE]
    /\ added = [c \in Conns |-> FALSE]
    /\ rm = [c \in Conns |-> "no"]
    /\ online = {}
    /\ lock = NoOne
    /\ renew = NoRenew
    /\ driver \in {"none", "db", "redis"}
    /\ off = {} /\ sd = "run" /\ snap = {}

(* c.activeCtx: ended by a drain, by closing and by the end of the gateway. *)
Active(c) == cl[c] = "open" /\ ~draining[c] /\ ~Off("ctx")

(* workGroup.begin and workGroup.op refuse new work. *)
NeverSealed == FALSE
Sealed == Off("begin")
OpRefused == Off("begin") \/ Off("ops") \/ Off("deadline")

Goto(c, pc) == hs' = [hs EXCEPT ![c] = pc]

(***************************************************************************)
(* Handle: verify, reserve, upgrade, adopt.                                *)
(***************************************************************************)
Handshake(c) ==
    /\ hs[c] = "new"
    /\ Goto(c, IF Off("handshake") THEN "over" ELSE "verified")
    /\ UNCHANGED <<settled, watch, mapVars, clientVars, presenceVars, downVars>>

Over(b) == Limit[b] > 0 /\ count[b] >= Limit[b]

Reserve(c) ==
    /\ hs[c] = "verified"
    /\ IF Off("map") \/ \E b \in Slot[c] : Over(b)
       THEN Goto(c, "over") /\ UNCHANGED count
       ELSE /\ count' = [b \in Buckets |-> IF b \in Slot[c] THEN count[b] + 1 ELSE count[b]]
            /\ Goto(c, "reserved")
    /\ UNCHANGED <<settled, watch, reg, clientVars, presenceVars, downVars>>

(* UserMap.release; the node's total is a plain counter, the others stop at 0. *)
Released(c) ==
    [b \in Buckets |-> IF b \notin Slot[c] THEN count[b]
                       ELSE IF b = Total \/ count[b] > 1 THEN count[b] - 1 ELSE 0]

(* A node that is draining returns the slot before the upgrade. *)
WatchUpgrade(c) ==
    /\ hs[c] = "reserved"
    /\ IF Off("run") \/ Sealed
       THEN /\ settled' = [settled EXCEPT ![c] = TRUE]
            /\ count' = Released(c)
            /\ Goto(c, "over")
            /\ UNCHANGED watch
       ELSE /\ watch' = [watch EXCEPT ![c] = "on"]
            /\ Goto(c, "watched")
            /\ UNCHANGED <<settled, count>>
    /\ UNCHANGED <<reg, clientVars, presenceVars, downVars>>

StartUpgrade(c) ==
    /\ hs[c] = "watched"
    /\ Goto(c, IF settled[c] THEN "over" ELSE "upgrading")
    /\ UNCHANGED <<settled, watch, mapVars, clientVars, presenceVars, downVars>>

(* The callback after HTTP 101 claims the reservation; whoever was first keeps it. *)
ClaimsAlways(c) == TRUE
Claims(c) == ~settled[c]

UpgradeDone(c) ==
    /\ hs[c] = "upgrading"
    /\ settled' = [settled EXCEPT ![c] = TRUE]
    /\ Goto(c, IF Claims(c) THEN "claimed" ELSE "over")
    /\ UNCHANGED <<watch, mapVars, clientVars, presenceVars, downVars>>

UpgradeFails(c) ==
    /\ hs[c] = "upgrading" /\ "upgrade" \in Faults
    /\ settled' = [settled EXCEPT ![c] = TRUE]
    /\ Goto(c, IF Claims(c) THEN "returning" ELSE "over")
    /\ UNCHANGED <<watch, mapVars, clientVars, presenceVars, downVars>>

ReturnSlot(c) ==
    /\ hs[c] = "returning"
    /\ count' = Released(c)
    /\ Goto(c, "over")
    /\ UNCHANGED <<settled, watch, reg, clientVars, presenceVars, downVars>>

(* The watcher: the request ends, the write budget runs out or the node stops. *)
WatchFires(c) ==
    /\ watch[c] = "on"
    /\ watch' = [watch EXCEPT ![c] = IF settled[c] THEN "off" ELSE "releasing"]
    /\ settled' = [settled EXCEPT ![c] = TRUE]
    /\ UNCHANGED <<hs, mapVars, clientVars, presenceVars, downVars>>

WatchReleases(c) ==
    /\ watch[c] = "releasing"
    /\ watch' = [watch EXCEPT ![c] = "off"]
    /\ count' = Released(c)
    /\ UNCHANGED <<hs, settled, reg, clientVars, presenceVars, downVars>>

(* A client that may not be adopted gives its slot back and closes itself. *)
Adopt(c) ==
    /\ hs[c] = "claimed"
    /\ cl' = [cl EXCEPT ![c] = "open"]
    /\ IF Off("map")
       THEN count' = Released(c) /\ Goto(c, "close") /\ UNCHANGED reg
       ELSE reg' = reg \cup {c} /\ Goto(c, "add") /\ UNCHANGED count
    /\ UNCHANGED <<settled, watch, draining, presenceVars, downVars>>

(***************************************************************************)
(* Presence rows. Add, Remove and Renew hold the node-wide presence lock   *)
(* from their check to the end of the store call; ok is what the call      *)
(* returns, done whether it took effect.                                   *)
(***************************************************************************)
LockIgnored == TRUE
LockFree == lock = NoOne
Outcome(ok, done) == (ok => done) /\ (ok \/ "store" \in Faults)

AddBegin(c) ==
    /\ hs[c] = "add"
    /\ Goto(c, IF ~OnlineStore \/ OpRefused THEN "serve" ELSE "addlock")
    /\ UNCHANGED <<settled, watch, mapVars, clientVars, presenceVars, downVars>>

(* The operation's context ended before it had the lock: drain, close, timeout, shutdown. *)
AddGivesUp(c) ==
    /\ hs[c] = "addlock"
    /\ Goto(c, "serve")
    /\ UNCHANGED <<settled, watch, mapVars, clientVars, presenceVars, downVars>>

AddLock(c) ==
    /\ hs[c] = "addlock" /\ LockFree
    /\ IF Active(c) /\ ~added[c] /\ ~Off("ops")
       THEN lock' = c /\ Goto(c, "addwrite")
       ELSE UNCHANGED lock /\ Goto(c, "serve")
    /\ UNCHANGED <<settled, watch, mapVars, clientVars, added, rm, online, renew, downVars>>

AddWrite(c, ok, done) ==
    /\ hs[c] = "addwrite" /\ Outcome(ok, done)
    /\ online' = IF done THEN online \cup {c} ELSE online
    /\ added' = [added EXCEPT ![c] = ok]
    /\ lock' = NoOne
    /\ Goto(c, "serve")
    /\ UNCHANGED <<settled, watch, mapVars, clientVars, rm, renew, downVars>>

RemoveBegin(c) ==
    /\ cl[c] = "gone" /\ rm[c] = "no"
    /\ LET busy == {d \in Conns : rm[d] \in {"lock", "write"}}
       IN rm' = [rm EXCEPT ![c] = IF ~OnlineStore \/ OpRefused \/ Cardinality(busy) >= CleanupMax THEN "left" ELSE "lock"]
    /\ UNCHANGED <<connVars, mapVars, clientVars, added, online, lock, renew, downVars>>

RemoveGivesUp(c) ==
    /\ rm[c] = "lock"
    /\ rm' = [rm EXCEPT ![c] = "left"]
    /\ UNCHANGED <<connVars, mapVars, clientVars, added, online, lock, renew, downVars>>

RemoveLock(c) ==
    /\ rm[c] = "lock" /\ LockFree /\ ~Off("ops")
    /\ lock' = c
    /\ rm' = [rm EXCEPT ![c] = "write"]
    /\ UNCHANGED <<connVars, mapVars, clientVars, added, online, renew, downVars>>

RemoveWrite(c, ok, done) ==
    /\ rm[c] = "write" /\ Outcome(ok, done)
    /\ online' = IF done THEN online \ {c} ELSE online
    /\ added' = [added EXCEPT ![c] = @ /\ ~ok]
    /\ rm' = [rm EXCEPT ![c] = IF ok THEN "removed" ELSE "left"]
    /\ lock' = NoOne
    /\ UNCHANGED <<connVars, mapVars, clientVars, renew, downVars>>

(* renew: snapshot the registry, extend the rows, then retry the missing registrations. *)
RenewRefsMissing == {c \in reg : Active(c) /\ ~added[c]}
RenewRefs == {c \in reg : Active(c)}

RenewTodo == reg

RenewBegin ==
    /\ renew.pc = "idle" /\ OnlineStore /\ ~Off("run") /\ LockFree /\ reg # {}
    /\ lock' = "renew"
    /\ renew' = [pc |-> "write", refs |-> RenewRefs, todo |-> RenewTodo]
    /\ UNCHANGED <<connVars, mapVars, clientVars, added, rm, online, downVars>>

(* Redis restores a lost row, the table's rows are only extended. *)
RenewWrite(ok, done) ==
    /\ renew.pc = "write" /\ Outcome(ok, done)
    /\ online' = IF done /\ driver = "redis" THEN online \cup renew.refs ELSE online
    /\ IF ok THEN renew' = [renew EXCEPT !.pc = "add"] /\ UNCHANGED lock
             ELSE renew' = NoRenew /\ lock' = NoOne
    /\ UNCHANGED <<connVars, mapVars, clientVars, added, rm, downVars>>

RenewAdd(c, ok, done) ==
    /\ renew.pc = "add" /\ c \in renew.todo /\ Outcome(ok, done)
    /\ IF Active(c) /\ ~added[c]
       THEN /\ online' = IF done THEN online \cup {c} ELSE online
            /\ added' = [added EXCEPT ![c] = ok]
       ELSE ok /\ UNCHANGED <<online, added>>
    /\ renew' = [renew EXCEPT !.todo = @ \ {c}]
    /\ UNCHANGED <<connVars, mapVars, clientVars, rm, lock, downVars>>

RenewEnds ==
    /\ renew.pc = "add" /\ renew.todo = {}
    /\ renew' = NoRenew /\ lock' = NoOne
    /\ UNCHANGED <<connVars, mapVars, clientVars, added, rm, online, downVars>>

(* A row disappears from the store: redis lost it. *)
LoseRow(c) ==
    /\ c \in online /\ driver = "redis" /\ "lost_row" \in Faults
    /\ online' = online \ {c}
    /\ UNCHANGED <<connVars, mapVars, clientVars, added, rm, lock, renew, downVars>>

(* A row that no renewal extends any more gets older than the ttl, which is longer *)
(* than any store call: from then on it is not counted.                            *)
Expire(c) ==
    /\ c \in online /\ c \notin renew.refs /\ ~(c \in reg /\ Active(c) /\ ~Off("run"))
    /\ online' = online \ {c}
    /\ UNCHANGED <<connVars, mapVars, clientVars, added, rm, lock, renew, downVars>>

(***************************************************************************)
(* Serving and closing. Any of reader, writer, kick, recheck, slow-queue   *)
(* and shutdown may close a client; the steps of close run once, in order, *)
(* and remove follows them.                                                *)
(***************************************************************************)
Serve(c) ==
    /\ hs[c] = "serve"
    /\ Goto(c, IF Sealed THEN "close" ELSE "serving")
    /\ UNCHANGED <<settled, watch, mapVars, clientVars, presenceVars, downVars>>

Drain(c) ==
    /\ c \in reg /\ cl[c] = "open" /\ ~draining[c]
    /\ draining' = [draining EXCEPT ![c] = TRUE]
    /\ UNCHANGED <<connVars, mapVars, cl, presenceVars, downVars>>

CloseBegin(c) ==
    /\ cl[c] = "open"
    /\ cl' = [cl EXCEPT ![c] = "cancelled"]
    /\ UNCHANGED <<connVars, mapVars, draining, presenceVars, downVars>>

Unregisters(c) == c \in reg

CloseEnds(c) ==
    /\ cl[c] = "cancelled"
    /\ cl' = [cl EXCEPT ![c] = "gone"]
    /\ reg' = reg \ {c}
    /\ count' = IF Unregisters(c) THEN Released(c) ELSE count
    /\ UNCHANGED <<connVars, draining, presenceVars, downVars>>

(* Handle returns: Close has run to its end, removal included. *)
HandleEnds(c) ==
    /\ hs[c] \in {"serving", "close"} /\ rm[c] # "no"
    /\ Goto(c, "over")
    /\ UNCHANGED <<settled, watch, mapVars, clientVars, presenceVars, downVars>>

(***************************************************************************)
(* Shutdown.                                                               *)
(***************************************************************************)
Working ==
    \/ \E c \in Conns : hs[c] \in {"addlock", "addwrite", "serving"} \/ rm[c] \in {"lock", "write"} \/ watch[c] \in {"on", "releasing"}
    \/ ~Off("run") \/ renew # NoRenew

Step(from, to) == sd = from /\ sd' = to
SwitchOff(S) == off' = off \cup S
DownStep == UNCHANGED <<connVars, mapVars, cl, presenceVars, driver>>

ShutdownBegin == Step("run", "cancelrun") /\ SwitchOff({"handshake"}) /\ DownStep /\ UNCHANGED <<draining, snap>>
CancelRun == Step("cancelrun", "closemap") /\ SwitchOff({"run"}) /\ DownStep /\ UNCHANGED <<draining, snap>>
UsersClose == Step("closemap", "drain") /\ SwitchOff({"map"}) /\ snap' = reg /\ DownStep /\ UNCHANGED draining

DrainAll ==
    /\ Step("drain", "poll")
    /\ draining' = [c \in Conns |-> draining[c] \/ (c \in snap /\ cl[c] = "open")]
    /\ DownStep /\ UNCHANGED <<off, snap>>

(* The drain poll ends when every slot is back. *)
PollEnds == Step("poll", "cancel") /\ count[Total] = 0 /\ ~Off("deadline") /\ DownStep /\ UNCHANGED <<draining, off, snap>>
PollExpires == Step("poll", "hard") /\ Off("deadline") /\ SwitchOff({"ops"}) /\ DownStep /\ UNCHANGED <<draining, snap>>
HardClosed == Step("hard", "cancel") /\ (\A c \in snap : cl[c] = "gone") /\ DownStep /\ UNCHANGED <<draining, off, snap>>

Cancel == Step("cancel", "seal") /\ SwitchOff({"ops", "ctx"}) /\ DownStep /\ UNCHANGED <<draining, snap>>
Seal == Step("seal", "wait") /\ SwitchOff({"begin"}) /\ DownStep /\ UNCHANGED <<draining, snap>>

(* The wait ends with the work or at the deadline; then ctx.Err() is read, and purgeNode *)
(* called, in this order.                                                                *)
WaitEnds ==
    /\ Step("wait", IF Off("deadline") THEN "late" ELSE "purge") /\ (~Working \/ Off("deadline"))
    /\ DownStep /\ UNCHANGED <<draining, off, snap>>

(* purgeNode reads the deadline again and then does nothing, without an error. PurgeNode *)
(* deletes the node's rows of the table; redis has none to delete and leaves them to the *)
(* ttl. The deadline may pass during the call.                                           *)
Purge(ok, done) ==
    /\ IF Off("deadline") \/ ~OnlineStore
       THEN ok /\ done /\ Step("purge", "clean") /\ UNCHANGED online
       ELSE /\ (ok => done) /\ (ok \/ "deadline" \in Faults \/ (driver = "db" /\ "store" \in Faults))
            /\ Step("purge", IF ok THEN "clean" ELSE "late")
            /\ online' = IF done /\ driver = "db" THEN {} ELSE online
    /\ UNCHANGED <<connVars, mapVars, clientVars, added, rm, lock, renew, driver, off, snap>>

(* The shutdown deadline passes: operations and contexts are cancelled at once. *)
Deadline ==
    /\ sd \notin {"run", "clean", "late"} /\ ~Off("deadline") /\ "deadline" \in Faults
    /\ SwitchOff({"deadline", "ops", "ctx"})
    /\ DownStep /\ UNCHANGED <<draining, sd, snap>>

Next ==
    \/ \E c \in Conns :
        \/ Handshake(c) \/ Reserve(c) \/ WatchUpgrade(c) \/ StartUpgrade(c) \/ UpgradeDone(c) \/ UpgradeFails(c)
        \/ ReturnSlot(c) \/ WatchFires(c) \/ WatchReleases(c) \/ Adopt(c)
        \/ AddBegin(c) \/ AddGivesUp(c) \/ AddLock(c) \/ Serve(c) \/ HandleEnds(c)
        \/ RemoveBegin(c) \/ RemoveGivesUp(c) \/ RemoveLock(c)
        \/ LoseRow(c) \/ Expire(c) \/ Drain(c) \/ CloseBegin(c) \/ CloseEnds(c)
        \/ \E ok, done \in BOOLEAN : AddWrite(c, ok, done) \/ RemoveWrite(c, ok, done) \/ RenewAdd(c, ok, done)
    \/ RenewBegin \/ RenewEnds \/ \E ok, done \in BOOLEAN : RenewWrite(ok, done) \/ Purge(ok, done)
    \/ ShutdownBegin \/ CancelRun \/ UsersClose \/ DrainAll \/ PollEnds \/ PollExpires \/ HardClosed
    \/ Cancel \/ Seal \/ WaitEnds \/ Deadline

Spec == Init /\ [][Next]_vars

(* Goroutines and timers run: a drained client is closed by its writer or by *)
(* the drain timer, a hard shutdown closes its clients, the upgrade watcher  *)
(* has a timer, the renewal a ticker, the ttl passes, and the store answers  *)
(* in the end.                                                               *)
HandleStep(c) ==
    \/ Reserve(c) \/ WatchUpgrade(c) \/ StartUpgrade(c) \/ UpgradeDone(c) \/ ReturnSlot(c) \/ Adopt(c)
    \/ AddBegin(c) \/ AddGivesUp(c) \/ Serve(c) \/ HandleEnds(c) \/ \E ok, done \in BOOLEAN : AddWrite(c, ok, done)
MustClose(c) == draining[c] \/ hs[c] = "close" \/ (sd = "hard" /\ c \in snap)
ConnProgress(c) ==
    /\ WF_vars(HandleStep(c))
    /\ WF_vars(WatchFires(c)) /\ WF_vars(WatchReleases(c))
    /\ WF_vars(MustClose(c) /\ CloseBegin(c)) /\ WF_vars(CloseEnds(c))
    /\ WF_vars(RemoveBegin(c) \/ RemoveGivesUp(c)) /\ WF_vars(\E ok, done \in BOOLEAN : RemoveWrite(c, ok, done))
    /\ WF_vars(Expire(c)) /\ SF_vars(RenewAdd(c, TRUE, TRUE))
NodeProgress ==
    /\ WF_vars(RenewBegin) /\ WF_vars(RenewEnds) /\ SF_vars(RenewWrite(TRUE, TRUE))
    /\ WF_vars(CancelRun \/ UsersClose \/ DrainAll \/ PollEnds \/ PollExpires \/ HardClosed \/ Cancel \/ Seal \/ WaitEnds)
    /\ WF_vars(\E ok, done \in BOOLEAN : Purge(ok, done))

--------------------------------------------------------------------------------
(* Whose slot is taken: a reservation nobody has returned, or an adopted client. *)
Holds(c) ==
    \/ hs[c] = "reserved" \/ (hs[c] \in {"watched", "upgrading"} /\ ~settled[c])
    \/ hs[c] \in {"returning", "claimed"} \/ watch[c] = "releasing" \/ c \in reg

(* Every slot is returned exactly once, whoever wins the race to return it: *)
(* the counters always equal the slots really held (upgradeReservation),    *)
(* and these never exceed a limit, concurrent handshakes included.          *)
SlotsBalanced ==
    \A b \in Buckets :
        /\ count[b] = Cardinality({c \in Conns : Holds(c) /\ b \in Slot[c]})
        /\ Limit[b] > 0 => count[b] <= Limit[b]

(* A row whose removal succeeded never comes back: neither a slow registration *)
(* nor a renewal writes it after the connection is gone (the presence lock).   *)
NoGhostRow == \A c \in Conns : rm[c] = "removed" => c \notin online

(* A shutdown that returns without an error leaves nothing behind, now or later:   *)
(* no goroutine or store call of the gateway runs, no client is registered, no     *)
(* slot is taken, and the table has no row of the node, unless the deadline passed *)
(* between the two places that read it. In redis a row may be left whose removal   *)
(* was refused, cut off or failed; nobody is left to extend it.                    *)
ShutdownClean ==
    sd = "clean" =>
        /\ ~Working /\ reg = {} /\ count[Total] = 0
        /\ driver = "db" /\ ~Off("deadline") => online = {}
================================================================================
