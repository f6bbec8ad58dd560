---------------------------- MODULE OnlineProofs ----------------------------
(*****************************************************************************)
(* Theorems about OnlineSubscriptions, for any connections, users, workers,  *)
(* limits and intervals, and any number of changes and failures: the reverse *)
(* index and the reference count, the schedule of refreshes, the wake-ups of *)
(* the dispatcher, and the order of the snapshots of a connection.           *)
(*****************************************************************************)
EXTENDS OnlineSubscriptions, FiniteSetTheorems, TLAPS

(* A leaf that names no prover is Zenon's; SMTT marks those with arithmetic. *)
USE ZenonT(30)

(* What the actions keep of the types. *)
OnlineTyped ==
    /\ conn \in [Conns -> {"up", "draining", "closed"}]
    /\ linked \subseteq Conns /\ active \subseteq Conns /\ owed \subseteq Conns
    /\ revision \in [Conns -> 0 .. MaxRevision] /\ userIds \in [Conns -> SUBSET Users]
    /\ cancel \in [Conns -> BOOLEAN] /\ remark \in [Conns -> BOOLEAN]
    /\ ready \in [Conns -> Nat] /\ hold \in [Conns -> Nat]
    /\ due \in Seq(Conns) /\ reads \in Nat
    /\ jobs \in Seq(Job) /\ outgoing \in Seq(Job) /\ worker \in [Workers -> Job \cup {NoJob, Exited}]
    /\ wake \in BOOLEAN /\ timer \in Nat \cup {NoTimer} /\ tokens \in Nat
    /\ flips \in 0 .. MaxFlips /\ online \subseteq Users /\ seen \in [Conns -> Snapshot]
    /\ stopped \in BOOLEAN /\ closing \in BOOLEAN

(* The queue is in order, and holds active subscriptions without a read. *)
QueueInv ==
    /\ \A i, j \in DOMAIN due : i < j => due[i] # due[j] /\ ready[due[i]] <= ready[due[j]]
    /\ \A i \in DOMAIN due : due[i] \in active /\ ~cancel[due[i]]

(* A connection that is up has its subscription in the table. *)
TableInv ==
    /\ \A c \in active : revision[c] >= 1
    /\ \A c \in Conns : ~stopped /\ conn[c] = "up" /\ userIds[c] # {} => c \in active
    /\ \A u \in Users : byUser[u] = {c \in active : u \in userIds[c]}
    /\ refs = Cardinality(RefsOf(active)) /\ refs <= MaxRefs

Reading(w) == AtWork(w) /\ worker[w].step # "close"

(* The reads a worker has yet to take. *)
Pending == jobs \o outgoing

(* A connection's cancel is set exactly while it has its one read. *)
OneRead(c) ==
    /\ \A i, j \in DOMAIN Pending : Pending[i].sub = c /\ Pending[j].sub = c => i = j
    /\ \A v, w \in InFlight(c) : v = w
    /\ \A i \in DOMAIN Pending : Pending[i].sub = c => InFlight(c) = {}
    /\ cancel[c] <=> InFlight(c) # {} \/ \E i \in DOMAIN Pending : Pending[i].sub = c

ReadInv ==
    /\ \A c \in Conns : OneRead(c)
    /\ reads = Len(Pending) + Cardinality({w \in Workers : Reading(w)})
    /\ reads <= Cardinality(Workers)
    /\ outgoing # <<>> => disp = "send"
    /\ stopped => disp = "done"

(* The dispatcher that sleeps will be woken in time. *)
SleepInv ==
    disp \in {"send", "select"} /\ due # <<>> /\ ~closing =>
        \/ wake
        \/ reads = Cardinality(Workers)
        \/ timer # NoTimer /\ (timer <= ready[Head(due)] \/ (tokens = 0 /\ timer <= 1))

(* A subscription is queued or read, and soon when it was marked. *)
ScheduledInv ==
    \A c \in Conns : Kept(c) =>
        /\ c \in active => Queued(c) \/ cancel[c]
        /\ c \in owed => (Queued(c) /\ ready[c] <= hold[c]) \/ (cancel[c] /\ remark[c])

(* What a finished read found is no older than what the client was told. *)
SeenInv ==
    /\ \A c \in Conns : seen[c].revision <= revision[c] /\ seen[c].at <= flips
    /\ \A w \in Workers : Reading(w) /\ worker[w].step = "finish" /\ worker[w].result = "ok" =>
          seen[worker[w].sub].at <= worker[w].at /\ worker[w].at <= flips

OnlineInv == OnlineTyped /\ QueueInv /\ TableInv /\ ReadInv /\ SleepInv /\ ScheduledInv /\ SeenInv

-----------------------------------------------------------------------------
(* Sequences and jobs. *)

(* A sequence is a function on its indices. *)
LEMMA SequenceParts ==
  ASSUME NEW T, NEW s \in Seq(T)
  PROVE  Len(s) \in Nat /\ DOMAIN s = 1 .. Len(s) /\ (s = <<>> <=> Len(s) = 0) /\ \A i \in DOMAIN s : s[i] \in T
  BY SMTT(30)

(* A function on the first numbers is a sequence. *)
LEMMA FunctionIsSequence ==
  ASSUME NEW T, NEW n \in Nat, NEW f \in [1 .. n -> T]
  PROVE  f \in Seq(T) /\ Len(f) = n /\ DOMAIN f = 1 .. n
  BY SMTT(30)

(* The first entry of a sequence is one of its entries. *)
LEMMA HeadEntry ==
  ASSUME NEW T, NEW s \in Seq(T), s # <<>>
  PROVE  1 \in DOMAIN s /\ Head(s) = s[1] /\ Head(s) \in Range(s)
  <1>1. 1 \in DOMAIN s /\ Head(s) = s[1] BY SMTT(30)
  <1> QED BY <1>1 DEF Range

(* The fields of a job. *)
LEMMA JobFields ==
  ASSUME NEW j \in Job
  PROVE  /\ j.sub \in Conns /\ j.revision \in 1 .. MaxRevision /\ j.userIds \in SUBSET Users /\ j.at \in 0 .. MaxFlips
         /\ j.items \in SUBSET Users /\ j \notin {NoJob, Exited}
  <1>1. /\ j.sub \in Conns /\ j.revision \in 1 .. MaxRevision /\ j.userIds \in SUBSET Users /\ j.at \in 0 .. MaxFlips
        /\ j.items \in SUBSET Users
    BY SMTT(30) DEF Job
  <1>2. j \notin {NoJob, Exited} BY OnlineAssumption
  <1> QED BY <1>1, <1>2

(* Cancelling a read changes one field of its job. *)
LEMMA CancelJob ==
  ASSUME NEW j \in Job, NEW S
  PROVE  /\ CancelIf(j, S) \in Job /\ CancelIf(j, S).sub = j.sub /\ CancelIf(j, S).step = j.step
         /\ CancelIf(j, S).result = j.result /\ CancelIf(j, S).at = j.at
  <1>1. PICK b \in BOOLEAN : b = (j.cancelled \/ j.sub \in S) OBVIOUS
  <1>2. PICK k : k = [j EXCEPT !.cancelled = b] OBVIOUS
  <1>3. CancelIf(j, S) = k BY <1>1, <1>2 DEF CancelIf
  <1>4. k \in Job /\ k.sub = j.sub /\ k.step = j.step /\ k.result = j.result /\ k.at = j.at BY <1>2, SMTT(30) DEF Job
  <1> QED BY <1>3, <1>4

(* A worker's steps change the step, and what it read. *)
LEMMA StepJob ==
  ASSUME NEW j \in Job, NEW s \in {"queued", "read", "finish", "close"}
  PROVE  [j EXCEPT !.step = s] \in Job /\ [j EXCEPT !.step = s].sub = j.sub /\ [j EXCEPT !.step = s].step = s
  BY SMTT(30) DEF Job

(* A finished read is a job. *)
LEMMA ResultJob ==
  ASSUME NEW j \in Job, NEW r \in {"none", "ok", "failed", "cancelled"}
  PROVE  [j EXCEPT !.result = r] \in Job /\ [j EXCEPT !.result = r].sub = j.sub /\ [j EXCEPT !.result = r].step = j.step
         /\ [j EXCEPT !.result = r].result = r
  BY SMTT(30) DEF Job

(* A read with its items is a job. *)
LEMMA ItemsJob ==
  ASSUME NEW j \in Job, NEW u \in SUBSET Users
  PROVE  [j EXCEPT !.items = u] \in Job /\ [j EXCEPT !.items = u].sub = j.sub /\ [j EXCEPT !.items = u].step = j.step
         /\ [j EXCEPT !.items = u].result = j.result
  BY SMTT(30) DEF Job

(* A read with its time is a job. *)
LEMMA AtJob ==
  ASSUME NEW j \in Job, NEW n \in 0 .. MaxFlips
  PROVE  [j EXCEPT !.at = n] \in Job /\ [j EXCEPT !.at = n].sub = j.sub /\ [j EXCEPT !.at = n].step = j.step
         /\ [j EXCEPT !.at = n].result = j.result /\ [j EXCEPT !.at = n].at = n
  BY SMTT(30) DEF Job

(* A read that ended, in failure or with what it found. *)
Failed(j, r) == [j EXCEPT !.step = "finish", !.result = r]
Found(j, u, n) == [j EXCEPT !.step = "finish", !.result = "ok", !.items = u, !.at = n]

(* A failed or cancelled read is a job. *)
LEMMA FailedJob ==
  ASSUME NEW j \in Job, NEW r \in {"none", "ok", "failed", "cancelled"}
  PROVE  Failed(j, r) \in Job /\ Failed(j, r).sub = j.sub /\ Failed(j, r).step = "finish" /\ Failed(j, r).result = r
  <1>1. PICK h : h = [j EXCEPT !.step = "finish"] OBVIOUS
  <1>2. h \in Job /\ h.sub = j.sub /\ h.step = "finish" BY <1>1, StepJob
  <1>3. PICK k : k = [h EXCEPT !.result = r] OBVIOUS
  <1>4. k \in Job /\ k.sub = j.sub /\ k.step = "finish" /\ k.result = r BY <1>2, <1>3, ResultJob
  <1>5. Failed(j, r) = k BY <1>1, <1>3 DEF Failed
  <1> QED BY <1>4, <1>5

(* A read that found an answer is a job. *)
LEMMA ReadJob ==
  ASSUME NEW j \in Job, NEW u \in SUBSET Users, NEW n \in 0 .. MaxFlips
  PROVE  Found(j, u, n) \in Job /\ Found(j, u, n).sub = j.sub /\ Found(j, u, n).step = "finish" /\ Found(j, u, n).at = n
  <1>1. PICK g : g = [j EXCEPT !.step = "finish"] OBVIOUS
  <1>2. g \in Job /\ g.sub = j.sub /\ g.step = "finish" BY <1>1, StepJob
  <1>3. PICK h : h = [g EXCEPT !.result = "ok"] OBVIOUS
  <1>4. h \in Job /\ h.sub = j.sub /\ h.step = "finish" BY <1>2, <1>3, ResultJob
  <1>5. PICK i : i = [h EXCEPT !.items = u] OBVIOUS
  <1>6. i \in Job /\ i.sub = j.sub /\ i.step = "finish" BY <1>4, <1>5, ItemsJob
  <1>7. PICK k : k = [i EXCEPT !.at = n] OBVIOUS
  <1>8. k \in Job /\ k.sub = j.sub /\ k.step = "finish" /\ k.at = n BY <1>6, <1>7, AtJob
  <1>9. Found(j, u, n) = k BY <1>1, <1>3, <1>5, <1>7 DEF Found
  <1> QED BY <1>8, <1>9

-----------------------------------------------------------------------------
(* The queue. *)

(* What requeue leaves: the entries and the connections S, each at its     *)
(* earliest time or before, and in order.                                  *)
LEMMA RequeueFacts ==
  ASSUME OnlineTyped, NEW E, E \subseteq Conns, NEW S, S \subseteq Conns, NEW at \in Nat, requeue(E, S, at)
  PROVE  /\ due' \in Seq(Conns) /\ ready' \in [Conns -> Nat]
         /\ Range(due') = E \cup S
         /\ \A i, j \in DOMAIN due' : i < j => due'[i] # due'[j] /\ ready'[due'[i]] <= ready'[due'[j]]
         /\ \A c \in S : ready'[c] <= Earliest(c, at)
         /\ \A c \in Conns : c \notin S => ready'[c] = ready[c]
         /\ due' # <<>> /\ Head(due') \notin Moved(E, S, at) => Head(due') \in E /\ ready'[Head(due')] = ready[Head(due')]
  <1> DEFINE M == Moved(E, S, at)
  <1>1. /\ ready' = [c \in Conns |-> IF c \in M THEN Earliest(c, at) ELSE ready[c]]
        /\ due' \in Heaps(E \cup M, M, ready')
    BY DEF requeue
  <1>2. M \subseteq S /\ S \subseteq E \cup M /\ \A c \in S : c \notin M => c \in E /\ ~(Earliest(c, at) < ready[c])
    BY DEF Moved
  <1> HIDE DEF M
  <1>3. \A c \in Conns : hold[c] \in Nat /\ ready[c] \in Nat BY DEF OnlineTyped
  <1>4. \A c \in Conns : Earliest(c, at) \in Nat BY <1>3 DEF Earliest
  <1>5. ready' \in [Conns -> Nat] /\ \A c \in Conns : ready'[c] = IF c \in M THEN Earliest(c, at) ELSE ready[c]
    BY <1>1, <1>3, <1>4
  <1>6. \A c \in S : ready'[c] <= Earliest(c, at)
    <2> SUFFICES ASSUME NEW c \in S PROVE ready'[c] <= Earliest(c, at) OBVIOUS
    <2>1. ready[c] \in Nat /\ Earliest(c, at) \in Nat /\ (ready'[c] = Earliest(c, at) \/ (ready'[c] = ready[c] /\ ~(Earliest(c, at) < ready[c])))
      BY <1>2, <1>3, <1>4, <1>5
    <2> QED BY <2>1, SMTT(30)
  <1>7. PICK n : n = Cardinality(E \cup M) OBVIOUS
  <1>8. n \in Nat
    <2>1. E \cup M \in SUBSET Conns BY <1>2
    <2> QED BY <1>7, <2>1, FS_Subset, FS_CardinalityType, OnlineAssumption
  <1>9. /\ due' \in [1 .. n -> E \cup M] /\ Range(due') = E \cup M
        /\ \A i, j \in DOMAIN due' : i < j => due'[i] # due'[j] /\ ready'[due'[i]] <= ready'[due'[j]]
    BY <1>1, <1>7 DEF Heaps
  <1>10. due' \in Seq(Conns)
    <2>1. due' \in [1 .. n -> Conns] BY <1>2, <1>9
    <2> QED BY <1>8, <2>1, FunctionIsSequence
  <1>11. ASSUME due' # <<>>, Head(due') \notin M PROVE Head(due') \in E /\ ready'[Head(due')] = ready[Head(due')]
    <2>1. Head(due') \in Range(due') BY <1>10, <1>11, HeadEntry
    <2> QED BY <1>2, <1>5, <1>9, <1>11, <2>1
  <1>12. Range(due') = E \cup S BY <1>2, <1>9
  <1>13. \A c \in Conns : c \notin S => ready'[c] = ready[c] BY <1>2, <1>5
  <1> QED BY <1>5, <1>6, <1>9, <1>10, <1>11, <1>12, <1>13 DEF M

(* What mark leaves, with the connections without a read queued for the    *)
(* earliest moment; a queue that changed its head is told.                 *)
Marked(E, rm, S) ==
    /\ due' \in Seq(Conns) /\ ready' \in [Conns -> Nat] /\ remark' \in [Conns -> BOOLEAN] /\ wake' \in BOOLEAN
    /\ Range(due') = E \cup {c \in S : ~cancel[c]}
    /\ \A i, j \in DOMAIN due' : i < j => due'[i] # due'[j] /\ ready'[due'[i]] <= ready'[due'[j]]
    /\ \A c \in S : ~cancel[c] => ready'[c] <= hold[c]
    /\ \A c \in Conns : c \notin S => ready'[c] = ready[c] /\ remark'[c] = rm[c]
    /\ \A c \in S : cancel[c] => remark'[c]
    /\ wake => wake'
    /\ due' # <<>> /\ ~wake' => due # <<>> /\ ready[Head(due)] <= ready'[Head(due')]

(* What mark leaves: types, order and members of the queue. *)
LEMMA MarkFacts ==
  ASSUME OnlineTyped, QueueInv, NEW E, E \subseteq Range(due), NEW rm \in [Conns -> BOOLEAN], NEW S, S \subseteq Conns,
         mark(E, rm, S)
  PROVE  Marked(E, rm, S)
  <1> DEFINE free == {c \in S : ~cancel[c]}
             M == Moved(E, free, 0)
  <1>1. /\ remark' = [c \in Conns |-> rm[c] \/ c \in S \ free] /\ requeue(E, free, 0)
        /\ wake' = (wake \/ WakeIfHead(due', M))
    BY DEF mark
  <1>2. E \subseteq Conns
    <2>1. \A i \in DOMAIN due : due[i] \in Conns BY SequenceParts DEF OnlineTyped
    <2> QED BY <2>1 DEF Range
  <1>3. free \subseteq S /\ free \subseteq Conns /\ \A c \in S : c \in free <=> ~cancel[c] OBVIOUS
  <1> HIDE DEF free
  <1>4. /\ due' \in Seq(Conns) /\ ready' \in [Conns -> Nat]
        /\ Range(due') = E \cup free
        /\ \A i, j \in DOMAIN due' : i < j => due'[i] # due'[j] /\ ready'[due'[i]] <= ready'[due'[j]]
        /\ \A c \in free : ready'[c] <= Earliest(c, 0)
        /\ \A c \in Conns : c \notin free => ready'[c] = ready[c]
        /\ due' # <<>> /\ Head(due') \notin M => Head(due') \in E /\ ready'[Head(due')] = ready[Head(due')]
    <2>1. 0 \in Nat OBVIOUS
    <2> QED BY <1>1, <1>2, <1>3, <2>1, RequeueFacts
  <1> HIDE DEF M
  <1>5. \A c \in free : ready'[c] <= hold[c]
    <2> SUFFICES ASSUME NEW c \in free PROVE ready'[c] <= hold[c] OBVIOUS
    <2>1. hold[c] \in Nat BY <1>3 DEF OnlineTyped
    <2>2. Earliest(c, 0) = hold[c] BY <2>1, SMTT(30) DEF Earliest
    <2> QED BY <1>4, <2>2
  <1>6. remark' \in [Conns -> BOOLEAN] /\ \A c \in Conns : remark'[c] = (rm[c] \/ c \in S \ free) BY <1>1
  <1>7. wake' \in BOOLEAN /\ (wake => wake') /\ (~wake' /\ due' # <<>> => Head(due') \notin M)
    BY <1>1 DEF WakeIfHead, OnlineTyped
  <1>8. ASSUME due' # <<>>, ~wake' PROVE due # <<>> /\ ready[Head(due)] <= ready'[Head(due')]
    <2>1. Head(due') \in E /\ ready'[Head(due')] = ready[Head(due')] BY <1>4, <1>7, <1>8
    <2>2. PICK k \in DOMAIN due : Head(due') = due[k] BY <2>1 DEF Range
    <2>3. due \in Seq(Conns) /\ \A i, j \in DOMAIN due : i < j => ready[due[i]] <= ready[due[j]] BY DEF OnlineTyped, QueueInv
    <2>4. due # <<>> /\ 1 \in DOMAIN due /\ Head(due) = due[1] /\ k \in Nat /\ 1 <= k BY <2>2, <2>3, SMTT(30)
    <2>5. ready[due[1]] \in Nat BY <2>3, <2>4, SequenceParts DEF OnlineTyped
    <2>6. ready[due[1]] <= ready[due[k]]
      <3>1. CASE k = 1 BY <2>5, <3>1, SMTT(30)
      <3>2. CASE 1 < k BY <2>2, <2>3, <2>4, <3>2
      <3> QED BY <2>4, <3>1, <3>2, SMTT(30)
    <2> QED BY <2>1, <2>2, <2>4, <2>6
  <1>9. \A c \in Conns : c \notin S => remark'[c] = rm[c] BY <1>3, <1>6
  <1>10. \A c \in S : cancel[c] => remark'[c] BY <1>3, <1>6
  <1> QED BY <1>3, <1>4, <1>5, <1>6, <1>7, <1>8, <1>9, <1>10 DEF free, Marked

-----------------------------------------------------------------------------
(* The reads. *)

(* The jobs in the channel, then the ones about to be sent. *)
LEMMA PendingFacts ==
  ASSUME NEW j \in Seq(Job), NEW o \in Seq(Job)
  PROVE  /\ j \o o \in Seq(Job) /\ Len(j) \in Nat /\ Len(o) \in Nat /\ Len(j \o o) = Len(j) + Len(o)
         /\ DOMAIN (j \o o) = 1 .. Len(j) + Len(o)
         /\ \A i \in 1 .. Len(j) : (j \o o)[i] = j[i]
         /\ \A i \in 1 .. Len(o) : (j \o o)[Len(j) + i] = o[i]
         /\ \A i \in 1 .. Len(j) + Len(o) : i \in 1 .. Len(j) \/ \E k \in 1 .. Len(o) : i = Len(j) + k
  <1>1. /\ j \o o \in Seq(Job) /\ Len(j) \in Nat /\ Len(o) \in Nat /\ Len(j \o o) = Len(j) + Len(o)
        /\ DOMAIN (j \o o) = 1 .. Len(j) + Len(o)
    BY SMTT(30)
  <1>2. \A i \in 1 .. Len(j) : (j \o o)[i] = j[i] BY SMTT(30)
  <1>3. \A i \in 1 .. Len(o) : (j \o o)[Len(j) + i] = o[i] BY SMTT(30)
  <1>4. \A i \in 1 .. Len(j) + Len(o) : i \in 1 .. Len(j) \/ \E k \in 1 .. Len(o) : i = Len(j) + k
    <2> SUFFICES ASSUME NEW i \in 1 .. Len(j) + Len(o), i \notin 1 .. Len(j) PROVE \E k \in 1 .. Len(o) : i = Len(j) + k OBVIOUS
    <2>1. i - Len(j) \in 1 .. Len(o) /\ i = Len(j) + (i - Len(j)) BY <1>1, SMTT(30)
    <2> QED BY <2>1
  <1> QED BY <1>1, <1>2, <1>3, <1>4

(* The workers that read. *)
LEMMA InFlightFacts ==
  ASSUME OnlineTyped
  PROVE  /\ \A c : InFlight(c) = {w \in Workers : Reading(w) /\ worker[w].sub = c}
         /\ \A w \in Workers : AtWork(w) => worker[w] \in Job
         /\ IsFiniteSet({w \in Workers : Reading(w)}) /\ Cardinality({w \in Workers : Reading(w)}) \in Nat
         /\ Cardinality(Workers) \in Nat
         /\ Pending \in Seq(Job)
  <1>1. \A c : InFlight(c) = {w \in Workers : Reading(w) /\ worker[w].sub = c} BY DEF InFlight, Reading
  <1>2. \A w \in Workers : AtWork(w) => worker[w] \in Job BY DEF OnlineTyped, AtWork
  <1>3. {w \in Workers : Reading(w)} \in SUBSET Workers OBVIOUS
  <1>4. IsFiniteSet({w \in Workers : Reading(w)}) BY <1>3, FS_Subset, OnlineAssumption
  <1>5. Pending \in Seq(Job) BY PendingFacts DEF Pending, OnlineTyped
  <1> QED BY <1>1, <1>2, <1>4, <1>5, FS_CardinalityType, OnlineAssumption

(* The reads of a connection after a step. *)
LEMMA InFlightNext ==
  ASSUME OnlineTyped'
  PROVE  /\ \A c : InFlight(c)' = {w \in Workers : Reading(w)' /\ worker'[w].sub = c}
         /\ \A w \in Workers : AtWork(w)' => worker'[w] \in Job
         /\ Pending' \in Seq(Job)
  <1>1. \A c : InFlight(c)' = {w \in Workers : Reading(w)' /\ worker'[w].sub = c} BY DEF InFlight, Reading
  <1>2. \A w \in Workers : AtWork(w)' => worker'[w] \in Job BY DEF OnlineTyped, AtWork
  <1>3. jobs' \in Seq(Job) /\ outgoing' \in Seq(Job) /\ Pending' = jobs' \o outgoing' BY DEF Pending, OnlineTyped
  <1> QED BY <1>1, <1>2, <1>3, PendingFacts

(* A step that moves no read. *)
ReadsStay ==
    /\ Len(Pending') = Len(Pending) /\ \A i \in DOMAIN Pending : Pending'[i].sub = Pending[i].sub
    /\ \A w \in Workers : (Reading(w)' <=> Reading(w)) /\ (Reading(w) => worker'[w].sub = worker[w].sub)
    /\ reads' = reads /\ cancel' = cancel

(* Steps that leave the reads of every connection alone keep their invariant. *)
LEMMA ReadsStayKeeps ==
  ASSUME OnlineTyped, OnlineTyped', ReadInv, ReadsStay, outgoing' # <<>> => disp' = "send", stopped' => disp' = "done"
  PROVE  ReadInv'
  <1>1. DOMAIN Pending = 1 .. Len(Pending) /\ DOMAIN Pending' = 1 .. Len(Pending')
    BY InFlightFacts, InFlightNext, SequenceParts
  <1>2. DOMAIN Pending' = DOMAIN Pending BY <1>1 DEF ReadsStay
  <1>3. \A c : InFlight(c)' = InFlight(c)
    <2> SUFFICES ASSUME NEW c PROVE InFlight(c)' = InFlight(c) OBVIOUS
    <2>1. InFlight(c) = {w \in Workers : Reading(w) /\ worker[w].sub = c} BY InFlightFacts
    <2>2. InFlight(c)' = {w \in Workers : Reading(w)' /\ worker'[w].sub = c} BY InFlightNext
    <2> QED BY <2>1, <2>2 DEF ReadsStay
  <1>4. {w \in Workers : Reading(w)}' = {w \in Workers : Reading(w)} BY DEF ReadsStay
  <1>5. ASSUME NEW c \in Conns PROVE OneRead(c)'
    <2>1. OneRead(c) /\ InFlight(c)' = InFlight(c) /\ cancel'[c] = cancel[c] BY <1>3 DEF ReadInv, ReadsStay
    <2>2. \A i \in DOMAIN Pending : Pending'[i].sub = Pending[i].sub BY DEF ReadsStay
    <2>3. \A i, j \in DOMAIN Pending' : Pending'[i].sub = c /\ Pending'[j].sub = c => i = j BY <1>2, <2>1, <2>2 DEF OneRead
    <2>4. (\E i \in DOMAIN Pending' : Pending'[i].sub = c) <=> (\E i \in DOMAIN Pending : Pending[i].sub = c) BY <1>2, <2>2
    <2> QED BY <2>1, <2>3, <2>4 DEF OneRead
  <1>6. Len(Pending') = Len(Pending) /\ reads' = reads BY DEF ReadsStay
  <1>7. reads' = Len(Pending)' + Cardinality({w \in Workers : Reading(w)})' /\ reads' <= Cardinality(Workers)
    BY <1>4, <1>6 DEF ReadInv
  <1> QED BY <1>5, <1>7 DEF ReadInv

(* A worker takes the first job. *)
LEMMA TakeKeeps ==
  ASSUME OnlineTyped, OnlineTyped', ReadInv, NEW w \in Workers, Take(w)
  PROVE  ReadInv'
  <1>1. /\ worker[w] = NoJob /\ jobs # <<>> /\ jobs' = Tail(jobs)
        /\ worker' = [worker EXCEPT ![w] = [Head(jobs) EXCEPT !.step = "read"]]
        /\ UNCHANGED <<cancel, reads, outgoing, disp, stopped>>
    BY DEF Take, subs, loop, node
  <1>2. PICK j \in Job : j = Head(jobs) /\ Len(jobs) >= 1 /\ jobs[1] = j BY <1>1, SMTT(30) DEF OnlineTyped
  <1>3. PICK k \in Job : k = [Head(jobs) EXCEPT !.step = "read"] /\ k.sub = j.sub /\ k.step = "read" BY <1>2, StepJob
  <1>4. worker'[w] = k /\ \A v \in Workers : v # w => worker'[v] = worker[v] BY <1>1, <1>3 DEF OnlineTyped
  <1>5. Reading(w)' /\ ~Reading(w) /\ worker'[w].sub = j.sub /\ \A v \in Workers : v # w => (Reading(v)' <=> Reading(v))
    BY <1>1, <1>3, <1>4, JobFields DEF Reading, AtWork
  <1>6. PICK n \in Nat : n = Len(Pending) /\ DOMAIN Pending = 1 .. n BY InFlightFacts, SequenceParts
  <1>7. /\ n >= 1 /\ Pending[1] = j /\ Len(Pending') = n - 1 /\ DOMAIN Pending' = 1 .. n - 1
        /\ \A i \in 1 .. n - 1 : Pending'[i] = Pending[i + 1]
    <2>1. /\ jobs \in Seq(Job) /\ outgoing \in Seq(Job) /\ Pending = jobs \o outgoing
          /\ Pending' = Tail(jobs) \o outgoing
      BY <1>1 DEF Pending, OnlineTyped
    <2>2. PICK s \in Seq(Job) : s = jobs BY <2>1
    <2>3. PICK o \in Seq(Job) : o = outgoing BY <2>1
    <2>4. s # <<>> /\ s[1] = j /\ n = Len(s \o o) BY <1>1, <1>2, <1>6, <2>1, <2>2, <2>3
    <2>5. /\ n >= 1 /\ (s \o o)[1] = j /\ Len(Tail(s) \o o) = n - 1 /\ DOMAIN (Tail(s) \o o) = 1 .. n - 1
      BY <2>4, SMTT(30)
    <2>6. \A i \in 1 .. n - 1 : (Tail(s) \o o)[i] = (s \o o)[i + 1] BY <2>4, SMTT(30)
    <2> QED BY <2>1, <2>2, <2>3, <2>5, <2>6
  <1>8. 1 \in 1 .. n /\ (\A i \in 1 .. n - 1 : i + 1 \in 1 .. n /\ i + 1 # 1)
        /\ (\A i, m \in 1 .. n - 1 : i + 1 = m + 1 => i = m)
        /\ \A i \in 1 .. n : i # 1 => i - 1 \in 1 .. n - 1 /\ (i - 1) + 1 = i
    BY <1>7, SMTT(30)
  <1>9. \A c : InFlight(c)' = InFlight(c) \cup (IF j.sub = c THEN {w} ELSE {})
    <2> SUFFICES ASSUME NEW c PROVE InFlight(c)' = InFlight(c) \cup (IF j.sub = c THEN {w} ELSE {}) OBVIOUS
    <2>1. InFlight(c) = {v \in Workers : Reading(v) /\ worker[v].sub = c} BY InFlightFacts
    <2>2. InFlight(c)' = {v \in Workers : Reading(v)' /\ worker'[v].sub = c} BY InFlightNext
    <2> QED BY <1>4, <1>5, <2>1, <2>2
  <1>10. ASSUME NEW c \in Conns PROVE OneRead(c)'
    <2>1. OneRead(c) BY DEF ReadInv
    <2>2. CASE j.sub = c
      <3>1. InFlight(c) = {} /\ cancel[c] /\ \A i \in 1 .. n : i # 1 => Pending[i].sub # c
        BY <1>6, <1>7, <1>8, <2>1, <2>2 DEF OneRead
      <3>2. InFlight(c)' = {w} BY <1>9, <2>2, <3>1
      <3>3. \A i \in DOMAIN Pending' : Pending'[i].sub # c BY <1>7, <1>8, <3>1
      <3> QED BY <1>1, <3>1, <3>2, <3>3 DEF OneRead
    <2>3. CASE j.sub # c
      <3>1. InFlight(c)' = InFlight(c) BY <1>9, <2>3
      <3>2. \A i, m \in 1 .. n - 1 : Pending'[i].sub = c /\ Pending'[m].sub = c => i = m
        <4>1. \A i, m \in 1 .. n : Pending[i].sub = c /\ Pending[m].sub = c => i = m BY <1>6, <2>1 DEF OneRead
        <4> SUFFICES ASSUME NEW i \in 1 .. n - 1, NEW m \in 1 .. n - 1, Pending'[i].sub = c, Pending'[m].sub = c PROVE i = m
          OBVIOUS
        <4>2. i + 1 \in 1 .. n /\ m + 1 \in 1 .. n /\ Pending[i + 1].sub = c /\ Pending[m + 1].sub = c BY <1>7, <1>8
        <4>3. i + 1 = m + 1 BY <4>1, <4>2
        <4> QED BY <1>8, <4>3
      <3>3. (\E i \in 1 .. n - 1 : Pending'[i].sub = c) <=> (\E i \in 1 .. n : Pending[i].sub = c)
        <4>1. ASSUME NEW i \in 1 .. n - 1, Pending'[i].sub = c PROVE \E m \in 1 .. n : Pending[m].sub = c
          <5>1. i + 1 \in 1 .. n /\ Pending[i + 1].sub = c BY <1>7, <1>8, <4>1
          <5> QED BY <5>1
        <4>2. ASSUME NEW i \in 1 .. n, Pending[i].sub = c PROVE \E m \in 1 .. n - 1 : Pending'[m].sub = c
          <5>1. i # 1 BY <1>7, <2>3, <4>2
          <5>2. PICK m \in 1 .. n - 1 : m + 1 = i BY <1>8, <5>1
          <5> QED BY <1>7, <4>2, <5>2
        <4> QED BY <4>1, <4>2
      <3> QED BY <1>1, <1>6, <1>7, <2>1, <3>1, <3>2, <3>3 DEF OneRead
    <2> QED BY <2>2, <2>3
  <1>11. reads' = Len(Pending)' + Cardinality({v \in Workers : Reading(v)})' /\ reads' <= Cardinality(Workers)
    <2>1. {v \in Workers : Reading(v)}' = {v \in Workers : Reading(v)} \cup {w} BY <1>5
    <2>2. Cardinality({v \in Workers : Reading(v)})' = Cardinality({v \in Workers : Reading(v)}) + 1
      BY <1>5, <2>1, InFlightFacts, FS_AddElement
    <2>3. reads = n + Cardinality({v \in Workers : Reading(v)}) /\ reads <= Cardinality(Workers) /\ reads' = reads
      BY <1>1, <1>6 DEF ReadInv
    <2>4. Cardinality({v \in Workers : Reading(v)}) \in Nat BY InFlightFacts
    <2>5. PICK m \in Nat : m = Cardinality({v \in Workers : Reading(v)}) BY <2>4
    <2>6. n + m = (n - 1) + (m + 1) BY <1>7, SMTT(30)
    <2> QED BY <1>7, <2>2, <2>3, <2>5, <2>6
  <1>12. (outgoing' # <<>> => disp' = "send") /\ (stopped' => disp' = "done") BY <1>1 DEF ReadInv
  <1> QED BY <1>10, <1>11, <1>12 DEF ReadInv

(* A read ends: its connection has none. *)
LEMMA ReadEndsKeeps ==
  ASSUME OnlineTyped, OnlineTyped', ReadInv, NEW w \in Workers, NEW next, ~(next \in Job /\ next.step # "close"),
         ReadEnds(w, next)
  PROVE  ReadInv' /\ worker[w].sub \in Conns /\ cancel[worker[w].sub]
  <1>1. /\ AtWork(w) /\ worker[w].step = "finish" /\ worker' = [worker EXCEPT ![w] = next] /\ reads' = reads - 1
        /\ cancel' = [cancel EXCEPT ![worker[w].sub] = FALSE] /\ UNCHANGED <<jobs, outgoing, disp, stopped>>
    BY DEF ReadEnds, Working, node
  <1>2. PICK d \in Conns : d = worker[w].sub BY <1>1, InFlightFacts, JobFields
  <1>3. /\ \A v \in Workers : v # w => worker'[v] = worker[v] /\ (Reading(v)' <=> Reading(v))
        /\ Reading(w) /\ ~Reading(w)'
    <2>1. worker'[w] = next /\ \A v \in Workers : v # w => worker'[v] = worker[v] BY <1>1 DEF OnlineTyped
    <2>2. AtWork(w)' => next \in Job BY <2>1, InFlightNext
    <2> QED BY <1>1, <2>1, <2>2 DEF Reading, AtWork
  <1>4. \A c : InFlight(c)' = InFlight(c) \ {w}
    <2> SUFFICES ASSUME NEW c PROVE InFlight(c)' = InFlight(c) \ {w} OBVIOUS
    <2>1. InFlight(c) = {v \in Workers : Reading(v) /\ worker[v].sub = c} BY InFlightFacts
    <2>2. InFlight(c)' = {v \in Workers : Reading(v)' /\ worker'[v].sub = c} BY InFlightNext
    <2> QED BY <1>3, <2>1, <2>2
  <1>5. Pending' = Pending BY <1>1 DEF Pending
  <1>6. w \in InFlight(d) /\ cancel[d]
    <2>1. w \in InFlight(d) BY <1>2, <1>3, InFlightFacts
    <2> QED BY <2>1 DEF ReadInv, OneRead
  <1>7. ASSUME NEW c \in Conns PROVE OneRead(c)'
    <2>1. OneRead(c) BY DEF ReadInv
    <2>2. CASE c = d
      <3>1. InFlight(c)' = {} BY <1>4, <1>6, <2>1, <2>2 DEF OneRead
      <3>2. \A i \in DOMAIN Pending : Pending[i].sub # c BY <1>6, <2>1, <2>2 DEF OneRead
      <3>3. ~cancel'[c] BY <1>1, <1>2, <2>2 DEF OnlineTyped
      <3> QED BY <1>5, <3>1, <3>2, <3>3 DEF OneRead
    <2>3. CASE c # d
      <3>1. InFlight(c)' = InFlight(c)
        <4>1. w \notin InFlight(c) BY <1>2, <2>3 DEF InFlight
        <4> QED BY <1>4, <4>1
      <3>2. cancel'[c] = cancel[c] BY <1>1, <1>2, <2>3 DEF OnlineTyped
      <3> QED BY <1>5, <2>1, <3>1, <3>2 DEF OneRead
    <2> QED BY <2>2, <2>3
  <1>8. reads' = Len(Pending)' + Cardinality({v \in Workers : Reading(v)})' /\ reads' <= Cardinality(Workers)
    <2>1. {v \in Workers : Reading(v)}' = {v \in Workers : Reading(v)} \ {w} BY <1>3
    <2>2. Cardinality({v \in Workers : Reading(v)})' = Cardinality({v \in Workers : Reading(v)}) - 1
      BY <1>3, <2>1, InFlightFacts, FS_RemoveElement
    <2>3. reads = Len(Pending) + Cardinality({v \in Workers : Reading(v)}) /\ reads <= Cardinality(Workers)
      BY DEF ReadInv
    <2>4. PICK m \in Nat : m = Cardinality({v \in Workers : Reading(v)}) BY InFlightFacts
    <2>5. PICK n \in Nat : n = Len(Pending) BY InFlightFacts, SequenceParts
    <2>6. PICK k \in Nat : k = Cardinality(Workers) BY InFlightFacts
    <2>7. n + m <= k => (n + m) - 1 = n + (m - 1) /\ (n + m) - 1 <= k BY SMTT(30)
    <2> QED BY <1>1, <1>5, <2>2, <2>3, <2>4, <2>5, <2>6, <2>7
  <1>9. (outgoing' # <<>> => disp' = "send") /\ (stopped' => disp' = "done") BY <1>1 DEF ReadInv
  <1> QED BY <1>2, <1>6, <1>7, <1>8, <1>9 DEF ReadInv


(* A job for a subscription of the table. *)
LEMMA NewJobFacts ==
  ASSUME OnlineTyped, TableInv, NEW c \in active
  PROVE  NewJob(c) \in Job /\ NewJob(c).sub = c
  <1>1. c \in Conns /\ revision[c] \in 0 .. MaxRevision /\ revision[c] >= 1 /\ userIds[c] \in SUBSET Users
    BY DEF OnlineTyped, TableInv
  <1>2. MaxFlips \in Nat BY OnlineAssumption
  <1>3. PICK r \in 1 .. MaxRevision : r = revision[c] BY <1>1, SMTT(30)
  <1>4. PICK s \in SUBSET Users : s = userIds[c] BY <1>1
  <1>5. PICK k : k = [sub |-> c, revision |-> r, userIds |-> s, cancelled |-> FALSE, step |-> "queued", result |-> "none",
                      items |-> {}, at |-> 0]
    OBVIOUS
  <1>6. k \in Job /\ k.sub = c BY <1>1, <1>2, <1>5, SMTT(30) DEF Job
  <1>7. NewJob(c) = k BY <1>3, <1>4, <1>5 DEF NewJob
  <1> QED BY <1>6, <1>7

(* One pass of the dispatcher with k admissions. *)
Dispatched(k) ==
    LET admitted == {due[i] : i \in 1 .. k}
    IN  /\ disp = "pass" /\ Admits(k)
        /\ outgoing' = [i \in 1 .. k |-> NewJob(due[i])]
        /\ due' = SubSeq(due, k + 1, Len(due))
        /\ reads' = reads + k
        /\ tokens' = tokens - k
        /\ cancel' = [c \in Conns |-> c \in admitted \/ cancel[c]]
        /\ remark' = [c \in Conns |-> c \notin admitted /\ remark[c]]
        /\ hold' = [c \in Conns |-> IF c \in admitted THEN MinInterval ELSE hold[c]]
        /\ timer' = WaitFor(k)
        /\ disp' = (IF k = 0 THEN "select" ELSE "send")
        /\ owed' = owed \ admitted
        /\ UNCHANGED <<linked, revision, userIds, lastSuccess, ready, active, byUser, refs, jobs, worker, wake, node, world>>

(* The numbers of a pass. *)
LEMMA DispatchNumbers ==
  ASSUME OnlineTyped, QueueInv, ReadInv, NEW k \in 0 .. Len(due), Dispatched(k)
  PROVE  /\ k \in Nat /\ Len(due) \in Nat /\ k <= Len(due) /\ DOMAIN due = 1 .. Len(due) /\ 1 .. k \subseteq DOMAIN due
         /\ \A i \in 1 .. k : due[i] \in Conns /\ due[i] \in active /\ ~cancel[due[i]]
         /\ \A i, j \in DOMAIN due : due[i] = due[j] => i = j
         /\ outgoing = <<>> /\ ~stopped
         /\ reads + k <= Cardinality(Workers) /\ k <= tokens
  <1>1. k \in Nat /\ Len(due) \in Nat /\ k <= Len(due) /\ DOMAIN due = 1 .. Len(due) /\ 1 .. k \subseteq DOMAIN due
    <2>1. Len(due) \in Nat /\ DOMAIN due = 1 .. Len(due) BY SequenceParts DEF OnlineTyped
    <2> QED BY <2>1, SMTT(30)
  <1>2. \A i \in DOMAIN due : due[i] \in Conns /\ due[i] \in active /\ ~cancel[due[i]]
    BY SequenceParts DEF OnlineTyped, QueueInv
  <1>3. \A i, j \in DOMAIN due : due[i] = due[j] => i = j
    <2>1. \A i, j \in 1 .. Len(due) : i < j \/ j < i \/ i = j BY <1>1, SMTT(30)
    <2> QED BY <1>1, <2>1 DEF QueueInv
  <1>4. disp = "pass" /\ Admits(k) BY DEF Dispatched
  <1>5. outgoing = <<>> /\ ~stopped BY <1>4 DEF ReadInv
  <1>6. reads + k <= Cardinality(Workers) /\ k <= tokens
    <2>1. CASE k = 0
      <3>1. reads \in Nat /\ tokens \in Nat /\ reads <= Cardinality(Workers) BY DEF OnlineTyped, ReadInv
      <3> QED BY <2>1, <3>1, SMTT(30)
    <2>2. CASE k # 0 BY <1>4, <2>2 DEF Admits
    <2> QED BY <2>1, <2>2
  <1> QED BY <1>1, <1>2, <1>3, <1>5, <1>6

(* A pass gives the admitted connections their read. *)
LEMMA DispatchReads ==
  ASSUME OnlineTyped, OnlineTyped', QueueInv, TableInv, ReadInv, NEW k \in 0 .. Len(due), Dispatched(k)
  PROVE  ReadInv'
  <1> USE DispatchNumbers
  <1>1. /\ outgoing' = [i \in 1 .. k |-> NewJob(due[i])] /\ reads' = reads + k
        /\ cancel' = [c \in Conns |-> c \in {due[i] : i \in 1 .. k} \/ cancel[c]]
        /\ disp' = (IF k = 0 THEN "select" ELSE "send") /\ UNCHANGED <<jobs, worker, stopped>>
    BY DEF Dispatched, node
  <1>2. PICK n \in Nat : n = Len(jobs) BY SequenceParts DEF OnlineTyped
  <1>3. Len(Pending) = n /\ DOMAIN Pending = 1 .. n /\ \A i \in 1 .. n : Pending[i] = jobs[i]
    <2>1. jobs \in Seq(Job) /\ Pending = jobs \o <<>> BY DEF OnlineTyped, Pending
    <2>2. PICK s \in Seq(Job) : s = jobs BY <2>1
    <2>3. Len(s \o <<>>) = Len(s) /\ DOMAIN (s \o <<>>) = 1 .. Len(s) /\ \A i \in 1 .. Len(s) : (s \o <<>>)[i] = s[i]
      BY SMTT(30)
    <2> QED BY <1>2, <2>1, <2>2, <2>3
  <1>4. outgoing' \in Seq(Job) /\ Len(outgoing') = k /\ \A i \in 1 .. k : outgoing'[i].sub = due[i]
    <2>1. \A i \in 1 .. k : outgoing'[i] = NewJob(due[i]) BY <1>1
    <2>2. \A i \in 1 .. k : NewJob(due[i]) \in Job /\ NewJob(due[i]).sub = due[i] BY NewJobFacts
    <2>3. outgoing' \in [1 .. k -> Job] BY <1>1, <2>2
    <2> QED BY <2>1, <2>2, <2>3, FunctionIsSequence
  <1>5. /\ Len(Pending') = n + k /\ DOMAIN Pending' = 1 .. n + k
        /\ \A i \in 1 .. n : Pending'[i] = Pending[i]
        /\ \A i \in 1 .. k : Pending'[n + i].sub = due[i]
        /\ \A i \in 1 .. n + k : i \in 1 .. n \/ \E j \in 1 .. k : i = n + j
    <2>1. jobs \in Seq(Job) /\ Pending' = jobs \o outgoing' BY <1>1 DEF Pending, OnlineTyped
    <2>2. PICK o \in Seq(Job) : o = outgoing' /\ Len(o) = k /\ \A i \in 1 .. k : o[i].sub = due[i] BY <1>4
    <2>3. PICK s \in Seq(Job) : s = jobs /\ Len(s) = n /\ \A i \in 1 .. n : s[i] = Pending[i] BY <1>2, <1>3, <2>1
    <2>4. /\ Len(s \o o) = n + k /\ DOMAIN (s \o o) = 1 .. n + k
          /\ \A i \in 1 .. n : (s \o o)[i] = s[i]
          /\ \A i \in 1 .. k : (s \o o)[n + i] = o[i]
          /\ \A i \in 1 .. n + k : i \in 1 .. n \/ \E j \in 1 .. k : i = n + j
      <3>1. /\ Len(s \o o) = Len(s) + Len(o) /\ DOMAIN (s \o o) = 1 .. Len(s) + Len(o)
            /\ \A i \in 1 .. Len(s) : (s \o o)[i] = s[i]
            /\ \A i \in 1 .. Len(o) : (s \o o)[Len(s) + i] = o[i]
            /\ \A i \in 1 .. Len(s) + Len(o) : i \in 1 .. Len(s) \/ \E j \in 1 .. Len(o) : i = Len(s) + j
        BY PendingFacts
      <3>2. Len(s) = n /\ Len(o) = k BY <2>2, <2>3
      <3> HIDE DispatchNumbers
      <3> QED BY <3>1, <3>2
    <2> QED BY <2>1, <2>2, <2>3, <2>4
  <1>6. /\ \A i \in 1 .. n : i \in 1 .. n + k
        /\ \A i \in 1 .. k : n + i \in 1 .. n + k
    BY SMTT(30)
  <1>7. \A c : InFlight(c)' = InFlight(c) BY <1>1 DEF InFlight, AtWork
  <1>8. ASSUME NEW c \in Conns PROVE OneRead(c)'
    <2>1. OneRead(c) /\ cancel'[c] = (c \in {due[i] : i \in 1 .. k} \/ cancel[c]) BY <1>1 DEF ReadInv
    <2>2. ASSUME NEW j \in 1 .. k, due[j] = c PROVE OneRead(c)'
      <3>1. ~cancel[c] /\ cancel'[c] BY <2>1, <2>2
      <3>2. InFlight(c)' = {} /\ \A i \in 1 .. n : Pending[i].sub # c BY <1>3, <1>7, <2>1, <3>1 DEF OneRead
      <3>3. \A i \in 1 .. n + k : Pending'[i].sub = c => i = n + j
        <4> SUFFICES ASSUME NEW i \in 1 .. n + k, Pending'[i].sub = c PROVE i = n + j OBVIOUS
        <4>1. i \notin 1 .. n BY <1>5, <3>2
        <4>2. PICK m \in 1 .. k : i = n + m BY <1>5, <4>1
        <4>3. due[m] = c BY <1>5, <4>2
        <4>4. m = j BY <2>2, <4>3
        <4> QED BY <4>2, <4>4
      <3>4. n + j \in 1 .. n + k /\ Pending'[n + j].sub = c BY <1>5, <1>6, <2>2
      <3> QED BY <1>5, <3>1, <3>2, <3>3, <3>4 DEF OneRead
    <2>3. ASSUME \A j \in 1 .. k : due[j] # c PROVE OneRead(c)'
      <3>1. cancel'[c] = cancel[c] BY <2>1, <2>3 DEF OnlineTyped
      <3>2. \A i \in 1 .. n + k : Pending'[i].sub = c => i \in 1 .. n /\ Pending[i].sub = c
        <4> SUFFICES ASSUME NEW i \in 1 .. n + k, Pending'[i].sub = c PROVE i \in 1 .. n /\ Pending[i].sub = c OBVIOUS
        <4>1. i \in 1 .. n
          <5>1. ASSUME NEW j \in 1 .. k, i = n + j PROVE FALSE
            <6>1. Pending'[n + j].sub = due[j] BY <1>5
            <6> QED BY <2>3, <5>1, <6>1
          <5> QED BY <1>5, <5>1
        <4> QED BY <1>5, <4>1
      <3>3. \A i \in 1 .. n : Pending[i].sub = c => i \in 1 .. n + k /\ Pending'[i].sub = c BY <1>5, <1>6
      <3> QED BY <1>3, <1>5, <1>7, <2>1, <3>1, <3>2, <3>3 DEF OneRead
    <2> QED BY <2>2, <2>3
  <1>9. reads' = Len(Pending)' + Cardinality({v \in Workers : Reading(v)})' /\ reads' <= Cardinality(Workers)
    <2>1. {v \in Workers : Reading(v)}' = {v \in Workers : Reading(v)} BY <1>1 DEF Reading, AtWork
    <2>2. PICK m \in Nat : m = Cardinality({v \in Workers : Reading(v)}) BY InFlightFacts
    <2>3. reads = n + m BY <1>3, <2>2 DEF ReadInv
    <2>4. (n + m) + k = (n + k) + m BY SMTT(30)
    <2> QED BY <1>1, <1>5, <2>1, <2>2, <2>3, <2>4
  <1>10. outgoing' # <<>> => disp' = "send"
    <2>1. outgoing' # <<>> => k # 0 BY <1>4, SMTT(30)
    <2> QED BY <1>1, <2>1
  <1>11. ~stopped' BY <1>1
  <1> QED BY <1>8, <1>9, <1>10, <1>11 DEF ReadInv

-----------------------------------------------------------------------------
(* The references. *)

(* The pairs of connections A and the users they subscribe to. *)
Refs(A, ids) == {ref \in A \X Users : ref[2] \in ids[ref[1]]}

(* The references of any connections are finitely many. *)
LEMMA RefsFinite ==
  ASSUME NEW A, A \subseteq Conns, NEW ids
  PROVE  IsFiniteSet(Refs(A, ids)) /\ Cardinality(Refs(A, ids)) \in Nat
  <1>1. IsFiniteSet(A) BY FS_Subset, OnlineAssumption
  <1>2. IsFiniteSet(A \X Users) BY <1>1, FS_Product, OnlineAssumption
  <1>3. Refs(A, ids) \in SUBSET (A \X Users) BY DEF Refs
  <1> QED BY <1>2, <1>3, FS_Subset, FS_CardinalityType

(* Removing connections frees what they hold. *)
LEMMA RefsRemoved ==
  ASSUME NEW A, A \subseteq Conns, NEW S, NEW ids
  PROVE  Cardinality(Refs(A \ S, ids)) = Cardinality(Refs(A, ids)) - Cardinality(Refs(S \cap A, ids))
  <1>1. Refs(A \ S, ids) = Refs(A, ids) \ Refs(S \cap A, ids) BY DEF Refs
  <1>2. Refs(A, ids) \cap Refs(S \cap A, ids) = Refs(S \cap A, ids) BY DEF Refs
  <1>3. S \cap A \subseteq Conns OBVIOUS
  <1> QED BY <1>1, <1>2, <1>3, RefsFinite, FS_Difference

(* One connection holds one reference for each of its users. *)
LEMMA RefsOfOne ==
  ASSUME NEW c \in Conns, NEW ids, ids[c] \subseteq Users
  PROVE  Cardinality(Refs({c}, ids)) = Cardinality(ids[c])
  <1> DEFINE f == [u \in ids[c] |-> <<c, u>>]
  <1>1. IsFiniteSet(ids[c]) BY FS_Subset, OnlineAssumption
  <1>2. \A u \in ids[c] : <<c, u>> \in Refs({c}, ids) BY DEF Refs
  <1>3. \A r \in Refs({c}, ids) : \E u \in ids[c] : r = <<c, u>>
    <2> SUFFICES ASSUME NEW r \in Refs({c}, ids) PROVE \E u \in ids[c] : r = <<c, u>> OBVIOUS
    <2>1. r \in {c} \X Users /\ r[2] \in ids[r[1]] BY DEF Refs
    <2>2. r = <<r[1], r[2]>> /\ r[1] = c BY <2>1, SMTT(30)
    <2> QED BY <2>1, <2>2
  <1>4. f \in [ids[c] -> Refs({c}, ids)] BY <1>2
  <1>5. IsInjective(f) BY DEF IsInjective
  <1>6. \A r \in Refs({c}, ids) : \E u \in ids[c] : f[u] = r BY <1>3
  <1>7. f \in Bijection(ids[c], Refs({c}, ids)) BY <1>4, <1>5, <1>6 DEF Bijection, Injection, Surjection
  <1>8. ExistsBijection(ids[c], Refs({c}, ids)) BY <1>7 DEF ExistsBijection
  <1> QED BY <1>1, <1>8, FS_Bijection

(* The subscriptions old with other users for c, which is W when it has any. *)
Replaced(c, old, new, W) ==
    /\ new[c] \subseteq Users /\ \A d \in Conns : d # c => new[d] = old[d]
    /\ W = IF new[c] = {} THEN {} ELSE {c}

(* A connection's references replaced by those for other users. *)
LEMMA RefsReplaced ==
  ASSUME NEW A, A \subseteq Conns, NEW c \in Conns, NEW old, NEW new, NEW W, Replaced(c, old, new, W)
  PROVE  Cardinality(Refs((A \ {c}) \cup W, new))
           = Cardinality(Refs(A, old)) - Cardinality(Refs({c} \cap A, old)) + Cardinality(new[c])
  <1>1. /\ new[c] \subseteq Users /\ \A d \in Conns : d # c => new[d] = old[d]
        /\ W = IF new[c] = {} THEN {} ELSE {c}
    BY DEF Replaced
  <1>2. Refs((A \ {c}) \cup W, new) = Refs(A \ {c}, old) \cup Refs({c}, new)
    <2>1. CASE new[c] = {}
      <3>1. Refs({c}, new) = {} BY <2>1 DEF Refs
      <3>2. Refs(A \ {c}, new) = Refs(A \ {c}, old) BY <1>1 DEF Refs
      <3>3. (A \ {c}) \cup W = A \ {c} BY <1>1, <2>1
      <3> QED BY <3>1, <3>2, <3>3
    <2>2. CASE new[c] # {}
      <3>1. Refs(A \ {c}, new) = Refs(A \ {c}, old) BY <1>1 DEF Refs
      <3>2. Refs((A \ {c}) \cup {c}, new) = Refs(A \ {c}, new) \cup Refs({c}, new) BY DEF Refs
      <3> QED BY <1>1, <2>2, <3>1, <3>2
    <2> QED BY <2>1, <2>2
  <1>3. Refs(A \ {c}, old) \cap Refs({c}, new) = {} BY DEF Refs
  <1>4. A \ {c} \subseteq Conns /\ {c} \subseteq Conns /\ {c} \cap A \subseteq Conns OBVIOUS
  <1>5. PICK x \in Nat : x = Cardinality(Refs(A \ {c}, old)) BY <1>4, RefsFinite
  <1>6. PICK y \in Nat : y = Cardinality(Refs({c}, new)) BY <1>4, RefsFinite
  <1>7. Cardinality(Refs(A \ {c}, old) \cup Refs({c}, new)) = x + y
    <2>1. Cardinality(Refs(A \ {c}, old) \cup Refs({c}, new)) = x + y - Cardinality({})
      BY <1>3, <1>4, <1>5, <1>6, RefsFinite, FS_Union
    <2>2. Cardinality({}) = 0 BY FS_EmptySet
    <2> QED BY <2>1, <2>2, SMTT(30)
  <1>8. x = Cardinality(Refs(A, old)) - Cardinality(Refs({c} \cap A, old)) BY <1>5, RefsRemoved
  <1>9. y = Cardinality(new[c]) BY <1>6, <1>1, RefsOfOne
  <1> QED BY <1>2, <1>7, <1>8, <1>9


-----------------------------------------------------------------------------
(* Steps that change neither the subscriptions nor the queue. *)

Quiet ==
    /\ UNCHANGED <<linked, revision, userIds, cancel, remark, ready, hold, active, byUser, due, refs, stopped, seen, owed>>
    /\ closing => closing'
    /\ \A c \in Conns : conn'[c] = "up" => conn[c] = "up"

(* Steps that leave queue, table and reads alone keep the invariant. *)
LEMMA QuietKeeps ==
  ASSUME OnlineInv, Quiet
  PROVE  QueueInv' /\ TableInv' /\ ScheduledInv'
  <1> USE DEF Quiet
  <1>1. QueueInv' BY DEF OnlineInv, QueueInv
  <1>2. TableInv'
    <2>1. RefsOf(active)' = RefsOf(active) BY DEF RefsOf
    <2> QED BY <2>1 DEF OnlineInv, TableInv
  <1>3. \A c \in Conns : Kept(c)' => Kept(c) BY DEF Kept
  <1>4. \A c : Queued(c)' <=> Queued(c) BY DEF Queued
  <1>5. ScheduledInv'
    <2> SUFFICES ASSUME NEW c \in Conns, Kept(c)'
                 PROVE  /\ c \in active' => Queued(c)' \/ cancel'[c]
                        /\ c \in owed' => (Queued(c)' /\ ready'[c] <= hold'[c]) \/ (cancel'[c] /\ remark'[c])
      BY DEF ScheduledInv
    <2>1. Kept(c) BY <1>3
    <2> QED BY <1>4, <2>1 DEF OnlineInv, ScheduledInv
  <1> QED BY <1>1, <1>2, <1>5

(* The dispatcher's view of a step that touches nothing it waits for. *)
LEMMA SleepStays ==
  ASSUME SleepInv, UNCHANGED <<due, ready, disp, reads, timer, tokens, wake>>, closing => closing'
  PROVE  SleepInv'
  BY DEF SleepInv

(* No worker has read anything new. *)
LEMMA SeenStays ==
  ASSUME OnlineInv, OnlineTyped', UNCHANGED seen, \A c \in Conns : revision[c] <= revision'[c], flips <= flips',
         \A w \in Workers : Reading(w)' /\ worker'[w].step = "finish" /\ worker'[w].result = "ok" =>
             /\ Reading(w) /\ worker[w].step = "finish" /\ worker[w].result = "ok"
             /\ worker'[w].sub = worker[w].sub /\ worker'[w].at = worker[w].at
  PROVE  SeenInv'
  <1>1. flips \in Nat /\ flips' \in Nat BY SMTT(30) DEF OnlineInv, OnlineTyped
  <1>2. ASSUME NEW c \in Conns PROVE seen'[c].revision <= revision'[c] /\ seen'[c].at <= flips'
    <2>1. seen[c] \in Snapshot /\ revision[c] \in 0 .. MaxRevision /\ revision'[c] \in 0 .. MaxRevision BY DEF OnlineInv, OnlineTyped
    <2>2. seen[c].revision \in Nat /\ seen[c].at \in Nat BY <2>1, SMTT(30) DEF Snapshot
    <2>3. seen[c].revision <= revision[c] /\ seen[c].at <= flips BY DEF OnlineInv, SeenInv
    <2>4. seen'[c] = seen[c] /\ revision[c] <= revision'[c] /\ flips <= flips' OBVIOUS
    <2> QED BY <1>1, <2>1, <2>2, <2>3, <2>4, SMTT(30)
  <1>3. ASSUME NEW w \in Workers, Reading(w)', worker'[w].step = "finish", worker'[w].result = "ok"
        PROVE  seen'[worker'[w].sub].at <= worker'[w].at /\ worker'[w].at <= flips'
    <2>1. /\ Reading(w) /\ worker[w].step = "finish" /\ worker[w].result = "ok"
          /\ worker'[w].sub = worker[w].sub /\ worker'[w].at = worker[w].at
      BY <1>3
    <2>2. seen[worker[w].sub].at <= worker[w].at /\ worker[w].at <= flips BY <2>1 DEF OnlineInv, SeenInv
    <2>3. worker[w] \in Job BY <2>1, InFlightFacts DEF OnlineInv, Reading
    <2>4. PICK n \in Nat : n = worker[w].at
      <3>1. worker[w].at \in 0 .. MaxFlips BY <2>3, JobFields
      <3> QED BY <3>1, SMTT(30)
    <2>5. n <= flips => n <= flips' BY <1>1, SMTT(30)
    <2> QED BY <2>1, <2>2, <2>4, <2>5
  <1> QED BY <1>2, <1>3 DEF SeenInv

(* An unchanged revision has not decreased. *)
LEMMA RevisionStays ==
  ASSUME OnlineTyped PROVE \A c \in Conns : revision[c] <= revision[c]
  <1>1. \A c \in Conns : revision[c] \in 0 .. MaxRevision BY DEF OnlineTyped
  <1> QED BY <1>1, SMTT(30)

(* An unchanged count of changes has not decreased. *)
LEMMA FlipsStay ==
  ASSUME OnlineTyped PROVE flips <= flips
  BY SMTT(30) DEF OnlineTyped

(* SendJobs. *)
LEMMA SendJobsKeeps == ASSUME OnlineInv, SendJobs PROVE OnlineInv'
  <1>1. /\ disp = "send" /\ jobs' = jobs \o outgoing /\ outgoing' = <<>> /\ disp' = "select"
        /\ UNCHANGED <<linked, revision, userIds, cancel, remark, lastSuccess, ready, hold, active, byUser, due, refs,
                       worker, reads, wake, timer, tokens, conn, closing, stopped, online, flips, seen, owed>>
    BY DEF SendJobs, subs, node, world
  <1>2. OnlineTyped'
    <2>1. jobs' \in Seq(Job) BY <1>1, PendingFacts DEF OnlineInv, OnlineTyped
    <2>2. outgoing' \in Seq(Job) BY <1>1, SMTT(30)
    <2> QED BY <1>1, <2>1, <2>2 DEF OnlineInv, OnlineTyped
  <1>3. Quiet BY <1>1 DEF Quiet
  <1>4. ReadInv'
    <2>1. PICK s \in Seq(Job) : s = Pending BY InFlightFacts DEF OnlineInv
    <2>2. Pending' = s \o <<>> BY <1>1, <2>1 DEF Pending
    <2>3. Len(s \o <<>>) = Len(s) /\ DOMAIN s = 1 .. Len(s) /\ \A i \in 1 .. Len(s) : (s \o <<>>)[i] = s[i] BY SMTT(30)
    <2>4. ReadsStay BY <1>1, <2>1, <2>2, <2>3 DEF ReadsStay, Reading, AtWork
    <2>5. ~stopped' BY <1>1 DEF OnlineInv, ReadInv
    <2> QED BY <1>1, <1>2, <2>4, <2>5, ReadsStayKeeps DEF OnlineInv
  <1>5. SleepInv' BY <1>1 DEF OnlineInv, SleepInv
  <1>6. SeenInv' BY <1>1, <1>2, SeenStays, RevisionStays, FlipsStay DEF OnlineInv, Reading, AtWork
  <1> QED BY <1>2, <1>3, <1>4, <1>5, <1>6, QuietKeeps DEF OnlineInv

(* Nothing happens to the reads. *)
LEMMA PoolStays ==
  ASSUME OnlineInv, OnlineTyped', UNCHANGED <<jobs, outgoing, worker, reads, cancel, stopped>>,
         disp' = disp \/ disp = "select"
  PROVE  ReadInv'
  <1>1. ReadsStay
    <2>1. Pending' = Pending BY DEF Pending
    <2> QED BY <2>1 DEF ReadsStay, Reading, AtWork
  <1>2. (outgoing' # <<>> => disp' = "send") /\ (stopped' => disp' = "done") BY DEF OnlineInv, ReadInv
  <1> QED BY <1>1, <1>2, ReadsStayKeeps DEF OnlineInv

(* The dispatcher leaves its select. *)
LEMMA WakingKeeps == ASSUME OnlineInv, Woken \/ TimerFires PROVE OnlineInv'
  <1>1. /\ disp = "select" /\ disp' = "pass" /\ wake' \in BOOLEAN /\ timer' \in {timer, NoTimer}
        /\ UNCHANGED <<linked, revision, userIds, cancel, remark, lastSuccess, ready, hold, active, byUser, due, refs,
                       jobs, outgoing, worker, reads, tokens, conn, closing, stopped, online, flips, seen, owed>>
    BY DEF Woken, TimerFires, subs, node, world, pool, OnlineInv, OnlineTyped
  <1>2. OnlineTyped' BY <1>1 DEF OnlineInv, OnlineTyped
  <1>3. Quiet BY <1>1 DEF Quiet
  <1>4. ReadInv' BY <1>1, <1>2, PoolStays
  <1>5. SleepInv' BY <1>1 DEF SleepInv
  <1>6. SeenInv' BY <1>1, <1>2, SeenStays, RevisionStays, FlipsStay DEF OnlineInv, Reading, AtWork
  <1> QED BY <1>2, <1>3, <1>4, <1>5, <1>6, QuietKeeps DEF OnlineInv

(* Connections end, Shutdown goes on, users come and go, or nothing happens. *)
LEMMA OutsideKeeps ==
  ASSUME OnlineInv, UNCHANGED <<subs, pool, loop, seen, owed, stopped>>,
         conn' \in [Conns -> {"up", "draining", "closed"}], \A c \in Conns : conn'[c] = "up" => conn[c] = "up",
         closing' \in BOOLEAN, closing => closing', flips' \in 0 .. MaxFlips, flips <= flips', online' \subseteq Users
  PROVE  OnlineInv'
  <1>1. UNCHANGED <<linked, revision, userIds, cancel, remark, lastSuccess, ready, hold, active, byUser, due, refs,
                    jobs, outgoing, worker, reads, wake, timer, disp, tokens, stopped, seen, owed>>
    BY DEF subs, pool, loop
  <1>2. OnlineTyped' BY <1>1 DEF OnlineInv, OnlineTyped
  <1>3. Quiet BY <1>1 DEF Quiet
  <1>4. ReadInv' BY <1>1, <1>2, PoolStays
  <1>5. SleepInv' BY <1>1, SleepStays DEF OnlineInv
  <1>6. SeenInv' BY <1>1, <1>2, SeenStays, RevisionStays DEF OnlineInv, Reading, AtWork
  <1> QED BY <1>2, <1>3, <1>4, <1>5, <1>6, QuietKeeps DEF OnlineInv

(* Drains, closes, the steps of Shutdown and the OnlineStore keep the invariant. *)
LEMMA EnvironmentKeeps ==
  ASSUME OnlineInv,
         \/ \E c \in Conns : drainConn(c) \/ closeConn(c)
         \/ \E w \in Workers : CloseFull(w)
         \/ ShutdownBegins \/ CancelRun \/ CancelNode
         \/ \E u \in Users : Flip(u)
         \/ UNCHANGED onlineVars
  PROVE  OnlineInv'
  <1>1. conn \in [Conns -> {"up", "draining", "closed"}] /\ closing \in BOOLEAN /\ flips \in 0 .. MaxFlips /\ online \subseteq Users
    BY DEF OnlineInv, OnlineTyped
  <1>2. flips <= flips BY FlipsStay DEF OnlineInv
  <1>3. ASSUME NEW c \in Conns, drainConn(c) \/ closeConn(c) PROVE OnlineInv'
    <2>1. PICK x \in {"draining", "closed"} : conn' = [conn EXCEPT ![c] = x] BY <1>3 DEF drainConn, closeConn
    <2>2. conn' \in [Conns -> {"up", "draining", "closed"}] /\ \A d \in Conns : conn'[d] = "up" => conn[d] = "up" BY <1>1, <2>1
    <2>3. UNCHANGED <<subs, pool, loop, closing, stopped, online, flips, seen, owed>> BY <1>3 DEF drainConn, closeConn, world
    <2> QED BY <1>1, <1>2, <2>2, <2>3, OutsideKeeps
  <1>4. ASSUME NEW w \in Workers, CloseFull(w) PROVE OnlineInv'
    <2>1. worker[w].sub \in Conns BY <1>4, InFlightFacts, JobFields DEF CloseFull, Working, OnlineInv
    <2> QED BY <1>3, <1>4, <2>1 DEF CloseFull
  <1>5. CASE ShutdownBegins \/ CancelRun \/ CancelNode
    <2>1. UNCHANGED <<subs, pool, loop, conn, stopped, online, flips, seen, owed>> /\ closing' \in {closing, TRUE}
      BY <1>5 DEF ShutdownBegins, CancelRun, CancelNode, world
    <2> QED BY <1>1, <1>2, <2>1, OutsideKeeps
  <1>6. ASSUME NEW u \in Users, Flip(u) PROVE OnlineInv'
    <2>1. UNCHANGED <<subs, pool, loop, conn, closing, stopped, seen, owed>> /\ flips < MaxFlips /\ flips' = flips + 1
          /\ online' \subseteq Users
      BY <1>1, <1>6 DEF Flip, node
    <2>2. flips' \in 0 .. MaxFlips /\ flips <= flips' BY <1>1, <2>1, OnlineAssumption, SMTT(30)
    <2> QED BY <1>1, <2>1, <2>2, OutsideKeeps
  <1>7. CASE UNCHANGED onlineVars
    <2>1. UNCHANGED <<subs, pool, loop, conn, closing, stopped, online, flips, seen, owed>> BY <1>7 DEF onlineVars, node, world
    <2> QED BY <1>1, <1>2, <2>1, OutsideKeeps
  <1> QED BY <1>3, <1>4, <1>5, <1>6, <1>7


-----------------------------------------------------------------------------
(* The workers. *)

(* A worker's step that leaves the table, the queue and the loop alone. *)
LEMMA WorkingKeeps ==
  ASSUME OnlineInv, NEW w \in Workers, NEW k \in Job \cup {NoJob, Exited}, worker' = [worker EXCEPT ![w] = k],
         jobs' \in Seq(Job), UNCHANGED <<subs, reads, loop, node, online, flips, seen, owed>>,
         ~(AtWork(w)' /\ k.step = "finish" /\ k.result = "ok") \/ (k.at = flips /\ k.sub \in Conns),
         OnlineTyped' => ReadInv'
  PROVE  OnlineInv'
  <1>1. UNCHANGED <<linked, revision, userIds, cancel, remark, lastSuccess, ready, hold, active, byUser, due, refs, reads,
                    outgoing, wake, timer, disp, tokens, conn, closing, stopped, online, flips, seen, owed>>
    BY DEF subs, loop, node
  <1>2. worker' \in [Workers -> Job \cup {NoJob, Exited}] /\ worker'[w] = k /\ \A v \in Workers : v # w => worker'[v] = worker[v]
    BY DEF OnlineInv, OnlineTyped
  <1>3. OnlineTyped' BY <1>1, <1>2 DEF OnlineInv, OnlineTyped
  <1>4. Quiet BY <1>1 DEF Quiet
  <1>5. SleepInv' BY <1>1, SleepStays DEF OnlineInv
  <1>6. SeenInv'
    <2>1. \A c \in Conns : seen'[c].revision <= revision'[c] /\ seen'[c].at <= flips' BY <1>1 DEF OnlineInv, SeenInv
    <2>2. ASSUME NEW v \in Workers, Reading(v)', worker'[v].step = "finish", worker'[v].result = "ok"
          PROVE  seen'[worker'[v].sub].at <= worker'[v].at /\ worker'[v].at <= flips'
      <3>1. CASE v = w
        <4>1. k.at = flips /\ k.sub \in Conns BY <1>2, <2>2, <3>1 DEF Reading
        <4>2. flips <= flips BY FlipsStay DEF OnlineInv
        <4> QED BY <1>1, <1>2, <2>1, <3>1, <4>1, <4>2
      <3>2. CASE v # w
        <4>1. worker'[v] = worker[v] /\ Reading(v) BY <1>2, <2>2, <3>2 DEF Reading, AtWork
        <4> QED BY <1>1, <2>2, <4>1 DEF OnlineInv, SeenInv
      <3> QED BY <3>1, <3>2
    <2> QED BY <2>1, <2>2 DEF SeenInv
  <1> QED BY <1>3, <1>4, <1>5, <1>6, QuietKeeps DEF OnlineInv

(* A worker goes on with its read, or without one. *)
LEMMA SameRead ==
  ASSUME OnlineInv, OnlineTyped', NEW w \in Workers, NEW k, worker' = [worker EXCEPT ![w] = k],
         UNCHANGED <<jobs, outgoing, cancel, reads, disp, stopped>>,
         \/ Reading(w) /\ k \in Job /\ k.step # "close" /\ k.sub = worker[w].sub
         \/ ~Reading(w) /\ k \in {NoJob, Exited}
  PROVE  ReadInv'
  <1>1. worker'[w] = k /\ \A v \in Workers : v # w => worker'[v] = worker[v] BY DEF OnlineInv, OnlineTyped
  <1>2. Pending' = Pending BY DEF Pending
  <1>3. ASSUME NEW v \in Workers PROVE (Reading(v)' <=> Reading(v)) /\ (Reading(v) => worker'[v].sub = worker[v].sub)
    <2>1. CASE v = w BY <1>1, <2>1, JobFields DEF Reading, AtWork
    <2>2. CASE v # w BY <1>1, <2>2 DEF Reading, AtWork
    <2> QED BY <2>1, <2>2
  <1>4. ReadsStay BY <1>2, <1>3 DEF ReadsStay
  <1>5. (outgoing' # <<>> => disp' = "send") /\ (stopped' => disp' = "done") BY DEF OnlineInv, ReadInv
  <1> QED BY <1>4, <1>5, ReadsStayKeeps DEF OnlineInv

(* A worker that takes a job, or whose read ends, keeps the invariant. *)
LEMMA ReadingKeeps ==
  ASSUME OnlineInv, NEW w \in Workers, Take(w) \/ ReadOk(w) \/ ReadError(w) \/ CloseFullEnds(w) \/ WorkerExits(w)
  PROVE  OnlineInv'
  <1>1. jobs \in Seq(Job) /\ outgoing \in Seq(Job) /\ flips \in 0 .. MaxFlips /\ online \subseteq Users
    BY DEF OnlineInv, OnlineTyped
  <1>2. CASE Take(w)
    <2>1. jobs # <<>> /\ jobs' = Tail(jobs) /\ worker' = [worker EXCEPT ![w] = [Head(jobs) EXCEPT !.step = "read"]]
          /\ UNCHANGED <<subs, reads, loop, node, online, flips, seen, owed>>
      BY <1>2 DEF Take, world
    <2>2. Head(jobs) \in Job /\ jobs' \in Seq(Job) BY <1>1, <2>1, SMTT(30)
    <2>3. PICK k \in Job : k = [Head(jobs) EXCEPT !.step = "read"] /\ k.step = "read" BY <2>2, StepJob
    <2>4. OnlineTyped' => ReadInv' BY <1>2, TakeKeeps DEF OnlineInv
    <2> QED BY <2>1, <2>2, <2>3, <2>4, WorkingKeeps
  <1>3. CASE ReadOk(w)
    <2>1. /\ AtWork(w) /\ worker[w].step = "read" /\ UNCHANGED <<subs, jobs, reads, loop, node, online, flips, seen, owed>>
          /\ worker' = [worker EXCEPT ![w] = Found(worker[w], online \cap worker[w].userIds, flips)]
      BY <1>3 DEF ReadOk, Working, world, OnlineInv, OnlineTyped, Found
    <2>2. worker[w] \in Job BY <2>1, InFlightFacts DEF OnlineInv
    <2>3. online \cap worker[w].userIds \in SUBSET Users BY <1>1
    <2>4. PICK k \in Job : k = Found(worker[w], online \cap worker[w].userIds, flips)
                           /\ k.sub = worker[w].sub /\ k.step = "finish" /\ k.at = flips
      BY <1>1, <2>2, <2>3, ReadJob
    <2>5. worker' = [worker EXCEPT ![w] = k] BY <2>1, <2>4
    <2>6. k.sub \in Conns BY JobFields
    <2>7. Reading(w) BY <2>1 DEF Reading
    <2>8. OnlineTyped' => ReadInv' BY <2>1, <2>4, <2>5, <2>7, SameRead DEF subs, loop, node
    <2>9. jobs' \in Seq(Job) BY <1>1, <2>1
    <2> QED BY <2>1, <2>4, <2>5, <2>6, <2>8, <2>9, WorkingKeeps
  <1>4. CASE ReadError(w)
    <2>1. PICK r \in {"cancelled", "failed"} :
          /\ AtWork(w) /\ worker[w].step = "read" /\ UNCHANGED <<subs, jobs, reads, loop, node, online, flips, seen, owed>>
          /\ worker' = [worker EXCEPT ![w] = Failed(worker[w], r)]
      <3>1. PICK r \in {"cancelled", "failed"} : r = IF ReadCancelled(worker[w]) THEN "cancelled" ELSE "failed" OBVIOUS
      <3> QED BY <1>4, <3>1 DEF ReadError, Working, OnlineInv, OnlineTyped, Failed
    <2>2. worker[w] \in Job /\ r \in {"none", "ok", "failed", "cancelled"} BY <2>1, InFlightFacts DEF OnlineInv
    <2>3. PICK k \in Job : k = Failed(worker[w], r) /\ k.sub = worker[w].sub /\ k.step = "finish" /\ k.result = r
      BY <2>2, FailedJob
    <2>4. worker' = [worker EXCEPT ![w] = k] BY <2>1, <2>3
    <2>5. k.result # "ok" BY <2>3
    <2>6. Reading(w) BY <2>1 DEF Reading
    <2>7. OnlineTyped' => ReadInv' BY <2>1, <2>3, <2>4, <2>6, SameRead DEF subs, loop, node
    <2>8. jobs' \in Seq(Job) BY <1>1, <2>1
    <2> QED BY <2>1, <2>4, <2>5, <2>7, <2>8, WorkingKeeps
  <1>5. CASE CloseFullEnds(w) \/ WorkerExits(w)
    <2>1. PICK k \in {NoJob, Exited} :
          worker' = [worker EXCEPT ![w] = k] /\ ~Reading(w) /\ UNCHANGED <<subs, jobs, reads, loop, node, online, flips, seen, owed>>
      BY <1>5 DEF CloseFullEnds, WorkerExits, Working, Reading, AtWork, world
    <2>2. OnlineTyped' => ReadInv' BY <2>1, SameRead DEF subs, loop, node
    <2>3. worker'[w] = k BY <2>1 DEF OnlineInv, OnlineTyped
    <2>4. ~AtWork(w)' BY <2>3 DEF AtWork
    <2>5. jobs' \in Seq(Job) BY <1>1, <2>1
    <2> QED BY <2>1, <2>2, <2>4, <2>5, WorkingKeeps
  <1> QED BY <1>2, <1>3, <1>4, <1>5

-----------------------------------------------------------------------------
(* Time passes. *)

(* Less counts down to 0 and keeps the order. *)
LEMMA LessFacts ==
  /\ \A n \in Nat : Less(n) \in Nat
  /\ \A m, n \in Nat : m <= n => Less(m) <= Less(n)
  /\ \A n \in Nat : n <= 1 => Less(n) = 0
  BY SMTT(30) DEF Less

(* The passing of time keeps the invariant. *)
LEMMA TickKeeps == ASSUME OnlineInv, Tick PROVE OnlineInv'
  <1>1. /\ ready' = [c \in Conns |-> Less(ready[c])] /\ hold' = [c \in Conns |-> Less(hold[c])]
        /\ timer' = (IF timer = NoTimer THEN NoTimer ELSE Less(timer)) /\ tokens' = FramesPerTick
        /\ UNCHANGED <<linked, revision, userIds, cancel, remark, active, byUser, due, refs, jobs, worker, reads, wake, disp, outgoing,
                       conn, closing, stopped, online, flips, seen, owed>>
    BY DEF Tick, pool, node, world
  <1>2. /\ ready \in [Conns -> Nat] /\ hold \in [Conns -> Nat] /\ timer \in Nat \cup {NoTimer} /\ NoTimer \notin Nat
        /\ FramesPerTick \in Nat /\ 0 < FramesPerTick /\ due \in Seq(Conns)
    BY OnlineAssumption DEF OnlineInv, OnlineTyped
  <1>3. ready' \in [Conns -> Nat] /\ hold' \in [Conns -> Nat] /\ timer' \in Nat \cup {NoTimer} /\ tokens' \in Nat
    BY <1>1, <1>2, LessFacts
  <1>4. OnlineTyped' BY <1>1, <1>3 DEF OnlineInv, OnlineTyped
  <1>5. \A c, d \in Conns : ready[c] <= ready[d] => ready'[c] <= ready'[d] BY <1>1, <1>2, LessFacts
  <1>6. QueueInv'
    <2>1. \A i \in DOMAIN due : due[i] \in Conns BY <1>2, SequenceParts
    <2>2. \A i, j \in DOMAIN due : i < j => due[i] # due[j] /\ ready[due[i]] <= ready[due[j]] BY DEF OnlineInv, QueueInv
    <2>3. \A i, j \in DOMAIN due : i < j => due[i] # due[j] /\ ready'[due[i]] <= ready'[due[j]] BY <1>5, <2>1, <2>2
    <2> QED BY <1>1, <2>3 DEF OnlineInv, QueueInv
  <1>7. TableInv'
    <2>1. RefsOf(active)' = RefsOf(active) BY <1>1 DEF RefsOf
    <2> QED BY <1>1, <2>1 DEF OnlineInv, TableInv
  <1>8. ReadInv' BY <1>1, <1>4, PoolStays
  <1>9. SleepInv'
    <2> SUFFICES ASSUME disp' \in {"send", "select"}, due' # <<>>, ~closing', ~wake', reads' # Cardinality(Workers)
                 PROVE  timer' # NoTimer /\ (timer' <= ready'[Head(due')] \/ (tokens' = 0 /\ timer' <= 1))
      BY DEF SleepInv
    <2>1. timer # NoTimer /\ (timer <= ready[Head(due)] \/ (tokens = 0 /\ timer <= 1))
      BY <1>1 DEF OnlineInv, SleepInv
    <2>2. Head(due) \in Conns BY <1>1, <1>2, SMTT(30)
    <2>3. timer \in Nat /\ timer' = Less(timer) BY <1>1, <1>2, <2>1
    <2>4. ready[Head(due)] \in Nat /\ ready'[Head(due)] = Less(ready[Head(due)]) BY <1>1, <1>2, <2>2
    <2>5. PICK t \in Nat : t = timer BY <2>3
    <2>6. PICK r \in Nat : r = ready[Head(due)] BY <2>4
    <2>7. t <= r \/ t <= 1 => Less(t) \in Nat /\ Less(t) <= Less(r) BY SMTT(30) DEF Less
    <2>8. Less(t) \in Nat /\ Less(t) <= Less(r) BY <2>1, <2>5, <2>6, <2>7
    <2> QED BY <1>1, <1>2, <2>3, <2>4, <2>5, <2>6, <2>8
  <1>10. ScheduledInv'
    <2> SUFFICES ASSUME NEW c \in Conns, Kept(c)'
                 PROVE  /\ c \in active' => Queued(c)' \/ cancel'[c]
                        /\ c \in owed' => (Queued(c)' /\ ready'[c] <= hold'[c]) \/ (cancel'[c] /\ remark'[c])
      BY DEF ScheduledInv
    <2>1. Kept(c) /\ (Queued(c)' <=> Queued(c)) BY <1>1 DEF Kept, Queued
    <2>2. ready[c] <= hold[c] => ready'[c] <= hold'[c] BY <1>1, <1>2, LessFacts
    <2> QED BY <1>1, <2>1, <2>2 DEF OnlineInv, ScheduledInv
  <1>11. SeenInv' BY <1>1, <1>4, SeenStays, RevisionStays, FlipsStay DEF OnlineInv, Reading, AtWork
  <1> QED BY <1>4, <1>6, <1>7, <1>8, <1>9, <1>10, <1>11 DEF OnlineInv


-----------------------------------------------------------------------------
(* A finished read. *)

(* A worker that reads is counted. *)
LEMMA ReadsPositive ==
  ASSUME OnlineInv, NEW w \in Workers, Reading(w)
  PROVE  reads - 1 \in Nat
  <1>1. PICK m \in Nat : m = Cardinality({v \in Workers : Reading(v)}) BY InFlightFacts DEF OnlineInv
  <1>2. m # 0
    <2>1. {v \in Workers : Reading(v)} # {} OBVIOUS
    <2> QED BY <1>1, <2>1, InFlightFacts, FS_EmptySet DEF OnlineInv
  <1>3. PICK n \in Nat : n = Len(Pending) BY InFlightFacts, SequenceParts DEF OnlineInv
  <1>4. reads = n + m BY <1>1, <1>3 DEF OnlineInv, ReadInv
  <1> QED BY <1>2, <1>4, SMTT(30)

(* What every finishOnlineRead does, and the next refresh of a             *)
(* subscription that is still wanted.                                      *)
LEMMA FinishKeeps ==
  ASSUME OnlineInv, NEW w \in Workers, NEW next \in {NoJob} \cup Job, next \in Job => next.step = "close",
         ReadEnds(w, next), seen' \in [Conns -> Snapshot],
         \/ ~Kept(worker[w].sub) /\ UNCHANGED <<due, ready, remark>>
         \/ Kept(worker[w].sub) /\ RequeueNext(worker[w].sub)
  PROVE  OnlineTyped' /\ QueueInv' /\ TableInv' /\ ReadInv' /\ SleepInv' /\ ScheduledInv'
  <1>1. /\ AtWork(w) /\ worker[w].step = "finish" /\ worker' = [worker EXCEPT ![w] = next] /\ reads' = reads - 1
        /\ cancel' = [cancel EXCEPT ![worker[w].sub] = FALSE] /\ wake' = TRUE
        /\ UNCHANGED <<linked, revision, userIds, hold, active, byUser, refs, jobs, timer, disp, outgoing, tokens, conn, closing, stopped,
                       online, flips, owed>>
    BY DEF ReadEnds, Working, node
  <1>2. PICK c \in Conns : c = worker[w].sub BY <1>1, InFlightFacts, JobFields DEF OnlineInv
  <1>3. Reading(w) BY <1>1 DEF Reading
  <1>4. cancel' \in [Conns -> BOOLEAN] /\ cancel'[c] = FALSE /\ \A d \in Conns : d # c => cancel'[d] = cancel[d]
    BY <1>1, <1>2 DEF OnlineInv, OnlineTyped
  <1>5. /\ due' \in Seq(Conns) /\ ready' \in [Conns -> Nat] /\ remark' \in [Conns -> BOOLEAN]
        /\ \A i, j \in DOMAIN due' : i < j => due'[i] # due'[j] /\ ready'[due'[i]] <= ready'[due'[j]]
        /\ \A d \in Conns : d # c => ready'[d] = ready[d] /\ remark'[d] = remark[d] /\ (Queued(d)' <=> Queued(d))
        /\ \A i \in DOMAIN due' : due'[i] \in active /\ (due'[i] = c \/ ~cancel[due'[i]])
        /\ Kept(c) => Queued(c)' /\ (remark[c] => ready'[c] <= hold[c])
    <2>1. due \in Seq(Conns) /\ ready \in [Conns -> Nat] /\ hold \in [Conns -> Nat] /\ remark \in [Conns -> BOOLEAN]
      BY DEF OnlineInv, OnlineTyped
    <2>2. /\ \A i, j \in DOMAIN due : i < j => due[i] # due[j] /\ ready[due[i]] <= ready[due[j]]
          /\ \A i \in DOMAIN due : due[i] \in active /\ ~cancel[due[i]]
      BY DEF OnlineInv, QueueInv
    <2>3. CASE ~Kept(worker[w].sub) /\ UNCHANGED <<due, ready, remark>> BY <1>2, <2>1, <2>2, <2>3 DEF Queued
    <2>4. CASE Kept(worker[w].sub) /\ RequeueNext(worker[w].sub)
      <3>1. requeue(Range(due), {c}, NextRefresh(c)) /\ remark' = Unremarked({c}) BY <1>2, <2>4 DEF RequeueNext
      <3>2. NextRefresh(c) \in Nat BY OnlineAssumption DEF NextRefresh
      <3>3. Range(due) \subseteq Conns
        <4>1. \A i \in DOMAIN due : due[i] \in Conns BY <2>1, SequenceParts
        <4> QED BY <4>1 DEF Range
      <3>4. /\ due' \in Seq(Conns) /\ ready' \in [Conns -> Nat]
            /\ Range(due') = Range(due) \cup {c}
            /\ \A i, j \in DOMAIN due' : i < j => due'[i] # due'[j] /\ ready'[due'[i]] <= ready'[due'[j]]
            /\ ready'[c] <= Earliest(c, NextRefresh(c))
            /\ \A d \in Conns : d \notin {c} => ready'[d] = ready[d]
        BY <3>1, <3>2, <3>3, RequeueFacts DEF OnlineInv
      <3>5. remark' \in [Conns -> BOOLEAN] /\ \A d \in Conns : d # c => remark'[d] = remark[d]
        BY <2>1, <3>1 DEF Unremarked
      <3>6. \A d : Queued(d)' <=> d = c \/ Queued(d) BY <3>4 DEF Queued
      <3>7. c \in active BY <1>2, <2>4 DEF Kept, OnlineInv, TableInv
      <3>8. \A d \in Range(due) : d \in active /\ ~cancel[d] BY <2>2 DEF Range
      <3>9. \A i \in DOMAIN due' : due'[i] \in active /\ (due'[i] = c \/ ~cancel[due'[i]])
        <4>1. \A i \in DOMAIN due' : due'[i] \in Range(due) \cup {c} BY <3>4 DEF Range
        <4> QED BY <3>7, <3>8, <4>1
      <3>10. remark[c] => ready'[c] <= hold[c]
        <4>1. remark[c] => NextRefresh(c) = 0 BY DEF NextRefresh
        <4>2. hold[c] \in Nat BY <2>1
        <4>3. Earliest(c, 0) = hold[c] BY <4>2, SMTT(30) DEF Earliest
        <4> QED BY <3>4, <4>1, <4>3
      <3> QED BY <3>4, <3>5, <3>6, <3>9, <3>10
    <2> QED BY <2>3, <2>4
  <1>6. OnlineTyped'
    <2>1. worker' \in [Workers -> Job \cup {NoJob, Exited}] BY <1>1 DEF OnlineInv, OnlineTyped
    <2>2. reads' \in Nat BY <1>1, <1>3, ReadsPositive
    <2> QED BY <1>1, <1>4, <1>5, <2>1, <2>2 DEF OnlineInv, OnlineTyped
  <1>7. QueueInv'
    <2>1. \A i \in DOMAIN due' : due'[i] \in Conns BY <1>5, SequenceParts
    <2>2. \A i \in DOMAIN due' : due'[i] \in active' /\ ~cancel'[due'[i]] BY <1>1, <1>4, <1>5, <2>1
    <2> QED BY <1>5, <2>2 DEF QueueInv
  <1>8. TableInv'
    <2>1. RefsOf(active)' = RefsOf(active) BY <1>1 DEF RefsOf
    <2> QED BY <1>1, <2>1 DEF OnlineInv, TableInv
  <1>9. ReadInv' /\ cancel[c]
    <2>1. ~(next \in Job /\ next.step # "close") OBVIOUS
    <2> QED BY <1>2, <1>6, <2>1, ReadEndsKeeps DEF OnlineInv
  <1>10. SleepInv' BY <1>1 DEF SleepInv
  <1>11. ScheduledInv'
    <2> SUFFICES ASSUME NEW d \in Conns, Kept(d)'
                 PROVE  /\ d \in active' => Queued(d)' \/ cancel'[d]
                        /\ d \in owed' => (Queued(d)' /\ ready'[d] <= hold'[d]) \/ (cancel'[d] /\ remark'[d])
      BY DEF ScheduledInv
    <2>1. Kept(d) BY <1>1 DEF Kept
    <2>2. /\ d \in active => Queued(d) \/ cancel[d]
          /\ d \in owed => (Queued(d) /\ ready[d] <= hold[d]) \/ (cancel[d] /\ remark[d])
      BY <2>1 DEF OnlineInv, ScheduledInv
    <2>3. CASE d # c BY <1>1, <1>4, <1>5, <2>2, <2>3
    <2>4. CASE d = c
      <3>1. ~Queued(c) BY <1>9 DEF OnlineInv, QueueInv, Queued, Range
      <3>2. Queued(c)' /\ (c \in owed => ready'[c] <= hold[c]) BY <1>5, <2>1, <2>2, <2>4, <3>1
      <3> QED BY <1>1, <2>4, <3>2
    <2> QED BY <2>3, <2>4
  <1> QED BY <1>6, <1>7, <1>8, <1>9, <1>10, <1>11

(* What a finished read tells its client is no older than what it knows.   *)
LEMMA SnapshotFacts ==
  ASSUME OnlineInv, NEW w \in Workers, AtWork(w), worker[w].step = "finish", SameRevision(worker[w]), NEW c, c = worker[w].sub,
         NEW s, s = SnapshotOf(worker[w])
  PROVE  /\ c \in Conns /\ s \in Snapshot
         /\ seen[c].revision <= s.revision /\ s.revision = revision[c]
         /\ seen[c].at <= s.at /\ s.at <= flips
         /\ worker[w].result = "ok" => s.at = worker[w].at
  <1>1. PICK j \in Job : j = worker[w] BY InFlightFacts DEF OnlineInv
  <1>2. j.sub = c /\ c \in Conns /\ j.revision \in 1 .. MaxRevision /\ j.at \in 0 .. MaxFlips /\ j.items \in SUBSET Users
    BY <1>1, JobFields
  <1>3. PICK t \in Snapshot : t = seen[c] BY <1>2 DEF OnlineInv, OnlineTyped
  <1>4. t.at \in 0 .. MaxFlips /\ t.revision \in 0 .. MaxRevision BY SMTT(30) DEF Snapshot
  <1>5. t.revision <= revision[c] /\ t.at <= flips BY <1>2, <1>3 DEF OnlineInv, SeenInv
  <1>6. j.revision = revision[c] BY <1>1, <1>2 DEF SameRevision
  <1>7. flips \in Nat BY SMTT(30) DEF OnlineInv, OnlineTyped
  <1>8. PICK a : a = IF j.result = "ok" THEN j.at ELSE t.at OBVIOUS
  <1>9. PICK u : u = IF j.result = "ok" THEN j.items ELSE {} OBVIOUS
  <1>10. PICK b \in BOOLEAN : b = (j.result # "ok") OBVIOUS
  <1>11. a \in 0 .. MaxFlips /\ u \in SUBSET Users BY <1>2, <1>4, <1>8, <1>9
  <1>12. t.at <= a /\ a <= flips /\ (j.result = "ok" => a = j.at)
    <2>1. CASE j.result = "ok"
      <3>1. Reading(w) BY DEF Reading
      <3>2. seen[worker[w].sub].at <= worker[w].at /\ worker[w].at <= flips BY <1>1, <2>1, <3>1 DEF OnlineInv, SeenInv
      <3> QED BY <1>1, <1>2, <1>3, <1>8, <2>1, <3>2
    <2>2. CASE j.result # "ok"
      <3>1. t.at <= t.at BY <1>4, SMTT(30)
      <3> QED BY <1>5, <1>8, <2>2, <3>1
    <2> QED BY <2>1, <2>2
  <1>13. PICK r \in 1 .. MaxRevision : r = j.revision BY <1>2
  <1>14. PICK k : k = [revision |-> r, items |-> u, stale |-> b, at |-> a] OBVIOUS
  <1>15. k \in Snapshot /\ k.revision = r /\ k.at = a
    <2>1. MaxRevision \in Nat BY OnlineAssumption
    <2>2. r \in 0 .. MaxRevision BY <2>1, SMTT(30)
    <2> QED BY <1>11, <1>14, <2>2, SMTT(30) DEF Snapshot
  <1>16. s = k BY <1>1, <1>2, <1>3, <1>8, <1>9, <1>10, <1>13, <1>14 DEF SnapshotOf
  <1> QED BY <1>1, <1>2, <1>3, <1>5, <1>6, <1>12, <1>13, <1>15, <1>16

(* The outcomes of finishOnlineRead. *)
LEMMA FinishSeen ==
  ASSUME OnlineInv, NEW w \in Workers, NEW next \in {NoJob} \cup Job, next \in Job => next.step = "close",
         ReadEnds(w, next), OnlineTyped',
         \/ seen' = seen
         \/ SameRevision(worker[w]) /\ seen' = [seen EXCEPT ![worker[w].sub] = SnapshotOf(worker[w])]
  PROVE  SeenInv'
  <1>1. /\ AtWork(w) /\ worker[w].step = "finish" /\ worker' = [worker EXCEPT ![w] = next] /\ UNCHANGED <<revision, flips>>
    BY DEF ReadEnds, Working
  <1>2. worker'[w] = next /\ \A v \in Workers : v # w => worker'[v] = worker[v] BY <1>1 DEF OnlineInv, OnlineTyped
  <1>3. ASSUME NEW v \in Workers, Reading(v)' PROVE v # w /\ worker'[v] = worker[v] /\ Reading(v)
    <2>1. v # w BY <1>2, <1>3, InFlightNext DEF Reading, AtWork
    <2> QED BY <1>2, <1>3, <2>1 DEF Reading, AtWork
  <1>4. CASE seen' = seen BY <1>1, <1>3, <1>4 DEF OnlineInv, SeenInv
  <1>5. CASE SameRevision(worker[w]) /\ seen' = [seen EXCEPT ![worker[w].sub] = SnapshotOf(worker[w])]
    <2>1. PICK c : c = worker[w].sub OBVIOUS
    <2>2. PICK s : s = SnapshotOf(worker[w]) OBVIOUS
    <2>3. /\ c \in Conns /\ s \in Snapshot /\ s.revision = revision[c] /\ s.at <= flips
      BY <1>1, <1>5, <2>1, <2>2, SnapshotFacts
    <2>4. seen'[c] = s /\ \A d \in Conns : d # c => seen'[d] = seen[d] BY <1>5, <2>1, <2>2, <2>3 DEF OnlineInv, OnlineTyped
    <2>5. ASSUME NEW d \in Conns PROVE seen'[d].revision <= revision'[d] /\ seen'[d].at <= flips'
      <3>1. revision[d] <= revision[d] BY RevisionStays DEF OnlineInv
      <3> QED BY <1>1, <2>3, <2>4, <3>1 DEF OnlineInv, SeenInv
    <2>6. ASSUME NEW v \in Workers, Reading(v)', worker'[v].step = "finish", worker'[v].result = "ok"
          PROVE  seen'[worker'[v].sub].at <= worker'[v].at /\ worker'[v].at <= flips'
      <3>1. v # w /\ worker'[v] = worker[v] /\ Reading(v) BY <1>3, <2>6
      <3>2. worker[v].sub \in Conns BY <3>1, InFlightFacts, JobFields DEF OnlineInv, Reading
      <3>3. worker[v].sub # c
        <4>1. Reading(w) BY <1>1 DEF Reading
        <4>2. worker[v].sub = c => v \in InFlight(c) /\ w \in InFlight(c) BY <2>1, <3>1, <4>1, InFlightFacts DEF OnlineInv
        <4> QED BY <2>3, <3>1, <4>2 DEF OnlineInv, ReadInv, OneRead
      <3> QED BY <1>1, <2>4, <2>6, <3>1, <3>2, <3>3 DEF OnlineInv, SeenInv
    <2> QED BY <2>5, <2>6 DEF SeenInv
  <1> QED BY <1>4, <1>5

(* Every outcome of finishOnlineRead keeps the invariant. *)
LEMMA FinishingKeeps ==
  ASSUME OnlineInv, NEW w \in Workers,
         FinishDropped(w) \/ FinishReplaced(w) \/ FinishSilent(w) \/ \E o \in {"queued", "dropped", "full"} : FinishSend(w, o)
  PROVE  OnlineInv'
  <1>1. seen \in [Conns -> Snapshot] BY DEF OnlineInv, OnlineTyped
  <1>2. CASE FinishDropped(w) \/ FinishReplaced(w) \/ FinishSilent(w)
    <2>1. /\ ReadEnds(w, NoJob) /\ seen' = seen
          /\ \/ ~Kept(worker[w].sub) /\ UNCHANGED <<due, ready, remark>>
             \/ Kept(worker[w].sub) /\ RequeueNext(worker[w].sub)
      BY <1>2 DEF FinishDropped, FinishReplaced, FinishSilent
    <2>2. NoJob \in {NoJob} \cup Job /\ ~(NoJob \in Job) BY OnlineAssumption
    <2>3. seen' \in [Conns -> Snapshot] BY <1>1, <2>1
    <2>4. OnlineTyped' /\ QueueInv' /\ TableInv' /\ ReadInv' /\ SleepInv' /\ ScheduledInv' BY <2>1, <2>2, <2>3, FinishKeeps
    <2>5. SeenInv' BY <2>1, <2>2, <2>4, FinishSeen
    <2> QED BY <2>4, <2>5 DEF OnlineInv
  <1>3. ASSUME NEW o \in {"queued", "dropped", "full"}, FinishSend(w, o) PROVE OnlineInv'
    <2>1. PICK next : next = IF o = "full" THEN [worker[w] EXCEPT !.step = "close"] ELSE NoJob OBVIOUS
    <2>2. /\ ReadEnds(w, next) /\ Kept(worker[w].sub) /\ SameRevision(worker[w]) /\ RequeueNext(worker[w].sub)
          /\ seen' = seen \/ seen' = [seen EXCEPT ![worker[w].sub] = SnapshotOf(worker[w])]
      BY <1>3, <2>1 DEF FinishSend
    <2>3. AtWork(w) /\ worker[w].step = "finish" BY <2>2 DEF ReadEnds, Working
    <2>4. worker[w] \in Job BY <2>3, InFlightFacts DEF OnlineInv
    <2>5. next \in {NoJob} \cup Job /\ (next \in Job => next.step = "close")
      <3>1. NoJob \notin Job BY OnlineAssumption
      <3>2. CASE o = "full" BY <2>1, <2>4, <3>2, StepJob
      <3>3. CASE o # "full" BY <2>1, <3>1, <3>3
      <3> QED BY <3>2, <3>3
    <2>6. seen' \in [Conns -> Snapshot]
      <3>1. PICK s \in Snapshot : s = SnapshotOf(worker[w]) BY <2>2, <2>3, SnapshotFacts
      <3>2. seen' = seen \/ seen' = [seen EXCEPT ![worker[w].sub] = s] BY <2>2, <3>1
      <3> QED BY <1>1, <3>2
    <2>7. OnlineTyped' /\ QueueInv' /\ TableInv' /\ ReadInv' /\ SleepInv' /\ ScheduledInv' BY <2>2, <2>5, <2>6, FinishKeeps
    <2>8. SeenInv' BY <2>2, <2>5, <2>7, FinishSeen
    <2> QED BY <2>7, <2>8 DEF OnlineInv
  <1> QED BY <1>2, <1>3


-----------------------------------------------------------------------------
(* A pass of the dispatcher. *)

(* r is what is left of the sequence s without its first k entries. *)
Suffix(s, k, r) ==
    /\ DOMAIN r = 1 .. Len(s) - k
    /\ \A i \in DOMAIN r : r[i] = s[k + i] /\ k + i \in DOMAIN s /\ k + i \notin 1 .. k
    /\ \A i \in DOMAIN s : i \notin 1 .. k => \E j \in DOMAIN r : i = k + j
    /\ \A i, j \in DOMAIN r : i < j => k + i < k + j
    /\ r # <<>> => k # Len(s) /\ k < Len(s) /\ k + 1 \in DOMAIN s /\ Head(r) = s[k + 1]

(* What a queue keeps of its order when its first entries are popped. *)
LEMMA SuffixFacts ==
  ASSUME NEW T, NEW s \in Seq(T), NEW k \in 0 .. Len(s), NEW r, r = SubSeq(s, k + 1, Len(s))
  PROVE  r \in Seq(T) /\ Suffix(s, k, r)
  <1>1. r \in Seq(T) /\ Len(r) = Len(s) - k /\ DOMAIN r = 1 .. Len(s) - k BY SMTT(30)
  <1>2. \A i \in 1 .. Len(s) - k : r[i] = s[k + i] /\ k + i \in DOMAIN s /\ k + i \notin 1 .. k BY SMTT(30)
  <1>3. \A i \in DOMAIN s : i \notin 1 .. k => \E j \in 1 .. Len(s) - k : i = k + j
    <2> SUFFICES ASSUME NEW i \in DOMAIN s, i \notin 1 .. k PROVE \E j \in 1 .. Len(s) - k : i = k + j OBVIOUS
    <2>1. i - k \in 1 .. Len(s) - k /\ i = k + (i - k) BY SMTT(30)
    <2> QED BY <2>1
  <1>4. \A i, j \in 1 .. Len(s) - k : i < j => k + i < k + j BY SMTT(30)
  <1>5. ASSUME r # <<>> PROVE k # Len(s) /\ k < Len(s) /\ k + 1 \in DOMAIN s /\ Head(r) = s[k + 1]
    <2>1. k # Len(s) /\ k < Len(s) /\ k + 1 \in DOMAIN s /\ 1 \in 1 .. Len(s) - k BY <1>1, <1>5, SMTT(30)
    <2>2. Head(r) = r[1] BY <1>1, <1>5, SMTT(30)
    <2> QED BY <1>2, <2>1, <2>2
  <1> QED BY <1>1, <1>2, <1>3, <1>4, <1>5 DEF Suffix

(* A pass that admits k entries keeps the invariant. *)
LEMMA DispatchedKeeps ==
  ASSUME OnlineInv, NEW k \in 0 .. Len(due), Dispatched(k)
  PROVE  OnlineInv'
  <1>1. /\ k \in Nat /\ Len(due) \in Nat /\ k <= Len(due) /\ DOMAIN due = 1 .. Len(due) /\ 1 .. k \subseteq DOMAIN due
        /\ \A i \in 1 .. k : due[i] \in Conns /\ due[i] \in active /\ ~cancel[due[i]]
        /\ \A i, j \in DOMAIN due : due[i] = due[j] => i = j
        /\ ~stopped /\ reads + k <= Cardinality(Workers) /\ k <= tokens
    BY DispatchNumbers DEF OnlineInv
  <1>2. PICK A : A = {due[i] : i \in 1 .. k} OBVIOUS
  <1>3. /\ Admits(k) /\ outgoing' = [i \in 1 .. k |-> NewJob(due[i])] /\ due' = SubSeq(due, k + 1, Len(due))
        /\ reads' = reads + k /\ tokens' = tokens - k
        /\ cancel' = [c \in Conns |-> c \in A \/ cancel[c]]
        /\ remark' = [c \in Conns |-> c \notin A /\ remark[c]]
        /\ hold' = [c \in Conns |-> IF c \in A THEN MinInterval ELSE hold[c]]
        /\ timer' = WaitFor(k) /\ owed' = owed \ A
        /\ UNCHANGED <<linked, revision, userIds, lastSuccess, ready, active, byUser, refs, jobs, worker, wake,
                       conn, closing, stopped, online, flips, seen>>
    BY <1>2 DEF Dispatched, node, world
  <1>4. /\ due \in Seq(Conns) /\ ready \in [Conns -> Nat] /\ hold \in [Conns -> Nat] /\ cancel \in [Conns -> BOOLEAN]
        /\ remark \in [Conns -> BOOLEAN] /\ reads \in Nat /\ tokens \in Nat
    BY DEF OnlineInv, OnlineTyped
  <1>5. /\ due' \in Seq(Conns)
        /\ \A i \in DOMAIN due' : due'[i] = due[k + i] /\ k + i \in DOMAIN due /\ k + i \notin 1 .. k
        /\ \A i \in DOMAIN due : i \notin 1 .. k => \E j \in DOMAIN due' : i = k + j
        /\ \A i, j \in DOMAIN due' : i < j => k + i < k + j
        /\ due' # <<>> => k # Len(due) /\ k < Len(due) /\ k + 1 \in DOMAIN due /\ Head(due') = due[k + 1]
    <2>1. PICK s \in Seq(Conns) : s = due BY <1>4
    <2>2. PICK r : r = SubSeq(s, k + 1, Len(s)) OBVIOUS
    <2>3. k \in 0 .. Len(s) BY <2>1
    <2>4. r \in Seq(Conns) /\ Suffix(s, k, r) BY <2>2, <2>3, SuffixFacts
    <2>5. r = due' BY <1>3, <2>1, <2>2
    <2> QED BY <2>1, <2>4, <2>5 DEF Suffix
  <1>6. OnlineTyped'
    <2>1. outgoing' \in Seq(Job)
      <3>1. \A i \in 1 .. k : NewJob(due[i]) \in Job BY <1>1, NewJobFacts DEF OnlineInv
      <3>2. outgoing' \in [1 .. k -> Job] BY <1>3, <3>1
      <3> QED BY <1>1, <3>2, FunctionIsSequence
    <2>2. reads' \in Nat /\ tokens' \in Nat BY <1>1, <1>3, <1>4, SMTT(30)
    <2>3. cancel' \in [Conns -> BOOLEAN] /\ remark' \in [Conns -> BOOLEAN] BY <1>3, <1>4
    <2>4. hold' \in [Conns -> Nat] BY <1>3, <1>4, OnlineAssumption
    <2>5. timer' \in Nat \cup {NoTimer}
      <3>1. CASE k = Len(due) BY <1>3, <3>1 DEF WaitFor
      <3>2. CASE k # Len(due)
        <4>1. k + 1 \in DOMAIN due
          <5>1. PICK n \in Nat : n = Len(due) /\ k <= n /\ k # n BY <1>1, <3>2
          <5>2. k \in Nat /\ k <= n /\ k # n BY <1>1, <5>1
          <5>3. k + 1 \in 1 .. n BY <5>2, SMTT(30)
          <5> QED BY <1>1, <5>1, <5>3
        <4>2. ready[due[k + 1]] \in Nat BY <1>4, <4>1, SequenceParts
        <4> QED BY <1>3, <4>2 DEF WaitFor
      <3> QED BY <3>1, <3>2
    <2>6. owed' \subseteq Conns BY <1>3 DEF OnlineInv, OnlineTyped
    <2> QED BY <1>3, <1>5, <2>1, <2>2, <2>3, <2>4, <2>5, <2>6 DEF OnlineInv, OnlineTyped
  <1>7. QueueInv'
    <2>1. /\ \A i, j \in DOMAIN due : i < j => due[i] # due[j] /\ ready[due[i]] <= ready[due[j]]
          /\ \A i \in DOMAIN due : due[i] \in active /\ ~cancel[due[i]]
      BY DEF OnlineInv, QueueInv
    <2>2. ASSUME NEW i \in DOMAIN due' PROVE due'[i] \in active' /\ ~cancel'[due'[i]]
      <3>1. PICK m \in DOMAIN due : m = k + i /\ due'[i] = due[m] /\ m \notin 1 .. k BY <1>5, <2>2
      <3>2. due[m] \notin A BY <1>1, <1>2, <3>1
      <3>3. due[m] \in Conns BY <1>4, SequenceParts
      <3> QED BY <1>3, <2>1, <3>1, <3>2, <3>3
    <2>3. \A i, j \in DOMAIN due' : i < j => due'[i] # due'[j] /\ ready'[due'[i]] <= ready'[due'[j]]
      <3> SUFFICES ASSUME NEW i \in DOMAIN due', NEW j \in DOMAIN due', i < j
                   PROVE  due'[i] # due'[j] /\ ready'[due'[i]] <= ready'[due'[j]]
        OBVIOUS
      <3>1. PICK m \in DOMAIN due : m = k + i /\ due'[i] = due[m] BY <1>5
      <3>2. PICK n \in DOMAIN due : n = k + j /\ due'[j] = due[n] BY <1>5
      <3>3. m < n BY <1>5, <3>1, <3>2
      <3> QED BY <1>3, <2>1, <3>1, <3>2, <3>3
    <2> QED BY <2>2, <2>3 DEF QueueInv
  <1>8. TableInv'
    <2>1. RefsOf(active)' = RefsOf(active) BY <1>3 DEF RefsOf
    <2> QED BY <1>3, <2>1 DEF OnlineInv, TableInv
  <1>9. ReadInv' BY <1>6, DispatchReads DEF OnlineInv
  <1>10. SleepInv'
    <2> SUFFICES ASSUME due' # <<>>, ~closing', reads' # Cardinality(Workers)
                 PROVE  timer' # NoTimer /\ (timer' <= ready'[Head(due')] \/ (tokens' = 0 /\ timer' <= 1))
      BY DEF SleepInv
    <2>1. ~closing /\ ~stopped /\ reads + k # Cardinality(Workers) BY <1>1, <1>3
    <2>2. k # Len(due) /\ k < Len(due) /\ k + 1 \in DOMAIN due /\ Head(due') = due[k + 1] BY <1>5
    <2>3. PICK r \in Nat : r = ready[due[k + 1]] BY <1>4, <2>2, SequenceParts
    <2>4. r > 0 \/ k = tokens BY <1>3, <2>1, <2>2, <2>3 DEF Admits
    <2>5. timer' = IF r > 0 THEN r ELSE 1 BY <1>3, <2>1, <2>2, <2>3 DEF WaitFor
    <2>6. timer' \in Nat BY <2>5, SMTT(30)
    <2>7. r <= r /\ 1 <= 1 /\ (k = tokens => tokens - k = 0) BY <1>4, SMTT(30)
    <2>8. ready'[Head(due')] = r BY <1>3, <2>2, <2>3
    <2>9. timer' # NoTimer BY <2>6, OnlineAssumption
    <2>10. CASE r > 0 BY <2>5, <2>7, <2>8, <2>9, <2>10
    <2>11. CASE ~(r > 0) BY <1>3, <2>4, <2>5, <2>7, <2>9, <2>11
    <2> QED BY <2>10, <2>11
  <1>11. ScheduledInv'
    <2> SUFFICES ASSUME NEW c \in Conns, Kept(c)'
                 PROVE  /\ c \in active' => Queued(c)' \/ cancel'[c]
                        /\ c \in owed' => (Queued(c)' /\ ready'[c] <= hold'[c]) \/ (cancel'[c] /\ remark'[c])
      BY DEF ScheduledInv
    <2>1. Kept(c) BY <1>3 DEF Kept
    <2>2. /\ c \in active => Queued(c) \/ cancel[c]
          /\ c \in owed => (Queued(c) /\ ready[c] <= hold[c]) \/ (cancel[c] /\ remark[c])
      BY <2>1 DEF OnlineInv, ScheduledInv
    <2>3. CASE c \in A BY <1>3, <2>3
    <2>4. CASE c \notin A
      <3>1. ASSUME Queued(c) PROVE Queued(c)'
        <4>1. PICK i \in DOMAIN due : due[i] = c BY <3>1 DEF Queued, Range
        <4>2. i \notin 1 .. k BY <1>2, <2>4, <4>1
        <4>3. PICK j \in DOMAIN due' : i = k + j BY <1>5, <4>2
        <4>4. due'[j] = c BY <1>5, <4>1, <4>3
        <4> QED BY <4>4 DEF Queued, Range
      <3>2. cancel'[c] = cancel[c] /\ remark'[c] = remark[c] /\ hold'[c] = hold[c] BY <1>3, <1>4, <2>4
      <3> QED BY <1>3, <2>2, <3>1, <3>2
    <2> QED BY <2>3, <2>4
  <1>12. SeenInv' BY <1>3, <1>6, SeenStays, RevisionStays, FlipsStay DEF OnlineInv, Reading, AtWork
  <1> QED BY <1>6, <1>7, <1>8, <1>9, <1>10, <1>11, <1>12 DEF OnlineInv

(* dispatchOnline keeps the invariant. *)
LEMMA DispatchKeeps == ASSUME OnlineInv, dispatchOnline PROVE OnlineInv'
  <1>1. PICK k \in 0 .. Len(due) : Dispatched(k) BY DEF dispatchOnline, Dispatched
  <1> QED BY <1>1, DispatchedKeeps


-----------------------------------------------------------------------------
(* Subscribing, unsubscribing and events. *)

(* The reads of some connections are cancelled where they are. *)
LEMMA CancelReadsKeeps ==
  ASSUME OnlineInv, outgoing = <<>>, NEW S, CancelReads(S)
  PROVE  /\ jobs' \in Seq(Job) /\ Len(jobs') = Len(jobs) /\ \A i \in 1 .. Len(jobs) : jobs'[i].sub = jobs[i].sub
         /\ worker' \in [Workers -> Job \cup {NoJob, Exited}]
         /\ \A w \in Workers : IF AtWork(w)
                               THEN /\ AtWork(w)' /\ worker'[w].sub = worker[w].sub /\ worker'[w].step = worker[w].step
                                    /\ worker'[w].result = worker[w].result /\ worker'[w].at = worker[w].at
                               ELSE ~AtWork(w)'
  <1>1. /\ jobs' = [i \in DOMAIN jobs |-> CancelIf(jobs[i], S)]
        /\ worker' = [w \in Workers |-> IF AtWork(w) THEN CancelIf(worker[w], S) ELSE worker[w]]
    BY DEF CancelReads
  <1>2. jobs' \in Seq(Job) /\ Len(jobs') = Len(jobs) /\ \A i \in 1 .. Len(jobs) : jobs'[i].sub = jobs[i].sub
    <2>1. PICK n \in Nat : n = Len(jobs) /\ DOMAIN jobs = 1 .. n /\ \A i \in 1 .. n : jobs[i] \in Job
      BY SequenceParts DEF OnlineInv, OnlineTyped
    <2>2. \A i \in 1 .. n : jobs'[i] = CancelIf(jobs[i], S) BY <1>1, <2>1
    <2>3. \A i \in 1 .. n : CancelIf(jobs[i], S) \in Job /\ CancelIf(jobs[i], S).sub = jobs[i].sub BY <2>1, CancelJob
    <2>4. jobs' \in [1 .. n -> Job] BY <1>1, <2>1, <2>3
    <2> QED BY <2>1, <2>2, <2>3, <2>4, FunctionIsSequence
  <1>3. ASSUME NEW w \in Workers, AtWork(w)
        PROVE  /\ worker'[w] \in Job /\ AtWork(w)' /\ worker'[w].sub = worker[w].sub /\ worker'[w].step = worker[w].step
               /\ worker'[w].result = worker[w].result /\ worker'[w].at = worker[w].at
    <2>1. worker[w] \in Job BY <1>3, InFlightFacts DEF OnlineInv
    <2>2. worker'[w] = CancelIf(worker[w], S) BY <1>1, <1>3
    <2>3. worker'[w] \in Job BY <2>1, <2>2, CancelJob
    <2>4. AtWork(w)' BY <2>3, JobFields DEF AtWork
    <2>5. /\ CancelIf(worker[w], S).sub = worker[w].sub /\ CancelIf(worker[w], S).step = worker[w].step
          /\ CancelIf(worker[w], S).result = worker[w].result /\ CancelIf(worker[w], S).at = worker[w].at
      BY <2>1, CancelJob
    <2> QED BY <2>2, <2>3, <2>4, <2>5
  <1>4. ASSUME NEW w \in Workers, ~AtWork(w) PROVE worker'[w] \in {NoJob, Exited} /\ ~AtWork(w)'
    BY <1>1, <1>4 DEF AtWork
  <1>5. worker' \in [Workers -> Job \cup {NoJob, Exited}]
    <2>1. \A w \in Workers : worker'[w] \in Job \cup {NoJob, Exited} BY <1>3, <1>4
    <2>2. \A w \in Workers : (IF AtWork(w) THEN CancelIf(worker[w], S) ELSE worker[w]) \in Job \cup {NoJob, Exited}
      BY <1>1, <2>1
    <2> QED BY <1>1, <2>2
  <1> QED BY <1>2, <1>3, <1>4, <1>5

(* Cancelling moves no read. *)
LEMMA CancelReadsReads ==
  ASSUME OnlineInv, OnlineTyped', outgoing = <<>>, NEW S, CancelReads(S), UNCHANGED <<outgoing, reads, cancel>>,
         stopped' => disp' = "done"
  PROVE  ReadInv'
  <1>1. /\ Len(jobs') = Len(jobs) /\ \A i \in 1 .. Len(jobs) : jobs'[i].sub = jobs[i].sub
        /\ \A w \in Workers : IF AtWork(w)
                              THEN AtWork(w)' /\ worker'[w].sub = worker[w].sub /\ worker'[w].step = worker[w].step
                              ELSE ~AtWork(w)'
    BY CancelReadsKeeps
  <1>2. /\ Len(Pending) = Len(jobs) /\ \A i \in 1 .. Len(jobs) : Pending[i] = jobs[i]
        /\ Len(Pending') = Len(jobs') /\ \A i \in 1 .. Len(jobs') : Pending'[i] = jobs'[i]
    <2>1. jobs \in Seq(Job) /\ Pending = jobs \o <<>> /\ jobs' \in Seq(Job) /\ Pending' = jobs' \o <<>>
      BY DEF OnlineInv, OnlineTyped, Pending
    <2>2. \A s \in Seq(Job) : Len(s \o <<>>) = Len(s) /\ \A i \in 1 .. Len(s) : (s \o <<>>)[i] = s[i] BY SMTT(30)
    <2> QED BY <2>1, <2>2
  <1>3. ReadsStay
    <2>1. \A w \in Workers : Reading(w)' <=> Reading(w) BY <1>1 DEF Reading
    <2>2. \A w \in Workers : Reading(w) => worker'[w].sub = worker[w].sub BY <1>1 DEF Reading
    <2>3. Len(Pending') = Len(Pending) /\ \A i \in 1 .. Len(Pending) : Pending'[i].sub = Pending[i].sub BY <1>1, <1>2
    <2>4. DOMAIN Pending = 1 .. Len(Pending) BY InFlightFacts, SequenceParts DEF OnlineInv
    <2> QED BY <2>1, <2>2, <2>3, <2>4 DEF ReadsStay
  <1>4. outgoing' # <<>> => disp' = "send" OBVIOUS
  <1> QED BY <1>3, <1>4, ReadsStayKeeps DEF OnlineInv

(* A cancelled read answers as before. *)
LEMMA CancelReadsSeen ==
  ASSUME OnlineInv, OnlineTyped', outgoing = <<>>, NEW S, CancelReads(S), UNCHANGED <<seen, flips>>,
         \A c \in Conns : revision[c] <= revision'[c]
  PROVE  SeenInv'
  <1>1. \A w \in Workers : Reading(w)' /\ worker'[w].step = "finish" /\ worker'[w].result = "ok" =>
             /\ Reading(w) /\ worker[w].step = "finish" /\ worker[w].result = "ok"
             /\ worker'[w].sub = worker[w].sub /\ worker'[w].at = worker[w].at
    BY CancelReadsKeeps DEF Reading
  <1> QED BY <1>1, SeenStays, FlipsStay DEF OnlineInv

(* A queue after mark wakes the dispatcher when it sleeps for too long. *)
LEMMA MarkSleeps ==
  ASSUME OnlineInv, NEW E, E \subseteq Range(due), NEW rm \in [Conns -> BOOLEAN], NEW S, S \subseteq Conns, mark(E, rm, S),
         UNCHANGED <<reads, timer, tokens, closing>>, disp' = disp \/ disp' = "done"
  PROVE  SleepInv'
  <1> SUFFICES ASSUME disp' \in {"send", "select"}, due' # <<>>, ~closing', ~wake', reads' # Cardinality(Workers)
               PROVE  timer' # NoTimer /\ (timer' <= ready'[Head(due')] \/ (tokens' = 0 /\ timer' <= 1))
    BY DEF SleepInv
  <1>1. /\ due' \in Seq(Conns) /\ ready' \in [Conns -> Nat] /\ (wake => wake')
        /\ due' # <<>> /\ ~wake' => due # <<>> /\ ready[Head(due)] <= ready'[Head(due')]
    BY MarkFacts DEF OnlineInv, Marked
  <1>2. due # <<>> /\ ready[Head(due)] <= ready'[Head(due')] BY <1>1
  <1>3. timer # NoTimer /\ (timer <= ready[Head(due)] \/ (tokens = 0 /\ timer <= 1)) BY <1>1, <1>2 DEF OnlineInv, SleepInv
  <1>4. due \in Seq(Conns) /\ ready \in [Conns -> Nat] /\ timer \in Nat \cup {NoTimer} BY DEF OnlineInv, OnlineTyped
  <1>5. PICK a \in Nat : a = ready[Head(due)] BY <1>2, <1>4, SMTT(30)
  <1>6. PICK b \in Nat : b = ready'[Head(due')] BY <1>1, SMTT(30)
  <1>7. PICK t \in Nat : t = timer BY <1>3, <1>4
  <1>8. t <= a /\ a <= b => t <= b BY SMTT(30)
  <1> QED BY <1>2, <1>3, <1>5, <1>6, <1>7, <1>8

(* mark queues what has no read, and wakes the dispatcher for a new head. *)
LEMMA MarkQueues ==
  ASSUME OnlineInv, NEW E, E \subseteq Range(due), NEW rm \in [Conns -> BOOLEAN], NEW S, S \subseteq Conns, mark(E, rm, S),
         UNCHANGED cancel, E \cup S \subseteq active'
  PROVE  QueueInv'
  <1>1. /\ Range(due') = E \cup {c \in S : ~cancel[c]}
        /\ \A i, j \in DOMAIN due' : i < j => due'[i] # due'[j] /\ ready'[due'[i]] <= ready'[due'[j]]
    BY MarkFacts DEF OnlineInv, Marked
  <1>2. \A c \in Range(due) : ~cancel[c] BY DEF OnlineInv, QueueInv, Range
  <1>3. \A i \in DOMAIN due' : due'[i] \in Range(due') BY DEF Range
  <1>4. \A i \in DOMAIN due' : due'[i] \in active' /\ ~cancel'[due'[i]] BY <1>1, <1>2, <1>3
  <1> QED BY <1>1, <1>4 DEF QueueInv

(* markOnlineChanged keeps the invariant. *)
LEMMA ChangedKeeps == ASSUME OnlineInv, NEW S \in SUBSET Users, markOnlineChanged(S) PROVE OnlineInv'
  <1>1. PICK A : A = UNION {byUser[u] : u \in S} OBVIOUS
  <1>2. /\ mark(Range(due), remark, A) /\ owed' = owed \cup A
        /\ UNCHANGED <<linked, revision, userIds, cancel, lastSuccess, hold, active, byUser, refs, jobs, worker, reads,
                       timer, disp, outgoing, tokens, conn, closing, stopped, online, flips, seen>>
    BY <1>1 DEF markOnlineChanged, pool, node, world
  <1>3. A \subseteq active /\ A \subseteq Conns
    <2>1. \A u \in Users : byUser[u] \subseteq active BY DEF OnlineInv, TableInv
    <2>2. active \subseteq Conns BY DEF OnlineInv, OnlineTyped
    <2> QED BY <1>1, <2>1, <2>2
  <1>4. remark \in [Conns -> BOOLEAN] /\ Range(due) \subseteq active BY DEF OnlineInv, OnlineTyped, QueueInv, Range
  <1>5. /\ due' \in Seq(Conns) /\ ready' \in [Conns -> Nat] /\ remark' \in [Conns -> BOOLEAN] /\ wake' \in BOOLEAN
        /\ Range(due') = Range(due) \cup {c \in A : ~cancel[c]}
        /\ \A c \in A : ~cancel[c] => ready'[c] <= hold[c]
        /\ \A c \in Conns : c \notin A => ready'[c] = ready[c] /\ remark'[c] = remark[c]
        /\ \A c \in A : cancel[c] => remark'[c]
    BY <1>2, <1>3, <1>4, MarkFacts DEF OnlineInv, Marked
  <1>6. OnlineTyped'
    <2>1. owed' \subseteq Conns BY <1>2, <1>3 DEF OnlineInv, OnlineTyped
    <2> QED BY <1>2, <1>5, <2>1 DEF OnlineInv, OnlineTyped
  <1>7. QueueInv' BY <1>2, <1>3, <1>4, MarkQueues
  <1>8. TableInv'
    <2>1. RefsOf(active)' = RefsOf(active) BY <1>2 DEF RefsOf
    <2> QED BY <1>2, <2>1 DEF OnlineInv, TableInv
  <1>9. ReadInv' BY <1>2, <1>6, PoolStays
  <1>10. SleepInv' BY <1>2, <1>3, <1>4, MarkSleeps
  <1>11. ScheduledInv'
    <2> SUFFICES ASSUME NEW c \in Conns, Kept(c)'
                 PROVE  /\ c \in active' => Queued(c)' \/ cancel'[c]
                        /\ c \in owed' => (Queued(c)' /\ ready'[c] <= hold'[c]) \/ (cancel'[c] /\ remark'[c])
      BY DEF ScheduledInv
    <2>1. Kept(c) BY <1>2 DEF Kept
    <2>2. /\ c \in active => Queued(c) \/ cancel[c]
          /\ c \in owed => (Queued(c) /\ ready[c] <= hold[c]) \/ (cancel[c] /\ remark[c])
      BY <2>1 DEF OnlineInv, ScheduledInv
    <2>3. Queued(c)' <=> Queued(c) \/ (c \in A /\ ~cancel[c]) BY <1>5 DEF Queued
    <2>4. CASE c \in A BY <1>2, <1>5, <2>2, <2>3, <2>4
    <2>5. CASE c \notin A BY <1>2, <1>5, <2>2, <2>3, <2>5
    <2> QED BY <2>4, <2>5
  <1>12. SeenInv' BY <1>2, <1>6, SeenStays, RevisionStays, FlipsStay DEF OnlineInv, Reading, AtWork
  <1> QED BY <1>6, <1>7, <1>8, <1>9, <1>10, <1>11, <1>12 DEF OnlineInv


(* remove for some connections, that are going away, or all of them. *)
LEMMA RemoveKeeps ==
  ASSUME OnlineInv, NEW S, S \subseteq Conns, RemoveAll(S), disp # "send",
         UNCHANGED <<timer, outgoing, tokens, conn, closing>>,
         stopped' \in BOOLEAN, disp' = disp \/ disp' = "done", stopped' => disp' = "done",
         ~stopped' => ~stopped /\ \A c \in S : conn[c] # "up"
  PROVE  OnlineInv'
  <1>1. /\ CancelReads(S) /\ mark(Range(due) \ S, Unremarked(S), {}) /\ active' = active \ S /\ refs' = refs - RefsFreed(S)
        /\ byUser' = [u \in Users |-> byUser[u] \ S] /\ linked' = linked \ S /\ owed' = owed \ S
        /\ UNCHANGED <<cancel, revision, userIds, hold, reads, online, flips, seen, timer, outgoing, tokens, conn, closing>>
    BY DEF RemoveAll, CancelAfterRemove, world
  <1>2. outgoing = <<>> BY DEF OnlineInv, ReadInv
  <1>3. Unremarked(S) \in [Conns -> BOOLEAN] /\ \A c \in Conns : c \notin S => Unremarked(S)[c] = remark[c]
    BY DEF OnlineInv, OnlineTyped, Unremarked
  <1>4. PICK rm \in [Conns -> BOOLEAN] : rm = Unremarked(S) BY <1>3
  <1>5. PICK E : E = Range(due) \ S OBVIOUS
  <1>6. PICK N : N = {} OBVIOUS
  <1>7. /\ mark(E, rm, N) /\ E \subseteq Range(due) /\ N \subseteq Conns /\ E \cup N \subseteq active \ S
    <2>1. Range(due) \subseteq active BY DEF OnlineInv, QueueInv, Range
    <2> QED BY <1>1, <1>4, <1>5, <1>6, <2>1
  <1>8. /\ due' \in Seq(Conns) /\ ready' \in [Conns -> Nat] /\ remark' \in [Conns -> BOOLEAN] /\ wake' \in BOOLEAN
        /\ Range(due') = Range(due) \ S
        /\ \A c \in Conns : ready'[c] = ready[c] /\ (c \notin S => remark'[c] = remark[c])
    <2>1. /\ due' \in Seq(Conns) /\ ready' \in [Conns -> Nat] /\ remark' \in [Conns -> BOOLEAN] /\ wake' \in BOOLEAN
          /\ Range(due') = E \cup {c \in N : ~cancel[c]}
          /\ \A c \in Conns : c \notin N => ready'[c] = ready[c] /\ remark'[c] = rm[c]
      BY <1>7, MarkFacts DEF OnlineInv, Marked
    <2> QED BY <1>3, <1>4, <1>5, <1>6, <2>1
  <1>9. OnlineTyped'
    <2>1. jobs' \in Seq(Job) /\ worker' \in [Workers -> Job \cup {NoJob, Exited}] BY <1>1, <1>2, CancelReadsKeeps
    <2>2. linked' \subseteq Conns /\ active' \subseteq Conns /\ owed' \subseteq Conns BY <1>1 DEF OnlineInv, OnlineTyped
    <2> QED BY <1>1, <1>8, <2>1, <2>2 DEF OnlineInv, OnlineTyped
  <1>10. QueueInv'
    <2>1. E \cup N \subseteq active' BY <1>1, <1>7
    <2> QED BY <1>1, <1>7, <2>1, MarkQueues
  <1>11. TableInv'
    <2>1. \A c \in active' : revision'[c] >= 1 BY <1>1 DEF OnlineInv, TableInv
    <2>2. \A c \in Conns : ~stopped' /\ conn'[c] = "up" /\ userIds'[c] # {} => c \in active' BY <1>1 DEF OnlineInv, TableInv
    <2>3. \A u \in Users : byUser'[u] = {c \in active' : u \in userIds'[c]} BY <1>1 DEF OnlineInv, TableInv
    <2>4. active \subseteq Conns /\ S \cap active \subseteq Conns BY DEF OnlineInv, OnlineTyped
    <2>5. PICK a \in Nat : a = Cardinality(Refs(active, userIds)) BY <2>4, RefsFinite
    <2>6. PICK b \in Nat : b = Cardinality(Refs(S \cap active, userIds)) BY <2>4, RefsFinite
    <2>7. Cardinality(Refs(active \ S, userIds)) = a - b BY <2>4, <2>5, <2>6, RefsRemoved
    <2>8. refs = a /\ a <= MaxRefs BY <2>5 DEF OnlineInv, TableInv, RefsOf, Refs
    <2>9. RefsFreed(S) = b BY <2>6 DEF RefsFreed, RefsOf, Refs
    <2>10. refs' = a - b BY <1>1, <2>8, <2>9
    <2>11. Cardinality(RefsOf(active))' = a - b BY <1>1, <2>7 DEF RefsOf, Refs
    <2>12. a - b <= MaxRefs
      <3>1. MaxRefs \in Nat BY OnlineAssumption
      <3> QED BY <2>8, <3>1, SMTT(30)
    <2> QED BY <2>1, <2>2, <2>3, <2>10, <2>11, <2>12 DEF TableInv
  <1>12. ReadInv' BY <1>1, <1>2, <1>9, CancelReadsReads DEF OnlineInv, ReadInv
  <1>13. SleepInv' BY <1>1, <1>7, MarkSleeps
  <1>14. ScheduledInv'
    <2> SUFFICES ASSUME NEW c \in Conns, Kept(c)'
                 PROVE  /\ c \in active' => Queued(c)' \/ cancel'[c]
                        /\ c \in owed' => (Queued(c)' /\ ready'[c] <= hold'[c]) \/ (cancel'[c] /\ remark'[c])
      BY DEF ScheduledInv
    <2>1. Kept(c) /\ c \notin S
      <3>1. ~stopped' /\ ~closing' /\ conn'[c] = "up" /\ c \in linked' /\ userIds'[c] # {} BY DEF Kept
      <3>2. ~stopped BY <3>1
      <3>3. c \in linked /\ c \notin S BY <1>1, <3>1
      <3>4. conn[c] = "up" /\ userIds[c] # {} BY <1>1, <3>1
      <3>5. closing' = closing /\ closing \in BOOLEAN BY <1>1 DEF OnlineInv, OnlineTyped
      <3>6. ~closing
        <4>1. CASE closing = TRUE BY <3>1, <3>5, <4>1
        <4>2. CASE closing = FALSE BY <4>2
        <4> QED BY <3>5, <4>1, <4>2
      <3> QED BY <3>2, <3>3, <3>4, <3>6 DEF Kept
    <2>2. /\ c \in active => Queued(c) \/ cancel[c]
          /\ c \in owed => (Queued(c) /\ ready[c] <= hold[c]) \/ (cancel[c] /\ remark[c])
      BY <2>1 DEF OnlineInv, ScheduledInv
    <2>3. Queued(c)' <=> Queued(c) BY <1>8, <2>1 DEF Queued
    <2> QED BY <1>1, <1>8, <2>1, <2>2, <2>3
  <1>15. SeenInv' BY <1>1, <1>2, <1>9, CancelReadsSeen, RevisionStays DEF OnlineInv
  <1> QED BY <1>9, <1>10, <1>11, <1>12, <1>13, <1>14, <1>15 DEF OnlineInv

(* remove keeps the invariant, for any connections at once. *)
LEMMA RemovingKeeps ==
  ASSUME OnlineInv, (\E c \in Conns : removeOnlineSubscriptions(c)) \/ StopOnline
  PROVE  OnlineInv'
  <1>1. ASSUME NEW c \in Conns, removeOnlineSubscriptions(c) PROVE OnlineInv'
    <2>1. /\ RemoveAll({c}) /\ disp # "send" /\ UNCHANGED <<timer, outgoing, tokens, conn, closing, stopped, disp>> /\ conn[c] # "up"
      BY <1>1 DEF removeOnlineSubscriptions, MuFree, node
    <2>2. {c} \subseteq Conns /\ stopped' \in BOOLEAN /\ (stopped' => disp' = "done") BY <2>1 DEF OnlineInv, OnlineTyped, ReadInv
    <2> QED BY <2>1, <2>2, RemoveKeeps
  <1>2. CASE StopOnline
    <2>1. /\ RemoveAll(active) /\ disp # "send" /\ UNCHANGED <<timer, outgoing, tokens, conn, closing>> /\ stopped' /\ disp' = "done"
          /\ stopped' \in BOOLEAN
      BY <1>2 DEF StopOnline
    <2>2. active \subseteq Conns BY DEF OnlineInv, OnlineTyped
    <2> QED BY <2>1, <2>2, RemoveKeeps
  <1> QED BY <1>1, <1>2

(* setOnlineSubscriptions keeps the invariant. *)
LEMMA SubscribingKeeps ==
  ASSUME OnlineInv, NEW c \in Conns, NEW r \in 1 .. MaxRevision, NEW ids \in SUBSET Users, setOnlineSubscriptions(c, r, ids)
  PROVE  OnlineInv'
  <1>1. PICK W : W = IF ids = {} THEN {} ELSE {c} OBVIOUS
  <1>2. /\ disp # "send" /\ ~stopped /\ ~closing /\ conn[c] = "up" /\ r > revision[c]
        /\ refs - Cardinality(userIds[c]) + Cardinality(ids) <= MaxRefs
        /\ CancelReads({c}) /\ revision' = [revision EXCEPT ![c] = r] /\ userIds' = [userIds EXCEPT ![c] = ids]
        /\ linked' = linked \cup {c} /\ active' = (active \ {c}) \cup W
        /\ byUser' = [u \in Users |-> IF u \in ids THEN byUser[u] \cup {c} ELSE byUser[u] \ {c}]
        /\ refs' = refs - RefsFreed({c}) + Cardinality(ids)
        /\ mark(Range(due) \ {c}, Unremarked({c}), W) /\ owed' = (owed \ {c}) \cup W
        /\ UNCHANGED <<cancel, hold, reads, timer, disp, outgoing, tokens, conn, closing, stopped, online, flips, seen>>
    BY <1>1 DEF setOnlineSubscriptions, MuFree, NewRevision, CancelAfterRemove, node, world
  <1>3. outgoing = <<>> BY <1>2 DEF OnlineInv, ReadInv
  <1>4. Unremarked({c}) \in [Conns -> BOOLEAN] /\ \A d \in Conns : d # c => Unremarked({c})[d] = remark[d]
    BY DEF OnlineInv, OnlineTyped, Unremarked
  <1>5. Range(due) \ {c} \subseteq Range(due) /\ Range(due) \subseteq active BY DEF OnlineInv, QueueInv, Range
  <1>6. W \subseteq Conns /\ W \subseteq {c} BY <1>1
  <1>7. PICK rm \in [Conns -> BOOLEAN] : rm = Unremarked({c}) BY <1>4
  <1>8. PICK E : E = Range(due) \ {c} OBVIOUS
  <1>9. mark(E, rm, W) /\ E \subseteq Range(due) /\ W \subseteq Conns BY <1>2, <1>6, <1>7, <1>8
  <1>10. /\ due' \in Seq(Conns) /\ ready' \in [Conns -> Nat] /\ remark' \in [Conns -> BOOLEAN] /\ wake' \in BOOLEAN
         /\ Range(due') = (Range(due) \ {c}) \cup {d \in W : ~cancel[d]}
         /\ \A d \in W : ~cancel[d] => ready'[d] <= hold[d]
         /\ \A d \in Conns : d \notin W => ready'[d] = ready[d] /\ remark'[d] = Unremarked({c})[d]
         /\ \A d \in W : cancel[d] => remark'[d]
    <2>1. Marked(E, rm, W) BY <1>9, MarkFacts DEF OnlineInv
    <2> QED BY <1>7, <1>8, <2>1 DEF Marked
  <1>11. revision \in [Conns -> 0 .. MaxRevision] /\ userIds \in [Conns -> SUBSET Users] /\ active \subseteq Conns
    BY DEF OnlineInv, OnlineTyped
  <1>12. r \in 0 .. MaxRevision /\ r >= 1
    <2>1. MaxRevision \in Nat BY OnlineAssumption
    <2> QED BY <2>1, SMTT(30)
  <1>13. /\ revision'[c] = r /\ userIds'[c] = ids
         /\ \A d \in Conns : d # c => revision'[d] = revision[d] /\ userIds'[d] = userIds[d]
    BY <1>2, <1>11
  <1>14. OnlineTyped'
    <2>1. jobs' \in Seq(Job) /\ worker' \in [Workers -> Job \cup {NoJob, Exited}] BY <1>2, <1>3, CancelReadsKeeps
    <2>2. linked' \subseteq Conns /\ active' \subseteq Conns /\ owed' \subseteq Conns BY <1>2, <1>6 DEF OnlineInv, OnlineTyped
    <2>3. revision' \in [Conns -> 0 .. MaxRevision] /\ userIds' \in [Conns -> SUBSET Users] BY <1>2, <1>11, <1>12
    <2> QED BY <1>2, <1>10, <2>1, <2>2, <2>3 DEF OnlineInv, OnlineTyped
  <1>15. QueueInv'
    <2>1. E \cup W \subseteq active' BY <1>2, <1>5, <1>8
    <2> QED BY <1>2, <1>9, <2>1, MarkQueues
  <1>16. TableInv'
    <2>1. \A d \in active' : revision'[d] >= 1 BY <1>2, <1>6, <1>11, <1>12, <1>13 DEF OnlineInv, TableInv
    <2>2. \A d \in Conns : ~stopped' /\ conn'[d] = "up" /\ userIds'[d] # {} => d \in active'
      BY <1>1, <1>2, <1>13 DEF OnlineInv, TableInv
    <2>3. ASSUME NEW u \in Users PROVE byUser'[u] = {d \in active' : u \in userIds'[d]}
      <3>1. byUser[u] = {d \in active : u \in userIds[d]} BY DEF OnlineInv, TableInv
      <3>2. byUser'[u] = IF u \in ids THEN byUser[u] \cup {c} ELSE byUser[u] \ {c} BY <1>2
      <3>3. CASE u \in ids
        <4>1. W = {c} BY <1>1, <3>3
        <4> QED BY <1>2, <1>11, <1>13, <3>1, <3>2, <3>3, <4>1
      <3>4. CASE u \notin ids BY <1>2, <1>6, <1>11, <1>13, <3>1, <3>2, <3>4
      <3> QED BY <3>3, <3>4
    <2>4. {c} \cap active \subseteq Conns /\ IsFiniteSet(ids) /\ IsFiniteSet(userIds[c]) /\ userIds[c] \subseteq Users
      BY <1>11, FS_Subset, OnlineAssumption
    <2>5. PICK a \in Nat : a = Cardinality(Refs(active, userIds)) BY <1>11, RefsFinite
    <2>6. PICK b \in Nat : b = Cardinality(Refs({c} \cap active, userIds)) BY <2>4, RefsFinite
    <2>7. PICK n \in Nat : n = Cardinality(ids) BY <2>4, FS_CardinalityType
    <2>8. Cardinality(Refs((active \ {c}) \cup W, userIds')) = a - b + n
      <3>1. PICK new : new = userIds' OBVIOUS
      <3>2. new[c] \subseteq Users /\ new[c] = ids /\ (\A d \in Conns : d # c => new[d] = userIds[d])
        BY <1>13, <3>1
      <3>3. W = IF new[c] = {} THEN {} ELSE {c} BY <1>1, <3>2
      <3>4. Cardinality(Refs((active \ {c}) \cup W, new))
              = Cardinality(Refs(active, userIds)) - Cardinality(Refs({c} \cap active, userIds)) + Cardinality(new[c])
        <4>1. PICK A : A = active /\ A \subseteq Conns BY <1>11
        <4>2. PICK old : old = userIds /\ \A d \in Conns : d # c => new[d] = old[d] BY <3>2
        <4>3. Cardinality(Refs((A \ {c}) \cup W, new))
                = Cardinality(Refs(A, old)) - Cardinality(Refs({c} \cap A, old)) + Cardinality(new[c])
          <5>1. Replaced(c, old, new, W) BY <3>2, <3>3, <4>2 DEF Replaced
          <5> QED BY <4>1, <5>1, RefsReplaced, SMTT(30)
        <4> QED BY <4>1, <4>2, <4>3
      <3> QED BY <2>5, <2>6, <2>7, <3>1, <3>2, <3>4
    <2>9. refs = a BY <2>5 DEF OnlineInv, TableInv, RefsOf, Refs
    <2>10. RefsFreed({c}) = b BY <2>6 DEF RefsFreed, RefsOf, Refs
    <2>11. b = Cardinality(userIds[c])
      <3>1. CASE c \in active
        <4>1. {c} \cap active = {c} BY <3>1
        <4> QED BY <2>4, <2>6, <4>1, RefsOfOne
      <3>2. CASE c \notin active
        <4>1. userIds[c] = {} BY <1>2, <3>2 DEF OnlineInv, TableInv
        <4>2. Refs({c} \cap active, userIds) = {} BY <3>2 DEF Refs
        <4> QED BY <2>6, <4>1, <4>2
      <3> QED BY <3>1, <3>2
    <2>12. refs' = a - b + n BY <1>2, <2>7, <2>9, <2>10
    <2>13. Cardinality(RefsOf(active))' = a - b + n BY <1>2, <2>8 DEF RefsOf, Refs
    <2>14. a - b + n <= MaxRefs BY <1>2, <2>7, <2>9, <2>11
    <2> QED BY <2>1, <2>2, <2>3, <2>12, <2>13, <2>14 DEF TableInv
  <1>17. ReadInv' BY <1>2, <1>3, <1>14, CancelReadsReads
  <1>18. SleepInv' BY <1>2, <1>9, MarkSleeps
  <1>19. ScheduledInv'
    <2> SUFFICES ASSUME NEW d \in Conns, Kept(d)'
                 PROVE  /\ d \in active' => Queued(d)' \/ cancel'[d]
                        /\ d \in owed' => (Queued(d)' /\ ready'[d] <= hold'[d]) \/ (cancel'[d] /\ remark'[d])
      BY DEF ScheduledInv
    <2>1. CASE d = c
      <3>1. W = {c} BY <1>1, <1>13, <2>1 DEF Kept
      <3>2. Queued(c)' <=> ~cancel[c] BY <1>10, <3>1 DEF Queued
      <3> QED BY <1>2, <1>10, <2>1, <3>1, <3>2
    <2>2. CASE d # c
      <3>1. Kept(d) BY <1>2, <1>13, <2>2 DEF Kept
      <3>2. /\ d \in active => Queued(d) \/ cancel[d]
            /\ d \in owed => (Queued(d) /\ ready[d] <= hold[d]) \/ (cancel[d] /\ remark[d])
        BY <3>1 DEF OnlineInv, ScheduledInv
      <3>3. Queued(d)' <=> Queued(d) BY <1>6, <1>10, <2>2 DEF Queued
      <3>4. ready'[d] = ready[d] /\ remark'[d] = remark[d] BY <1>4, <1>6, <1>10, <2>2
      <3> QED BY <1>2, <1>6, <2>2, <3>2, <3>3, <3>4
    <2> QED BY <2>1, <2>2
  <1>20. SeenInv'
    <2>1. \A d \in Conns : revision[d] <= revision'[d]
      <3>1. revision[c] \in 0 .. MaxRevision BY <1>11
      <3>2. revision[c] <= r BY <1>2, <3>1, SMTT(30)
      <3> QED BY <1>13, <3>2, RevisionStays DEF OnlineInv
    <2> QED BY <1>2, <1>3, <1>14, <2>1, CancelReadsSeen
  <1> QED BY <1>14, <1>15, <1>16, <1>17, <1>18, <1>19, <1>20 DEF OnlineInv


-----------------------------------------------------------------------------
(* The inductive invariant, and what it says. *)

(* The invariant holds at the start. *)
LEMMA OnlineInvInit == OnlineInit => OnlineInv
  <1> SUFFICES ASSUME OnlineInit PROVE OnlineInv OBVIOUS
  <1> USE DEF OnlineInit
  <1>1. OnlineTyped
    <2>1. /\ 0 \in 0 .. MaxRevision /\ 0 \in 0 .. MaxFlips /\ FramesPerTick \in Nat /\ reads \in Nat
      BY OnlineAssumption, SMTT(30)
    <2>2. due \in Seq(Conns) /\ jobs \in Seq(Job) /\ outgoing \in Seq(Job) BY SMTT(30)
    <2>3. NoSnapshot \in Snapshot BY <2>1, SMTT(30) DEF NoSnapshot, Snapshot
    <2>4. revision \in [Conns -> 0 .. MaxRevision] /\ userIds \in [Conns -> SUBSET Users] BY <2>1
    <2>5. ready \in [Conns -> Nat] /\ hold \in [Conns -> Nat] /\ seen \in [Conns -> Snapshot] BY <2>3
    <2> QED BY <2>1, <2>2, <2>4, <2>5 DEF OnlineTyped
  <1>2. DOMAIN due = {} BY SMTT(30)
  <1>3. QueueInv BY <1>2 DEF QueueInv
  <1>4. TableInv
    <2>1. RefsOf(active) = {} BY DEF RefsOf
    <2>2. Cardinality(RefsOf(active)) = 0 BY <2>1, FS_EmptySet
    <2>3. 0 <= MaxRefs BY OnlineAssumption, SMTT(30)
    <2> QED BY <2>2, <2>3 DEF TableInv
  <1>5. ReadInv
    <2>1. Pending = <<>> \o <<>> BY DEF Pending
    <2>2. Len(Pending) = 0 /\ DOMAIN Pending = {} BY <2>1, SMTT(30)
    <2>3. \A w \in Workers : ~Reading(w) BY DEF Reading, AtWork
    <2>4. \A c : InFlight(c) = {} BY <2>3, <1>1, InFlightFacts
    <2>5. {w \in Workers : Reading(w)} = {} BY <2>3
    <2>6. Cardinality({w \in Workers : Reading(w)}) = 0 BY <2>5, FS_EmptySet
    <2>7. \A c \in Conns : OneRead(c) BY <2>2, <2>4 DEF OneRead
    <2>8. 0 <= Cardinality(Workers) /\ 0 = 0 + 0
      <3>1. Cardinality(Workers) \in Nat BY <1>1, InFlightFacts
      <3> QED BY <3>1, SMTT(30)
    <2> QED BY <2>2, <2>6, <2>7, <2>8 DEF ReadInv
  <1>6. SleepInv BY DEF SleepInv
  <1>7. ScheduledInv BY DEF ScheduledInv
  <1>8. SeenInv
    <2>1. NoSnapshot.revision = 0 /\ NoSnapshot.at = 0 /\ 0 <= 0 BY SMTT(30) DEF NoSnapshot
    <2>2. \A w \in Workers : ~Reading(w) BY DEF Reading, AtWork
    <2> QED BY <2>1, <2>2 DEF SeenInv
  <1> QED BY <1>1, <1>3, <1>4, <1>5, <1>6, <1>7, <1>8 DEF OnlineInv

(* Every step keeps the invariant. *)
LEMMA OnlineInvNext == OnlineInv /\ [OnlineNext]_onlineVars => OnlineInv'
  <1> SUFFICES ASSUME OnlineInv, OnlineNext \/ UNCHANGED onlineVars PROVE OnlineInv' OBVIOUS
  <1>1. ASSUME NEW c \in Conns, NEW ids \in SUBSET Users, setOnlineSubscriptions(c, 1, ids) PROVE OnlineInv'
    <2>1. 1 \in 1 .. MaxRevision BY OnlineAssumption, SMTT(30)
    <2> QED BY <1>1, <2>1, SubscribingKeeps
  <1>2. ASSUME NEW c \in Changers, NEW r \in 2 .. MaxRevision, NEW ids \in SUBSET Users, setOnlineSubscriptions(c, r, ids)
        PROVE  OnlineInv'
    <2>1. MaxRevision \in Nat BY OnlineAssumption
    <2>2. r \in 1 .. MaxRevision BY <2>1, SMTT(30)
    <2>3. c \in Conns BY OnlineAssumption
    <2> QED BY <1>2, <2>2, <2>3, SubscribingKeeps
  <1>3. ASSUME NEW c \in Closers, drainConn(c) \/ closeConn(c) PROVE OnlineInv'
    <2>1. c \in Conns BY OnlineAssumption
    <2> QED BY <1>3, <2>1, EnvironmentKeeps
  <1>4. ASSUME NEW w \in Workers, WorkerStep(w) PROVE OnlineInv'
    <2>1. CASE Take(w) \/ ReadOk(w) \/ ReadError(w) \/ CloseFullEnds(w) BY <2>1, ReadingKeeps
    <2>2. CASE CloseFull(w) BY <2>2, EnvironmentKeeps
    <2>3. CASE FinishDropped(w) \/ FinishReplaced(w) \/ FinishSilent(w) \/ \E o \in {"queued", "dropped", "full"} : FinishSend(w, o)
      BY <2>3, FinishingKeeps
    <2> QED BY <1>4, <2>1, <2>2, <2>3 DEF WorkerStep
  <1>5. CASE Serving
    <2>1. CASE \E c \in Conns : removeOnlineSubscriptions(c) BY <2>1, RemovingKeeps
    <2>2. CASE \E S \in SUBSET Users : markOnlineChanged(S) BY <2>2, ChangedKeeps
    <2>3. CASE dispatchOnline \/ SendJobs \/ Woken \/ TimerFires \/ Tick
      BY <2>3, DispatchKeeps, SendJobsKeeps, WakingKeeps, TickKeeps
    <2>4. CASE \E u \in Users : Flip(u) BY <2>4, EnvironmentKeeps
    <2> QED BY <1>1, <1>2, <1>3, <1>4, <1>5, <2>1, <2>2, <2>3, <2>4 DEF Serving
  <1>6. CASE Stopping
    <2>1. CASE ShutdownBegins \/ CancelRun \/ CancelNode BY <2>1, EnvironmentKeeps
    <2>2. CASE StopOnline BY <2>2, RemovingKeeps
    <2>3. CASE \E w \in Workers : WorkerExits(w) BY <2>3, ReadingKeeps
    <2> QED BY <1>6, <2>1, <2>2, <2>3 DEF Stopping
  <1>7. CASE UNCHANGED onlineVars BY <1>7, EnvironmentKeeps
  <1> QED BY <1>5, <1>6, <1>7 DEF OnlineNext

(* The invariant is inductive. *)
LEMMA OnlineInvAlways == OnlineSpec => []OnlineInv
  BY OnlineInvInit, OnlineInvNext, PTL DEF OnlineSpec

(* A connection whose cancel is set has a read, and it has one at most. *)
LEMMA ReadsFacts ==
  ASSUME OnlineInv, NEW c \in Conns
  PROVE  (cancel[c] => Reads(c) # {}) /\ \A x, y \in Reads(c) : x = y
  <1>1. PICK n \in Nat : n = Len(jobs) /\ DOMAIN jobs = 1 .. n BY SequenceParts DEF OnlineInv, OnlineTyped
  <1>2. PICK m \in Nat : m = Len(outgoing) /\ DOMAIN outgoing = 1 .. m BY SequenceParts DEF OnlineInv, OnlineTyped
  <1>3. /\ DOMAIN Pending = 1 .. n + m
        /\ \A i \in 1 .. n : Pending[i] = jobs[i]
        /\ \A i \in 1 .. m : Pending[n + i] = outgoing[i]
        /\ \A i \in 1 .. n + m : i \in 1 .. n \/ \E k \in 1 .. m : i = n + k
    <2>1. PICK s \in Seq(Job) : s = jobs /\ Len(s) = n BY <1>1 DEF OnlineInv, OnlineTyped
    <2>2. PICK o \in Seq(Job) : o = outgoing /\ Len(o) = m BY <1>2 DEF OnlineInv, OnlineTyped
    <2>3. /\ DOMAIN (s \o o) = 1 .. Len(s) + Len(o)
          /\ \A i \in 1 .. Len(s) : (s \o o)[i] = s[i]
          /\ \A i \in 1 .. Len(o) : (s \o o)[Len(s) + i] = o[i]
          /\ \A i \in 1 .. Len(s) + Len(o) : i \in 1 .. Len(s) \/ \E k \in 1 .. Len(o) : i = Len(s) + k
      BY PendingFacts
    <2>4. Len(s) = n /\ Len(o) = m BY <2>1, <2>2
    <2>5. /\ DOMAIN (s \o o) = 1 .. n + m
          /\ \A i \in 1 .. n : (s \o o)[i] = s[i]
          /\ \A i \in 1 .. m : (s \o o)[n + i] = o[i]
          /\ \A i \in 1 .. n + m : i \in 1 .. n \/ \E k \in 1 .. m : i = n + k
      BY <2>3, <2>4
    <2>6. Pending = s \o o BY <2>1, <2>2 DEF Pending
    <2> QED BY <2>1, <2>2, <2>5, <2>6
  <1>4. /\ \A i \in 1 .. n : i \in 1 .. n + m
        /\ \A i \in 1 .. m : n + i \in 1 .. n + m /\ n + i \notin 1 .. n
        /\ \A i, j \in 1 .. m : n + i = n + j => i = j
    BY SMTT(30)
  <1>5. /\ \A i, j \in 1 .. n + m : Pending[i].sub = c /\ Pending[j].sub = c => i = j
        /\ \A v, w \in InFlight(c) : v = w
        /\ \A i \in 1 .. n + m : Pending[i].sub = c => InFlight(c) = {}
        /\ cancel[c] => InFlight(c) # {} \/ \E i \in 1 .. n + m : Pending[i].sub = c
    BY <1>3 DEF OnlineInv, ReadInv, OneRead
  <1>6. ASSUME NEW x \in Reads(c)
        PROVE  \/ \E w \in InFlight(c) : x = <<"worker", w>>
               \/ \E i \in 1 .. n : jobs[i].sub = c /\ x = <<"jobs", i>>
               \/ \E i \in 1 .. m : outgoing[i].sub = c /\ x = <<"outgoing", i>>
    BY <1>1, <1>2, <1>6 DEF Reads
  <1>7. ASSUME NEW x \in Reads(c), NEW y \in Reads(c) PROVE x = y
    <2>1. ASSUME NEW w \in InFlight(c), x = <<"worker", w>> PROVE x = y
      <3>1. \A i \in 1 .. n + m : Pending[i].sub # c BY <1>5, <2>1
      <3>2. (\A i \in 1 .. n : jobs[i].sub # c) /\ \A i \in 1 .. m : outgoing[i].sub # c BY <1>3, <1>4, <3>1
      <3>3. PICK v \in InFlight(c) : y = <<"worker", v>> BY <1>6, <3>2
      <3> QED BY <1>5, <2>1, <3>3
    <2>2. ASSUME NEW i \in 1 .. n, jobs[i].sub = c, x = <<"jobs", i>> PROVE x = y
      <3>1. i \in 1 .. n + m /\ Pending[i].sub = c BY <1>3, <1>4, <2>2
      <3>2. InFlight(c) = {} /\ \A j \in 1 .. n + m : Pending[j].sub = c => j = i BY <1>5, <3>1
      <3>3. \A j \in 1 .. m : outgoing[j].sub # c BY <1>3, <1>4, <3>2
      <3>4. PICK j \in 1 .. n : jobs[j].sub = c /\ y = <<"jobs", j>> BY <1>6, <3>2, <3>3
      <3>5. j = i BY <1>3, <1>4, <3>2, <3>4
      <3> QED BY <2>2, <3>4, <3>5
    <2>3. ASSUME NEW i \in 1 .. m, outgoing[i].sub = c, x = <<"outgoing", i>> PROVE x = y
      <3>1. n + i \in 1 .. n + m /\ Pending[n + i].sub = c BY <1>3, <1>4, <2>3
      <3>2. InFlight(c) = {} /\ \A j \in 1 .. n + m : Pending[j].sub = c => j = n + i BY <1>5, <3>1
      <3>3. \A j \in 1 .. n : jobs[j].sub # c BY <1>3, <1>4, <3>2
      <3>4. PICK j \in 1 .. m : outgoing[j].sub = c /\ y = <<"outgoing", j>> BY <1>6, <3>2, <3>3
      <3>5. j = i BY <1>3, <1>4, <3>2, <3>4
      <3> QED BY <2>3, <3>4, <3>5
    <2> QED BY <1>6, <2>1, <2>2, <2>3
  <1>8. ASSUME cancel[c] PROVE Reads(c) # {}
    <2>1. CASE InFlight(c) # {} BY <2>1 DEF Reads
    <2>2. ASSUME NEW i \in 1 .. n + m, Pending[i].sub = c PROVE Reads(c) # {}
      <3>1. CASE i \in 1 .. n
        <4>1. i \in DOMAIN jobs /\ jobs[i].sub = c BY <1>1, <1>3, <2>2, <3>1
        <4>2. <<"jobs", i>> \in Reads(c) BY <4>1 DEF Reads
        <4> QED BY <4>2
      <3>2. ASSUME NEW k \in 1 .. m, i = n + k PROVE Reads(c) # {}
        <4>1. k \in DOMAIN outgoing /\ outgoing[k].sub = c BY <1>2, <1>3, <2>2, <3>2
        <4>2. <<"outgoing", k>> \in Reads(c) BY <4>1 DEF Reads
        <4> QED BY <4>2
      <3> QED BY <1>3, <2>2, <3>1, <3>2
    <2> QED BY <1>5, <1>8, <2>1, <2>2
  <1> QED BY <1>7, <1>8

(* The subscription table, whatever the number of connections, users and   *)
(* revisions: the reverse index, the reference count, its limit and the    *)
(* queue agree after every set, remove, read and stop.                     *)
THEOREM IndexAgrees == OnlineSpec => []IndexConsistent
  <1>1. OnlineInv => IndexConsistent
    <2> SUFFICES ASSUME OnlineInv PROVE IndexConsistent OBVIOUS
    <2>1. \A i \in DOMAIN due : due[i] \in active BY DEF OnlineInv, QueueInv
    <2>2. \A i, j \in DOMAIN due : due[i] = due[j] => i = j
      <3>1. PICK n \in Nat : DOMAIN due = 1 .. n BY SequenceParts DEF OnlineInv, OnlineTyped
      <3>2. \A i, j \in 1 .. n : i < j \/ j < i \/ i = j BY SMTT(30)
      <3> QED BY <3>1, <3>2 DEF OnlineInv, QueueInv
    <2> QED BY <2>1, <2>2 DEF OnlineInv, TableInv, IndexConsistent
  <1> QED BY <1>1, OnlineInvAlways, PTL

(* "An active subscription is always either queued or reading", with one   *)
(* read at most, through any interleaving of requests, events, reads and   *)
(* shutdown.                                                               *)
THEOREM SubscriptionsStayScheduled == OnlineSpec => []AlwaysScheduled
  <1>1. OnlineInv => AlwaysScheduled
    <2> SUFFICES ASSUME OnlineInv PROVE AlwaysScheduled OBVIOUS
    <2>1. ASSUME NEW c \in Conns, c \in active, Kept(c) PROVE Queued(c) \/ Reads(c) # {}
      BY <2>1, ReadsFacts DEF OnlineInv, ScheduledInv
    <2>2. ASSUME NEW c \in Conns PROVE \A x, y \in Reads(c) : x = y BY <2>2, ReadsFacts
    <2> QED BY <2>1, <2>2 DEF AlwaysScheduled
  <1> QED BY <1>1, OnlineInvAlways, PTL

(* The dispatcher never sleeps past work it could do, the read slots are   *)
(* counted exactly, and no event waits for the periodic refresh.           *)
THEOREM WakesAreNotLost == OnlineSpec => []NoLostWake
  <1>1. OnlineInv => NoLostWake
    <2> SUFFICES ASSUME OnlineInv PROVE NoLostWake OBVIOUS
    <2>1. disp = "select" /\ due # <<>> /\ ~closing =>
            \/ wake
            \/ reads = Cardinality(Workers)
            \/ timer # NoTimer /\ (timer <= ready[Head(due)] \/ (tokens = 0 /\ timer <= 1))
      BY DEF OnlineInv, SleepInv
    <2>2. /\ reads = Len(jobs) + Len(outgoing) + Cardinality({w \in Workers : AtWork(w) /\ worker[w].step # "close"})
          /\ reads <= Cardinality(Workers)
      <3>1. Len(Pending) = Len(jobs) + Len(outgoing) BY PendingFacts DEF OnlineInv, OnlineTyped, Pending
      <3> QED BY <3>1 DEF OnlineInv, ReadInv, Reading
    <2>3. ASSUME NEW c \in owed, Kept(c) PROVE (Queued(c) /\ ready[c] <= hold[c]) \/ (Reads(c) # {} /\ remark[c])
      <3>1. c \in Conns BY DEF OnlineInv, OnlineTyped
      <3> QED BY <2>3, <3>1, ReadsFacts DEF OnlineInv, ScheduledInv
    <2> QED BY <2>1, <2>2, <2>3 DEF NoLostWake
  <1> QED BY <1>1, OnlineInvAlways, PTL

(* No client is told an older state or revision after a newer one,         *)
(* whatever the reads of its connection overtake.                          *)
THEOREM SnapshotsKeepOrder == OnlineSpec => SnapshotsInOrder
  <1>1. ASSUME OnlineInv, [OnlineNext]_onlineVars
        PROVE  [\A c \in Conns : seen'[c].at >= seen[c].at /\ seen'[c].revision >= seen[c].revision]_onlineVars
    <2>1. ASSUME NEW c \in Conns PROVE /\ seen[c].at \in Nat /\ seen[c].revision \in Nat
                                       /\ seen[c].at >= seen[c].at /\ seen[c].revision >= seen[c].revision
      <3>1. PICK s \in Snapshot : s = seen[c] BY <1>1, <2>1 DEF OnlineInv, OnlineTyped
      <3>2. s.at \in Nat /\ s.revision \in Nat /\ s.at >= s.at /\ s.revision >= s.revision BY SMTT(30) DEF Snapshot
      <3> QED BY <3>1, <3>2
    <2>2. ASSUME NEW w \in Workers, NEW o \in {"queued", "dropped", "full"}, FinishSend(w, o)
          PROVE  \A c \in Conns : seen'[c].at >= seen[c].at /\ seen'[c].revision >= seen[c].revision
      <3>1. /\ AtWork(w) /\ worker[w].step = "finish" /\ SameRevision(worker[w])
            /\ seen' = seen \/ seen' = [seen EXCEPT ![worker[w].sub] = SnapshotOf(worker[w])]
        BY <2>2 DEF FinishSend, ReadEnds, Working
      <3>2. PICK d : d = worker[w].sub OBVIOUS
      <3>3. PICK s : s = SnapshotOf(worker[w]) OBVIOUS
      <3>4. d \in Conns /\ s \in Snapshot /\ seen[d].revision <= s.revision /\ seen[d].at <= s.at
        BY <1>1, <3>1, <3>2, <3>3, SnapshotFacts
      <3>5. s.at \in Nat /\ s.revision \in Nat BY <3>4, SMTT(30) DEF Snapshot
      <3>6. s.at >= seen[d].at /\ s.revision >= seen[d].revision
        <4>1. PICK a \in Nat : a = seen[d].at BY <2>1, <3>4
        <4>2. PICK b \in Nat : b = seen[d].revision BY <2>1, <3>4
        <4>3. a <= s.at /\ b <= s.revision BY <3>4, <4>1, <4>2
        <4>4. s.at >= a /\ s.revision >= b BY <3>5, <4>3, SMTT(30)
        <4> QED BY <4>1, <4>2, <4>4
      <3>7. seen \in [Conns -> Snapshot] BY <1>1 DEF OnlineInv, OnlineTyped
      <3>8. CASE seen' = seen BY <2>1, <3>8
      <3>9. CASE seen' = [seen EXCEPT ![d] = s]
        <4>1. seen'[d] = s /\ \A c \in Conns : c # d => seen'[c] = seen[c] BY <3>4, <3>7, <3>9
        <4> QED BY <2>1, <3>6, <4>1
      <3> QED BY <3>1, <3>2, <3>3, <3>8, <3>9
    <2>3. OnlineNext => seen' = seen \/ \E w \in Workers, o \in {"queued", "dropped", "full"} : FinishSend(w, o)
      BY DEF OnlineNext, Serving, Stopping, WorkerStep, setOnlineSubscriptions, removeOnlineSubscriptions, RemoveAll, markOnlineChanged,
             dispatchOnline, SendJobs, Woken, TimerFires, StopOnline, Take, ReadOk, ReadError, FinishDropped, FinishReplaced,
             FinishSilent, CloseFull, CloseFullEnds, WorkerExits, drainConn, closeConn, ShutdownBegins, CancelRun, CancelNode, Flip,
             Tick, world
    <2> QED BY <1>1, <2>1, <2>2, <2>3
  <1> QED BY <1>1, OnlineInvAlways, PTL DEF OnlineSpec, SnapshotsInOrder
====
