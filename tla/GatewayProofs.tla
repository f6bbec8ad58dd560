----------------------------- MODULE GatewayProofs -----------------------------
(***************************************************************************)
(* Theorems about Gateway, for any number of connections, any limits and   *)
(* buckets, every kind of OnlineStore and every set of faults, and about   *)
(* Lifecycle, for any requests in flight, every set of faults and every    *)
(* configuration.                                                          *)
(***************************************************************************)
EXTENDS Gateway, Lifecycle, FiniteSetTheorems, TLAPS

(* A leaf that names no prover is Zenon's; SMTT marks those with arithmetic. *)
USE ZenonT(30)

(* The labels of the goroutines of a connection. *)
Early == {"new", "verified", "reserved", "watched", "upgrading", "returning", "claimed"}
Adopted == {"add", "addlock", "addwrite", "serve", "serving", "close", "over"}

Typed ==
    /\ hs \in [Conns -> Early \cup Adopted]
    /\ settled \in [Conns -> BOOLEAN]
    /\ watch \in [Conns -> {"none", "on", "releasing", "off"}]
    /\ cl \in [Conns -> {"none", "open", "cancelled", "gone"}]
    /\ rm \in [Conns -> {"no", "lock", "write", "removed", "left"}]
    /\ reg \subseteq Conns
    /\ renew \in [pc : {"idle", "write", "add"}, refs : SUBSET Conns, todo : SUBSET Conns]

(* Every step keeps the types.                                             *)
LEMMA TypedNext == Typed /\ [Next]_vars => Typed'
<1> SUFFICES ASSUME Typed, [Next]_vars PROVE Typed'
  OBVIOUS
<1> USE DEF Typed, Early, Adopted, Goto, connVars, mapVars, clientVars, presenceVars
<1>0. ASSUME NEW c \in Conns, Handshake(c) \/ Reserve(c)
      PROVE  Typed'
  BY <1>0 DEF Handshake, Reserve
<1>1. ASSUME NEW c \in Conns, WatchUpgrade(c) \/ StartUpgrade(c)
      PROVE  Typed'
  <2>1. CASE StartUpgrade(c)
    BY <2>1 DEF StartUpgrade
  <2>2. CASE WatchUpgrade(c) /\ (Off("run") \/ Sealed)
    BY <2>2 DEF WatchUpgrade
  <2>3. CASE WatchUpgrade(c) /\ ~(Off("run") \/ Sealed)
    BY <2>3 DEF WatchUpgrade
  <2> HIDE DEF Typed
  <2> QED BY <1>1, <2>1, <2>2, <2>3
<1>2. ASSUME NEW c \in Conns, UpgradeDone(c) \/ UpgradeFails(c) \/ ReturnSlot(c) \/ Adopt(c)
      PROVE  Typed'
  <2>1. CASE UpgradeDone(c)
    BY <2>1 DEF UpgradeDone
  <2>2. CASE UpgradeFails(c)
    BY <2>2 DEF UpgradeFails
  <2>3. CASE ReturnSlot(c)
    BY <2>3 DEF ReturnSlot
  <2>4. CASE Adopt(c)
    BY <2>4, SMTT(30) DEF Adopt
  <2> HIDE DEF Typed
  <2> QED BY <1>2, <2>1, <2>2, <2>3, <2>4
<1>3. ASSUME NEW c \in Conns, WatchFires(c) \/ WatchReleases(c) \/ Serve(c) \/ HandleEnds(c)
      PROVE  Typed'
  BY <1>3 DEF WatchFires, WatchReleases, Serve, HandleEnds
<1>4. ASSUME NEW c \in Conns, AddBegin(c) \/ AddGivesUp(c) \/ AddLock(c)
                              \/ \E ok, done \in BOOLEAN : AddWrite(c, ok, done)
      PROVE  Typed'
  BY <1>4 DEF AddBegin, AddGivesUp, AddLock, AddWrite
<1>5. ASSUME NEW c \in Conns, RemoveBegin(c) \/ RemoveGivesUp(c) \/ RemoveLock(c)
                              \/ \E ok, done \in BOOLEAN : RemoveWrite(c, ok, done)
      PROVE  Typed'
  BY <1>5, SMTT(30) DEF RemoveBegin, RemoveGivesUp, RemoveLock, RemoveWrite
<1>6. ASSUME NEW c \in Conns, LoseRow(c) \/ Expire(c) \/ Drain(c) \/ CloseBegin(c) \/ CloseEnds(c)
                              \/ \E ok, done \in BOOLEAN : RenewAdd(c, ok, done)
      PROVE  Typed'
  BY <1>6, SMTT(30) DEF LoseRow, Expire, Drain, CloseBegin, CloseEnds, RenewAdd
<1>7. CASE RenewBegin \/ RenewEnds \/ \E ok, done \in BOOLEAN : RenewWrite(ok, done) \/ Purge(ok, done)
  BY <1>7, SMTT(30) DEF RenewBegin, RenewRefs, RenewTodo, RenewEnds, NoRenew, RenewWrite, Purge
<1>8. CASE \/ ShutdownBegin \/ CancelRun \/ UsersClose \/ DrainAll \/ PollEnds \/ PollExpires \/ HardClosed
           \/ Cancel \/ Seal \/ WaitEnds \/ Deadline
  BY <1>8 DEF ShutdownBegin, CancelRun, UsersClose, DrainAll, PollEnds, PollExpires, HardClosed,
              Cancel, Seal, WaitEnds, Deadline, DownStep
<1>9. CASE UNCHANGED vars
  BY <1>9 DEF vars
<1> HIDE DEF Typed
<1> QED BY <1>0, <1>1, <1>2, <1>3, <1>4, <1>5, <1>6, <1>7, <1>8, <1>9 DEF Next

-----------------------------------------------------------------------------
(* The presence lock. *)

(* A client exists once Handle has adopted it, and is removed once it is   *)
(* closed.                                                                 *)
LifeInv ==
    \A c \in Conns :
        /\ cl[c] # "none" => hs[c] \in Adopted
        /\ rm[c] # "no" => cl[c] = "gone"

(* Who writes rows holds the lock; and no writer is left for a row whose   *)
(* removal succeeded.                                                      *)
WriterInv ==
    /\ \A c \in Conns :
        /\ hs[c] = "addwrite" => lock = c /\ rm[c] \notin {"write", "removed"}
        /\ rm[c] = "write" => lock = c
        /\ rm[c] = "removed" /\ renew.pc = "write" => c \notin renew.refs
    /\ renew.pc # "idle" => lock = "renew"

RowInv == Typed /\ LifeInv /\ WriterInv /\ NoGhostRow

(* Before the first handshake there is no row and no writer of one.        *)
LEMMA RowInvInit == Init => RowInv
<1> SUFFICES ASSUME Init PROVE RowInv
  OBVIOUS
<1>1. Typed
  BY DEF Init, Typed, Early, NoRenew
<1>2. LifeInv /\ WriterInv /\ NoGhostRow
  BY DEF Init, LifeInv, WriterInv, NoGhostRow, NoRenew
<1> QED BY <1>1, <1>2 DEF RowInv

(* Handle moves on without touching presence. *)
LEMMA HandleRows ==
    ASSUME RowInv, Typed', NEW c \in Conns, UNCHANGED <<cl, rm, online, lock, renew>>,
           \A d \in Conns \ {c} : hs'[d] = hs[d],
           hs'[c] # "addwrite" \/ hs'[c] = hs[c],
           hs[c] \in Adopted => hs'[c] \in Adopted
    PROVE  RowInv'
<1>1. LifeInv'
  BY DEF RowInv, LifeInv
<1>2. WriterInv' /\ NoGhostRow'
  BY DEF RowInv, WriterInv, NoGhostRow
<1> QED BY <1>1, <1>2 DEF RowInv

(* Every step keeps RowInv: the work is in the steps that take the presence*)
(* lock and those that write under it.                                     *)
LEMMA RowInvNext == RowInv /\ [Next]_vars => RowInv'
<1> SUFFICES ASSUME RowInv, [Next]_vars PROVE RowInv'
  OBVIOUS
<1>t. Typed /\ Typed'
  BY TypedNext DEF RowInv
<1>l. NoOne \notin Conns /\ "renew" \notin Conns /\ NoOne # "renew"
  BY GatewayAssumption
<1>1. ASSUME NEW c \in Conns,
             \/ Handshake(c) \/ Reserve(c) \/ WatchUpgrade(c) \/ StartUpgrade(c) \/ UpgradeDone(c) \/ UpgradeFails(c)
             \/ ReturnSlot(c) \/ WatchFires(c) \/ WatchReleases(c)
             \/ AddBegin(c) \/ AddGivesUp(c) \/ Serve(c) \/ HandleEnds(c)
      PROVE  RowInv'
  <2>1. UNCHANGED <<cl, rm, online, lock, renew>>
    BY <1>1 DEF clientVars, presenceVars, Handshake, Reserve, WatchUpgrade, StartUpgrade, UpgradeDone,
                UpgradeFails, ReturnSlot, WatchFires, WatchReleases, AddBegin, AddGivesUp, Serve, HandleEnds
  <2>2. \/ hs' = hs
        \/ \E x \in (Early \cup Adopted) \ {"addwrite"} :
             hs' = [hs EXCEPT ![c] = x] /\ (hs[c] \in Adopted => x \in Adopted)
    BY <1>1 DEF Early, Adopted, Goto, Handshake, Reserve, WatchUpgrade, StartUpgrade, UpgradeDone,
                UpgradeFails, ReturnSlot, WatchFires, WatchReleases, AddBegin, AddGivesUp, Serve, HandleEnds
  <2> QED BY <1>t, <2>1, <2>2, HandleRows, SMTT(30) DEF Typed
<1>2. ASSUME NEW c \in Conns, Adopt(c)
      PROVE  RowInv'
  <2>1. /\ hs'[c] \in Adopted \ {"addwrite"} /\ cl[c] = "none" /\ rm[c] = "no"
        /\ UNCHANGED <<rm, online, lock, renew>>
        /\ \A d \in Conns \ {c} : hs'[d] = hs[d] /\ cl'[d] = cl[d]
    BY <1>t, <1>2, SMTT(30) DEF Adopt, Goto, Adopted, presenceVars, RowInv, LifeInv, Typed
  <2>2. LifeInv'
    BY <2>1 DEF RowInv, LifeInv
  <2>3. WriterInv' /\ NoGhostRow'
    BY <2>1 DEF RowInv, WriterInv, NoGhostRow
  <2> QED BY <1>t, <2>2, <2>3 DEF RowInv
<1>3. ASSUME NEW c \in Conns, AddLock(c)
      PROVE  RowInv'
  <2>1. /\ UNCHANGED <<cl, rm, online, renew>> /\ lock = NoOne
        /\ \A d \in Conns \ {c} : hs'[d] = hs[d]
        /\ hs[c] = "addlock" /\ hs'[c] \in {"addwrite", "serve"}
        /\ hs'[c] = "addwrite" => cl[c] = "open" /\ lock' = c
        /\ hs'[c] = "serve" => lock' = lock
    BY <1>t, <1>3, SMTT(30) DEF AddLock, LockFree, Active, Goto, clientVars, Typed
  <2>2. LifeInv'
    BY <2>1 DEF RowInv, LifeInv, Adopted
  <2>3. WriterInv' /\ NoGhostRow'
    BY <1>l, <2>1 DEF RowInv, WriterInv, LifeInv, NoGhostRow
  <2> QED BY <1>t, <2>2, <2>3 DEF RowInv
<1>4. ASSUME NEW c \in Conns, NEW ok \in BOOLEAN, NEW done \in BOOLEAN, AddWrite(c, ok, done)
      PROVE  RowInv'
  <2>1. /\ UNCHANGED <<cl, rm, renew>> /\ lock' = NoOne /\ online' \subseteq online \cup {c}
        /\ \A d \in Conns \ {c} : hs'[d] = hs[d]
        /\ hs[c] = "addwrite" /\ hs'[c] = "serve"
    BY <1>t, <1>4 DEF AddWrite, Goto, clientVars, Typed
  <2>2. LifeInv'
    BY <2>1 DEF RowInv, LifeInv, Adopted
  <2>3. WriterInv' /\ NoGhostRow'
    BY <1>l, <2>1 DEF RowInv, WriterInv, NoGhostRow
  <2> QED BY <1>t, <2>2, <2>3 DEF RowInv
<1>5. ASSUME NEW c \in Conns, RemoveBegin(c) \/ RemoveGivesUp(c)
      PROVE  RowInv'
  <2>1. /\ UNCHANGED <<hs, cl, online, lock, renew>>
        /\ cl[c] = "gone" /\ rm'[c] \in {"left", "lock"}
        /\ \A d \in Conns \ {c} : rm'[d] = rm[d]
    BY <1>t, <1>5, SMTT(30) DEF RemoveBegin, RemoveGivesUp, connVars, clientVars, RowInv, LifeInv, Typed
  <2> QED BY <1>t, <2>1 DEF RowInv, LifeInv, WriterInv, NoGhostRow
<1>6. ASSUME NEW c \in Conns, RemoveLock(c)
      PROVE  RowInv'
  <2>1. /\ UNCHANGED <<hs, cl, online, renew>> /\ lock = NoOne /\ lock' = c
        /\ rm[c] = "lock" /\ rm'[c] = "write" /\ \A d \in Conns \ {c} : rm'[d] = rm[d]
    BY <1>t, <1>6, SMTT(30) DEF RemoveLock, LockFree, connVars, clientVars, Typed
  <2>2. LifeInv' /\ NoGhostRow'
    BY <2>1 DEF RowInv, LifeInv, NoGhostRow
  <2>3. WriterInv'
    BY <1>l, <2>1 DEF RowInv, WriterInv
  <2> QED BY <1>t, <2>2, <2>3 DEF RowInv
<1>7. ASSUME NEW c \in Conns, NEW ok \in BOOLEAN, NEW done \in BOOLEAN, RemoveWrite(c, ok, done)
      PROVE  RowInv'
  <2>1. /\ UNCHANGED <<hs, cl, renew>> /\ lock' = NoOne /\ online' \subseteq online
        /\ rm[c] = "write" /\ rm'[c] \in {"removed", "left"} /\ \A d \in Conns \ {c} : rm'[d] = rm[d]
        /\ rm'[c] = "removed" => c \notin online'
    BY <1>t, <1>7, SMTT(30) DEF RemoveWrite, Outcome, connVars, clientVars, Typed
  <2>2. LifeInv' /\ NoGhostRow'
    BY <2>1 DEF RowInv, LifeInv, NoGhostRow
  <2>3. WriterInv'
    BY <1>l, <2>1 DEF RowInv, WriterInv
  <2> QED BY <1>t, <2>2, <2>3 DEF RowInv
<1>8. CASE RenewBegin
  <2>1. /\ UNCHANGED <<hs, cl, rm, online>> /\ lock = NoOne /\ lock' = "renew"
        /\ renew' = [pc |-> "write", refs |-> RenewRefs, todo |-> RenewTodo]
    BY <1>8 DEF RenewBegin, LockFree, connVars, clientVars
  <2>2. renew'.pc = "write" /\ \A c \in renew'.refs : cl[c] = "open"
    BY <2>1 DEF RenewRefs, Active
  <2> QED BY <1>l, <1>t, <2>1, <2>2 DEF RowInv, LifeInv, WriterInv, NoGhostRow
<1>9. ASSUME NEW ok \in BOOLEAN, NEW done \in BOOLEAN, RenewWrite(ok, done)
      PROVE  RowInv'
  <2>1. /\ UNCHANGED <<hs, cl, rm>> /\ renew.pc = "write" /\ online' \subseteq online \cup renew.refs
        /\ (renew' = [renew EXCEPT !.pc = "add"] /\ lock' = lock) \/ (renew' = NoRenew /\ lock' = NoOne)
    BY <1>9 DEF RenewWrite, connVars, clientVars
  <2>2. lock = "renew" /\ NoGhostRow'
    BY <2>1 DEF RowInv, WriterInv, NoGhostRow
  <2>3. renew'.pc # "write" /\ (renew'.pc # "idle" => lock' = "renew")
    BY <1>t, <2>1, <2>2, SMTT(30) DEF NoRenew, Typed
  <2>4. \A c \in Conns : hs[c] # "addwrite" /\ rm[c] # "write"
    BY <1>l, <2>2 DEF RowInv, WriterInv
  <2> QED BY <1>t, <2>1, <2>2, <2>3, <2>4 DEF RowInv, LifeInv, WriterInv
<1>10. ASSUME NEW c \in Conns, NEW ok \in BOOLEAN, NEW done \in BOOLEAN, RenewAdd(c, ok, done)
       PROVE  RowInv'
  <2>1. /\ UNCHANGED <<hs, cl, rm, lock>> /\ renew' = [renew EXCEPT !.todo = @ \ {c}]
        /\ renew.pc = "add" /\ (online' = online \/ (cl[c] = "open" /\ online' \subseteq online \cup {c}))
    BY <1>10 DEF RenewAdd, Active, connVars, clientVars
  <2>2. lock = "renew" /\ renew'.pc # "write"
    BY <2>1, SMTT(30) DEF RowInv, WriterInv
  <2>3. NoGhostRow'
    BY <2>1 DEF RowInv, LifeInv, NoGhostRow
  <2> QED BY <1>t, <2>1, <2>2, <2>3 DEF RowInv, LifeInv, WriterInv
<1>11. CASE RenewEnds
  <2>1. /\ UNCHANGED <<hs, cl, rm, online>> /\ renew' = NoRenew /\ lock' = NoOne /\ lock = "renew"
    BY <1>11 DEF RenewEnds, connVars, clientVars, RowInv, WriterInv
  <2> QED BY <1>l, <1>t, <2>1 DEF RowInv, LifeInv, WriterInv, NoGhostRow, NoRenew
<1>12. ASSUME UNCHANGED <<hs, rm, lock, renew>>, online' \subseteq online,
              \A c \in Conns : (cl[c] = "gone" => cl'[c] = "gone") /\ (cl[c] = "none" => cl'[c] = "none")
       PROVE  RowInv'
  BY <1>t, <1>12 DEF RowInv, LifeInv, WriterInv, NoGhostRow
<1>13. ASSUME NEW c \in Conns, LoseRow(c) \/ Expire(c) \/ Drain(c) \/ CloseBegin(c) \/ CloseEnds(c)
       PROVE  RowInv'
  BY <1>t, <1>12, <1>13, SMTT(30) DEF LoseRow, Expire, Drain, CloseBegin, CloseEnds, connVars, clientVars, presenceVars, Typed
<1>14. CASE \/ \E ok, done \in BOOLEAN : Purge(ok, done)
            \/ ShutdownBegin \/ CancelRun \/ UsersClose \/ DrainAll \/ PollEnds \/ PollExpires \/ HardClosed
            \/ Cancel \/ Seal \/ WaitEnds \/ Deadline \/ UNCHANGED vars
  <2>1. UNCHANGED <<hs, rm, lock, renew, cl>> /\ (online' = online \/ online' = {})
    BY <1>14 DEF Purge, ShutdownBegin, CancelRun, UsersClose, DrainAll, PollEnds, PollExpires, HardClosed, Cancel,
                 Seal, WaitEnds, Deadline, DownStep, connVars, clientVars, presenceVars, vars
  <2> QED BY <1>12, <2>1
<1> QED BY <1>1, <1>2, <1>3, <1>4, <1>5, <1>6, <1>7, <1>8, <1>9, <1>10, <1>11, <1>13, <1>14 DEF Next

(* For any number of connections, removals, renewals and failing or late   *)
(* OnlineStore calls: a row whose removal succeeded is not written again   *)
(* (the presence lock, and the check of the active context under it).      *)
THEOREM NoGhostRows == Spec => []NoGhostRow
<1>1. Init => RowInv
  BY RowInvInit
<1>2. RowInv /\ [Next]_vars => RowInv'
  BY RowInvNext
<1>3. RowInv => NoGhostRow
  BY DEF RowInv
<1> QED BY <1>1, <1>2, <1>3, PTL DEF Spec

-----------------------------------------------------------------------------
(* The slots. *)

(* Of the ways to hold a slot at most one applies: whoever settles the     *)
(* reservation first decides who returns it.                               *)
ReservationInv ==
    \A c \in Conns :
        /\ hs[c] \in {"new", "verified", "reserved"} => watch[c] = "none" /\ ~settled[c]
        /\ hs[c] \in {"returning", "claimed"} => settled[c]
        /\ watch[c] = "on" /\ ~settled[c] => hs[c] \in {"watched", "upgrading"}
        /\ watch[c] = "releasing" => settled[c] /\ hs[c] \in {"watched", "upgrading", "over"} /\ c \notin reg
        /\ c \in reg => hs[c] \in Adopted

SlotInv == Typed /\ ReservationInv /\ SlotsBalanced

(* Those who hold a slot that counts for bucket b. *)
Held(b) == {c \in Conns : Holds(c) /\ b \in Slot[c]}

(* The holders of a bucket are finitely many.                              *)
LEMMA HeldFinite == \A b : IsFiniteSet(Held(b)) /\ Cardinality(Held(b)) \in Nat
<1> TAKE b
<1>1. Held(b) \subseteq Conns /\ IsFiniteSet(Conns)
  BY GatewayAssumption DEF Held
<1> QED BY <1>1, FS_Subset, FS_CardinalityType

(* A step that leaves the counters and the holders alone keeps the balance.*)
LEMMA SameSlots ==
    ASSUME SlotsBalanced, count' = count, \A d \in Conns : Holds(d)' <=> Holds(d)
    PROVE  SlotsBalanced'
<1>1. \A b \in Buckets : Held(b)' = Held(b)
  BY DEF Held
<1> QED BY <1>1 DEF SlotsBalanced, Held, Buckets

(* Reserve: one more holder, one more in each of its buckets, and no limit *)
(* passed.                                                                 *)
LEMMA TakesSlot ==
    ASSUME SlotsBalanced, NEW c \in Conns, ~Holds(c), Holds(c)',
           \A d \in Conns \ {c} : Holds(d)' <=> Holds(d),
           \A b \in Slot[c] : ~Over(b),
           count' = [b \in Buckets |-> IF b \in Slot[c] THEN count[b] + 1 ELSE count[b]]
    PROVE  SlotsBalanced'
<1> SUFFICES ASSUME NEW b \in Buckets
             PROVE  count'[b] = Cardinality(Held(b)') /\ (Limit[b] > 0 => count'[b] <= Limit[b])
  BY DEF SlotsBalanced, Held, Buckets
<1>1. /\ count[b] = Cardinality(Held(b)) /\ (Limit[b] > 0 => count[b] <= Limit[b])
      /\ count[b] \in Nat /\ Limit[b] \in Nat
  BY HeldFinite, GatewayAssumption DEF SlotsBalanced, Held, Buckets
<1>2. CASE b \in Slot[c]
  <2>1. c \notin Held(b) /\ Held(b)' = Held(b) \cup {c}
    BY <1>2 DEF Held
  <2>2. Cardinality(Held(b)') = Cardinality(Held(b)) + 1
    BY <2>1, HeldFinite, FS_AddElement
  <2> QED BY <1>1, <1>2, <2>2, SMTT(30) DEF Over
<1>3. CASE b \notin Slot[c]
  <2>1. Held(b)' = Held(b)
    BY <1>3 DEF Held
  <2> QED BY <1>1, <1>3, <2>1
<1> QED BY <1>2, <1>3

(* One holder fewer, one fewer in each of its buckets: the floor at zero is*)
(* never met.                                                              *)
LEMMA ReturnsSlot ==
    ASSUME SlotsBalanced, NEW c \in Conns, Holds(c), ~Holds(c)',
           \A d \in Conns \ {c} : Holds(d)' <=> Holds(d),
           count' = Released(c)
    PROVE  SlotsBalanced'
<1> SUFFICES ASSUME NEW b \in Buckets
             PROVE  count'[b] = Cardinality(Held(b)') /\ (Limit[b] > 0 => count'[b] <= Limit[b])
  BY DEF SlotsBalanced, Held, Buckets
<1>1. /\ count[b] = Cardinality(Held(b)) /\ (Limit[b] > 0 => count[b] <= Limit[b])
      /\ count[b] \in Nat /\ Limit[b] \in Nat
  BY HeldFinite, GatewayAssumption DEF SlotsBalanced, Held, Buckets
<1>2. CASE b \in Slot[c]
  <2>1. c \in Held(b) /\ Held(b)' = Held(b) \ {c}
    BY <1>2 DEF Held
  <2>2. Cardinality(Held(b)') = Cardinality(Held(b)) - 1 /\ Cardinality(Held(b)') \in Nat
    <3>1. IsFiniteSet(Held(b)) /\ IsFiniteSet(Held(b) \ {c})
      BY HeldFinite, FS_RemoveElement
    <3> QED BY <2>1, <3>1, FS_RemoveElement, FS_CardinalityType
  <2>3. count'[b] = count[b] - 1
    BY <1>1, <1>2, <2>2, SMTT(30) DEF Released
  <2> QED BY <1>1, <2>2, <2>3, SMTT(30)
<1>3. CASE b \notin Slot[c]
  <2>1. Held(b)' = Held(b)
    BY <1>3 DEF Held
  <2>2. count'[b] = count[b]
    BY <1>3 DEF Released
  <2> QED BY <1>1, <2>1, <2>2
<1> QED BY <1>2, <1>3

(* A gateway starts with no slot taken.                                    *)
LEMMA SlotInvInit == Init => SlotInv
<1> SUFFICES ASSUME Init PROVE SlotInv
  OBVIOUS
<1>1. Typed
  BY DEF Init, Typed, Early, NoRenew
<1>2. ReservationInv
  BY DEF Init, ReservationInv
<1>3. \A b : Held(b) = {}
  BY DEF Init, Held, Holds
<1>4. ASSUME NEW b \in Buckets
      PROVE  count[b] = Cardinality(Held(b)) /\ (Limit[b] > 0 => count[b] <= Limit[b])
  <2>1. count[b] = 0 /\ Cardinality(Held(b)) = 0 /\ Limit[b] \in Nat
    BY <1>3, FS_EmptySet, GatewayAssumption DEF Init, Buckets
  <2> QED BY <2>1, SMTT(30)
<1>5. SlotsBalanced
  BY <1>4 DEF SlotsBalanced, Held
<1> QED BY <1>1, <1>2, <1>5 DEF SlotInv

(* The steps that settle, take or return a slot: each disturbs its own     *)
(* connection only.                                                        *)
LEMMA OneConn ==
    ASSUME Typed, NEW c \in Conns,
           \/ Handshake(c) \/ Reserve(c) \/ WatchUpgrade(c) \/ StartUpgrade(c) \/ UpgradeDone(c) \/ UpgradeFails(c)
           \/ ReturnSlot(c) \/ WatchFires(c) \/ WatchReleases(c) \/ Adopt(c) \/ CloseEnds(c)
    PROVE  /\ \A d \in Conns \ {c} : /\ hs'[d] = hs[d] /\ watch'[d] = watch[d]
                                     /\ (settled'[d] <=> settled[d]) /\ (d \in reg' <=> d \in reg)
           /\ \A d \in Conns \ {c} : Holds(d)' <=> Holds(d)
<1>1. \A d \in Conns \ {c} : hs'[d] = hs[d] /\ watch'[d] = watch[d] /\ (d \in reg' <=> d \in reg)
  BY SMTT(30) DEF Typed, Goto, connVars, mapVars, Handshake, Reserve, WatchUpgrade, StartUpgrade, UpgradeDone, UpgradeFails,
         ReturnSlot, WatchFires, WatchReleases, Adopt, CloseEnds
<1>2. settled' = settled \/ settled' = [settled EXCEPT ![c] = TRUE]
  BY DEF connVars, Handshake, Reserve, WatchUpgrade, StartUpgrade, UpgradeDone, UpgradeFails,
         ReturnSlot, WatchFires, WatchReleases, Adopt, CloseEnds
<1>3. \A d \in Conns \ {c} : settled'[d] <=> settled[d]
  BY <1>2 DEF Typed
<1>4. ASSUME NEW d \in Conns \ {c} PROVE Holds(d)' <=> Holds(d)
  BY <1>1, <1>3 DEF Holds
<1> QED BY <1>1, <1>3, <1>4

(* What such a step leaves of ReservationInv to show. *)
LEMMA ReservationOf ==
    ASSUME ReservationInv, NEW c \in Conns,
           \A d \in Conns \ {c} : /\ hs'[d] = hs[d] /\ watch'[d] = watch[d]
                                  /\ (settled'[d] <=> settled[d]) /\ (d \in reg' <=> d \in reg),
           hs'[c] \in {"new", "verified", "reserved"} => watch'[c] = "none" /\ ~settled'[c],
           hs'[c] \in {"returning", "claimed"} => settled'[c],
           watch'[c] = "on" /\ ~settled'[c] => hs'[c] \in {"watched", "upgrading"},
           watch'[c] = "releasing" => settled'[c] /\ hs'[c] \in {"watched", "upgrading", "over"} /\ c \notin reg',
           c \in reg' => hs'[c] \in Adopted
    PROVE  ReservationInv'
BY DEF ReservationInv

(* Every step keeps SlotInv: a slot changes hands, or is taken or returned *)
(* once.                                                                   *)
LEMMA SlotInvNext == SlotInv /\ [Next]_vars => SlotInv'
<1> SUFFICES ASSUME SlotInv, [Next]_vars PROVE SlotInv'
  OBVIOUS
<1>t. Typed /\ Typed' /\ ReservationInv /\ SlotsBalanced
  BY TypedNext DEF SlotInv
<1> SUFFICES ReservationInv' /\ SlotsBalanced'
  BY <1>t DEF SlotInv
<1>1. ASSUME NEW c \in Conns, Handshake(c)
      PROVE  ReservationInv' /\ SlotsBalanced'
  <2>1. /\ hs[c] = "new" /\ hs'[c] \in {"over", "verified"} /\ watch' = watch /\ settled' = settled
        /\ reg' = reg /\ count' = count
    BY <1>t, <1>1, SMTT(30) DEF Handshake, Goto, Typed, mapVars
  <2>2. ReservationInv'
    BY <1>t, <1>1, <2>1, OneConn, ReservationOf DEF ReservationInv, Adopted
  <2>3. Holds(c)' <=> Holds(c)
    BY <1>t, <2>1 DEF Holds, ReservationInv, Adopted
  <2> QED BY <1>t, <1>1, <2>1, <2>2, <2>3, OneConn, SameSlots
<1>2. ASSUME NEW c \in Conns, Reserve(c)
      PROVE  ReservationInv' /\ SlotsBalanced'
  <2>1. /\ hs[c] = "verified" /\ watch' = watch /\ settled' = settled /\ reg' = reg
        /\ \/ hs'[c] = "over" /\ count' = count
           \/ /\ hs'[c] = "reserved" /\ \A b \in Slot[c] : ~Over(b)
              /\ count' = [b \in Buckets |-> IF b \in Slot[c] THEN count[b] + 1 ELSE count[b]]
    BY <1>t, <1>2, SMTT(30) DEF Reserve, Goto, Typed
  <2>2. ReservationInv'
    BY <1>t, <1>2, <2>1, OneConn, ReservationOf DEF ReservationInv, Adopted
  <2>3. ~Holds(c) /\ (Holds(c)' <=> hs'[c] = "reserved")
    BY <1>t, <2>1 DEF Holds, ReservationInv, Adopted
  <2> QED BY <1>t, <1>2, <2>1, <2>2, <2>3, OneConn, SameSlots, TakesSlot
<1>3. ASSUME NEW c \in Conns, WatchUpgrade(c)
      PROVE  ReservationInv' /\ SlotsBalanced'
  <2>1. /\ hs[c] = "reserved" /\ reg' = reg
        /\ \/ hs'[c] = "over" /\ settled'[c] /\ watch'[c] = watch[c] /\ count' = Released(c)
           \/ hs'[c] = "watched" /\ (settled'[c] <=> settled[c]) /\ watch'[c] = "on" /\ count' = count
    BY <1>t, <1>3, SMTT(30) DEF WatchUpgrade, Goto, Typed
  <2>2. watch[c] = "none" /\ ~settled[c] /\ c \notin reg
    BY <1>t, <2>1 DEF ReservationInv, Adopted
  <2>3. ReservationInv'
    BY <1>t, <1>3, <2>1, <2>2, OneConn, ReservationOf
  <2>4. Holds(c) /\ (Holds(c)' <=> hs'[c] = "watched")
    BY <2>1, <2>2 DEF Holds
  <2> QED BY <1>t, <1>3, <2>1, <2>3, <2>4, OneConn, SameSlots, ReturnsSlot
<1>4. ASSUME NEW c \in Conns, StartUpgrade(c) \/ UpgradeDone(c) \/ UpgradeFails(c)
      PROVE  ReservationInv' /\ SlotsBalanced'
  <2>1. /\ watch' = watch /\ reg' = reg /\ count' = count /\ hs[c] \in {"watched", "upgrading"}
        /\ \/ hs'[c] = "over" /\ settled[c] /\ settled'[c]
           \/ hs'[c] = "upgrading" /\ ~settled[c] /\ ~settled'[c]
           \/ hs'[c] \in {"claimed", "returning"} /\ ~settled[c] /\ settled'[c]
    BY <1>t, <1>4, SMTT(30) DEF StartUpgrade, UpgradeDone, UpgradeFails, Claims, Goto, Typed, mapVars
  <2>2. c \notin reg /\ (watch[c] = "releasing" => settled[c])
    BY <1>t, <2>1 DEF ReservationInv, Adopted
  <2>3. ReservationInv'
    BY <1>t, <1>4, <2>1, <2>2, OneConn, ReservationOf
  <2>4. Holds(c)' <=> Holds(c)
    BY <2>1, <2>2 DEF Holds
  <2> QED BY <1>t, <1>4, <2>1, <2>3, <2>4, OneConn, SameSlots
<1>5. ASSUME NEW c \in Conns, WatchFires(c)
      PROVE  ReservationInv' /\ SlotsBalanced'
  <2>1. /\ hs' = hs /\ reg' = reg /\ count' = count /\ watch[c] = "on" /\ settled'[c]
        /\ (settled[c] /\ watch'[c] = "off") \/ (~settled[c] /\ watch'[c] = "releasing")
    BY <1>t, <1>5 DEF WatchFires, Typed, mapVars
  <2>2. ~settled[c] => hs[c] \in {"watched", "upgrading"} /\ c \notin reg
    BY <1>t, <2>1 DEF ReservationInv, Adopted
  <2>3. hs[c] \notin {"new", "verified", "reserved"} /\ (c \in reg => hs[c] \in Adopted)
    BY <1>t, <2>1 DEF ReservationInv
  <2>4. ReservationInv'
    BY <1>t, <1>5, <2>1, <2>2, <2>3, OneConn, ReservationOf
  <2>5. Holds(c)' <=> Holds(c)
    BY <2>1, <2>2 DEF Holds
  <2> QED BY <1>t, <1>5, <2>1, <2>4, <2>5, OneConn, SameSlots
<1>6. ASSUME NEW c \in Conns, WatchReleases(c) \/ ReturnSlot(c)
      PROVE  ReservationInv' /\ SlotsBalanced'
  <2>1. /\ settled' = settled /\ reg' = reg /\ count' = Released(c)
        /\ \/ watch[c] = "releasing" /\ watch'[c] = "off" /\ hs' = hs
           \/ watch' = watch /\ hs[c] = "returning" /\ hs'[c] = "over"
    BY <1>t, <1>6 DEF WatchReleases, ReturnSlot, Goto, Typed
  <2>2. settled[c] /\ c \notin reg /\ (hs[c] = "returning" => watch[c] # "releasing")
    BY <1>t, <2>1 DEF ReservationInv, Adopted
  <2>3. watch[c] = "releasing" => hs[c] \in {"watched", "upgrading", "over"}
    BY <1>t DEF ReservationInv
  <2>4. ReservationInv'
    BY <1>t, <1>6, <2>1, <2>2, <2>3, OneConn, ReservationOf
  <2>5. Holds(c) /\ ~Holds(c)'
    BY <2>1, <2>2, <2>3 DEF Holds
  <2> QED BY <1>t, <1>6, <2>1, <2>4, <2>5, OneConn, ReturnsSlot
<1>7. ASSUME NEW c \in Conns, Adopt(c)
      PROVE  ReservationInv' /\ SlotsBalanced'
  <2>1. /\ settled' = settled /\ watch' = watch /\ hs[c] = "claimed"
        /\ \/ hs'[c] = "close" /\ reg' = reg /\ count' = Released(c)
           \/ hs'[c] = "add" /\ reg' = reg \cup {c} /\ count' = count
    BY <1>t, <1>7, SMTT(30) DEF Adopt, Goto, Typed
  <2>2. settled[c] /\ c \notin reg /\ watch[c] # "releasing"
    BY <1>t, <2>1 DEF ReservationInv, Adopted
  <2>3. ReservationInv'
    BY <1>t, <1>7, <2>1, <2>2, OneConn, ReservationOf DEF Adopted
  <2>4. Holds(c) /\ (Holds(c)' <=> hs'[c] = "add")
    BY <2>1, <2>2 DEF Holds
  <2> QED BY <1>t, <1>7, <2>1, <2>3, <2>4, OneConn, SameSlots, ReturnsSlot
<1>8. ASSUME NEW c \in Conns, CloseEnds(c)
      PROVE  ReservationInv' /\ SlotsBalanced'
  <2>1. /\ UNCHANGED connVars /\ reg' = reg \ {c} /\ count' = IF c \in reg THEN Released(c) ELSE count
    BY <1>8 DEF CloseEnds, Unregisters
  <2>2. ReservationInv'
    BY <1>t, <2>1 DEF ReservationInv, connVars
  <2>3. c \in reg => Holds(c) /\ ~Holds(c)'
    BY <1>t, <2>1 DEF Holds, ReservationInv, Adopted, connVars
  <2>4. c \notin reg => (Holds(c)' <=> Holds(c))
    BY <2>1 DEF Holds, connVars
  <2> QED BY <1>t, <1>8, <2>1, <2>2, <2>3, <2>4, OneConn, SameSlots, ReturnsSlot
<1>9. ASSUME NEW c \in Conns, UNCHANGED <<settled, watch, reg, count>>,
             hs[c] \in Adopted \ {"over"}, hs'[c] \in Adopted, \A d \in Conns \ {c} : hs'[d] = hs[d]
      PROVE  ReservationInv' /\ SlotsBalanced'
  <2>1. ReservationInv'
    BY <1>t, <1>9 DEF ReservationInv, Adopted
  <2>2. \A d \in Conns : Holds(d)' <=> Holds(d)
    BY <1>9 DEF Holds, Adopted
  <2> QED BY <1>t, <1>9, <2>1, <2>2, SameSlots
<1>10. ASSUME NEW c \in Conns, \/ AddBegin(c) \/ AddGivesUp(c) \/ AddLock(c) \/ Serve(c) \/ HandleEnds(c)
                               \/ \E ok, done \in BOOLEAN : AddWrite(c, ok, done)
       PROVE  ReservationInv' /\ SlotsBalanced'
  <2>1. /\ UNCHANGED <<settled, watch, reg, count>> /\ hs[c] \in Adopted \ {"over"}
        /\ \E x \in Adopted : hs' = [hs EXCEPT ![c] = x]
    BY <1>10 DEF AddBegin, AddGivesUp, AddLock, Serve, HandleEnds, AddWrite, Goto, Adopted, mapVars
  <2> QED BY <1>t, <1>9, <2>1, SMTT(30) DEF Typed
<1>11. ASSUME UNCHANGED <<connVars, mapVars>>
       PROVE  ReservationInv' /\ SlotsBalanced'
  BY <1>t, <1>11, SameSlots DEF ReservationInv, Holds, connVars, mapVars
<1>12. ASSUME NEW c \in Conns, \/ RemoveBegin(c) \/ RemoveGivesUp(c) \/ RemoveLock(c) \/ LoseRow(c) \/ Expire(c) \/ Drain(c) \/ CloseBegin(c)
                               \/ \E ok, done \in BOOLEAN : RemoveWrite(c, ok, done) \/ RenewAdd(c, ok, done)
       PROVE  UNCHANGED <<connVars, mapVars>>
  BY <1>12 DEF RemoveBegin, RemoveGivesUp, RemoveLock, LoseRow, Expire, Drain, CloseBegin, RemoveWrite, RenewAdd
<1>13. CASE \/ RenewBegin \/ RenewEnds \/ \E ok, done \in BOOLEAN : RenewWrite(ok, done) \/ Purge(ok, done)
  BY <1>11, <1>13 DEF RenewBegin, RenewEnds, RenewWrite, Purge
<1>14. CASE \/ ShutdownBegin \/ CancelRun \/ UsersClose \/ DrainAll \/ PollEnds \/ PollExpires \/ HardClosed
            \/ Cancel \/ Seal \/ WaitEnds \/ Deadline \/ UNCHANGED vars
  BY <1>11, <1>14 DEF ShutdownBegin, CancelRun, UsersClose, DrainAll, PollEnds, PollExpires, HardClosed, Cancel,
                      Seal, WaitEnds, Deadline, DownStep, vars
<1> QED BY <1>1, <1>2, <1>3, <1>4, <1>5, <1>6, <1>7, <1>8, <1>10, <1>11, <1>12, <1>13, <1>14 DEF Next

(* For any number of handshakes and any limits: UserMap's counters equal   *)
(* the slots that are really held, so each is returned exactly once,       *)
(* whichever of Handle, the watcher and the close comes first, and no      *)
(* limit is passed.                                                        *)
THEOREM SlotsAlwaysBalanced == Spec => []SlotsBalanced
<1>1. Init => SlotInv
  BY SlotInvInit
<1>2. SlotInv /\ [Next]_vars => SlotInv'
  BY SlotInvNext
<1>3. SlotInv => SlotsBalanced
  BY DEF SlotInv
<1> QED BY <1>1, <1>2, <1>3, PTL DEF Spec

-----------------------------------------------------------------------------
(* The shutdown. *)

NoHolder == \A c \in Conns : ~Holds(c)

(* What Shutdown has switched off by the point it has reached; what its    *)
(* poll and its wait have seen stays true. A deadline that has passed when *)
(* the wait ends makes Shutdown late; it may still pass before purgeNode.  *)
DownInv ==
    /\ sd \in {"drain", "poll", "hard", "cancel", "seal", "wait", "purge", "clean"} => {"run", "map"} \subseteq off
    /\ sd = "closemap" => "run" \in off
    /\ sd \in {"wait", "purge", "clean"} => "begin" \in off
    /\ sd = "hard" => "deadline" \in off
    /\ sd \in {"cancel", "seal", "wait"} => NoHolder \/ "deadline" \in off
    /\ sd \in {"purge", "clean"} => NoHolder /\ ~Working
    /\ sd = "clean" /\ driver = "db" => online = {} \/ "deadline" \in off

CleanInv == SlotInv /\ DownInv

(* When the poll of Shutdown reads zero, nobody holds a slot.              *)
LEMMA IdleCounts == ASSUME SlotInv PROVE count[Total] = 0 => NoHolder
<1> SUFFICES ASSUME NEW c \in Conns, count[Total] = 0, Holds(c) PROVE FALSE
  BY DEF NoHolder
<1>1. Total \in Buckets /\ c \in Held(Total)
  BY GatewayAssumption DEF Buckets, Held
<1>2. Cardinality(Held(Total)) = 0
  BY <1>1 DEF SlotInv, SlotsBalanced, Held
<1> QED BY <1>1, <1>2, HeldFinite, FS_EmptySet

(* When nobody holds a slot, no client is registered and the counter is    *)
(* zero.                                                                   *)
LEMMA IdleClean == ASSUME SlotInv, NoHolder PROVE reg = {} /\ count[Total] = 0
<1>1. reg = {}
  BY DEF SlotInv, Typed, NoHolder, Holds
<1>2. Held(Total) = {}
  BY DEF NoHolder, Held
<1>3. Total \in Buckets
  BY GatewayAssumption DEF Buckets
<1> QED BY <1>1, <1>2, <1>3, FS_EmptySet DEF SlotInv, SlotsBalanced, Held

(* Without new reservations nobody comes to hold a slot. *)
LEMMA IdleStays == ASSUME SlotInv, "map" \in off, NoHolder, [Next]_vars PROVE NoHolder'
<1>t. Typed /\ \A c \in Conns : ~Holds(c)
  BY DEF SlotInv, NoHolder
<1> SUFFICES ASSUME NEW c \in Conns PROVE ~Holds(c)'
  BY DEF NoHolder
<1>1. ASSUME NEW d \in Conns, \/ Handshake(d) \/ Reserve(d) \/ WatchUpgrade(d) \/ StartUpgrade(d) \/ UpgradeDone(d)
                              \/ UpgradeFails(d) \/ ReturnSlot(d) \/ WatchFires(d) \/ WatchReleases(d) \/ Adopt(d)
                              \/ CloseEnds(d)
      PROVE  ~Holds(c)'
  <2>1. CASE d # c
    BY <1>t, <1>1, <2>1, OneConn
  <2>2. CASE Handshake(c) \/ Reserve(c)
    BY <1>t, <2>2, SMTT(30) DEF Handshake, Reserve, Off, Goto, Typed, Holds, mapVars
  <2>3. CASE StartUpgrade(c) \/ UpgradeDone(c) \/ UpgradeFails(c)
    BY <1>t, <2>3, SMTT(30) DEF StartUpgrade, UpgradeDone, UpgradeFails, Claims, Goto, Typed, Holds, mapVars
  <2>4. CASE WatchFires(c)
    <3>1. settled[c] \/ hs[c] \notin {"watched", "upgrading"}
      BY <1>t DEF Holds
    <3>2. settled[c]
      BY <2>4, <3>1 DEF WatchFires, SlotInv, ReservationInv
    <3> QED BY <1>t, <2>4, <3>2 DEF WatchFires, Typed, Holds, mapVars
  <2>5. CASE CloseEnds(c)
    BY <1>t, <2>5 DEF CloseEnds, connVars, Holds
  <2>6. CASE WatchUpgrade(c) \/ ReturnSlot(c) \/ WatchReleases(c) \/ Adopt(c)
    BY <1>t, <2>6 DEF WatchUpgrade, ReturnSlot, WatchReleases, Adopt, Holds
  <2> QED BY <1>1, <2>1, <2>2, <2>3, <2>4, <2>5, <2>6
<1>2. ASSUME NEW d \in Conns, \/ AddBegin(d) \/ AddGivesUp(d) \/ AddLock(d) \/ Serve(d) \/ HandleEnds(d)
                              \/ \E ok, done \in BOOLEAN : AddWrite(d, ok, done)
      PROVE  ~Holds(c)'
  <2>1. /\ UNCHANGED <<settled, watch, reg>>
        /\ \E x \in Adopted : hs' = [hs EXCEPT ![d] = x]
    BY <1>2 DEF AddBegin, AddGivesUp, AddLock, Serve, HandleEnds, AddWrite, Goto, Adopted, mapVars
  <2>2. hs'[c] = hs[c] \/ hs'[c] \in Adopted
    BY <1>t, <2>1 DEF Typed
  <2> QED BY <1>t, <2>1, <2>2 DEF Holds, Adopted
<1>3. ASSUME UNCHANGED <<connVars, mapVars>>
      PROVE  ~Holds(c)'
  BY <1>t, <1>3 DEF Holds, connVars, mapVars
<1>4. ASSUME NEW d \in Conns, \/ RemoveBegin(d) \/ RemoveGivesUp(d) \/ RemoveLock(d) \/ LoseRow(d) \/ Expire(d) \/ Drain(d) \/ CloseBegin(d)
                              \/ \E ok, done \in BOOLEAN : RemoveWrite(d, ok, done) \/ RenewAdd(d, ok, done)
      PROVE  UNCHANGED <<connVars, mapVars>>
  BY <1>4 DEF RemoveBegin, RemoveGivesUp, RemoveLock, LoseRow, Expire, Drain, CloseBegin, RemoveWrite, RenewAdd
<1>5. CASE \/ RenewBegin \/ RenewEnds \/ \E ok, done \in BOOLEAN : RenewWrite(ok, done) \/ Purge(ok, done)
  BY <1>3, <1>5 DEF RenewBegin, RenewEnds, RenewWrite, Purge
<1>6. CASE \/ ShutdownBegin \/ CancelRun \/ UsersClose \/ DrainAll \/ PollEnds \/ PollExpires \/ HardClosed
           \/ Cancel \/ Seal \/ WaitEnds \/ Deadline \/ UNCHANGED vars
  BY <1>3, <1>6 DEF ShutdownBegin, CancelRun, UsersClose, DrainAll, PollEnds, PollExpires, HardClosed, Cancel,
                    Seal, WaitEnds, Deadline, DownStep, vars
<1> QED BY <1>1, <1>2, <1>3, <1>4, <1>5, <1>6 DEF Next

(* Only Shutdown and its deadline switch anything off. *)
LEMMA DownKept ==
    ASSUME [Next]_vars
    PROVE  \/ UNCHANGED <<sd, off, driver>>
           \/ \E ok, done \in BOOLEAN : Purge(ok, done)
           \/ ShutdownBegin \/ CancelRun \/ UsersClose \/ DrainAll \/ PollEnds \/ PollExpires \/ HardClosed
           \/ Cancel \/ Seal \/ WaitEnds \/ Deadline
<1>1. ASSUME NEW c \in Conns,
             \/ Handshake(c) \/ Reserve(c) \/ WatchUpgrade(c) \/ StartUpgrade(c) \/ UpgradeDone(c) \/ UpgradeFails(c)
             \/ ReturnSlot(c) \/ WatchFires(c) \/ WatchReleases(c) \/ Adopt(c)
             \/ AddBegin(c) \/ AddGivesUp(c) \/ AddLock(c) \/ Serve(c) \/ HandleEnds(c)
             \/ RemoveBegin(c) \/ RemoveGivesUp(c) \/ RemoveLock(c)
             \/ LoseRow(c) \/ Expire(c) \/ Drain(c) \/ CloseBegin(c) \/ CloseEnds(c)
             \/ \E ok, done \in BOOLEAN : AddWrite(c, ok, done) \/ RemoveWrite(c, ok, done) \/ RenewAdd(c, ok, done)
      PROVE  UNCHANGED <<sd, off, driver>>
  BY <1>1 DEF Handshake, Reserve, WatchUpgrade, StartUpgrade, UpgradeDone, UpgradeFails, ReturnSlot, WatchFires,
              WatchReleases, Adopt, AddBegin, AddGivesUp, AddLock, Serve, HandleEnds, RemoveBegin, RemoveGivesUp,
              RemoveLock, LoseRow, Expire, Drain, CloseBegin, CloseEnds, AddWrite, RemoveWrite, RenewAdd, downVars
<1>2. CASE RenewBegin \/ RenewEnds \/ (\E ok, done \in BOOLEAN : RenewWrite(ok, done)) \/ UNCHANGED vars
  BY <1>2 DEF RenewBegin, RenewEnds, RenewWrite, vars, downVars
<1> QED BY <1>1, <1>2 DEF Next

(* Once the work group is sealed and empty it stays empty, and nobody      *)
(* writes a row.                                                           *)
LEMMA WorkStays ==
    ASSUME Typed, {"run", "begin"} \subseteq off, ~Working, [Next]_vars
    PROVE  ~Working' /\ (online = {} => online' = {})
<1> DEFINE Quiescent(c) == /\ hs[c] \notin {"addlock", "addwrite", "serving"}
                           /\ rm[c] \notin {"lock", "write"} /\ watch[c] \notin {"on", "releasing"}
<1>1. renew = NoRenew /\ \A c \in Conns : Quiescent(c)
  BY DEF Working
<1>2. ASSUME renew' = NoRenew, \A c \in Conns : Quiescent(c)', "run" \in off'
      PROVE  ~Working'
  BY <1>2 DEF Working, Off, NoRenew
<1>3. off \subseteq off'
  BY DownKept DEF SwitchOff, Purge, ShutdownBegin, CancelRun, UsersClose, DrainAll, PollEnds, PollExpires, HardClosed,
                  Cancel, Seal, WaitEnds, Deadline
<1>4. ASSUME NEW c \in Conns,
             \/ Handshake(c) \/ Reserve(c) \/ WatchUpgrade(c) \/ StartUpgrade(c) \/ UpgradeDone(c) \/ UpgradeFails(c)
             \/ ReturnSlot(c) \/ Adopt(c) \/ AddBegin(c) \/ Serve(c) \/ HandleEnds(c)
      PROVE  ~Working' /\ (online = {} => online' = {})
  <2>1. UNCHANGED presenceVars /\ watch' = watch
        /\ \E x \in (Early \cup Adopted) \ {"addlock", "addwrite", "serving"} : hs' = [hs EXCEPT ![c] = x]
    BY <1>4 DEF Handshake, Reserve, WatchUpgrade, StartUpgrade, UpgradeDone, UpgradeFails, ReturnSlot, Adopt,
                AddBegin, Serve, HandleEnds, Goto, Sealed, OpRefused, Off, Early, Adopted, connVars
  <2> QED BY <1>1, <1>2, <1>3, <2>1 DEF Typed, presenceVars
<1>5. ASSUME NEW c \in Conns, RemoveBegin(c) \/ RemoveGivesUp(c)
      PROVE  ~Working' /\ (online = {} => online' = {})
  <2>1. UNCHANGED <<connVars, online, renew>> /\ rm' = [rm EXCEPT ![c] = "left"]
    BY <1>5 DEF RemoveBegin, RemoveGivesUp, OpRefused, Off
  <2> QED BY <1>1, <1>2, <1>3, <2>1 DEF Typed, connVars
<1>6. ASSUME UNCHANGED <<connVars, rm, renew>>, online' = online \/ online' = {} \/ \E c \in Conns : online' = online \ {c}
      PROVE  ~Working' /\ (online = {} => online' = {})
  BY <1>1, <1>2, <1>3, <1>6 DEF connVars
<1>7. ASSUME NEW c \in Conns, LoseRow(c) \/ Expire(c) \/ Drain(c) \/ CloseBegin(c) \/ CloseEnds(c)
      PROVE  ~Working' /\ (online = {} => online' = {})
  BY <1>6, <1>7 DEF LoseRow, Expire, Drain, CloseBegin, CloseEnds, presenceVars
<1>8. CASE \/ \E ok, done \in BOOLEAN : Purge(ok, done)
           \/ ShutdownBegin \/ CancelRun \/ UsersClose \/ DrainAll \/ PollEnds \/ PollExpires \/ HardClosed
           \/ Cancel \/ Seal \/ WaitEnds \/ Deadline \/ UNCHANGED vars
  <2>1. UNCHANGED <<connVars, rm, renew>> /\ (online' = online \/ online' = {})
    BY <1>8 DEF Purge, ShutdownBegin, CancelRun, UsersClose, DrainAll, PollEnds, PollExpires, HardClosed, Cancel,
                Seal, WaitEnds, Deadline, DownStep, presenceVars, vars
  <2> QED BY <1>6, <2>1
<1>9. /\ ~(RenewBegin \/ RenewEnds \/ \E ok, done \in BOOLEAN : RenewWrite(ok, done))
      /\ \A c \in Conns : /\ ~(WatchFires(c) \/ WatchReleases(c) \/ AddGivesUp(c) \/ AddLock(c) \/ RemoveLock(c))
                          /\ ~\E ok, done \in BOOLEAN : AddWrite(c, ok, done) \/ RemoveWrite(c, ok, done) \/ RenewAdd(c, ok, done)
  BY <1>1, SMTT(30) DEF NoRenew, Off, RenewBegin, RenewEnds, RenewWrite, WatchFires, WatchReleases, AddGivesUp, AddLock, RemoveLock,
              AddWrite, RemoveWrite, RenewAdd
<1> QED BY <1>4, <1>5, <1>7, <1>8, <1>9 DEF Next

(* A running gateway has switched nothing off.                             *)
LEMMA CleanInvInit == Init => CleanInv
BY SlotInvInit DEF Init, CleanInv, DownInv

(* Every step of the gateway and of Shutdown keeps CleanInv.               *)
LEMMA CleanInvNext == CleanInv /\ [Next]_vars => CleanInv'
<1> SUFFICES ASSUME SlotInv, DownInv, [Next]_vars PROVE DownInv'
  BY SlotInvNext DEF CleanInv
<1>1. "map" \in off /\ NoHolder => NoHolder'
  BY IdleStays
<1>2. {"run", "begin"} \subseteq off /\ ~Working => ~Working' /\ (online = {} => online' = {})
  BY WorkStays DEF SlotInv
<1>3. count[Total] = 0 => NoHolder
  BY IdleCounts
<1>4. CASE UNCHANGED <<sd, off, driver>>
  BY <1>1, <1>2, <1>4 DEF DownInv
<1>5. CASE ShutdownBegin \/ CancelRun \/ UsersClose \/ DrainAll
  BY <1>5 DEF DownInv, ShutdownBegin, CancelRun, UsersClose, DrainAll, Step, SwitchOff
<1>6. CASE PollEnds \/ PollExpires \/ HardClosed
  BY <1>1, <1>3, <1>6 DEF DownInv, PollEnds, PollExpires, HardClosed, Step, SwitchOff, Off
<1>7. CASE Cancel \/ Seal
  BY <1>1, <1>7 DEF DownInv, Cancel, Seal, Step, SwitchOff
<1>8. CASE WaitEnds
  BY <1>1, <1>2, <1>8 DEF DownInv, WaitEnds, Step, Off
<1>9. CASE \E ok, done \in BOOLEAN : Purge(ok, done)
  <2>1. PICK ok, done \in BOOLEAN : Purge(ok, done)
    BY <1>9
  <2>2. sd = "purge" /\ sd' \in {"clean", "late"} /\ off' = off /\ driver' = driver
    BY <2>1 DEF Purge, Step
  <2>3. sd' = "clean" /\ driver = "db" => online' = {} \/ "deadline" \in off
    BY <2>1 DEF Purge, Step, Off, OnlineStore
  <2> QED BY <1>1, <1>2, <2>2, <2>3 DEF DownInv
<1>10. CASE Deadline
  BY <1>1, <1>2, <1>10 DEF DownInv, Deadline, SwitchOff, DownStep
<1> QED BY <1>4, <1>5, <1>6, <1>7, <1>8, <1>9, <1>10, DownKept

(* A Shutdown that returns without an error leaves nothing behind and        *)
(* nothing comes back later, for any number of connections and whatever was  *)
(* under way when it began: no goroutine of the gateway, no registered       *)
(* client, no slot; and, in the table, no row of the node unless the         *)
(* deadline passed between the two places that read it. In redis, whose      *)
(* PurgeNode does nothing, a row may be left to its ttl                      *)
(* (Gateway.Shutdown, purgeNode, workGroup, UserMap.Close).                  *)
THEOREM ShutdownLeavesNothing == Spec => []ShutdownClean
<1>1. CleanInv => ShutdownClean
  BY IdleClean DEF CleanInv, DownInv, ShutdownClean, Off
<1> QED BY <1>1, CleanInvInit, CleanInvNext, PTL DEF Spec

-----------------------------------------------------------------------------
(* The life of a node. *)

(* A stop no wait of which timed out and that no failure began. *)
Graceful == ~late /\ failure \notin {"http", "bus"}

(* Nothing runs before Start, and no request before Listen. *)
StartInv ==
    /\ task \in [Tasks -> {"none", "running", "push", "ended"}]
    /\ main \in {"new", "build", "undo", "start"} =>
           http = "off" /\ drainCall = "off" /\ \A t \in Tasks : task[t] = "none"
    /\ main \in {"new", "build", "undo"} => run = "off" /\ ~misused
    /\ main = "serve" => drainCall = "off"

(* What each stage of the stop leaves behind. *)
StopInv ==
    /\ drainCall \in {"running", "stranded"} => main \in {"http", "drain"}
    /\ main \in {"close", "closeall"} => drainCall = "done"
    /\ Graceful /\ drainCall # "off" => http \notin {"listening"}
    /\ Graceful /\ drainCall = "done" => ~Busy(Wss, "running") /\ run # "running"
    /\ Graceful /\ main \in {"drain", "close", "closeall"} => http = "stopped" /\ ~Busy(Https, "running")
    /\ Graceful /\ main = "closeall" => ~Busy(Tasks, "push")

(* Dependencies are closed at the end only. *)
CloseInv == closed # <<>> => main \in {"undo", "closeall", "returned"}

NodeInv == StartInv /\ StopInv /\ CloseInv /\ UsesOpen

LEMMA NodeInvInit == NodeInit => NodeInv
BY DEF NodeInit, NodeInv, StartInv, StopInv, CloseInv, UsesOpen, Busy, Tasks

(* Only a closed dependency can be misused. *)
LEMMA OpenIsUsable ==
    ASSUME NEW ds, Uses(ds), UsesOpen, ~Graceful \/ closed = <<>>,
           late' = late, failure' = failure
    PROVE  UsesOpen'
<1>1. ASSUME closed = <<>> PROVE Range(closed) = {}
  BY <1>1, SMTT(30) DEF Range
<1>2. CASE closed = <<>>
  <2>1. ~\E d \in ds \cap owned : d \in Range(closed)
    BY <1>1, <1>2, Zenon
  <2> QED
    BY <2>1 DEF Uses, UsesOpen
<1>3. CASE ~Graceful
  BY <1>3 DEF Graceful, UsesOpen
<1> QED
  BY <1>2, <1>3

(* Building, starting and listening. *)
LEMMA BuildingKeeps ==
    ASSUME NodeInv, New \/ Build \/ Start \/ Listen
    PROVE  NodeInv'
<1> USE DEF NodeInv, StartInv, StopInv, CloseInv, UsesOpen, Graceful, Busy, Tasks
<1>1. CASE New
  BY <1>1 DEF New
<1>2. CASE Build
  <2>1. /\ main = "build" /\ main' \in {"build", "undo"}
        /\ failure' \in {failure, "mismatch", "address", "open"}
        /\ UNCHANGED <<owned, closed, run, runErr, signalled, http, drainCall, task, late, misused>>
    BY <1>2 DEF Build, Opens, OpenFails
  <2> QED
    BY <2>1
<1>3. CASE Start
  BY <1>3 DEF Start
<1>4. CASE Listen
  BY <1>4 DEF Listen
<1> QED
  BY <1>1, <1>2, <1>3, <1>4

(* The handlers, the pushes and the loops. *)
LEMMA ServingKeeps ==
    ASSUME NodeInv, RunEnds \/ Signal \/ HttpFails
                    \/ \E t \in Tasks : Begin(t) \/ Handle(t) \/ OfflinePush(t)
    PROVE  NodeInv'
<1>1. CASE RunEnds
  <2>1. ~Graceful \/ closed = <<>>
    BY <1>1 DEF RunEnds, NodeInv, CloseInv, StopInv, StartInv
  <2>2. UsesOpen'
    BY <1>1, <2>1, OpenIsUsable DEF RunEnds, Idle, NodeInv
  <2> QED
    BY <1>1, <2>2 DEF RunEnds, Idle, NodeInv, StartInv, StopInv, CloseInv, Graceful, Busy
<1>2. CASE Signal
  BY <1>2 DEF Signal, Idle, NodeInv, StartInv, StopInv, CloseInv, Graceful, Busy, UsesOpen
<1>3. CASE HttpFails
  BY <1>3 DEF HttpFails, Idle, NodeInv, StartInv, StopInv, CloseInv, Graceful, Busy, UsesOpen
<1>4. ASSUME NEW t \in Tasks, Begin(t) PROVE NodeInv'
  BY <1>4 DEF Begin, Idle, NodeInv, StartInv, StopInv, CloseInv, Graceful, Busy, UsesOpen, Tasks
<1>5. ASSUME NEW t \in Tasks, Handle(t) PROVE NodeInv'
  <2>1. ~Graceful \/ closed = <<>>
    BY <1>5 DEF Handle, NodeInv, CloseInv, StopInv, StartInv, Busy, Tasks
  <2>2. UsesOpen'
    BY <1>5, <2>1, OpenIsUsable DEF Handle, Idle, NodeInv
  <2>3. ~(Graceful /\ main = "closeall")
    BY <1>5 DEF Handle, NodeInv, StopInv, Busy, Tasks
  <2> QED
    BY <1>5, <2>2, <2>3 DEF Handle, Idle, NodeInv, StartInv, StopInv, CloseInv, Graceful, Busy, Tasks
<1>6. ASSUME NEW t \in Tasks, OfflinePush(t) PROVE NodeInv'
  <2>1. ~Graceful \/ closed = <<>>
    BY <1>6 DEF OfflinePush, NodeInv, CloseInv, StopInv, StartInv, Busy
  <2>2. UsesOpen'
    BY <1>6, <2>1, OpenIsUsable DEF OfflinePush, Idle, NodeInv
  <2> QED
    BY <1>6, <2>2 DEF OfflinePush, Idle, NodeInv, StartInv, StopInv, CloseInv, Graceful, Busy, Tasks
<1> QED
  BY <1>1, <1>2, <1>3, <1>4, <1>5, <1>6

(* The stop, stage by stage. *)
LEMMA StoppingKeeps ==
    ASSUME NodeInv, Stop \/ Strand \/ Drained \/ HttpStopped \/ Close \/ Wait \/ CloseNext \/ Return
    PROVE  NodeInv'
<1>1. CASE Stop
  BY <1>1 DEF Stop, NodeInv, StartInv, StopInv, CloseInv, Graceful, Busy, UsesOpen
<1>2. CASE Drained
  <2>1. closed = <<>>
    BY <1>2 DEF Drained, NodeInv, StopInv, CloseInv
  <2>2. UsesOpen'
    <3>1. ~\E d \in {"store", "online"} \cap owned : d \in Range(closed)
      BY <2>1, SMTT(30) DEF Range
    <3> QED
      BY <1>2, <3>1 DEF Drained, Uses, UsesOpen, Waits, Idle, NodeInv
  <2> QED
    BY <1>2, <2>1, <2>2 DEF Drained, Waits, Idle, NodeInv, StartInv, StopInv, CloseInv, Graceful, Busy
<1>3. CASE HttpStopped
  BY <1>3 DEF HttpStopped, Waits, Idle, NodeInv, StartInv, StopInv, CloseInv, Graceful, Busy, UsesOpen
<1>4. CASE Close
  BY <1>4 DEF Close, Idle, NodeInv, StartInv, StopInv, CloseInv, Graceful, Busy, UsesOpen
<1>5. CASE Wait
  BY <1>5 DEF Wait, Waits, PushesDone, Idle, NodeInv, StartInv, StopInv, CloseInv, Graceful, Busy, UsesOpen
<1>6. CASE CloseNext
  BY <1>6 DEF CloseNext, Idle, NodeInv, StartInv, StopInv, CloseInv, Graceful, Busy, UsesOpen
<1>7. CASE Return
  BY <1>7 DEF Return, Idle, NodeInv, StartInv, StopInv, CloseInv, Graceful, Busy, UsesOpen
<1>8. CASE Strand
  BY <1>8 DEF Strand, Idle, NodeInv, StartInv, StopInv, CloseInv, Graceful, Busy, UsesOpen
<1> QED
  BY <1>1, <1>2, <1>3, <1>4, <1>5, <1>6, <1>7, <1>8

LEMMA NodeInvNext == NodeInv /\ [NodeNext]_nodeVars => NodeInv'
<1>1. ASSUME NodeInv, NodeNext PROVE NodeInv'
  BY <1>1, BuildingKeeps, ServingKeeps, StoppingKeeps DEF NodeNext, NodeGoesOn
<1>2. ASSUME NodeInv, UNCHANGED nodeVars PROVE NodeInv'
  BY <1>2 DEF nodeVars, NodeInv, StartInv, StopInv, CloseInv, Graceful, Busy, UsesOpen
<1> QED
  BY <1>1, <1>2

-----------------------------------------------------------------------------
(* The dependencies of a node. *)
Deps == {"store", "cache", "bus", "online"}

(* What was opened and is not closed is a beginning of the order Build     *)
(* opens in; what was closed continues it, backwards.                      *)
OrderInv ==
    /\ opened \in Seq(Deps) /\ closed \in Seq(Deps)
    /\ Len(opened) + Len(closed) <= 4
    /\ \A i \in 1 .. Len(opened) : opened[i] = Dependencies[i]
    /\ \A i \in 1 .. Len(closed) : closed[i] = Dependencies[Len(opened) + Len(closed) + 1 - i]
    /\ main \in {"new", "returned"} => opened = <<>>

(* Opening the next dependency of the order keeps it. *)
LEMMA OpenKeepsOrder ==
    ASSUME OrderInv, closed = <<>>, Len(opened) < Len(Dependencies), main' \notin {"new", "returned"},
           opened' = Append(opened, Dependencies[Len(opened) + 1]), closed' = closed
    PROVE  OrderInv'
<1>1. Len(Dependencies) = 4 /\ \A i \in 1 .. 4 : Dependencies[i] \in Deps
  BY SMTT(30) DEF Dependencies, Deps
<1> QED
  BY <1>1, SMTT(30) DEF OrderInv

(* A beginning of a sequence. *)
LEMMA Beginning ==
    ASSUME NEW S, NEW s \in Seq(S), NEW n \in 0 .. Len(s)
    PROVE  /\ SubSeq(s, 1, n) \in Seq(S) /\ Len(SubSeq(s, 1, n)) = n
           /\ \A i \in 1 .. n : SubSeq(s, 1, n)[i] = s[i]
BY SMTT(30)

(* closeAll takes the closers from the end of the order. *)
LEMMA CloseKeepsOrder ==
    ASSUME OrderInv, CloseNext
    PROVE  OrderInv'
<1>1. /\ opened # <<>> /\ main' = main /\ main \notin {"new", "returned"}
      /\ closed' = Append(closed, opened[Len(opened)])
      /\ opened' = SubSeq(opened, 1, Len(opened) - 1)
  BY DEF CloseNext, closeAll
<1>2. /\ opened \in Seq(Deps) /\ Len(opened) \in Nat /\ Len(opened) >= 1 /\ Len(closed) \in Nat
      /\ opened[Len(opened)] = Dependencies[Len(opened)] /\ opened[Len(opened)] \in Deps
  BY <1>1, SMTT(30) DEF OrderInv
<1>3. /\ opened' \in Seq(Deps) /\ Len(opened') = Len(opened) - 1
      /\ \A i \in 1 .. Len(opened) - 1 : opened'[i] = opened[i]
  <2>1. Len(opened) - 1 \in 0 .. Len(opened)
    BY <1>2, SMTT(30)
  <2> QED
    BY <1>1, <1>2, <2>1, Beginning
<1>4. /\ closed' \in Seq(Deps) /\ Len(closed') = Len(closed) + 1
      /\ \A i \in 1 .. Len(closed) : closed'[i] = closed[i]
      /\ closed'[Len(closed) + 1] = Dependencies[Len(opened)]
  BY <1>1, <1>2, SMTT(30) DEF OrderInv
<1>5. Len(opened') + Len(closed') = Len(opened) + Len(closed)
  BY <1>2, <1>3, <1>4, SMTT(30)
<1>6. ASSUME NEW i \in 1 .. Len(closed')
      PROVE  closed'[i] = Dependencies[Len(opened') + Len(closed') + 1 - i]
  BY <1>2, <1>4, <1>5, SMTT(30) DEF OrderInv
<1>7. ASSUME NEW i \in 1 .. Len(opened') PROVE opened'[i] = Dependencies[i]
  BY <1>2, <1>3, SMTT(30) DEF OrderInv
<1>8. Len(opened') + Len(closed') <= 4
  BY <1>5 DEF OrderInv
<1> QED
  BY <1>1, <1>3, <1>4, <1>6, <1>7, <1>8 DEF OrderInv

(* No other step opens, closes or forgets a dependency. *)
LEMMA OrderInvNext ==
    ASSUME NodeInv, OrderInv, [NodeNext]_nodeVars
    PROVE  OrderInv'
<1>1. CASE CloseNext
  BY <1>1, CloseKeepsOrder
<1>2. CASE Build
  <2>1. closed = <<>> /\ closed' = closed /\ main' \in {"build", "undo"} /\ Len(opened) < Len(Dependencies)
    BY <1>2 DEF Build, Opens, OpenFails, NodeInv, CloseInv
  <2>2. opened' = opened \/ opened' = Append(opened, Dependencies[Len(opened) + 1])
    BY <1>2 DEF Build, Opens, OpenFails
  <2>3. CASE opened' = opened
    BY <2>1, <2>3 DEF OrderInv
  <2> QED
    BY <2>1, <2>2, <2>3, OpenKeepsOrder
<1>3. ASSUME UNCHANGED <<opened, closed>>,
             main' \in {"new", "returned"} => main' = main \/ main = "new" \/ opened = <<>>
      PROVE  OrderInv'
  BY <1>3 DEF OrderInv
<1>4. CASE New \/ Start \/ Listen
  BY <1>3, <1>4 DEF New, Start, Listen
<1>5. CASE RunEnds \/ Signal \/ HttpFails \/ Strand \/ Drained
           \/ \E t \in Tasks : Begin(t) \/ Handle(t) \/ OfflinePush(t)
  BY <1>3, <1>5 DEF RunEnds, Signal, HttpFails, Strand, Drained, Begin, Handle, OfflinePush
<1>6. CASE Stop
  BY <1>3, <1>6 DEF Stop
<1>7. CASE HttpStopped \/ Close \/ Wait \/ Return
  BY <1>3, <1>7 DEF HttpStopped, Close, Wait, Return
<1>8. CASE UNCHANGED nodeVars
  BY <1>3, <1>8 DEF nodeVars
<1> QED
  BY <1>1, <1>2, <1>4, <1>5, <1>6, <1>7, <1>8 DEF NodeNext, NodeGoesOn

(* Nothing is open: the closed are a beginning of the order, backwards. *)
LEMMA ClosedBackwards ==
    ASSUME OrderInv, main = "returned"
    PROVE  opened = <<>> /\ closed = [i \in 1 .. Len(closed) |-> Dependencies[Len(closed) + 1 - i]]
<1>1. PICK n : n = Len(closed)
  OBVIOUS
<1>2. opened = <<>> /\ Len(<<>>) = 0
  BY SMTT(30) DEF OrderInv
<1>3. n \in Nat /\ \A i \in 1 .. n : closed[i] = Dependencies[n + 1 - i]
  BY <1>1, <1>2, SMTT(30) DEF OrderInv
<1>4. closed = [i \in 1 .. n |-> closed[i]]
  BY <1>1, SMTT(30) DEF OrderInv
<1>5. [i \in 1 .. n |-> closed[i]] = [i \in 1 .. n |-> Dependencies[n + 1 - i]]
  BY <1>3, Zenon
<1> QED
  BY <1>1, <1>2, <1>4, <1>5

(* When ListenAndServe returns, also from a build that failed half way,    *)
(* every dependency that was opened has been closed, once and in reverse   *)
(* order (app.go: fail, closeAll); and in a graceful stop no handler, loop *)
(* or offline push meets a closed one unless a wait timed out (server.go). *)
THEOREM EveryStopIsClean == NodeSpec => []StopsClean
<1>1. NodeInit => NodeInv /\ OrderInv
  <2>1. NodeInit => OrderInv
    BY SMTT(30) DEF NodeInit, OrderInv
  <2> QED
    BY <2>1, NodeInvInit
<1>2. NodeInv /\ OrderInv /\ [NodeNext]_nodeVars => NodeInv' /\ OrderInv'
  BY NodeInvNext, OrderInvNext
<1>3. NodeInv /\ OrderInv => StopsClean
  BY ClosedBackwards DEF StopsClean, NodeInv
<1> QED
  BY <1>1, <1>2, <1>3, PTL DEF NodeSpec

-----------------------------------------------------------------------------
(* Until the node is built its configuration is the one that was validated. *)

BuildInv ==
    /\ main = "new" => cfg \in Config /\ opened = <<>>
    /\ main = "build" => cfg \in Config /\ Validate(cfg) /\ opened \in Seq(Deps)

(* Validate leaves no dependency without the address it is opened with     *)
(* (config.go: Validate, DbConfig.validate).                               *)
LEMMA AddressKnown ==
    ASSUME NEW c \in Config, Validate(c), NEW d \in Deps
    PROVE  HasAddress(c, d)
<1>1. CASE d = "store"
  BY <1>1 DEF HasAddress, Validate, DbValid
<1>2. CASE d = "cache"
  BY <1>2 DEF HasAddress, Validate, OwnPg
<1>3. CASE d = "bus"
  BY <1>3 DEF HasAddress, Validate, OwnPg
<1>4. CASE d = "online"
  BY <1>4 DEF HasAddress, Validate
<1> QED
  BY <1>1, <1>2, <1>3, <1>4 DEF Deps

(* Build's next step: a known dependency, with an address. *)
LEMMA BuildKeeps ==
    ASSUME BuildInv, ValidatedOpens, Build
    PROVE  BuildInv' /\ ValidatedOpens'
<1> DEFINE d == Dependencies[Len(opened) + 1]
<1>1. /\ main = "build" /\ cfg \in Config /\ Validate(cfg) /\ opened \in Seq(Deps)
      /\ Len(opened) < Len(Dependencies)
  BY DEF Build, BuildInv
<1>2. d \in Deps
  BY <1>1, SMTT(30) DEF Dependencies, Deps
<1>3. HasAddress(cfg, d)
  BY <1>1, <1>2, AddressKnown
<1>4. Append(opened, d) \in Seq(Deps)
  BY <1>1, <1>2, SMTT(30)
<1>5. \/ opened' = Append(opened, d) /\ main' = "build" /\ UNCHANGED <<cfg, failure>>
      \/ main' = "undo" /\ failure' \in {"mismatch", "open"}
  BY <1>1, <1>3 DEF Build, Opens, OpenFails
<1> HIDE DEF d
<1> QED
  BY <1>1, <1>4, <1>5 DEF BuildInv, ValidatedOpens

(* No other step opens a dependency or returns to building. *)
LEMMA BuildInvNext ==
    ASSUME BuildInv, ValidatedOpens, [NodeNext]_nodeVars
    PROVE  BuildInv' /\ ValidatedOpens'
<1> USE DEF BuildInv, ValidatedOpens
<1>1. CASE New
  <2>1. main = "new" /\ cfg \in Config /\ opened = <<>> /\ opened' = opened
    BY <1>1 DEF New
  <2>2. <<>> \in Seq(Deps)
    BY SMTT(30)
  <2> QED
    BY <1>1, <2>1, <2>2 DEF New
<1>2. CASE Build
  BY <1>2, BuildKeeps
<1>3. CASE Start \/ Listen
  BY <1>3 DEF Start, Listen
<1>4. ASSUME main' = main, opened' = opened, Idle PROVE BuildInv' /\ ValidatedOpens'
  BY <1>4 DEF Idle
<1>5. CASE RunEnds \/ Signal \/ HttpFails \/ Strand \/ Drained
           \/ \E t \in Tasks : Begin(t) \/ Handle(t) \/ OfflinePush(t)
  BY <1>4, <1>5 DEF RunEnds, Signal, HttpFails, Strand, Drained, Begin, Handle, OfflinePush
<1>6. CASE Stop
  BY <1>6 DEF Stop
<1>7. CASE HttpStopped \/ Close \/ Wait \/ CloseNext \/ Return
  BY <1>7 DEF HttpStopped, Close, Wait, CloseNext, Return, Idle
<1>8. CASE UNCHANGED nodeVars
  BY <1>8 DEF nodeVars
<1> QED
  BY <1>1, <1>2, <1>3, <1>5, <1>6, <1>7, <1>8 DEF NodeNext, NodeGoesOn

(* Every configuration Validate accepts can be opened: Build never fails   *)
(* for want of an address, whichever driver, Bus, cache and OnlineStore    *)
(* are chosen and whatever connection the host injects.                    *)
THEOREM AcceptedOpens == NodeSpec => []ValidatedOpens
<1>1. NodeInit => BuildInv /\ ValidatedOpens
  BY DEF NodeInit, BuildInv, ValidatedOpens
<1>2. BuildInv /\ ValidatedOpens /\ [NodeNext]_nodeVars => BuildInv' /\ ValidatedOpens'
  BY BuildInvNext
<1> QED
  BY <1>1, <1>2, PTL DEF NodeSpec
=============================================================================
