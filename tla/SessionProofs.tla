---------------------------- MODULE SessionProofs ---------------------------
(*****************************************************************************)
(* Theorems about Session and Caches. For any tokens, connections, nodes and *)
(* failure limit: types, the arbitration of fallback kicks, what a re-check  *)
(* may drain, and what a logout may delete. For any keys, values, ttls and   *)
(* times: the three caches agree, and a nonce is accepted once within the    *)
(* timestamp window.                                                         *)
(*****************************************************************************)
EXTENDS Session, Caches, TLAPS


-----------------------------------------------------------------------------
(* The caches, and the nonces of internal requests. *)

Backends == {"local", "pg", "redis"}

IsMap(m) == m \in [DOMAIN m -> [val : Values \cup {1}, exp : Nat]]

Entry(v, ttl) == [val |-> v, exp |-> expiry(ttl)]

\* What a call does to a cache's live entries: nothing, puts e under k, drops k.
Kept(m, n) ==
    IsMap(n) /\ Live(n) = Live(m) /\ \A x \in Live(m) : n[x] = m[x]

Put(m, n, k, e) ==
    /\ IsMap(n) /\ n[k] = e
    /\ Live(n) \ {k} = Live(m) \ {k}
    /\ k \in DOMAIN n
    /\ \A x \in Live(m) \ {k} : n[x] = m[x]

Dropped(m, n, k) ==
    IsMap(n) /\ Live(n) = Live(m) \ {k} /\ \A x \in Live(m) \ {k} : n[x] = m[x]

Held(m, k, v) == k \in Live(m) /\ m[k].val = v

SetNXResult(m, c, k, v, ttl) ==
    \/ k \in Live(m) /\ Kept(m, c.m) /\ c.val = {FALSE}
    \/ k \notin Live(m) /\ Put(m, c.m, k, Entry(v, ttl)) /\ c.val = {TRUE}

SetResult(m, c, k, v, ttl) == Put(m, c.m, k, Entry(v, ttl)) /\ c.val = {}

GetResult(m, c, k) ==
    /\ Kept(m, c.m)
    /\ \/ k \in Live(m) /\ c.val = {m[k].val}
       \/ k \notin Live(m) /\ c.val = {}

DelResult(m, c, k, v) ==
    /\ c.val = {}
    /\ \/ Held(m, k, v) /\ Dropped(m, c.m, k)
       \/ ~Held(m, k, v) /\ Kept(m, c.m)

(* What Set stores is an entry. *)
LEMMA EntryType ==
    ASSUME clock \in Nat, NEW v \in Values \cup {1}, NEW ttl \in Int
    PROVE  Entry(v, ttl) \in [val : Values \cup {1}, exp : Nat]
BY SMTT(30) DEF Entry, expiry

(* Storing puts one entry and leaves the others. *)
LEMMA StorePuts ==
    ASSUME clock \in Nat, NEW m, IsMap(m), NEW k, NEW v \in Values \cup {1}, NEW ttl \in Int
    PROVE  Put(m, Store(m, k, v, ttl), k, Entry(v, ttl))
<1> DEFINE e == Entry(v, ttl)
           n == Store(m, k, v, ttl)
<1>1. e \in [val : Values \cup {1}, exp : Nat]
  BY EntryType
<1>2. n = [x \in DOMAIN m \cup {k} |-> IF x \in {k} THEN e ELSE m[x]]
  BY DEF Store, WithRow, With, Entry
<1> HIDE DEF e, n
<1>3. IsMap(n) /\ n[k] = e /\ k \in DOMAIN n
  BY <1>1, <1>2 DEF IsMap
<1>4. \A x : x # k => /\ x \in DOMAIN n <=> x \in DOMAIN m
                      /\ x \in DOMAIN m => n[x] = m[x]
  BY <1>2
<1>5. Live(n) \ {k} = Live(m) \ {k}
  BY <1>4 DEF Live
<1> QED
  BY <1>3, <1>4, <1>5 DEF Put, e, n, Live

(* local's get drops nothing that is live, and finds a key exactly when it   *)
(* is live.                                                                  *)
LEMMA LocalGetKeeps ==
    ASSUME clock \in Nat, NEW m, IsMap(m), NEW k
    PROVE  /\ Kept(m, localget(m, k))
           /\ k \in DOMAIN localget(m, k) <=> k \in Live(m)
<1>1. CASE k \in DOMAIN m \ Live(m)
  <2> DEFINE n == [x \in DOMAIN m \ {k} |-> m[x]]
  <2>1. localget(m, k) = n
    BY <1>1 DEF localget, Delete, Done
  <2>2. IsMap(n)
    BY DEF IsMap
  <2>3. Live(n) = Live(m)
    BY <1>1 DEF Live
  <2> QED
    BY <1>1, <2>1, <2>2, <2>3 DEF Kept, Live
<1>2. CASE ~(k \in DOMAIN m \ Live(m))
  BY <1>2 DEF localget, Kept, Live
<1> QED
  BY <1>1, <1>2

(* Deleting a key drops it and nothing else. *)
LEMMA DeleteDrops ==
    ASSUME NEW m, IsMap(m), NEW k
    PROVE  Dropped(m, Delete(m, {k}).tab, k)
<1> DEFINE n == [x \in DOMAIN m \ {k} |-> m[x]]
<1>1. Delete(m, {k}).tab = n
  BY DEF Delete, Done
<1>2. IsMap(n)
  BY DEF IsMap
<1>3. Live(n) = Live(m) \ {k}
  BY DEF Live
<1> QED
  BY <1>1, <1>2, <1>3 DEF Dropped, Live

(* Dropping dead entries before a store is not seen after it. *)
LEMMA KeptThenPut ==
    ASSUME NEW m, NEW n, NEW o, NEW k, NEW e, Kept(m, n), Put(n, o, k, e)
    PROVE  Put(m, o, k, e)
BY DEF Kept, Put

(* ... nor before a deletion. *)
LEMMA KeptThenDropped ==
    ASSUME NEW m, NEW n, NEW o, NEW k, Kept(m, n), Dropped(n, o, k)
    PROVE  Dropped(m, o, k)
BY DEF Kept, Dropped

(* The parts of a call's result. *)
LEMMA LeftParts ==
    \A m, val : Left(m, val).m = m /\ Left(m, val).val = val
BY DEF Left

(* SetNX on a live key. *)
LEMMA SetNXTaken ==
    ASSUME NEW m, NEW n, NEW k, NEW v, NEW ttl, k \in Live(m), Kept(m, n)
    PROVE  SetNXResult(m, Left(n, {FALSE}), k, v, ttl)
BY LeftParts DEF SetNXResult

(* SetNX on a key that is not live. *)
LEMMA SetNXFree ==
    ASSUME NEW m, NEW n, NEW k, NEW v, NEW ttl, k \notin Live(m), Put(m, n, k, Entry(v, ttl))
    PROVE  SetNXResult(m, Left(n, {TRUE}), k, v, ttl)
BY LeftParts DEF SetNXResult

-----------------------------------------------------------------------------
(* The calls of the local cache do what Get, Set, SetNX and DelIfValue       *)
(* promise.                                                                  *)
LEMMA LocalCalls ==
    ASSUME clock \in Nat, NEW m, IsMap(m), NEW k
    PROVE  /\ GetResult(m, LocalGet(m, k), k)
           /\ \A v \in Values \cup {1}, ttl \in Int :
                 /\ SetResult(m, LocalSet(m, k, v, ttl), k, v, ttl)
                 /\ SetNXResult(m, LocalSetNX(m, k, v, ttl), k, v, ttl)
           /\ \A v : DelResult(m, LocalDelIfValue(m, k, v), k, v)
<1> DEFINE kept == localget(m, k)
<1>1. Kept(m, kept) /\ (k \in DOMAIN kept <=> k \in Live(m))
  BY LocalGetKeeps
<1>2. IsMap(kept)
  BY <1>1 DEF Kept
<1> HIDE DEF kept
<1>3. GetResult(m, LocalGet(m, k), k)
  <2>1. LocalGet(m, k).m = kept /\ LocalGet(m, k).val = {e.val : e \in At(kept, k)}
    BY DEF LocalGet, Left, kept
  <2>2. CASE k \in Live(m)
    <3>1. At(kept, k) = {m[k]}
      BY <1>1, <2>2 DEF At, Kept
    <3> QED
      BY <1>1, <2>1, <2>2, <3>1 DEF GetResult
  <2>3. CASE k \notin Live(m)
    <3>1. At(kept, k) = {}
      BY <1>1, <2>3 DEF At
    <3> QED
      BY <1>1, <2>1, <2>3, <3>1 DEF GetResult
  <2> QED
    BY <2>2, <2>3
<1>4. ASSUME NEW v \in Values \cup {1}, NEW ttl \in Int
      PROVE  /\ SetResult(m, LocalSet(m, k, v, ttl), k, v, ttl)
             /\ SetNXResult(m, LocalSetNX(m, k, v, ttl), k, v, ttl)
  <2>1. SetResult(m, LocalSet(m, k, v, ttl), k, v, ttl)
    BY StorePuts DEF SetResult, LocalSet, Left
  <2>2. CASE k \in Live(m)
    <3>1. LocalSetNX(m, k, v, ttl) = Left(kept, {FALSE})
      BY <1>1, <2>2 DEF LocalSetNX, kept
    <3> QED
      BY <1>1, <2>1, <2>2, <3>1, SetNXTaken
  <2>3. CASE k \notin Live(m)
    <3>1. LocalSetNX(m, k, v, ttl) = Left(Store(kept, k, v, ttl), {TRUE})
      BY <1>1, <2>3 DEF LocalSetNX, kept
    <3>2. Put(kept, Store(kept, k, v, ttl), k, Entry(v, ttl))
      BY <1>2, StorePuts
    <3>3. Put(m, Store(kept, k, v, ttl), k, Entry(v, ttl))
      BY <1>1, <3>2, KeptThenPut
    <3> QED
      BY <2>1, <2>3, <3>1, <3>3, SetNXFree
  <2> QED
    BY <2>2, <2>3
<1>5. ASSUME NEW v PROVE DelResult(m, LocalDelIfValue(m, k, v), k, v)
  <2>1. (\E e \in At(kept, k) : e.val = v) <=> Held(m, k, v)
    BY <1>1 DEF At, Held, Kept
  <2>2. CASE Held(m, k, v)
    <3>1. LocalDelIfValue(m, k, v) = Left(Delete(kept, {k}).tab, {})
      BY <2>1, <2>2 DEF LocalDelIfValue, kept
    <3>2. Dropped(m, Delete(kept, {k}).tab, k)
      BY <1>1, <1>2, DeleteDrops, KeptThenDropped
    <3> QED
      BY <2>2, <3>1, <3>2 DEF DelResult, Left
  <2>3. CASE ~Held(m, k, v)
    <3>1. LocalDelIfValue(m, k, v) = Left(kept, {})
      BY <2>1, <2>3 DEF LocalDelIfValue, kept
    <3> QED
      BY <1>1, <2>3, <3>1 DEF DelResult, Left
  <2> QED
    BY <2>2, <2>3
<1> QED
  BY <1>3, <1>4, <1>5

(* A map that stays keeps its live entries. *)
LEMMA SameKept ==
    ASSUME NEW m, IsMap(m) PROVE Kept(m, m)
BY DEF Kept

(* The two forms in which the queries test for expiry. *)
LEMMA LiveTest ==
    ASSUME clock \in Nat, NEW m, IsMap(m), NEW k
    PROVE  /\ k \in Live(m) <=> k \in DOMAIN m /\ (m[k].exp = 0 \/ m[k].exp > clock)
           /\ k \in Live(m) <=> k \in DOMAIN m /\ ~(m[k].exp # 0 /\ m[k].exp <= clock)
BY SMTT(30) DEF Live, alive, IsMap

(* pg's Set stores the same entry: its whole seconds are 0 exactly when      *)
(* there is no ttl.                                                          *)
LEMMA PgSetStores ==
    ASSUME clock \in Nat, NEW m, NEW k, NEW v, NEW ttl \in Int
    PROVE  PgSet(m, k, v, ttl) = Left(Store(m, k, v, ttl), {})
<1>1. (IF ttlSeconds(ttl) > 0 THEN clock + ttlSeconds(ttl) ELSE 0) = expiry(ttl)
  BY SMTT(30) DEF ttlSeconds, expiry
<1> QED
  BY <1>1 DEF PgSet, Store

(* ... and so do the calls of the pg cache, which leaves dead rows in place, *)
LEMMA PgCalls ==
    ASSUME clock \in Nat, NEW m, IsMap(m), NEW k
    PROVE  /\ GetResult(m, PgGet(m, k), k)
           /\ \A v \in Values \cup {1}, ttl \in Int :
                 /\ SetResult(m, PgSet(m, k, v, ttl), k, v, ttl)
                 /\ SetNXResult(m, PgSetNX(m, k, v, ttl), k, v, ttl)
           /\ \A v : DelResult(m, PgDelIfValue(m, k, v), k, v)
<1>1. Kept(m, m)
  BY SameKept
<1>2. k \in Live(m) <=> k \in DOMAIN m /\ (m[k].exp = 0 \/ m[k].exp > clock)
  BY LiveTest
<1>3. GetResult(m, PgGet(m, k), k)
  <2> DEFINE S == {x \in At(m, k) : x.exp = 0 \/ x.exp > clock}
  <2>1. PgGet(m, k).m = m /\ PgGet(m, k).val = {e.val : e \in S}
    BY DEF PgGet, Left
  <2>2. CASE k \in Live(m)
    <3>1. S = {m[k]}
      BY <1>2, <2>2 DEF At
    <3> QED
      BY <1>1, <2>1, <2>2, <3>1 DEF GetResult
  <2>3. CASE k \notin Live(m)
    <3>1. S = {}
      BY <1>2, <2>3 DEF At
    <3> QED
      BY <1>1, <2>1, <2>3, <3>1 DEF GetResult
  <2> QED
    BY <2>2, <2>3
<1>4. ASSUME NEW v \in Values \cup {1}, NEW ttl \in Int
      PROVE  /\ SetResult(m, PgSet(m, k, v, ttl), k, v, ttl)
             /\ SetNXResult(m, PgSetNX(m, k, v, ttl), k, v, ttl)
  <2>1. PgSet(m, k, v, ttl) = Left(Store(m, k, v, ttl), {})
    BY PgSetStores
  <2>2. Put(m, Store(m, k, v, ttl), k, Entry(v, ttl))
    BY StorePuts
  <2>3. SetResult(m, PgSet(m, k, v, ttl), k, v, ttl)
    BY <2>1, <2>2 DEF SetResult, Left
  <2>4. CASE k \in Live(m)
    <3>1. PgSetNX(m, k, v, ttl) = Left(m, {FALSE})
      BY <2>4, LiveTest DEF PgSetNX
    <3> QED
      BY <1>1, <2>3, <2>4, <3>1, SetNXTaken
  <2>5. CASE k \notin Live(m)
    <3>1. PgSetNX(m, k, v, ttl) = Left(PgSet(m, k, v, ttl).m, {TRUE})
      BY <2>5, LiveTest DEF PgSetNX
    <3>2. PgSet(m, k, v, ttl).m = Store(m, k, v, ttl)
      BY <2>1, LeftParts
    <3> QED
      BY <2>2, <2>3, <2>5, <3>1, <3>2, SetNXFree
  <2> QED
    BY <2>4, <2>5
<1>5. ASSUME NEW v PROVE DelResult(m, PgDelIfValue(m, k, v), k, v)
  <2>1. (\E e \in At(m, k) : e.val = v /\ (e.exp = 0 \/ e.exp > clock)) <=> Held(m, k, v)
    BY <1>2 DEF At, Held
  <2>2. CASE Held(m, k, v)
    <3>1. PgDelIfValue(m, k, v) = Left(Delete(m, {k}).tab, {})
      BY <2>1, <2>2 DEF PgDelIfValue
    <3> QED
      BY <2>2, <3>1, DeleteDrops DEF DelResult, Left
  <2>3. CASE ~Held(m, k, v)
    <3>1. PgDelIfValue(m, k, v) = Left(m, {})
      BY <2>1, <2>3 DEF PgDelIfValue
    <3> QED
      BY <1>1, <2>3, <3>1 DEF DelResult, Left
  <2> QED
    BY <2>2, <2>3
<1> QED
  BY <1>3, <1>4, <1>5

(* ... and those of the Redis cache. *)
LEMMA RedisCalls ==
    ASSUME clock \in Nat, NEW m, IsMap(m), NEW k
    PROVE  /\ GetResult(m, RedisGet(m, k), k)
           /\ \A v \in Values \cup {1}, ttl \in Int :
                 /\ SetResult(m, RedisSet(m, k, v, ttl), k, v, ttl)
                 /\ SetNXResult(m, RedisSetNX(m, k, v, ttl), k, v, ttl)
           /\ \A v : DelResult(m, RedisDelIfValue(m, k, v), k, v)
<1>1. Kept(m, m)
  BY SameKept
<1>2. GetResult(m, RedisGet(m, k), k)
  BY <1>1 DEF GetResult, RedisGet, Left
<1>3. ASSUME NEW v \in Values \cup {1}, NEW ttl \in Int
      PROVE  /\ SetResult(m, RedisSet(m, k, v, ttl), k, v, ttl)
             /\ SetNXResult(m, RedisSetNX(m, k, v, ttl), k, v, ttl)
  <2> DEFINE o == Store(m, k, v, IF ttl > 0 THEN ttl ELSE 0)
  <2>1. expiry(IF ttl > 0 THEN ttl ELSE 0) = expiry(ttl)
    BY SMTT(30) DEF expiry
  <2>2. o = Store(m, k, v, ttl)
    BY <2>1 DEF Store
  <2>3. Put(m, o, k, Entry(v, ttl))
    BY <2>2, StorePuts
  <2> HIDE DEF o
  <2>4. RedisSet(m, k, v, ttl) = Left(o, {})
    BY DEF RedisSet, o
  <2>5. SetResult(m, RedisSet(m, k, v, ttl), k, v, ttl)
    BY <2>3, <2>4 DEF SetResult, Left
  <2>6. RedisSetNX(m, k, v, ttl) = IF k \in Live(m) THEN Left(m, {FALSE}) ELSE Left(o, {TRUE})
    BY DEF RedisSetNX, o
  <2> QED
    BY <1>1, <2>3, <2>5, <2>6, SetNXTaken, SetNXFree
<1>4. ASSUME NEW v PROVE DelResult(m, RedisDelIfValue(m, k, v), k, v)
  <2>1. CASE Held(m, k, v)
    <3>1. RedisDelIfValue(m, k, v) = Left(Delete(m, {k}).tab, {})
      BY <2>1 DEF RedisDelIfValue, Held
    <3> QED
      BY <2>1, <3>1, DeleteDrops DEF DelResult, Left
  <2>2. CASE ~Held(m, k, v)
    <3>1. RedisDelIfValue(m, k, v) = Left(m, {})
      BY <2>2 DEF RedisDelIfValue, Held
    <3> QED
      BY <1>1, <2>2, <3>1 DEF DelResult, Left
  <2> QED
    BY <2>1, <2>2
<1> QED
  BY <1>2, <1>3, <1>4

-----------------------------------------------------------------------------
SameLive(m, n) == Live(m) = Live(n) /\ \A x \in Live(m) : m[x] = n[x]

RememberedIn(m, k, t) ==
    /\ t <= clock
    /\ clock < t + 2 * skew =>
          k \in Live(m) /\ (m[k].exp = 0 \/ m[k].exp >= t + 2 * skew)

NonceKeys == Services \X Nonces

MapsInv ==
    /\ clock \in Nat
    /\ IsMap(local) /\ IsMap(pgrows) /\ IsMap(redis)
    /\ SameLive(local, pgrows) /\ SameLive(pgrows, redis)
    /\ answers.local = answers.pg /\ answers.pg = answers.redis

VerifyInv ==
    /\ verifying \in [Handlers -> SUBSET {r \in Requests : nonceKey(r) \in NonceKeys}]
    /\ accepted \in [Backends -> [NonceKeys -> Seq(Nat)]]
    /\ \A b \in Backends, k \in NonceKeys :
          \A i \in DOMAIN accepted[b][k] : RememberedIn(local, k, accepted[b][k][i])

CachesInv == MapsInv /\ VerifyInv /\ NonceSpaced

(* Caches with the same live entries have them still after a call that keeps *)
(* them,                                                                     *)
LEMMA SameAfterKept ==
    ASSUME NEW m, NEW n, NEW m2, NEW n2, SameLive(m, n), Kept(m, m2), Kept(n, n2)
    PROVE  SameLive(m2, n2)
BY DEF SameLive, Kept

(* ... drops one, *)
LEMMA SameAfterDropped ==
    ASSUME NEW m, NEW n, NEW m2, NEW n2, NEW k, SameLive(m, n),
           Dropped(m, m2, k), Dropped(n, n2, k)
    PROVE  SameLive(m2, n2)
BY DEF SameLive, Dropped

(* ... or puts one. *)
LEMMA SameAfterPut ==
    ASSUME NEW m, NEW n, NEW m2, NEW n2, NEW k, NEW e, SameLive(m, n),
           Put(m, m2, k, e), Put(n, n2, k, e)
    PROVE  SameLive(m2, n2)
<1>1. k \in Live(m2) <=> k \in Live(n2)
  BY DEF Put, Live
<1>2. Live(m2) \ {k} = Live(n2) \ {k}
  BY DEF Put, SameLive
<1>3. Live(m2) = Live(n2)
  BY <1>1, <1>2
<1>4. \A x \in Live(m2) : m2[x] = n2[x]
  <2> TAKE x \in Live(m2)
  <2>1. CASE x = k
    BY <2>1 DEF Put
  <2>2. CASE x # k
    BY <2>2 DEF Put, SameLive
  <2> QED
    BY <2>1, <2>2
<1> QED
  BY <1>3, <1>4 DEF SameLive

(* A call that does what it promises answers alike on maps with the same     *)
(* live entries, and leaves such maps.                                       *)
LEMMA SameAnswers ==
    ASSUME NEW m, NEW n, NEW c, NEW d, SameLive(m, n), NEW k, NEW v, NEW ttl,
           \/ GetResult(m, c, k) /\ GetResult(n, d, k)
           \/ SetResult(m, c, k, v, ttl) /\ SetResult(n, d, k, v, ttl)
           \/ SetNXResult(m, c, k, v, ttl) /\ SetNXResult(n, d, k, v, ttl)
           \/ DelResult(m, c, k, v) /\ DelResult(n, d, k, v)
    PROVE  /\ SameLive(c.m, d.m) /\ c.val = d.val
           /\ IsMap(c.m) /\ IsMap(d.m)
<1>1. CASE GetResult(m, c, k) /\ GetResult(n, d, k)
  BY <1>1, SameAfterKept DEF GetResult, SameLive, Kept
<1>2. CASE SetResult(m, c, k, v, ttl) /\ SetResult(n, d, k, v, ttl)
  BY <1>2, SameAfterPut DEF SetResult, Put
<1>3. CASE SetNXResult(m, c, k, v, ttl) /\ SetNXResult(n, d, k, v, ttl)
  <2>1. k \in Live(m) <=> k \in Live(n)
    BY DEF SameLive
  <2>2. CASE k \in Live(m)
    BY <1>3, <2>1, <2>2, SameAfterKept DEF SetNXResult, Kept
  <2>3. CASE k \notin Live(m)
    <3>1. /\ Put(m, c.m, k, Entry(v, ttl)) /\ c.val = {TRUE}
          /\ Put(n, d.m, k, Entry(v, ttl)) /\ d.val = {TRUE}
      BY <1>3, <2>1, <2>3 DEF SetNXResult
    <3> QED
      BY <3>1, SameAfterPut DEF Put
  <2> QED
    BY <2>2, <2>3
<1>4. CASE DelResult(m, c, k, v) /\ DelResult(n, d, k, v)
  <2>1. Held(m, k, v) <=> Held(n, k, v)
    BY DEF SameLive, Held
  <2>2. CASE Held(m, k, v)
    BY <1>4, <2>1, <2>2, SameAfterDropped DEF DelResult, Dropped
  <2>3. CASE ~Held(m, k, v)
    BY <1>4, <2>1, <2>3, SameAfterKept DEF DelResult, Kept
  <2> QED
    BY <2>2, <2>3
<1> QED
  BY <1>1, <1>2, <1>3, <1>4

(* A call on all three caches keeps them alike. *)
LEMMA CallKeepsMaps ==
    ASSUME MapsInv, NEW l, NEW p, NEW r, CallAll(l, p, r), clock' = clock,
           NEW k, NEW v, NEW ttl,
           \/ GetResult(local, l, k) /\ GetResult(pgrows, p, k) /\ GetResult(redis, r, k)
           \/ /\ SetResult(local, l, k, v, ttl) /\ SetResult(pgrows, p, k, v, ttl)
              /\ SetResult(redis, r, k, v, ttl)
           \/ /\ SetNXResult(local, l, k, v, ttl) /\ SetNXResult(pgrows, p, k, v, ttl)
              /\ SetNXResult(redis, r, k, v, ttl)
           \/ DelResult(local, l, k, v) /\ DelResult(pgrows, p, k, v) /\ DelResult(redis, r, k, v)
    PROVE  MapsInv'
<1>1. /\ SameLive(l.m, p.m) /\ l.val = p.val
      /\ IsMap(l.m) /\ IsMap(p.m)
  <2>1. SameLive(local, pgrows)
    BY DEF MapsInv
  <2> QED
    BY <2>1, SameAnswers
<1>2. /\ SameLive(p.m, r.m) /\ p.val = r.val
      /\ IsMap(p.m) /\ IsMap(r.m)
  <2>1. SameLive(pgrows, redis)
    BY DEF MapsInv
  <2> QED
    BY <2>1, SameAnswers
<1>3. /\ local' = l.m /\ pgrows' = p.m /\ redis' = r.m
      /\ answers'.local = l.val /\ answers'.pg = p.val /\ answers'.redis = r.val
  BY DEF CallAll
<1>4. SameLive(local, pgrows)' /\ SameLive(pgrows, redis)'
  BY <1>1, <1>2, <1>3 DEF SameLive, Live, alive
<1>5. IsMap(local)' /\ IsMap(pgrows)' /\ IsMap(redis)'
  BY <1>1, <1>2, <1>3 DEF IsMap
<1>6. clock' \in Nat
  BY DEF MapsInv
<1> QED
  BY <1>1, <1>2, <1>3, <1>4, <1>5, <1>6 DEF MapsInv

-----------------------------------------------------------------------------
(* A nonce is remembered as long as its entry stays. *)
LEMMA RememberedAfter ==
    ASSUME NEW m, NEW n, NEW k, NEW t, RememberedIn(m, k, t),
           k \in Live(m) => k \in Live(n) /\ n[k] = m[k]
    PROVE  RememberedIn(n, k, t)
BY DEF RememberedIn

(* Every time at which a nonce was accepted is remembered. *)
LEMMA AcceptedTimes ==
    ASSUME VerifyInv, NEW b \in Backends, NEW k \in NonceKeys
    PROVE  /\ accepted[b][k] \in Seq(Nat)
           /\ \A i \in DOMAIN accepted[b][k] :
                 accepted[b][k][i] \in Nat /\ RememberedIn(local, k, accepted[b][k][i])
<1>1. accepted[b][k] \in Seq(Nat)
  BY DEF VerifyInv
<1>2. \A i \in DOMAIN accepted[b][k] : accepted[b][k][i] \in Nat
  BY <1>1, SMTT(30)
<1> QED
  BY <1>1, <1>2 DEF VerifyInv

(* A step that forgets no nonce and accepts none keeps VerifyInv. *)
LEMMA VerifyKept ==
    ASSUME VerifyInv, NEW n, local' = n, clock' = clock, accepted' = accepted,
           verifying' \in [Handlers -> SUBSET {r \in Requests : nonceKey(r) \in NonceKeys}],
           \A k \in NonceKeys, t \in Nat : RememberedIn(local, k, t) => RememberedIn(n, k, t)
    PROVE  VerifyInv'
<1>1. \A k, t : RememberedIn(local, k, t)' <=> RememberedIn(n, k, t)
  BY DEF RememberedIn, Live, alive
<1>2. ASSUME NEW b \in Backends, NEW k \in NonceKeys, NEW i \in DOMAIN accepted[b][k]
      PROVE  RememberedIn(local, k, accepted[b][k][i])'
  <2> PICK t : t = accepted[b][k][i]
    OBVIOUS
  <2>1. t \in Nat /\ RememberedIn(local, k, t)
    BY AcceptedTimes
  <2>2. RememberedIn(local, k, t)'
    BY <1>1, <2>1
  <2>3. accepted'[b][k][i] = t
    OBVIOUS
  <2> QED
    BY <2>2, <2>3 DEF RememberedIn
<1>3. accepted' \in [Backends -> [NonceKeys -> Seq(Nat)]]
  BY DEF VerifyInv
<1> QED
  BY <1>2, <1>3 DEF VerifyInv, NonceKeys

(* A call with another key forgets no nonce. *)
LEMMA OtherKey ==
    ASSUME NEW m, NEW c, NEW key, NEW v, NEW ttl, NEW k, NEW t, k # key,
           RememberedIn(m, k, t),
           \/ GetResult(m, c, key) \/ SetResult(m, c, key, v, ttl)
           \/ SetNXResult(m, c, key, v, ttl) \/ DelResult(m, c, key, v)
    PROVE  RememberedIn(c.m, k, t)
<1>1. \/ Kept(m, c.m) \/ Put(m, c.m, key, Entry(v, ttl)) \/ Dropped(m, c.m, key)
  BY DEF GetResult, SetResult, SetNXResult, DelResult
<1>2. k \in Live(m) => k \in Live(c.m) /\ c.m[k] = m[k]
  BY <1>1 DEF Kept, Put, Dropped
<1> QED
  BY <1>2, RememberedAfter

(* SetNX forgets no nonce: it overwrites only what has expired, which is     *)
(* after the window.                                                         *)
LEMMA SetNXRemembers ==
    ASSUME clock \in Nat, skew \in Nat, NEW m, NEW c, NEW key, NEW v, NEW ttl,
           NEW k, NEW t \in Nat,
           RememberedIn(m, k, t), SetNXResult(m, c, key, v, ttl)
    PROVE  RememberedIn(c.m, k, t)
<1>1. CASE key \in Live(m)
  BY <1>1, RememberedAfter DEF SetNXResult, Kept
<1>2. CASE key \notin Live(m) /\ k # key
  BY <1>2, OtherKey
<1>3. CASE key \notin Live(m) /\ k = key
  BY <1>3 DEF RememberedIn
<1> QED
  BY <1>1, <1>2, <1>3

(* A nonce that was just stored is remembered for the whole window. *)
LEMMA NonceStays ==
    ASSUME clock \in Nat, skew \in Nat, NEW m, NEW k,
           k \in DOMAIN m, m[k] = Entry(1, nonceTtl)
    PROVE  RememberedIn(m, k, clock)
<1>1. m[k].exp = expiry(nonceTtl)
  BY DEF Entry
<1>2. expiry(nonceTtl) = 0 \/ expiry(nonceTtl) = clock + 2 * skew
  BY SMTT(30) DEF expiry, nonceTtl
<1>3. clock < clock + 2 * skew => k \in Live(m)
  BY <1>1, <1>2, SMTT(30) DEF Live, alive
<1> QED
  BY <1>1, <1>2, <1>3, SMTT(30) DEF RememberedIn

-----------------------------------------------------------------------------
(* A step that accepts nothing keeps NonceSpaced. *)
LEMMA SpacedKept ==
    ASSUME NonceSpaced, accepted' = accepted PROVE NonceSpaced'
BY DEF NonceSpaced

(* The invariant holds at the start. *)
LEMMA InitHolds == CachesInit => CachesInv
<1> SUFFICES ASSUME CachesInit PROVE CachesInv
  OBVIOUS
<1> PICK e : e = <<>>
  OBVIOUS
<1>1. local = e /\ pgrows = e /\ redis = e /\ clock = 1
  BY DEF CachesInit
<1>2. DOMAIN e = {} /\ e \in Seq(Nat)
  BY SMTT(30)
<1>3. IsMap(e) /\ Live(e) = {}
  BY <1>2 DEF IsMap, Live
<1>4. clock \in Nat
  BY <1>1, SMTT(30)
<1>5. answers.local = answers.pg /\ answers.pg = answers.redis
  BY DEF CachesInit
<1>6. MapsInv
  BY <1>1, <1>3, <1>4, <1>5 DEF MapsInv, SameLive
<1>7. accepted = [b \in Backends |-> [k \in NonceKeys |-> e]]
  BY DEF CachesInit, Backends, NonceKeys
<1>8. /\ accepted \in [Backends -> [NonceKeys -> Seq(Nat)]]
      /\ DOMAIN accepted = Backends
      /\ \A b \in Backends, k \in NonceKeys : DOMAIN accepted[b][k] = {}
  BY <1>2, <1>7
<1>9. verifying \in [Handlers -> SUBSET {r \in Requests : nonceKey(r) \in NonceKeys}]
  BY DEF CachesInit
<1>10. VerifyInv
  BY <1>8, <1>9 DEF VerifyInv
<1>11. NonceSpaced
  BY <1>8 DEF NonceSpaced, NonceKeys
<1> QED
  BY <1>6, <1>10, <1>11 DEF CachesInv

\* A call of the cache with a key that is no nonce's.
OtherCall(l, p, r, key, v, ttl) ==
    \/ GetResult(local, l, key) /\ GetResult(pgrows, p, key) /\ GetResult(redis, r, key)
    \/ /\ SetResult(local, l, key, v, ttl) /\ SetResult(pgrows, p, key, v, ttl)
       /\ SetResult(redis, r, key, v, ttl)
    \/ /\ SetNXResult(local, l, key, v, ttl) /\ SetNXResult(pgrows, p, key, v, ttl)
       /\ SetNXResult(redis, r, key, v, ttl)
    \/ DelResult(local, l, key, v) /\ DelResult(pgrows, p, key, v) /\ DelResult(redis, r, key, v)

(* A call with a key that is no nonce keeps the invariant. *)
LEMMA OtherCallKeeps ==
    ASSUME CachesInv, NEW l, NEW p, NEW r, NEW key \in Keys, NEW v, NEW ttl,
           OtherCall(l, p, r, key, v, ttl), CallAll(l, p, r),
           UNCHANGED <<clock, verifying, accepted>>
    PROVE  CachesInv'
<1>1. MapsInv'
  BY CallKeepsMaps DEF CachesInv, OtherCall
<1>2. \A k \in NonceKeys : k # key
  BY CachesAssumption DEF NonceKeys
<1>3. \A k \in NonceKeys, t \in Nat : RememberedIn(local, k, t) => RememberedIn(l.m, k, t)
  BY <1>2, OtherKey DEF OtherCall
<1>4. /\ local' = l.m
      /\ verifying' \in [Handlers -> SUBSET {x \in Requests : nonceKey(x) \in NonceKeys}]
  BY DEF CallAll, CachesInv, VerifyInv
<1>5. VerifyInv'
  BY <1>3, <1>4, VerifyKept DEF CachesInv
<1> QED
  BY <1>1, <1>5, SpacedKept DEF CachesInv

(* Get, Set, SetNX and DelIfValue keep it, *)
LEMMA CallsKeep ==
    ASSUME CachesInv, CallGet \/ CallSet \/ CallSetNX \/ CallDelIfValue
    PROVE  CachesInv'
<1>1. clock \in Nat /\ IsMap(local) /\ IsMap(pgrows) /\ IsMap(redis)
  BY DEF CachesInv, MapsInv
<1>2. CASE CallGet
  <2>1. PICK k \in Keys :
            /\ CallAll(LocalGet(local, k), PgGet(pgrows, k), RedisGet(redis, k))
            /\ UNCHANGED <<clock, verifying, accepted>>
    BY <1>2 DEF CallGet
  <2>2. OtherCall(LocalGet(local, k), PgGet(pgrows, k), RedisGet(redis, k), k, 1, 0)
    BY <1>1, LocalCalls, PgCalls, RedisCalls DEF OtherCall
  <2> QED
    BY <2>1, <2>2, OtherCallKeeps
<1>3. CASE CallSet
  <2>1. PICK k \in Keys, v \in Values, ttl \in Ttls :
            /\ CallAll(LocalSet(local, k, v, ttl), PgSet(pgrows, k, v, ttl), RedisSet(redis, k, v, ttl))
            /\ UNCHANGED <<clock, verifying, accepted>>
    BY <1>3 DEF CallSet
  <2>2. v \in Values \cup {1} /\ ttl \in Int
    BY CachesAssumption
  <2>3. OtherCall(LocalSet(local, k, v, ttl), PgSet(pgrows, k, v, ttl), RedisSet(redis, k, v, ttl),
                  k, v, ttl)
    BY <1>1, <2>2, LocalCalls, PgCalls, RedisCalls DEF OtherCall
  <2> QED
    BY <2>1, <2>3, OtherCallKeeps
<1>4. CASE CallSetNX
  <2>1. PICK k \in Keys, v \in Values, ttl \in Ttls :
            /\ CallAll(LocalSetNX(local, k, v, ttl), PgSetNX(pgrows, k, v, ttl),
                       RedisSetNX(redis, k, v, ttl))
            /\ UNCHANGED <<clock, verifying, accepted>>
    BY <1>4 DEF CallSetNX
  <2>2. v \in Values \cup {1} /\ ttl \in Int
    BY CachesAssumption
  <2>3. OtherCall(LocalSetNX(local, k, v, ttl), PgSetNX(pgrows, k, v, ttl),
                  RedisSetNX(redis, k, v, ttl), k, v, ttl)
    BY <1>1, <2>2, LocalCalls, PgCalls, RedisCalls DEF OtherCall
  <2> QED
    BY <2>1, <2>3, OtherCallKeeps
<1>5. CASE CallDelIfValue
  <2>1. PICK k \in Keys, v \in Values :
            /\ CallAll(LocalDelIfValue(local, k, v), PgDelIfValue(pgrows, k, v),
                       RedisDelIfValue(redis, k, v))
            /\ UNCHANGED <<clock, verifying, accepted>>
    BY <1>5 DEF CallDelIfValue
  <2>2. OtherCall(LocalDelIfValue(local, k, v), PgDelIfValue(pgrows, k, v),
                  RedisDelIfValue(redis, k, v), k, v, 0)
    BY <1>1, LocalCalls, PgCalls, RedisCalls DEF OtherCall
  <2> QED
    BY <2>1, <2>2, OtherCallKeeps
<1> QED
  BY <1>2, <1>3, <1>4, <1>5

(* ... the sweep and the clean-up keep it: they drop dead entries only, *)
LEMMA ClearingKeeps ==
    ASSUME CachesInv, sweep \/ cleaner
    PROVE  CachesInv'
<1>1. /\ clock \in Nat /\ IsMap(local) /\ IsMap(pgrows) /\ IsMap(redis)
      /\ SameLive(local, pgrows) /\ SameLive(pgrows, redis)
  BY DEF CachesInv, MapsInv
<1>2. /\ UNCHANGED <<clock, redis, verifying, accepted, answers>>
      /\ Kept(local, local') /\ Kept(pgrows, pgrows')
  <2>1. CASE sweep
    <3> DEFINE n == [k \in Live(local) |-> local[k]]
    <3>1. IsMap(n)
      BY <1>1 DEF IsMap, Live
    <3>2. Live(n) = Live(local)
      BY DEF Live
    <3> QED
      BY <1>1, <2>1, <3>1, <3>2, SameKept DEF sweep, Kept
  <2>2. CASE cleaner
    <3>1. PICK locked, K \in SUBSET DOMAIN pgrows :
              /\ Cleanup(pgrows, locked, K) /\ pgrows' = Delete(pgrows, K).tab
              /\ UNCHANGED <<clock, local, redis, verifying, accepted, answers>>
      BY <2>2 DEF cleaner
    <3> DEFINE n == [k \in DOMAIN pgrows \ K |-> pgrows[k]]
    <3>2. K \cap Live(pgrows) = {}
      BY <3>1 DEF Cleanup
    <3>3. pgrows' = n
      BY <3>1 DEF Delete, Done
    <3>4. IsMap(n)
      BY <1>1 DEF IsMap
    <3>5. Live(n) = Live(pgrows)
      BY <3>2 DEF Live
    <3>6. \A x \in Live(pgrows) : n[x] = pgrows[x]
      BY <3>2 DEF Live
    <3> QED
      BY <1>1, <3>1, <3>3, <3>4, <3>5, <3>6, SameKept DEF Kept
  <2> QED
    BY <2>1, <2>2
<1>3. SameLive(local, pgrows)' /\ SameLive(pgrows, redis)'
  <2>1. SameLive(local', pgrows')
    BY <1>1, <1>2, SameAfterKept
  <2>2. SameLive(pgrows', redis)
    BY <1>1, <1>2, SameAfterKept, SameKept
  <2> QED
    BY <1>2, <2>1, <2>2 DEF SameLive, Live, alive
<1>4. MapsInv'
  BY <1>1, <1>2, <1>3 DEF CachesInv, MapsInv, Kept, IsMap
<1>5. \A k \in NonceKeys, t \in Nat : RememberedIn(local, k, t) => RememberedIn(local', k, t)
  BY <1>2, RememberedAfter DEF Kept
<1>6. VerifyInv'
  <2> PICK n : n = local'
    OBVIOUS
  <2> QED
    BY <1>2, <1>5, VerifyKept DEF CachesInv, VerifyInv
<1> QED
  BY <1>2, <1>4, <1>6, SpacedKept DEF CachesInv

(* ... time keeps it: an entry expires in all three caches at once, and a    *)
(* nonce after its window.                                                   *)
LEMMA TickKeeps ==
    ASSUME CachesInv, Tick
    PROVE  CachesInv'
<1>1. /\ clock \in Nat /\ clock' = clock + 1 /\ skew \in Nat
      /\ UNCHANGED <<local, pgrows, redis, verifying, accepted, answers>>
  BY CachesAssumption DEF CachesInv, MapsInv, Tick
<1>2. clock' \in Nat
  BY <1>1, SMTT(30)
<1>3. ASSUME NEW m, IsMap(m)
      PROVE  Live(m)' = {x \in Live(m) : alive(m[x])'}
  <2>1. \A x \in DOMAIN m : alive(m[x])' => alive(m[x])
    BY <1>1, <1>3, SMTT(30) DEF alive, IsMap
  <2> QED
    BY <2>1 DEF Live
<1>4. ASSUME NEW m, NEW n, IsMap(m), IsMap(n), SameLive(m, n)
      PROVE  SameLive(m, n)'
  <2>1. Live(m)' = {x \in Live(m) : alive(m[x])'} /\ Live(n)' = {x \in Live(n) : alive(n[x])'}
    BY <1>3, <1>4
  <2>2. Live(m) = Live(n) /\ \A x \in Live(m) : m[x] = n[x]
    BY <1>4 DEF SameLive
  <2>3. \A x \in Live(m) : alive(m[x])' <=> alive(n[x])'
    BY <2>2
  <2> QED
    BY <2>1, <2>2, <2>3 DEF SameLive
<1>5. MapsInv'
  <2> PICK l, p, r : l = local /\ p = pgrows /\ r = redis
    OBVIOUS
  <2>1. /\ IsMap(l) /\ IsMap(p) /\ IsMap(r) /\ SameLive(l, p) /\ SameLive(p, r)
    BY DEF CachesInv, MapsInv
  <2>2. SameLive(l, p)' /\ SameLive(p, r)'
    BY <1>4, <2>1
  <2>3. local' = l /\ pgrows' = p /\ redis' = r
    BY <1>1
  <2>4. SameLive(local, pgrows)' /\ SameLive(pgrows, redis)'
    BY <2>2, <2>3 DEF SameLive, Live
  <2>5. IsMap(local)' /\ IsMap(pgrows)' /\ IsMap(redis)'
    BY <2>1, <2>3 DEF IsMap
  <2> QED
    BY <1>1, <1>2, <2>4, <2>5 DEF CachesInv, MapsInv
<1>6. ASSUME NEW m, IsMap(m), NEW k, NEW t \in Nat, RememberedIn(m, k, t)
      PROVE  RememberedIn(m, k, t)'
  <2>1. t <= clock'
    BY <1>1, <1>6, SMTT(30) DEF RememberedIn
  <2>2. ASSUME clock' < t + 2 * skew
        PROVE  k \in Live(m)' /\ (m[k].exp = 0 \/ m[k].exp >= t + 2 * skew)
    <3>1. clock < t + 2 * skew
      BY <1>1, <2>2, SMTT(30)
    <3>2. k \in Live(m) /\ (m[k].exp = 0 \/ m[k].exp >= t + 2 * skew)
      BY <1>6, <3>1 DEF RememberedIn
    <3>3. m[k].exp \in Nat
      BY <1>6, <3>2, SMTT(30) DEF IsMap, Live
    <3>4. alive(m[k])'
      BY <1>1, <1>2, <2>2, <3>2, <3>3, SMTT(30) DEF alive
    <3> QED
      BY <1>3, <1>6, <3>2, <3>4
  <2> QED
    BY <2>1, <2>2 DEF RememberedIn
<1>7. VerifyInv'
  <2>1. ASSUME NEW b \in Backends, NEW k \in NonceKeys, NEW i \in DOMAIN accepted[b][k]
        PROVE  RememberedIn(local, k, accepted[b][k][i])'
    <3> PICK t, l : t = accepted[b][k][i] /\ l = local
      OBVIOUS
    <3>1. t \in Nat /\ RememberedIn(l, k, t) /\ IsMap(l)
      BY AcceptedTimes DEF CachesInv, MapsInv
    <3>2. RememberedIn(l, k, t)'
      BY <1>6, <3>1
    <3>3. accepted'[b][k][i] = t /\ local' = l
      BY <1>1
    <3> QED
      BY <3>2, <3>3 DEF RememberedIn, Live
  <2> QED
    BY <1>1, <2>1 DEF CachesInv, VerifyInv, NonceKeys
<1> QED
  BY <1>1, <1>5, <1>7, SpacedKept DEF CachesInv

(* What setting a nonce leaves and answers. *)
LEMMA SetNonceResults ==
    ASSUME MapsInv, NEW key, SetNonce(key), clock' = clock
    PROVE  /\ MapsInv' /\ skew \in Nat
           /\ \E c : local' = c.m /\ SetNXResult(local, c, key, 1, nonceTtl)
           /\ \A b \in Backends : answers'[b] = {TRUE} => key \notin Live(local)
           /\ \A b \in Backends : answers'[b] = {TRUE} =>
                 key \in DOMAIN local' /\ local'[key] = Entry(1, nonceTtl)
<1> DEFINE l == LocalSetNX(local, key, 1, nonceTtl)
           p == PgSetNX(pgrows, key, 1, nonceTtl)
           r == RedisSetNX(redis, key, 1, nonceTtl)
<1>1. clock \in Nat /\ IsMap(local) /\ IsMap(pgrows) /\ IsMap(redis)
  BY DEF MapsInv
<1>2. skew \in Nat /\ nonceTtl \in Int /\ 1 \in Values \cup {1}
  BY CachesAssumption, SMTT(30) DEF nonceTtl
<1>3. /\ SetNXResult(local, l, key, 1, nonceTtl) /\ SetNXResult(pgrows, p, key, 1, nonceTtl)
      /\ SetNXResult(redis, r, key, 1, nonceTtl)
  BY <1>1, <1>2, LocalCalls, PgCalls, RedisCalls
<1>4. CallAll(l, p, r)
  BY DEF SetNonce
<1> HIDE DEF l, p, r
<1>5. MapsInv'
  BY <1>3, <1>4, CallKeepsMaps
<1>6. /\ local' = l.m
      /\ answers' = [local |-> l.val, pg |-> p.val, redis |-> r.val]
  BY <1>4 DEF CallAll
<1>7. \A b \in Backends : answers'[b] = l.val
  <2>1. answers'.local = answers'.pg /\ answers'.pg = answers'.redis
    BY <1>5 DEF MapsInv
  <2>2. answers'.local = l.val
    BY <1>6
  <2> QED
    BY <2>1, <2>2 DEF Backends
<1>8. {TRUE} # {FALSE}
  OBVIOUS
<1>9. l.val = {TRUE} => key \notin Live(local) /\ Put(local, l.m, key, Entry(1, nonceTtl))
  BY <1>3, <1>8 DEF SetNXResult
<1>10. l.val = {TRUE} => key \in DOMAIN local' /\ local'[key] = Entry(1, nonceTtl)
  BY <1>6, <1>9 DEF Put
<1> QED
  BY <1>2, <1>3, <1>5, <1>6, <1>7, <1>9, <1>10

(* A request whose signature passed keeps the invariant, *)
LEMMA VerifyRequestKeeps ==
    ASSUME CachesInv, NEW h \in Handlers, NEW r \in Requests, VerifyRequest(h, r)
    PROVE  CachesInv'
<1>1. /\ verifying' = [verifying EXCEPT ![h] = {r}] /\ r.service \in Services
      /\ UNCHANGED <<clock, local, pgrows, redis, accepted, answers>>
  BY DEF VerifyRequest
<1>2. nonceKey(r) \in NonceKeys
  BY <1>1, SMTT(30) DEF nonceKey, NonceKeys, Requests
<1>3. MapsInv'
  BY <1>1 DEF CachesInv, MapsInv, IsMap, SameLive, Live, alive
<1>4. verifying' \in [Handlers -> SUBSET {x \in Requests : nonceKey(x) \in NonceKeys}]
  BY <1>1, <1>2 DEF CachesInv, VerifyInv
<1>5. VerifyInv'
  BY <1>1, <1>4, VerifyKept DEF CachesInv
<1> QED
  BY <1>1, <1>3, <1>5, SpacedKept DEF CachesInv

(* Setting a nonce forgets none. *)
LEMMA SetNonceRemembers ==
    ASSUME CachesInv, NEW key, SetNonce(key), clock' = clock
    PROVE  \A k \in NonceKeys, t \in Nat : RememberedIn(local, k, t) => RememberedIn(local', k, t)
<1>1. MapsInv /\ clock \in Nat
  BY DEF CachesInv, MapsInv
<1>2. PICK c : local' = c.m /\ SetNXResult(local, c, key, 1, nonceTtl)
  BY <1>1, SetNonceResults
<1>3. skew \in Nat
  BY CachesAssumption
<1> QED
  BY <1>1, <1>2, <1>3, SetNXRemembers

(* ... one whose cache did not answer, *)
LEMMA VerifyUnavailableKeeps ==
    ASSUME CachesInv, NEW h \in Handlers, VerifyUnavailable(h)
    PROVE  CachesInv'
<1>1. PICK r \in verifying[h] :
          /\ SetNonce(nonceKey(r)) \/ UNCHANGED <<local, pgrows, redis, answers>>
          /\ verifying' = [verifying EXCEPT ![h] = {}]
          /\ UNCHANGED <<clock, accepted>>
  BY DEF VerifyUnavailable
<1>2. verifying' \in [Handlers -> SUBSET {x \in Requests : nonceKey(x) \in NonceKeys}]
  BY <1>1 DEF CachesInv, VerifyInv
<1>3. MapsInv' /\ \A k \in NonceKeys, t \in Nat :
                     RememberedIn(local, k, t) => RememberedIn(local', k, t)
  <2>1. CASE SetNonce(nonceKey(r))
    BY <1>1, <2>1, SetNonceResults, SetNonceRemembers DEF CachesInv
  <2>2. CASE UNCHANGED <<local, pgrows, redis, answers>>
    BY <1>1, <2>2 DEF CachesInv, MapsInv, IsMap, SameLive, Live, alive
  <2> QED
    BY <1>1, <2>1, <2>2
<1>4. VerifyInv'
  <2> PICK n : n = local'
    OBVIOUS
  <2> QED
    BY <1>1, <1>2, <1>3, VerifyKept DEF CachesInv
<1> QED
  BY <1>1, <1>3, <1>4, SpacedKept DEF CachesInv

(* ... and one whose nonce is set: it is accepted only if no live entry had  *)
(* it, so its earlier times are a window ago.                                *)
LEMMA VerifyNonceKeeps ==
    ASSUME CachesInv, NEW h \in Handlers, VerifyNonce(h)
    PROVE  CachesInv'
<1>1. PICK r \in verifying[h] :
          /\ SetNonce(nonceKey(r))
          /\ accepted' = [b \in DOMAIN accepted |->
                            [accepted[b] EXCEPT ![nonceKey(r)] =
                                IF answers'[b] = {TRUE} THEN Append(@, clock) ELSE @]]
          /\ verifying' = [verifying EXCEPT ![h] = {}]
          /\ UNCHANGED clock
  BY DEF VerifyNonce
<1> PICK key : key = nonceKey(r)
  OBVIOUS
<1> PICK c : c = clock
  OBVIOUS
<1>2. key \in NonceKeys
  BY DEF CachesInv, VerifyInv
<1>3. verifying' \in [Handlers -> SUBSET {x \in Requests : nonceKey(x) \in NonceKeys}]
  BY <1>1 DEF CachesInv, VerifyInv
<1>4. /\ MapsInv' /\ skew \in Nat /\ c \in Nat
      /\ \A b \in Backends : answers'[b] = {TRUE} => key \notin Live(local)
      /\ \A b \in Backends : answers'[b] = {TRUE} =>
            key \in DOMAIN local' /\ local'[key] = Entry(1, nonceTtl)
  BY <1>1, SetNonceResults DEF CachesInv, MapsInv
<1>5. \A k \in NonceKeys, t \in Nat : RememberedIn(local, k, t) => RememberedIn(local', k, t)
  BY <1>1, SetNonceRemembers
<1>6. accepted \in [Backends -> [NonceKeys -> Seq(Nat)]] /\ DOMAIN accepted = Backends
  BY DEF CachesInv, VerifyInv
<1>7. ASSUME NEW b \in Backends, NEW k \in NonceKeys
      PROVE  /\ accepted'[b][k] \in Seq(Nat)
             /\ \/ accepted'[b][k] = accepted[b][k]
                \/ /\ k = key /\ answers'[b] = {TRUE}
                   /\ accepted'[b][k] = Append(accepted[b][k], c)
  <2>1. accepted[b][k] \in Seq(Nat)
    BY <1>6
  <2>2. Append(accepted[b][k], c) \in Seq(Nat)
    BY <1>4, <2>1, SMTT(30)
  <2>3. accepted'[b][k] = IF k = key
                          THEN IF answers'[b] = {TRUE} THEN Append(accepted[b][k], c)
                               ELSE accepted[b][k]
                          ELSE accepted[b][k]
    BY <1>1, <1>2, <1>6
  <2> QED
    BY <2>1, <2>2, <2>3
<1>8. accepted' \in [Backends -> [NonceKeys -> Seq(Nat)]]
  <2>1. \A b \in Backends : accepted'[b] \in [NonceKeys -> Seq(Nat)]
    <3> TAKE b \in Backends
    <3>1. accepted'[b] = [accepted[b] EXCEPT ![key] =
                            IF answers'[b] = {TRUE} THEN Append(@, clock) ELSE @]
      BY <1>1, <1>6
    <3> QED
      BY <1>6, <1>7, <3>1
  <2>2. accepted' = [b \in Backends |-> accepted'[b]]
    BY <1>1, <1>6
  <2> QED
    BY <2>1, <2>2
<1>9. \A k, t : RememberedIn(local, k, t)' <=> RememberedIn(local', k, t)
  BY <1>1 DEF RememberedIn, Live, alive
<1>10. ASSUME NEW b \in Backends, NEW k \in NonceKeys, NEW i \in DOMAIN accepted'[b][k]
       PROVE  RememberedIn(local, k, accepted[b][k][i])'
  <2> PICK t : t = accepted'[b][k][i]
    OBVIOUS
  <2>1. RememberedIn(local', k, t)
    <3>1. CASE i \in DOMAIN accepted[b][k] /\ t = accepted[b][k][i]
      BY <1>5, <3>1, AcceptedTimes DEF CachesInv
    <3>2. CASE k = key /\ answers'[b] = {TRUE} /\ t = c
      <4> PICK n : n = local'
        OBVIOUS
      <4> QED
        BY <1>4, <3>2, NonceStays
    <3>3. accepted[b][k] \in Seq(Nat)
      BY <1>6
    <3>4. accepted'[b][k] = Append(accepted[b][k], c) =>
              t = c \/ (i \in DOMAIN accepted[b][k] /\ t = accepted[b][k][i])
      <4> PICK q : q = accepted[b][k]
        OBVIOUS
      <4>1. q \in Seq(Nat)
        BY <3>3
      <4>2. \A j \in DOMAIN Append(q, c) : Append(q, c)[j] = c \/
                                           (j \in DOMAIN q /\ Append(q, c)[j] = q[j])
        BY <4>1, SMTT(30)
      <4> QED
        BY <4>2
    <3> QED
      BY <1>7, <3>1, <3>2, <3>4
  <2> QED
    BY <1>9, <2>1 DEF RememberedIn
<1>11. VerifyInv'
  BY <1>3, <1>8, <1>10 DEF VerifyInv, NonceKeys, Backends
<1>12. NonceSpaced'
  <2> SUFFICES ASSUME NEW b \in Backends, NEW k \in NonceKeys,
                      NEW i \in DOMAIN accepted'[b][k], NEW j \in DOMAIN accepted'[b][k], i < j
               PROVE  accepted'[b][k][j] - accepted'[b][k][i] >= 2 * skew
    BY <1>8 DEF NonceSpaced, NonceKeys
  <2> PICK q : q = accepted[b][k]
    OBVIOUS
  <2>1. q \in Seq(Nat) /\ \A x, y \in DOMAIN q : x < y => q[y] - q[x] >= 2 * skew
    BY <1>6 DEF CachesInv, NonceSpaced, NonceKeys
  <2>2. CASE accepted'[b][k] = q
    BY <2>1, <2>2
  <2>3. CASE /\ k = key /\ answers'[b] = {TRUE} /\ accepted'[b][k] = Append(q, c)
    <3>1. \A x \in DOMAIN q : q[x] \in Nat /\ RememberedIn(local, k, q[x])
      BY AcceptedTimes DEF CachesInv
    <3>2. \A x \in DOMAIN q : c >= q[x] + 2 * skew
      <4> TAKE x \in DOMAIN q
      <4>1. ~(c < q[x] + 2 * skew)
        BY <1>4, <2>3, <3>1 DEF RememberedIn
      <4> QED
        BY <1>4, <3>1, <4>1, SMTT(30)
    <3>3. /\ i \in DOMAIN Append(q, c) /\ j \in DOMAIN Append(q, c)
      BY <2>3
    <3>4. /\ i \in DOMAIN q /\ Append(q, c)[i] = q[i]
          /\ (j \in DOMAIN q /\ Append(q, c)[j] = q[j]) \/ Append(q, c)[j] = c
      <4>1. q \in Seq(Nat)
        BY <2>1
      <4> QED
        BY <3>3, <4>1, SMTT(30)
    <3>5. CASE j \in DOMAIN q /\ Append(q, c)[j] = q[j]
      BY <2>1, <2>3, <3>4, <3>5
    <3>6. CASE Append(q, c)[j] = c
      <4>1. c - q[i] >= 2 * skew
        BY <1>4, <3>1, <3>2, <3>4, SMTT(30)
      <4> QED
        BY <2>3, <3>4, <3>6, <4>1
    <3> QED
      BY <3>4, <3>5, <3>6
  <2> QED
    BY <1>7, <2>2, <2>3
<1> QED
  BY <1>4, <1>11, <1>12 DEF CachesInv

(* Every step keeps the invariant. *)
LEMMA CachesNextKeeps ==
    ASSUME CachesInv, [CachesNext]_cacheVars
    PROVE  CachesInv'
<1>1. CASE CachesNext
  BY <1>1, CallsKeep, ClearingKeeps, TickKeeps, VerifyRequestKeeps, VerifyNonceKeeps,
     VerifyUnavailableKeeps DEF CachesNext, VerifyInternal
<1>2. CASE UNCHANGED cacheVars
  <2>1. UNCHANGED <<clock, local, pgrows, redis, verifying, accepted, answers>>
    BY <1>2 DEF cacheVars
  <2>2. MapsInv'
    BY <2>1 DEF CachesInv, MapsInv, IsMap, SameLive, Live, alive
  <2>3. VerifyInv'
    BY <2>1, VerifyKept DEF CachesInv, VerifyInv
  <2> QED
    BY <2>1, <2>2, <2>3, SpacedKept DEF CachesInv
<1> QED
  BY <1>1, <1>2

(* CachesAgree: the three caches answer every call alike and hold the same   *)
(* live values, for any keys, values and ttls, any batch of the clean-up and *)
(* any interleaving of it, the sweep and the clock with the calls (local.go, *)
(* pg.go and its queries, redis.go).                                         *)
THEOREM CachesAgreeHolds == CachesSpec => []CachesAgree
<1>1. CachesInv => CachesAgree
  BY DEF CachesInv, MapsInv, SameLive, CachesAgree, View
<1> QED
  BY <1>1, InitHolds, CachesNextKeeps, PTL DEF CachesSpec

(* NonceSpaced: a nonce that a service used is accepted twice only with the  *)
(* whole length 2*skew of the timestamp window in between, for any skew,     *)
(* any requests verified at the same time and any answers of a cache that    *)
(* were lost (Internal.Verify).                                              *)
THEOREM NonceSpacedHolds == CachesSpec => []NonceSpaced
<1>1. CachesInv => NonceSpaced
  BY DEF CachesInv
<1> QED
  BY <1>1, InitHolds, CachesNextKeeps, PTL DEF CachesSpec

-----------------------------------------------------------------------------
(* Sessions. *)

(* A leaf that names no prover is Zenon's; SMTT marks those with arithmetic. *)
USE ZenonT(30)

(* A connection that has not been adopted has no socket yet; one that a    *)
(* fallback kick reached is not up any more.                               *)
LifeInv ==
    /\ \A c \in Conns : step[c] \in {"free", "verified"} => life[c] = "none"
    /\ \A c \in Conns : kickedBy[c] # NoConn => life[c] \in {"draining", "closed"}

(* A connection carries a token its client holds, so one that was issued   *)
(* before and can never be stored again.                                   *)
TokenInv ==
    \A c \in Conns : step[c] # "free" => token[c] \in Tokens /\ login[token[c]] = "held"

(* recheckFails counts the failures since the last answer, and reaches the *)
(* limit only with the decision to kick.                                   *)
RecheckInv ==
    /\ recheckFails = streak
    /\ \A c \in dead : step[c] = "serving"
    /\ \A c \in Conns \ dead : recheckFails[c] < FailLimit

SessionInv == TypeOK /\ LifeInv /\ TokenInv /\ RecheckInv /\ NoMutualFallback /\ RecheckSparesCurrent

LEMMA SessionInit == Init => SessionInv
<1> SUFFICES ASSUME Init PROVE SessionInv
  OBVIOUS
<1> USE SessionAssumption DEF Init
<1>1. TypeOK
  BY SMTT(30) DEF TypeOK, NoRun
<1>2. LifeInv /\ TokenInv /\ RecheckInv
  BY SMTT(30) DEF LifeInv, TokenInv, RecheckInv
<1>3. NoMutualFallback /\ RecheckSparesCurrent
  BY DEF NoMutualFallback, RecheckSparesCurrent
<1> QED BY <1>1, <1>2, <1>3 DEF SessionInv

(* Requests about tokens: only login, logout, expired and current change,  *)
(* and a token that a client holds is never stored again.                  *)
LEMMA TokenStep ==
    ASSUME SessionInv, TypeOK', UNCHANGED <<step, life, token, kicks, checks, kickedBy>>,
           expired \subseteq expired',
           \A t \in Tokens : login[t] = "held" => login'[t] = "held",
           \A t \in Tokens : login[t] = "held" /\ current' = t => current = t
    PROVE  SessionInv'
<1> USE DEF SessionInv, checks, kicks
<1>1. LifeInv' /\ RecheckInv' /\ NoMutualFallback'
  BY DEF LifeInv, RecheckInv, NoMutualFallback, TypeOK
<1>2. TokenInv'
  BY DEF TokenInv, TypeOK
<1>3. RecheckSparesCurrent'
  BY SMTT(30) DEF RecheckSparesCurrent, TokenInv, RecheckInv, TypeOK
<1> QED BY <1>1, <1>2, <1>3

(* Steps of a connection that no re-check takes part in. *)
LEMMA ConnStep ==
    ASSUME SessionInv, TypeOK', LifeInv', NoMutualFallback', UNCHANGED <<auth, checks, token>>,
           \A c \in Conns : step'[c] # "free" => step[c] # "free",
           \A c \in Conns : step[c] = "serving" => step'[c] = "serving"
    PROVE  SessionInv'
<1> USE DEF SessionInv, checks, auth
<1>1. TokenInv'
  BY DEF TokenInv, TypeOK
<1>2. RecheckInv' /\ RecheckSparesCurrent'
  BY DEF RecheckInv, RecheckSparesCurrent, TypeOK
<1> QED BY <1>1, <1>2

LEMMA TokenNextInv ==
    ASSUME SessionInv, NEW t \in Tokens, TokenNext(t)
    PROVE  SessionInv'
<1> USE SessionAssumption
<1>t. TypeOK
  BY DEF SessionInv
<1>1. CASE Sign(t)
  <2>1. TypeOK'
    BY <1>t, <1>1 DEF Sign, TypeOK, kicks, checks
  <2> QED BY <1>t, <1>1, <2>1, TokenStep DEF Sign, TypeOK
<1>2. CASE SetToken(t)
  <2>1. TypeOK'
    BY <1>t, <1>2 DEF SetToken, TypeOK, kicks, checks
  <2> QED BY <1>t, <1>2, <2>1, TokenStep DEF SetToken, TypeOK
<1>3. CASE SetFails(t)
  <2>1. TypeOK'
    BY <1>t, <1>3 DEF SetFails, TypeOK, kicks, checks
  <2> QED BY <1>t, <1>3, <2>1, TokenStep, SMTT(30) DEF SetFails, TypeOK
<1>4. CASE LogoutBegin(t)
  <2>1. TypeOK'
    BY <1>t, <1>4 DEF LogoutBegin, TypeOK, kicks, checks
  <2> QED BY <1>t, <1>4, <2>1, TokenStep DEF LogoutBegin, TypeOK
<1>5. CASE Revoke(t)
  <2>1. TypeOK'
    BY <1>t, <1>5 DEF Revoke, DelIfValue, TypeOK, kicks, checks
  <2> QED BY <1>t, <1>5, <2>1, TokenStep, SMTT(30) DEF Revoke, DelIfValue, TypeOK
<1>6. CASE Expire(t)
  <2>1. TypeOK'
    BY <1>t, <1>6 DEF Expire, TypeOK, kicks, checks
  <2> QED BY <1>t, <1>6, <2>1, TokenStep DEF Expire, TypeOK
<1> QED BY <1>1, <1>2, <1>3, <1>4, <1>5, <1>6 DEF TokenNext

LEMMA CacheInv ==
    ASSUME SessionInv, CacheExpires
    PROVE  SessionInv'
<1>t. TypeOK
  BY DEF SessionInv
<1>1. TypeOK'
  BY <1>t DEF CacheExpires, TypeOK, kicks, checks
<1> QED BY <1>t, <1>1, TokenStep, SessionAssumption, SMTT(30) DEF CacheExpires, TypeOK

(* A handshake gives a fresh connection a token that is held. *)
LEMMA HandshakeInv ==
    ASSUME SessionInv, NEW c \in Conns, NEW t \in Tokens, Handshake(c, t)
    PROVE  SessionInv'
<1> USE DEF SessionInv
<1>1. TypeOK'
  BY DEF Handshake, TypeOK, auth, kicks, checks
<1>2. LifeInv'
  BY DEF Handshake, LifeInv, TypeOK
<1>3. TokenInv'
  BY DEF Handshake, Verify, TokenInv, TypeOK, auth
<1>4. RecheckInv'
  BY DEF Handshake, RecheckInv, TypeOK, checks
<1>5. NoMutualFallback'
  BY DEF Handshake, NoMutualFallback
<1>6. RecheckSparesCurrent'
  <2>1. c \notin dead
    BY DEF Handshake, RecheckInv
  <2> QED BY <2>1 DEF Handshake, RecheckSparesCurrent, TypeOK, auth, checks
<1> QED BY <1>1, <1>2, <1>3, <1>4, <1>5, <1>6

(* A drain without an entry in kickedBy only moves lives forward. *)
LEMMA DrainStep ==
    ASSUME SessionInv, TypeOK', NEW S, BeginDrain(S), UNCHANGED <<auth, step, token, checks, kickedBy>>
    PROVE  SessionInv'
<1>1. LifeInv'
  BY DEF SessionInv, LifeInv, BeginDrain, TypeOK
<1>2. NoMutualFallback'
  BY DEF SessionInv, NoMutualFallback
<1> QED BY <1>1, <1>2, ConnStep

(* kickMu: the source of a fallback kick is up while it drains others, so  *)
(* nobody has drained it, and it never is its own target.                  *)
LEMMA FallbackInv ==
    ASSUME SessionInv, NEW c \in Conns, FallbackKick(c)
    PROVE  SessionInv'
<1> DEFINE hit == IF SourceActive(c) THEN {d \in Targets(snap[c], c) : Active(d)} ELSE {}
<1>t. TypeOK /\ LifeInv /\ NoMutualFallback
  BY DEF SessionInv
<1>h. /\ step[c] = "fallback" /\ step' = [step EXCEPT ![c] = "serving"]
      /\ life' = [d \in Conns |-> IF d \in hit /\ life[d] = "up" THEN "draining" ELSE life[d]]
      /\ kickedBy' = [d \in Conns |-> IF d \in hit THEN c ELSE kickedBy[d]]
      /\ snap' = [snap EXCEPT ![c] = {}]
      /\ UNCHANGED <<auth, token, inbox, run, checks>>
  BY DEF FallbackKick, BeginDrain
<1>s. \A d \in hit : life[d] = "up" /\ life[c] = "up" /\ d # c
  BY DEF SourceActive, Targets, Active
<1> HIDE DEF hit
<1>1. TypeOK'
  BY <1>t, <1>h DEF TypeOK, auth, checks
<1>2. LifeInv'
  BY <1>t, <1>h, <1>s DEF LifeInv, TypeOK
<1>3. NoMutualFallback'
  <2> SUFFICES ASSUME NEW d \in Conns, NEW e \in Conns, kickedBy'[d] = e, kickedBy'[e] = d
               PROVE  FALSE
    BY DEF NoMutualFallback
  <2>1. CASE hit = {}
    BY <1>t, <1>h, <2>1 DEF NoMutualFallback, TypeOK
  <2>2. CASE hit # {}
    <3>1. c \notin hit /\ kickedBy[c] = NoConn
      BY <1>t, <1>s, <2>2 DEF LifeInv
    <3>2. kickedBy'[c] = NoConn
      BY <1>h, <3>1
    <3>3. d # c /\ e # c
      BY <3>2, SessionAssumption
    <3>4. d \notin hit /\ e \notin hit
      BY <1>h, <3>3
    <3> QED BY <1>t, <1>h, <3>4 DEF NoMutualFallback
  <2> QED BY <2>1, <2>2
<1> QED BY <1>h, <1>t, <1>1, <1>2, <1>3, ConnStep DEF TypeOK

(* A re-check changes its own counters and may decide to kick. *)
LEMMA RecheckStep ==
    ASSUME SessionInv, NEW c \in Conns, Recheck(c)
    PROVE  SessionInv'
<1> USE SessionAssumption
<1>t. TypeOK /\ LifeInv /\ TokenInv /\ RecheckInv /\ NoMutualFallback /\ RecheckSparesCurrent
  BY DEF SessionInv
<1>u. /\ UNCHANGED <<auth, step, life, token, kicks, kickedBy>>
      /\ step[c] = "serving" /\ c \notin dead
      /\ recheckFails[c] \in Nat /\ recheckFails[c] < FailLimit
  BY <1>t, SMTT(30) DEF Recheck, RecheckAnswered, RecheckUnavailable, RecheckExpired, Rechecks, RecheckInv, TypeOK
<1>1. LifeInv' /\ TokenInv' /\ NoMutualFallback'
  BY <1>t, <1>u DEF LifeInv, TokenInv, NoMutualFallback, auth
<1>2. /\ dead' \subseteq Conns
      /\ recheckFails' \in [Conns -> 0 .. FailLimit] /\ streak' \in [Conns -> 0 .. FailLimit]
      /\ RecheckInv' /\ RecheckSparesCurrent'
  <2>1. CASE RecheckAnswered(c)
    BY <1>t, <1>u, <2>1, SMTT(30) DEF RecheckAnswered, Reset, Superseded, TypeOK, RecheckInv, RecheckSparesCurrent, auth
  <2>2. CASE RecheckUnavailable(c)
    BY <1>t, <1>u, <2>2, SMTT(30) DEF RecheckUnavailable, TypeOK, RecheckInv, RecheckSparesCurrent, auth
  <2>3. CASE RecheckExpired(c)
    BY <1>t, <1>u, <2>3 DEF RecheckExpired, TypeOK, RecheckInv, RecheckSparesCurrent, auth
  <2> QED BY <2>1, <2>2, <2>3 DEF Recheck
<1>3. TypeOK'
  BY <1>t, <1>u, <1>2 DEF TypeOK, auth, kicks
<1> QED BY <1>1, <1>2, <1>3 DEF SessionInv

(* The other steps of a connection's handler. *)
LEMMA ConnNextInv ==
    ASSUME SessionInv, NEW c \in Conns, ConnNext(c)
    PROVE  SessionInv'
<1>t. TypeOK /\ LifeInv /\ NoMutualFallback
  BY DEF SessionInv
<1>1. CASE Adopt(c)
  <2>1. TypeOK' /\ LifeInv' /\ NoMutualFallback'
    BY <1>t, <1>1 DEF Adopt, TypeOK, LifeInv, NoMutualFallback, auth, kicks, checks
  <2> QED BY <1>t, <1>1, <2>1, ConnStep, SMTT(30) DEF Adopt, TypeOK
<1>2. CASE Close(c)
  <2>1. TypeOK' /\ LifeInv' /\ NoMutualFallback'
    BY <1>t, <1>2 DEF Close, TypeOK, LifeInv, NoMutualFallback, auth, kicks, checks
  <2> QED BY <1>t, <1>2, <2>1, ConnStep DEF Close
<1>3. CASE publishKick(c)
  <2>1. TypeOK' /\ LifeInv' /\ NoMutualFallback'
    BY <1>t, <1>3 DEF publishKick, TypeOK, LifeInv, NoMutualFallback, auth, kicks, checks
  <2> QED BY <1>t, <1>3, <2>1, ConnStep, SMTT(30) DEF publishKick, TypeOK
<1>4. CASE Published(c)
  <2>1. TypeOK' /\ LifeInv' /\ NoMutualFallback'
    <3>1. inbox' \in [Nodes -> SUBSET Conns]
      BY <1>t, <1>4, SMTT(30) DEF Published, Deliver, TypeOK
    <3>2. step[c] = "publishing" /\ step' = [step EXCEPT ![c] = "serving"]
      BY <1>4 DEF Published
    <3>3. UNCHANGED <<auth, life, token, run, snap, checks, kickedBy>>
      BY <1>4 DEF Published
    <3> QED BY <1>t, <3>1, <3>2, <3>3 DEF TypeOK, LifeInv, NoMutualFallback, auth, checks
  <2> QED BY <1>t, <1>4, <2>1, ConnStep DEF Published, TypeOK
<1>5. CASE PublishFails(c)
  <2>1. inbox' \in [Nodes -> SUBSET Conns] /\ snap' \in [Conns -> SUBSET Conns]
    BY <1>t, <1>5, SMTT(30) DEF PublishFails, Deliver, RegisteredAt, TypeOK
  <2>2. PICK s \in {"fallback", "serving"} : step' = [step EXCEPT ![c] = s]
    BY <1>5 DEF PublishFails
  <2>3. step[c] = "publishing" /\ UNCHANGED <<auth, life, token, run, checks, kickedBy>>
    BY <1>5 DEF PublishFails
  <2>4. TypeOK' /\ LifeInv' /\ NoMutualFallback'
    BY <1>t, <2>1, <2>2, <2>3 DEF TypeOK, LifeInv, NoMutualFallback, auth, checks
  <2> QED BY <1>t, <2>2, <2>3, <2>4, ConnStep DEF TypeOK
<1>6. CASE FallbackKick(c)
  BY <1>6, FallbackInv
<1>7. CASE Recheck(c)
  BY <1>7, RecheckStep
<1>8. CASE KickExpired(c)
  <2>1. TypeOK'
    BY <1>t, <1>8 DEF KickExpired, BeginDrain, TypeOK, auth, kicks, checks
  <2> QED BY <1>8, <2>1, DrainStep DEF KickExpired
<1> QED BY <1>1, <1>2, <1>3, <1>4, <1>5, <1>6, <1>7, <1>8 DEF ConnNext

(* The Bus callback of a node. *)
LEMMA BusInv ==
    ASSUME SessionInv, NEW n \in Nodes, Kick(n) \/ \E c \in Conns : OnKick(n, c)
    PROVE  SessionInv'
<1>t. TypeOK /\ LifeInv /\ NoMutualFallback
  BY DEF SessionInv
<1>1. CASE Kick(n)
  <2>1. TypeOK'
    BY <1>t, <1>1 DEF Kick, NoRun, BeginDrain, TypeOK, auth, checks
  <2> QED BY <1>1, <2>1, DrainStep DEF Kick
<1>2. ASSUME NEW c \in Conns, OnKick(n, c)
      PROVE  SessionInv'
  <2>1. TypeOK' /\ LifeInv' /\ NoMutualFallback'
    BY <1>t, <1>2 DEF OnKick, RegisteredAt, TypeOK, LifeInv, NoMutualFallback, auth, checks
  <2> QED BY <1>2, <2>1, ConnStep DEF OnKick
<1> QED BY <1>1, <1>2

LEMMA SessionNext == SessionInv /\ [Next]_vars => SessionInv'
<1> SUFFICES ASSUME SessionInv, [Next]_vars PROVE SessionInv'
  OBVIOUS
<1>1. CASE UNCHANGED vars
  BY <1>1 DEF vars, auth, kicks, checks, SessionInv, TypeOK, LifeInv, TokenInv, RecheckInv,
              NoMutualFallback, RecheckSparesCurrent
<1>2. CASE Next
  BY <1>2, TokenNextInv, CacheInv, ConnNextInv, HandshakeInv, BusInv DEF Next
<1> QED BY <1>1, <1>2

LEMMA SessionAlways == Spec => []SessionInv
<1> QED BY SessionInit, SessionNext, PTL DEF Spec

(* Every reachable state of the session protocol is well typed; in         *)
(* particular Client.recheckFails never passes recheckFailLimit.           *)
THEOREM SessionTypeCorrect == Spec => []TypeOK
<1>1. SessionInv => TypeOK
  BY DEF SessionInv
<1> QED BY <1>1, SessionAlways, PTL

(* Two connections never drain each other by fallback kicks (Gateway.kick  *)
(* checks its source under kickMu), for any number of connections.         *)
THEOREM FallbackArbitrated == Spec => []NoMutualFallback
<1>1. SessionInv => NoMutualFallback
  BY DEF SessionInv
<1> QED BY <1>1, SessionAlways, PTL

(* recheckLoop drains only connections whose token is no longer current or *)
(* after recheckFailLimit failures in a row, for every limit.              *)
THEOREM RecheckJustified == Spec => []RecheckSparesCurrent
<1>1. SessionInv => RecheckSparesCurrent
  BY DEF SessionInv
<1> QED BY <1>1, SessionAlways, PTL

(* Revoke deletes the TokenStore entry only of the token that logs out,    *)
(* however late it runs and whatever was issued since.                     *)
THEOREM LateLogoutHarmless == Spec => LogoutKeepsNewer
<1> DEFINE A == current' = NoToken /\ current # NoToken => current \in expired \/ logout[current] = "verified"
<1>1. ASSUME NEW t \in Tokens, TokenNext(t) PROVE A
  BY <1>1, SessionAssumption DEF TokenNext, Sign, SetToken, SetFails, LogoutBegin, Revoke, DelIfValue, Expire
<1>2. ASSUME NEW c \in Conns, ConnNext(c) \/ \E t \in Tokens : Handshake(c, t) PROVE A
  BY <1>2 DEF ConnNext, Handshake, Adopt, Close, publishKick, Published, PublishFails, FallbackKick,
     Recheck, RecheckAnswered, RecheckUnavailable, RecheckExpired, KickExpired, auth
<1>3. ASSUME NEW n \in Nodes, Kick(n) \/ \E c \in Conns : OnKick(n, c) PROVE A
  BY <1>3 DEF Kick, OnKick, auth
<1>4. [Next]_vars => [A]_vars
  BY <1>1, <1>2, <1>3 DEF Next, CacheExpires
<1> QED BY <1>4, PTL DEF Spec, LogoutKeepsNewer
=============================================================================
