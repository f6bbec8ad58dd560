------------------------------- MODULE Caches --------------------------------
(***************************************************************************)
(* internal/cache: the three caches, in a map (local), in PostgreSQL (pg)  *)
(* and in Redis, under one sequence of calls, with the sweeps that drop    *)
(* expired entries at times of their own; and auth.Internal.Verify, which  *)
(* uses a cache to accept a nonce once.  The clock is the cache's: the     *)
(* node's for local, the database's for pg, the server's for redis.        *)
(***************************************************************************)
EXTENDS Rows

CONSTANTS Keys, Values,
          Ttls,           \* ttl arguments; <= 0 means no expiry
          Nonces, Services,
          Handlers,       \* requests that may be verified at the same time
          skew, MaxTime, cleanupBatch

\* A nonce's key has a prefix no other key has.
ASSUME CachesAssumption ==
    /\ skew \in Nat /\ Ttls \subseteq Int
    /\ Keys \cap (Services \X Nonces) = {}

VARIABLES clock,
          local, pgrows, redis, \* key -> [val, exp], exp = 0 for no expiry
          verifying,      \* handler -> {} or {the request whose signature passed}
          accepted,       \* cache -> a nonce's key -> the times at which it was accepted
          answers         \* what the latest call returned, per cache

\* services that Internal was configured with; a request may name another.
Requests == [service : Services \cup {"other"}, ts : 1..MaxTime, nonce : Nonces,
             long : BOOLEAN, signed : BOOLEAN]

alive(e) == e.exp = 0 \/ e.exp > clock

expiry(ttl) == IF ttl <= 0 THEN 0 ELSE clock + ttl

Live(m) == {k \in DOMAIN m : alive(m[k])}

\* A call's result: the map it leaves, and what it returns.
Left(m, val) == [m |-> m, val |-> val]

Store(m, k, v, ttl) == WithRow(m, k, [val |-> v, exp |-> expiry(ttl)])

\* local.go: get drops the entry it finds expired.
localget(m, k) == IF k \in DOMAIN m \ Live(m) THEN Delete(m, {k}).tab ELSE m

LocalGet(m, k) ==
    LET kept == localget(m, k) IN Left(kept, {e.val : e \in At(kept, k)})

LocalSet(m, k, v, ttl) == Left(Store(m, k, v, ttl), {})

LocalSetNX(m, k, v, ttl) ==
    LET kept == localget(m, k)
    IN  IF k \in DOMAIN kept THEN Left(kept, {FALSE}) ELSE Left(Store(kept, k, v, ttl), {TRUE})

LocalDelIfValue(m, k, v) ==
    LET kept == localget(m, k)
    IN  IF \E e \in At(kept, k) : e.val = v THEN Left(Delete(kept, {k}).tab, {}) ELSE Left(kept, {})

\* pg.go and its queries: an expired row stays until it is overwritten or cleaned up.
PgGet(m, k) == Left(m, {e.val : e \in {x \in At(m, k) : x.exp = 0 \/ x.exp > clock}})

ttlSeconds(ttl) == IF ttl > 0 THEN ttl ELSE 0

PgSet(m, k, v, ttl) ==
    Left(WithRow(m, k, [val |-> v,
                        exp |-> IF ttlSeconds(ttl) > 0 THEN clock + ttlSeconds(ttl) ELSE 0]), {})

\* Mutant: ON CONFLICT DO NOTHING, so that an expired row blocks its key.
PgSetNXDoNothing(m, k, v, ttl) ==
    IF k \in DOMAIN m THEN Left(m, {FALSE}) ELSE Left(PgSet(m, k, v, ttl).m, {TRUE})

\* ON CONFLICT DO UPDATE ... WHERE the row has expired; no row returned means taken.
PgSetNX(m, k, v, ttl) ==
    IF k \in DOMAIN m /\ ~(m[k].exp # 0 /\ m[k].exp <= clock) THEN Left(m, {FALSE})
    ELSE Left(PgSet(m, k, v, ttl).m, {TRUE})

PgDelIfValue(m, k, v) ==
    IF \E e \in At(m, k) : e.val = v /\ (e.exp = 0 \/ e.exp > clock)
    THEN Left(Delete(m, {k}).tab, {}) ELSE Left(m, {})

\* redis.go: the server hides a key from the instant its ttl has passed.
RedisGet(m, k) == Left(m, {m[x].val : x \in Live(m) \cap {k}})

RedisSet(m, k, v, ttl) == Left(Store(m, k, v, IF ttl > 0 THEN ttl ELSE 0), {})

RedisSetNX(m, k, v, ttl) ==
    IF k \in Live(m) THEN Left(m, {FALSE})
    ELSE Left(Store(m, k, v, IF ttl > 0 THEN ttl ELSE 0), {TRUE})

RedisDelIfValue(m, k, v) ==
    IF k \in Live(m) /\ m[k].val = v THEN Left(Delete(m, {k}).tab, {}) ELSE Left(m, {})

-----------------------------------------------------------------------------
cacheVars == <<clock, local, pgrows, redis, verifying, accepted, answers>>

CachesInit ==
    /\ clock = 1
    /\ local = <<>> /\ pgrows = <<>> /\ redis = <<>>
    /\ verifying = [h \in Handlers |-> {}]
    /\ accepted = [b \in {"local", "pg", "redis"} |-> [k \in Services \X Nonces |-> <<>>]]
    /\ answers = [b \in {"local", "pg", "redis"} |-> {}]

CallAll(l, p, r) ==
    /\ local' = l.m /\ pgrows' = p.m /\ redis' = r.m
    /\ answers' = [local |-> l.val, pg |-> p.val, redis |-> r.val]

CallGet == \E k \in Keys :
    /\ CallAll(LocalGet(local, k), PgGet(pgrows, k), RedisGet(redis, k))
    /\ UNCHANGED <<clock, verifying, accepted>>

CallSet == \E k \in Keys, v \in Values, ttl \in Ttls :
    /\ CallAll(LocalSet(local, k, v, ttl), PgSet(pgrows, k, v, ttl), RedisSet(redis, k, v, ttl))
    /\ UNCHANGED <<clock, verifying, accepted>>

CallSetNX == \E k \in Keys, v \in Values, ttl \in Ttls :
    /\ CallAll(LocalSetNX(local, k, v, ttl), PgSetNX(pgrows, k, v, ttl), RedisSetNX(redis, k, v, ttl))
    /\ UNCHANGED <<clock, verifying, accepted>>

CallDelIfValue == \E k \in Keys, v \in Values :
    /\ CallAll(LocalDelIfValue(local, k, v), PgDelIfValue(pgrows, k, v), RedisDelIfValue(redis, k, v))
    /\ UNCHANGED <<clock, verifying, accepted>>

\* The local cache's goroutine, once a minute.
sweep ==
    /\ local' = [k \in Live(local) |-> local[k]]
    /\ UNCHANGED <<clock, pgrows, redis, verifying, accepted, answers>>

\* The query: the oldest expired rows that no other statement has locked, one batch.
Cleanup(m, locked, K) ==
    LET expired == (DOMAIN m \ Live(m)) \ locked
    IN  /\ K \subseteq expired /\ Cardinality(K) <= cleanupBatch
        /\ Cardinality(K) < cleanupBatch => K = expired
        /\ \A k \in K, x \in expired \ K : m[k].exp <= m[x].exp

\* The pg cache's goroutine, at jittered intervals.
cleaner ==
    \E locked, K \in SUBSET DOMAIN pgrows :
        /\ Cleanup(pgrows, locked, K)
        /\ pgrows' = Delete(pgrows, K).tab
        /\ UNCHANGED <<clock, local, redis, verifying, accepted, answers>>

Tick ==
    /\ clock < MaxTime
    /\ clock' = clock + 1
    /\ UNCHANGED <<local, pgrows, redis, verifying, accepted, answers>>

\* Mutant: the nonce is remembered for the tolerance on one side of the clock only.
nonceTtlOneSide == skew

\* How long Verify remembers a nonce.
nonceTtl == 2 * skew

nonceKey(r) == <<r.service, r.nonce>>

\* Verify up to the nonce: service, time window, nonce length, signature.
VerifyRequest(h, r) ==
    /\ verifying[h] = {}
    /\ r.service \in Services
    /\ (IF clock > r.ts THEN clock - r.ts ELSE r.ts - clock) <= skew
    /\ r.long /\ r.signed
    /\ verifying' = [verifying EXCEPT ![h] = {r}]
    /\ UNCHANGED <<clock, local, pgrows, redis, accepted, answers>>

SetNonce(k) ==
    CallAll(LocalSetNX(local, k, 1, nonceTtl), PgSetNX(pgrows, k, 1, nonceTtl),
            RedisSetNX(redis, k, 1, nonceTtl))

\* ... and the nonce, in each of the three caches.
VerifyNonce(h) ==
    \E r \in verifying[h] :
        /\ SetNonce(nonceKey(r))
        /\ accepted' = [b \in DOMAIN accepted |->
                          [accepted[b] EXCEPT ![nonceKey(r)] =
                              IF answers'[b] = {TRUE} THEN Append(@, clock) ELSE @]]
        /\ verifying' = [verifying EXCEPT ![h] = {}]
        /\ UNCHANGED clock

\* ... which a cache that does not answer leaves unset, or set: ErrUnavailable.
VerifyUnavailable(h) ==
    \E r \in verifying[h] :
        /\ \/ SetNonce(nonceKey(r))
           \/ UNCHANGED <<local, pgrows, redis, answers>>
        /\ verifying' = [verifying EXCEPT ![h] = {}]
        /\ UNCHANGED <<clock, accepted>>

VerifyInternal == \E h \in Handlers :
    \/ \E r \in Requests : VerifyRequest(h, r)
    \/ VerifyNonce(h)
    \/ VerifyUnavailable(h)

CachesNext ==
    CallGet \/ CallSet \/ CallSetNX \/ CallDelIfValue \/ sweep \/ cleaner \/ Tick \/ VerifyInternal

CachesSpec == CachesInit /\ [][CachesNext]_cacheVars

-----------------------------------------------------------------------------
\* What a cache holds that has not expired.
View(m) == [k \in Live(m) |-> m[k]]

\* The three caches answer every call alike and hold the same live values for the
\* same time, whenever a sweep, a clean-up batch or a read drops what has expired:
\* an entry that is dead but still stored is never seen, overwritten as taken or
\* deleted as live (Get, Set, SetNX, DelIfValue, sweep, cleaner).
CachesAgree ==
    /\ View(local) = View(pgrows) /\ View(pgrows) = View(redis)
    /\ answers.local = answers.pg /\ answers.pg = answers.redis

\* Whichever cache holds the nonces, a nonce is accepted twice only with the whole
\* window in which a timestamp is accepted between the two: copies of a request
\* verified at the same time, around a clean-up or after a lost answer of the cache
\* are accepted once. The window counts both its ends and the nonce is gone at the
\* second, so a request accepted at the one instant may be accepted at the other.
NonceSpaced ==
    \A b \in DOMAIN accepted, k \in Services \X Nonces :
        \A i, j \in DOMAIN accepted[b][k] :
            i < j => accepted[b][k][j] - accepted[b][k][i] >= 2 * skew
=============================================================================
