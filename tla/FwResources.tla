---------------------------- MODULE FwResources -----------------------------
(* Three resource managers of mini-backend-framework: the resource pool    *)
(* (pool.c), the LRU cache (cache.c) and the composite rate limiter        *)
(* (rate_limiter.c).  A pooled resource is the number of its creation, and *)
(* the creator and the validator are callbacks that may refuse.  A cache   *)
(* node is named by its key; values and hit counters are left out.  A      *)
(* token is Unit parts, so that part of one can be refilled.               *)
EXTENDS Naturals, Sequences, FiniteSets, SequencesExt

CONSTANTS None, Capacity, IdleTimeout, MaxMade,
          Keys, Bucket, Size, DefaultTTL, TTLs,
          Unit, Rate, Burst, Window, MaxRequests, MaxGrants, MaxTime

\* Bucket maps a key to its chain of the hash table; MaxMade, MaxGrants and MaxTime bound the histories.

VARIABLES slots, inUse, up,
          made,      \* resources created so far (history)
          open,      \* created and not yet destroyed (history)
          held,      \* handed out and not yet given back (history)
          head, tail, node, chains, size,
          recency,   \* keys from the last used to the first (history)
          bucket, window,
          spent,     \* times at which tokens were taken (history)
          granted,   \* times at which the composite limiter allowed (history)
          now
poolVars == <<slots, inUse, up, made, open, held>>
lruVars == <<head, tail, node, chains, size, recency>>
limitVars == <<bucket, window, spent, granted>>
vars == <<poolVars, lruVars, limitVars, now>>

Slots == 1..Capacity
PoolSlot == [resource: 0..MaxMade, in_use: BOOLEAN, last_used: 0..MaxTime]
EmptySlot == [resource |-> 0, in_use |-> FALSE, last_used |-> 0]
CacheEntry == [prev: Keys \cup {None}, next: Keys \cup {None}, created_at: 0..MaxTime, ttl: Nat]

Init ==
    /\ slots = [i \in Slots |-> EmptySlot] /\ inUse = 0 /\ up = TRUE
    /\ made = 0 /\ open = {} /\ held = {}
    /\ head = None /\ tail = None /\ node = << >> /\ chains = [b \in Range(Bucket) |-> << >>] /\ size = 0
    /\ recency = << >>
    /\ bucket = [tokens |-> Burst * Unit, last |-> 0] /\ window = << >> /\ spent = << >> /\ granted = << >>
    /\ now = 0

-----------------------------------------------------------------------------
(* pool.c *)

First(S) == CHOOSE i \in S : \A j \in S : i <= j
Idle(i) == ~slots[i].in_use /\ slots[i].resource # 0
Cleared(sl, S) == [i \in Slots |-> IF i \in S THEN [sl[i] EXCEPT !.resource = 0] ELSE sl[i]]
\* stale: what the validator refuses.  The scan destroys the stale ones it meets and stops at a valid one.
Acquire(stale, creates) ==
    LET valid == {i \in Slots : Idle(i) /\ slots[i].resource \notin stale}
        gone == {i \in Slots : Idle(i) /\ slots[i].resource \in stale /\ \A v \in valid : i < v}
        after == Cleared(slots, gone)
        empty == {i \in Slots : after[i].resource = 0}
        i == First(IF valid # {} THEN valid ELSE empty)
        new == valid = {}
        r == IF new THEN made + 1 ELSE slots[i].resource
        alive == open \ {slots[j].resource : j \in gone}
    IN  /\ up /\ (valid # {} \/ empty # {})
        /\ new => made < MaxMade
        /\ ~new => creates
        /\ IF ~creates
           THEN slots' = after /\ open' = alive /\ UNCHANGED <<inUse, made, held>>
           ELSE /\ slots' = [after EXCEPT ![i].resource = r, ![i].in_use = TRUE]
                /\ inUse' = inUse + 1 /\ made' = IF new THEN r ELSE made
                /\ open' = alive \cup {r} /\ held' = held \cup {r}
        /\ UNCHANGED <<up, lruVars, limitVars, now>>

Release(r) ==
    LET S == {i \in Slots : slots[i].resource = r /\ slots[i].in_use} IN
    /\ S # {}
    /\ slots' = [slots EXCEPT ![First(S)].in_use = FALSE, ![First(S)].last_used = now]
    /\ inUse' = inUse - 1 /\ held' = held \ {r}
    /\ UNCHANGED <<up, made, open, lruVars, limitVars, now>>

SweepIdle ==
    LET old == {i \in Slots : Idle(i) /\ now - slots[i].last_used >= IdleTimeout} IN
    /\ up /\ IdleTimeout > 0
    /\ slots' = Cleared(slots, old) /\ open' = open \ {slots[i].resource : i \in old}
    /\ UNCHANGED <<inUse, up, made, held, lruVars, limitVars, now>>

\* fails: the empty slots for which the creator gives nothing.
Prewarm(n, fails) ==
    LET tries == {i \in Slots : slots[i].resource = 0} \ fails
        new == {i \in tries : Cardinality({j \in tries : j < i}) < n}
    IN  /\ up /\ made + n <= MaxMade
        /\ slots' = [i \in Slots |-> IF i \in new
                      THEN [resource |-> made + Cardinality({j \in new : j <= i}), in_use |-> FALSE, last_used |-> now]
                      ELSE slots[i]]
        /\ made' = made + Cardinality(new) /\ open' = open \cup (made + 1)..(made + Cardinality(new))
        /\ UNCHANGED <<inUse, up, held, lruVars, limitVars, now>>

\* Everything is destroyed, what is in use included.
PoolDestroy ==
    /\ up /\ up' = FALSE
    /\ slots' = [i \in Slots |-> EmptySlot] /\ open' = open \ {slots[i].resource : i \in Slots} /\ inUse' = 0
    /\ UNCHANGED <<made, held, lruVars, limitVars, now>>

-----------------------------------------------------------------------------
(* cache.c: a doubly linked list from the most to the least recently used, *)
(* and a hash table with chains.                                           *)

Clock == now < MaxTime /\ now' = now + 1 /\ UNCHANGED <<poolVars, lruVars, limitVars>>

List == [head |-> head, tail |-> tail, node |-> node]
Detach(L, k) ==
    LET p == L.node[k].prev
        n == L.node[k].next
    IN  [head |-> IF p = None THEN n ELSE L.head,
         tail |-> IF n = None THEN p ELSE L.tail,
         node |-> [x \in DOMAIN L.node |->
                     IF x = k THEN [L.node[k] EXCEPT !.prev = None, !.next = None]
                     ELSE IF x = p THEN [L.node[x] EXCEPT !.next = n]
                     ELSE IF x = n THEN [L.node[x] EXCEPT !.prev = p] ELSE L.node[x]]]
PushHead(L, k) ==
    [head |-> k, tail |-> IF L.tail = None THEN k ELSE L.tail,
     node |-> [x \in DOMAIN L.node |->
                 IF x = k THEN [L.node[k] EXCEPT !.next = L.head, !.prev = None]
                 ELSE IF x = L.head THEN [L.node[x] EXCEPT !.prev = k] ELSE L.node[x]]]
MoveKeepsTail(L, k) == IF L.head = k THEN L ELSE [PushHead(Detach(L, k), k) EXCEPT !.tail = L.tail]
MoveToHead(L, k) == IF L.head = k THEN L ELSE PushHead(Detach(L, k), k)
Freed(L, k) == [Detach(L, k) EXCEPT !.node = [x \in DOMAIN @ \ {k} |-> @[x]]]

HashFind(k) == k \in Range(chains[Bucket[k]])
HashRemove(c, k) == [c EXCEPT ![Bucket[k]] = SelectSeq(@, LAMBDA x : x # k)]
HashInsert(c, k) == [c EXCEPT ![Bucket[k]] = <<k>> \o @]
EntryExpired(k) == node[k].ttl > 0 /\ now - node[k].created_at >= node[k].ttl

Install(L) == head' = L.head /\ tail' = L.tail /\ node' = L.node
Touched(k, r) == <<k>> \o SelectSeq(r, LAMBDA x : x # k)
Without(r, S) == SelectSeq(r, LAMBDA x : x \notin S)

CacheRemove(k) ==
    /\ Install(Freed(List, k)) /\ chains' = HashRemove(chains, k) /\ size' = size - 1
    /\ recency' = Without(recency, {k})
CacheGet(k) ==
    /\ HashFind(k)
    /\ IF EntryExpired(k) THEN CacheRemove(k)
       ELSE Install(MoveToHead(List, k)) /\ recency' = Touched(k, recency) /\ UNCHANGED <<chains, size>>
    /\ UNCHANGED <<poolVars, limitVars, now>>
Delete(k) == HashFind(k) /\ CacheRemove(k) /\ UNCHANGED <<poolVars, limitVars, now>>
EvictLru == tail # None /\ CacheRemove(tail) /\ UNCHANGED <<poolVars, limitVars, now>>

CachePut(k, ttl) ==
    LET life == IF ttl > 0 THEN ttl ELSE DefaultTTL
        full == ~HashFind(k) /\ size >= Size
        L0 == IF full THEN Freed(List, tail) ELSE List
        fresh == [prev |-> None, next |-> None, created_at |-> now, ttl |-> life]
        L1 == IF HashFind(k) THEN MoveToHead([List EXCEPT !.node[k].created_at = now, !.node[k].ttl = life], k)
              ELSE PushHead([L0 EXCEPT !.node = [x \in DOMAIN @ \cup {k} |-> IF x = k THEN fresh ELSE @[x]]], k)
    IN  /\ Install(L1)
        /\ chains' = IF HashFind(k) THEN chains
                     ELSE HashInsert(IF full THEN HashRemove(chains, tail) ELSE chains, k)
        /\ size' = IF HashFind(k) \/ full THEN size ELSE size + 1
        /\ recency' = Touched(k, Without(recency, IF full THEN {Last(recency)} ELSE {}))
        /\ UNCHANGED <<poolVars, limitVars, now>>

\* From the tail towards the head.
EvictExpired ==
    LET old == {k \in DOMAIN node : EntryExpired(k)}
        walk[i \in 0..Len(recency)] ==
            IF i = 0 THEN [L |-> List, at |-> tail]
            ELSE LET w == walk[i - 1] IN
                 IF w.at = None THEN w
                 ELSE [L |-> IF w.at \in old THEN Freed(w.L, w.at) ELSE w.L, at |-> w.L.node[w.at].prev]
    IN  /\ Install(walk[Len(recency)].L)
        /\ chains' = [b \in DOMAIN chains |-> SelectSeq(chains[b], LAMBDA x : x \notin old)]
        /\ size' = size - Cardinality(old) /\ recency' = Without(recency, old)
        /\ UNCHANGED <<poolVars, limitVars, now>>

CacheClear ==
    /\ Install([head |-> None, tail |-> None, node |-> << >>])
    /\ chains' = [b \in DOMAIN chains |-> << >>] /\ size' = 0 /\ recency' = << >>
    /\ UNCHANGED <<poolVars, limitVars, now>>

-----------------------------------------------------------------------------
(* rate_limiter.c: a token bucket for bursts and a log of the window.      *)

Least(a, b) == IF a < b THEN a ELSE b
Refilled == [tokens |-> Least(Burst * Unit, bucket.tokens + (now - bucket.last) * Rate), last |-> now]
Taken(n) == IF Refilled.tokens >= n * Unit THEN n ELSE Refilled.tokens \div Unit
Copies(n, t) == [i \in 1..n |-> t]
Take(n) ==
    /\ bucket' = [Refilled EXCEPT !.tokens = @ - Taken(n) * Unit]
    /\ spent' = spent \o Copies(Taken(n), now)
ConsumeN(n) ==
    /\ Len(spent) + n <= MaxGrants /\ Take(n)
    /\ UNCHANGED <<window, granted, poolVars, lruVars, now>>

Evicted == SelectSeq(window, LAMBDA t : now - t < Window)
WindowOk == Len(Evicted) < MaxRequests
Allow ==
    /\ Len(spent) < MaxGrants /\ Take(1)
    /\ window' = IF WindowOk THEN Append(Evicted, now) ELSE Evicted
    /\ granted' = IF Taken(1) = 1 /\ WindowOk THEN Append(granted, now) ELSE granted
    /\ UNCHANGED <<poolVars, lruVars, now>>
\* A bucket that was reset starts full, and its history starts again.
ResetBucket ==
    /\ bucket' = [tokens |-> Burst * Unit, last |-> now] /\ spent' = << >>
    /\ UNCHANGED <<window, granted, poolVars, lruVars, now>>
ResetWindow == window' = << >> /\ granted' = << >> /\ UNCHANGED <<bucket, spent, poolVars, lruVars, now>>

PoolNext ==
    \/ \E stale \in SUBSET open, creates \in BOOLEAN : Acquire(stale, creates)
    \/ \E r \in held : Release(r)
    \/ SweepIdle
    \/ \E n \in 1..Capacity, fails \in SUBSET Slots : Prewarm(n, fails)
    \/ PoolDestroy
    \/ Clock
LruNext ==
    \/ \E k \in Keys : CacheGet(k) \/ Delete(k) \/ \E ttl \in TTLs : CachePut(k, ttl)
    \/ EvictLru \/ EvictExpired \/ CacheClear
    \/ Clock
LimitNext == (\E n \in 1..2 : ConsumeN(n)) \/ Allow \/ ResetBucket \/ ResetWindow \/ Clock

-----------------------------------------------------------------------------

\* pool.c: the count of resources in use is that of the slots, what is handed out is handed out once
\* and alive while the pool is, and nothing but what the slots hold was left undestroyed.
PoolSound ==
    /\ slots \in [Slots -> PoolSlot]
    /\ inUse = Cardinality({i \in Slots : slots[i].in_use})
    /\ up => held = {slots[i].resource : i \in {j \in Slots : slots[j].in_use}} /\ held \subseteq open
    /\ open = {slots[i].resource : i \in Slots} \ {0}
    /\ \A i, j \in Slots : slots[i].resource = slots[j].resource /\ slots[i].resource # 0 => i = j

\* cache.c: followed from the head, followed from the tail and found through the hash table, the cache
\* holds the same keys, at most its capacity of them and in the order of their last use.
LruSound ==
    LET walk(start, dir) ==
            LET w[i \in 0..size] == IF i = 0 THEN <<start, << >> >>
                                    ELSE LET p == w[i - 1] IN
                                         IF p[1] = None THEN p ELSE <<node[p[1]][dir], Append(p[2], p[1])>>
            IN  w[size]
    IN  /\ node \in [Range(recency) -> CacheEntry] /\ size = Len(recency) /\ size <= Size
        /\ walk(head, "next") = <<None, recency>> /\ walk(tail, "prev") = <<None, Reverse(recency)>>
        /\ \A b \in DOMAIN chains : IsInjective(chains[b]) /\ Range(chains[b]) = {k \in Range(recency) : Bucket[k] = b}

\* rate_limiter.c, the token bucket theorem of its header: in any time T at most rate * T + burst
\* tokens are taken; and the composite limiter allows at most MaxRequests in any window.
LimiterSound ==
    /\ bucket.tokens \in 0..(Burst * Unit)
    /\ \A i, j \in DOMAIN spent : i <= j => (j - i + 1) * Unit <= Burst * Unit + (spent[j] - spent[i]) * Rate
    /\ \A i, j \in DOMAIN granted : i <= j /\ granted[j] - granted[i] < Window => j - i < MaxRequests
=============================================================================
