-------------------------- MODULE DistributedCache --------------------------
(***************************************************************************)
(* mini-business-infra/src/distributed_cache.c, and bloom_filter.c which   *)
(* guards it.  An entry has ONE pair of links, next and prev: dc_cache_put *)
(* first makes next the chain of the hash bucket and dc_lru_touch then     *)
(* makes it the list of recent use, so the chain of a bucket is the list   *)
(* from the bucket's entry on.  The heap is modelled entry by entry; uaf   *)
(* records that freed memory was read or written, and hang that a walk ran *)
(* into a ring of entries and does not end.                                *)
(***************************************************************************)
EXTENDS Naturals, Sequences, SequencesExt, FiniteSets, FiniteSetsExt

CONSTANTS
    Keys, Values,
    Bucket,         \* Bucket[k]: dc_hash(k) % bucket_count, numbered from 1
    BitsOf,         \* BitsOf[k]: the bits bf_add sets for k
    MaxEntries,     \* max_entries
    MaxMemory,      \* max_memory_bytes, a value counting for its own number and a key for nothing
    Policy,         \* eviction_policy, LRU or LFU
    DefaultTTL,     \* DC_DEFAULT_TTL_SEC
    MaxAlloc, MaxTime, \* bounds: entries allocated, time
    None

VARIABLES
    cache,          \* the entries, the buckets, the ends of the list, entry_count, memory_used
    db,             \* the backend's value of each key
    bits,           \* the Bloom filter
    now,
    recent,         \* history: the keys in the cache, the one used last first
    removed,        \* history: an entry was unlinked from the middle (delete, compact, flush)
    shared,         \* history: two entries of one bucket were in the cache together
    added,          \* history: keys added to the Bloom filter
    refused         \* history: an added key was turned away by the filter

vars == <<cache, db, bits, now, recent, removed, shared, added, refused>>

Init ==
    /\ cache = [ent |-> <<>>, bucket |-> [b \in {Bucket[k] : k \in Keys} |-> 0], head |-> 0, tail |-> 0, count |-> 0, mem |-> 0, uaf |-> FALSE, hang |-> FALSE]
    /\ db = [k \in Keys |-> None] /\ bits = {} /\ now = 0
    /\ recent = <<>> /\ removed = FALSE /\ shared = FALSE /\ added = {} /\ refused = FALSE
----------------------------------------------------------------------------
(* Pointers: 0 is NULL, a number an entry.                                 *)

Live(c, e) == c.ent[e].live
Assign(c, e, f, v) == IF e = 0 THEN c ELSE [c EXCEPT !.ent[e][f] = v, !.uaf = @ \/ ~Live(c, e)]

\* The n-th entry from e on; a freed entry ends the walk.
From(c, e) ==
    LET step[n \in Nat] == IF n = 0 THEN e
                           ELSE LET p == step[n - 1] IN IF p = 0 \/ ~Live(c, p) THEN 0 ELSE c.ent[p].next
    IN  SelectSeq([n \in 1 .. Len(c.ent) + 1 |-> step[n - 1]], LAMBDA p : p # 0)
Chain(c, k) == From(c, c.bucket[Bucket[k]])

\* dc_find_entry: the first entry of the chain with the key, or the first freed one, which it reads.
Place(c, k) == SelectInSeq(Chain(c, k), LAMBDA e : ~Live(c, e) \/ c.ent[e].key = k)
Find(c, k) == IF Place(c, k) = 0 THEN 0 ELSE Chain(c, k)[Place(c, k)]
\* The walk along a ring in which the key is missing never ends.
Endless(c, e) == Len(From(c, e)) > Len(c.ent)
Lost(c, k) == Place(c, k) = 0 /\ Endless(c, c.bucket[Bucket[k]])
Usable(c) == ~c.uaf /\ ~c.hang
Reads(c, e) == IF e = 0 THEN c ELSE [c EXCEPT !.uaf = @ \/ ~Live(c, e)]

\* What dc_lru_touch, dc_cache_delete and the evictions do to the neighbours of e.
Unlink(c, e) ==
    LET p == c.ent[e].prev
        n == c.ent[e].next
        d == Assign(Assign(c, p, "next", n), n, "prev", p)
    IN  [d EXCEPT !.tail = IF @ = e THEN p ELSE @]

TouchKeepsTail(c, e) ==
    IF c.head = e THEN c
    ELSE LET u == Unlink(c, e)
             d == Assign([u EXCEPT !.ent[e].prev = 0, !.ent[e].next = u.head], u.head, "prev", e)
         IN  [d EXCEPT !.head = e, !.tail = IF c.tail = 0 THEN e ELSE c.tail]
Touch(c, e) ==
    IF c.head = e THEN c
    ELSE LET u == Unlink(c, e)
             d == Assign([u EXCEPT !.ent[e].prev = 0, !.ent[e].next = u.head], u.head, "prev", e)
         IN  [d EXCEPT !.head = e, !.tail = IF @ = 0 THEN e ELSE @]

\* The entry leaves the chain at link p (0: the bucket itself) and the list, and is freed.
Free(c, b, p, e) ==
    LET n == c.ent[e].next
        u == Unlink(IF p = 0 THEN [c EXCEPT !.bucket[b] = n] ELSE Assign(c, p, "next", n), e)
    IN  [u EXCEPT !.head = IF @ = e THEN n ELSE @, !.count = @ - 1, !.mem = @ - c.ent[e].val, !.ent[e].live = FALSE]

\* dc_evict_lru: the tail, taken out of its bucket's chain if it is found there.
EvictLru(c) ==
    LET e == c.tail
        ch == Chain(c, c.ent[e].key)
        i == SelectInSeq(ch, LAMBDA x : x = e \/ ~Live(c, x))
        u == Unlink(c, e)
    IN  IF e = 0 THEN c
        ELSE IF i = 0 /\ Len(ch) > Len(c.ent) THEN [c EXCEPT !.hang = TRUE]
        ELSE IF i = 0 \/ (i > 0 /\ ch[i] # e)
        THEN [u EXCEPT !.head = IF @ = e THEN c.ent[e].next ELSE @, !.count = @ - 1, !.mem = @ - c.ent[e].val,
                       !.ent[e].live = FALSE, !.uaf = @ \/ i > 0]
        ELSE Free(c, Bucket[c.ent[e].key], IF i = 1 THEN 0 ELSE ch[i - 1], e)

Due(c, e) == c.ent[e].ttl > 0 /\ now - c.ent[e].at > c.ent[e].ttl

\* dc_evict_ttl: every bucket's chain is walked, with the link to the entry before.
RECURSIVE Sweep(_, _, _, _)
Sweep(c, b, p, e) ==
    IF e = 0 THEN c
    ELSE IF ~Live(c, e) THEN Reads(c, e)
    ELSE LET n == c.ent[e].next IN
         IF Due(c, e) THEN Sweep(Free(c, b, p, e), b, p, n) ELSE Sweep(c, b, e, n)
EvictTtl(c) ==
    LET order == SetToSeq(DOMAIN c.bucket)
        all[i \in Nat] == IF i = 0 THEN c ELSE LET d == all[i - 1] IN Sweep(d, order[i], 0, d.bucket[order[i]])
    IN  all[Len(order)]
----------------------------------------------------------------------------
(* Operations.                                                             *)

Kept(c) == SelectSeq(recent, LAMBDA k : \E e \in DOMAIN c.ent : Live(c, e) /\ c.ent[e].key = k)
Used(c, k) == <<k>> \o SelectSeq(Kept(c), LAMBDA x : x # k)

New(k, v, ttl, b) == [key |-> k, val |-> v, ttl |-> ttl, at |-> now, next |-> b, prev |-> 0, live |-> TRUE]

\* dc_evict_lfu looks for the entry used least, in all chains, and then evicts as dc_evict_lru does.
EvictLfu(c) ==
    LET walked == UNION {Range(Chain(c, k)) : k \in Keys} IN
    IF \E e \in walked : ~Live(c, e) THEN [c EXCEPT !.uaf = TRUE]
    ELSE IF \E k \in Keys : Endless(c, c.bucket[Bucket[k]]) THEN [c EXCEPT !.hang = TRUE]
    ELSE IF walked = {} THEN c ELSE EvictLru(c)
\* DC_EVICTION_TTL is not configured here: without an expired entry the loops of dc_cache_put would spin.
EvictOne(c) == IF Policy = "LFU" THEN EvictLfu(c) ELSE EvictLru(c)

\* What dc_cache_put leaves: entries are evicted until the new one has room, in number and in size.
Full(c, v) == (MaxEntries > 0 /\ c.count >= MaxEntries) \/ (MaxMemory > 0 /\ c.mem + v > MaxMemory)
RECURSIVE Room(_, _)
Room(c, v) ==
    LET d == EvictOne(c) IN
    IF ~Full(c, v) \/ ~Usable(c) THEN c
    ELSE IF d = c THEN [c EXCEPT !.hang = TRUE]
    ELSE Room(d, v)
Insert(c, k, v, ttl) ==
    LET e == Len(c.ent) + 1
    IN  Touch([c EXCEPT !.ent = Append(@, New(k, v, ttl, c.bucket[Bucket[k]])), !.bucket[Bucket[k]] = e,
                        !.count = @ + 1, !.mem = @ + v], e)
Update(c, e, v, ttl) ==
    Touch([c EXCEPT !.mem = @ - c.ent[e].val + v, !.ent[e] = [@ EXCEPT !.val = v, !.ttl = ttl, !.at = now]], e)
PutResult(c, k, v, ttl) ==
    LET e == Find(c, k)
        d == Reads(c, e)
        r == Room(d, v)
    IN  IF Lost(c, k) THEN [c EXCEPT !.hang = TRUE]
        ELSE IF d.uaf THEN d
        ELSE IF e # 0 THEN Update(d, e, v, ttl)
        ELSE IF Usable(r) THEN Insert(r, k, v, ttl) ELSE r
Shared(c) ==
    \E e, f \in {x \in DOMAIN c.ent : Live(c, x)} :
        c.ent[e].key # c.ent[f].key /\ Bucket[c.ent[e].key] = Bucket[c.ent[f].key]
Store(k, v, ttl) ==
    /\ Usable(cache) /\ (Find(cache, k) = 0 => Len(cache.ent) < MaxAlloc)
    /\ cache' = PutResult(cache, k, v, ttl)
    /\ recent' = Used(cache', k) /\ shared' = (shared \/ Shared(cache'))
    /\ UNCHANGED removed

\* dc_cache_put (and each put of a batch), with write-through.
Put(k, v, ttl) == Store(k, v, ttl) /\ db' = [db EXCEPT ![k] = v] /\ UNCHANGED <<bits, now, added, refused>>

\* dc_cache_put_with_version: the caller's vector is compared with <<access_count>>, which may dominate it.
PutWithVersion(k, v, dominated) == (Find(cache, k) # 0 => ~dominated) /\ Put(k, v, 0)

\* dc_cache_get: a hit is touched, else the backend is read and its value put.
Hit(k) ==
    LET e == Find(cache, k) IN
    /\ Usable(cache) /\ e # 0
    /\ Live(cache, e) => ~Due(cache, e)
    /\ cache' = IF Live(cache, e) THEN Touch(cache, e) ELSE Reads(cache, e)
    /\ recent' = Used(cache', k)
    /\ UNCHANGED <<db, bits, now, removed, shared, added, refused>>
Load(k) ==
    /\ db[k] # None
    /\ Find(cache, k) # 0 => Live(cache, Find(cache, k)) /\ Due(cache, Find(cache, k))
    /\ Store(k, db[k], DefaultTTL) /\ UNCHANGED <<db, bits, now, added, refused>>
\* dc_cache_warm, for one of its keys: the backend's value is put, over a fresh entry too.
Warm(k) == db[k] # None /\ Store(k, db[k], DefaultTTL) /\ UNCHANGED <<db, bits, now, added, refused>>

\* dc_cache_get_with_bloom: a key the filter does not contain is refused before the backend is asked.
MayContain(k) == BitsOf[k] \subseteq bits
GetWithBloom(k) ==
    /\ Usable(cache) /\ Find(cache, k) = 0 /\ ~Lost(cache, k) /\ ~MayContain(k)
    /\ refused' = (refused \/ k \in added)
    /\ UNCHANGED <<cache, db, bits, now, recent, removed, shared, added>>
PopulateBloom(k) ==
    /\ bits' = bits \cup BitsOf[k] /\ added' = added \cup {k}
    /\ UNCHANGED <<cache, db, now, recent, removed, shared, refused>>
ClearBloom == bits # {} /\ bits' = {} /\ added' = {} /\ UNCHANGED <<cache, db, now, recent, removed, shared, refused>>

\* dc_cache_expire; dc_cache_invalidate with DC_INVALIDATE_UPDATE keeps the entry's own ttl.
Aged(k, ttl) ==
    LET e == Find(cache, k) IN
    /\ Usable(cache) /\ e # 0
    /\ cache' = IF Live(cache, e) THEN [cache EXCEPT !.ent[e].ttl = ttl, !.ent[e].at = now] ELSE Reads(cache, e)
    /\ UNCHANGED <<db, bits, now, recent, removed, shared, added, refused>>
Expire(k, ttl) == Aged(k, ttl)
InvalidateUpdate(k) == Find(cache, k) # 0 /\ Aged(k, cache.ent[Find(cache, k)].ttl)

\* dc_cache_delete (dc_cache_invalidate): the entry found leaves its chain and the list.
Delete(k) ==
    LET e == Find(cache, k)
        i == Place(cache, k)
    IN
    /\ Usable(cache) /\ e # 0
    /\ cache' = IF Live(cache, e) THEN Free(cache, Bucket[k], IF i = 1 THEN 0 ELSE Chain(cache, k)[i - 1], e) ELSE Reads(cache, e)
    /\ removed' = TRUE /\ recent' = Kept(cache')
    /\ UNCHANGED <<db, bits, now, shared, added, refused>>

\* dc_cache_compact
Compact ==
    /\ Usable(cache) /\ \E e \in DOMAIN cache.ent : Live(cache, e) /\ Due(cache, e)
    /\ cache' = EvictTtl(cache)
    /\ removed' = TRUE /\ recent' = Kept(cache')
    /\ UNCHANGED <<db, bits, now, shared, added, refused>>

\* dc_cache_flush (dc_cache_destroy): each bucket frees its chain, entries on two chains twice.
Freed(c) == {e \in DOMAIN c.ent : \E k \in Keys : e \in Range(Chain(c, k))}
Flush ==
    /\ Usable(cache) /\ cache.count > 0
    /\ cache' = [ent |-> [e \in DOMAIN cache.ent |-> [cache.ent[e] EXCEPT !.live = @ /\ e \notin Freed(cache)]],
                 bucket |-> [b \in DOMAIN cache.bucket |-> 0], head |-> 0, tail |-> 0, count |-> 0, mem |-> 0,
                 hang |-> \E k \in Keys : Endless(cache, cache.bucket[Bucket[k]]),
                 uaf |-> \E k, l \in Keys : Bucket[k] # Bucket[l] /\ Range(Chain(cache, k)) \cap Range(Chain(cache, l)) # {}]
    /\ removed' = TRUE /\ recent' = <<>>
    /\ UNCHANGED <<db, bits, now, shared, added, refused>>

Clock == now < MaxTime /\ now' = now + 1 /\ UNCHANGED <<cache, db, bits, recent, removed, shared, added, refused>>

Serve ==
    \/ \E k \in Keys, v \in Values : Put(k, v, 1)
    \/ \E k \in Keys, v \in Values, dominated \in BOOLEAN : PutWithVersion(k, v, dominated)
    \/ \E k \in Keys : Hit(k) \/ Load(k) \/ Warm(k) \/ Expire(k, 1) \/ InvalidateUpdate(k)
    \/ Clock
Filter == (\E k \in Keys : GetWithBloom(k) \/ PopulateBloom(k)) \/ ClearBloom
Discard == (\E k \in Keys : Delete(k)) \/ Compact \/ Flush
Next == Serve \/ Filter \/ Discard
----------------------------------------------------------------------------
(* Properties.                                                             *)

Entries == {e \in DOMAIN cache.ent : Live(cache, e)}

\* entry_count and memory_used are those of the live entries and the number of entries keeps its
\* limit.  Until an entry is removed from the middle or two entries of one bucket meet: no walk meets
\* freed memory or a ring; the list of recent use holds exactly the live entries, one for a key, in the
\* order of use and linked both ways; each is found from its own bucket; and a cached value is the
\* backend's.  Two entries of one bucket do away with all of this, without any removal: dc_cache_put
\* clears the prev link of the bucket's first entry (distributed_cache.c:170), the next touch of it
\* closes the list to a ring, and an entry that is no longer found is inserted again.
\* The filter never turns an added key away.
CacheSound ==
    LET list == From(cache, cache.head) IN
    /\ ~removed /\ Usable(cache) =>
        /\ cache.count = Cardinality(Entries)
        /\ cache.mem = FoldSet(LAMBDA e, sum : cache.ent[e].val + sum, 0, Entries)
        /\ MaxEntries > 0 => cache.count <= MaxEntries
    /\ ~removed /\ ~shared =>
        /\ Usable(cache)
        /\ [i \in DOMAIN list |-> cache.ent[list[i]].key] = recent
        /\ Range(list) = Entries /\ Cardinality(Entries) = Len(list)
        /\ \A i \in DOMAIN list : cache.ent[list[i]].prev = IF i = 1 THEN 0 ELSE list[i - 1]
        /\ cache.tail = IF list = <<>> THEN 0 ELSE Last(list)
        /\ \A e \in Entries : Find(cache, cache.ent[e].key) = e /\ cache.ent[e].val = db[cache.ent[e].key]
    /\ ~refused

\* No operation reads, writes or frees an entry that was freed.
NoStaleEntry == ~cache.uaf
=============================================================================
