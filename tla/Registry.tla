------------------------------ MODULE Registry ------------------------------
(***************************************************************************)
(* mini-business-infra/src/service_registry.c and consistent_hash.c: who   *)
(* can serve a request.  The registry keeps the instances of a service in  *)
(* order of registration; its round robin counter is one for all services. *)
(* The ring keeps virtual nodes sorted by hash, with the index of their    *)
(* node in the array of names.                                             *)
(***************************************************************************)
EXTENDS Naturals, Sequences, SequencesExt, FiniteSets

CONSTANTS
    Services, Ids,
    TTL,            \* ttl_seconds, at most 5: an observer's jitter is then 0 or -1
    MaxInstances,   \* MaxInstances[s]: bound on the instances of s
    MaxTime, MaxPicks, MaxDeps, \* bounds: time, lookups in a row, dependencies
    Nodes, Points,  \* Points[n]: the hashes of n's virtual nodes, all different
    MaxHash

VARIABLES
    svc,            \* svc[s]: the instances [id, status, beat]
    rr_counter, deps, now,
    picks,          \* history: the lookups since any instance changed, [svc, at]
    names, vnodes   \* the ring: physical_names, and [hash, idx] sorted by hash

registry == <<svc, rr_counter, deps, picks>>
ring == <<names, vnodes>>

Init ==
    /\ svc = [s \in Services |-> <<>>] /\ rr_counter = 0 /\ deps = [d \in {} |-> "ok"] /\ now = 0
    /\ picks = <<>>
    /\ names = <<>> /\ vnodes = <<>>
----------------------------------------------------------------------------
(* The registry.                                                           *)

At(s, id) == SelectInSeq(svc[s], LAMBDA x : x.id = id)
Up(s) == {i \in DOMAIN svc[s] : svc[s][i].status = "up"}
Silent(x) == now - x.beat > TTL
Change(s, l) == svc' = [svc EXCEPT ![s] = l] /\ picks' = <<>> /\ UNCHANGED <<rr_counter, deps, now, ring>>

\* sr_register looks for no instance of the same id.
Register(s, id) ==
    /\ Len(svc[s]) < MaxInstances[s]
    /\ Change(s, Append(svc[s], [id |-> id, status |-> "up", beat |-> now]))
Deregister(s, id) == At(s, id) # 0 /\ Change(s, RemoveAt(svc[s], At(s, id)))
SetStatus(s, id, st) == At(s, id) # 0 /\ Change(s, [svc[s] EXCEPT ![At(s, id)].status = st])
Heartbeat(s, id) ==
    At(s, id) # 0 /\ Change(s, [svc[s] EXCEPT ![At(s, id)] = [@ EXCEPT !.beat = now, !.status = IF @ = "down" THEN "up" ELSE @]])

\* sr_health_check, of every service.
HealthCheck ==
    /\ svc' = [s \in Services |-> [i \in DOMAIN svc[s] |-> IF svc[s][i].status = "up" /\ Silent(svc[s][i])
                                                           THEN [svc[s][i] EXCEPT !.status = "down"] ELSE svc[s][i]]]
    /\ picks' = <<>> /\ UNCHANGED <<rr_counter, deps, now, ring>>

\* sr_health_check_instance takes an instance down whatever its heartbeat.
HealthCheckInstance(s, id) ==
    At(s, id) # 0 /\ svc[s][At(s, id)].status = "up" /\ Change(s, [svc[s] EXCEPT ![At(s, id)].status = "down"])

\* sr_health_check_quorum: a majority whose jitter may shorten the ttl by one.
HealthCheckQuorum(s, id) ==
    At(s, id) # 0 /\ now - svc[s][At(s, id)].beat >= TTL /\ Change(s, [svc[s] EXCEPT ![At(s, id)].status = "down"])

\* sr_lookup_one with SR_LB_ROUND_ROBIN: the first instance up from the counter on.
Start(s) == rr_counter % Len(svc[s])
Turn(s) ==
    LET n == Len(svc[s])
        first == CHOOSE i \in 0 .. n - 1 : /\ ((Start(s) + i) % n) + 1 \in Up(s)
                                           /\ \A k \in 0 .. i - 1 : ((Start(s) + k) % n) + 1 \notin Up(s)
    IN  (Start(s) + first) % n
Advanced(idx) == idx + 1
LookupOne(s) ==
    /\ Up(s) # {}
    /\ rr_counter' = Advanced(Turn(s))
    /\ Len(picks) < MaxPicks /\ picks' = Append(picks, [svc |-> s, at |-> Turn(s) + 1])
    /\ UNCHANGED <<svc, deps, now, ring>>

DependencyAdd(s, t) ==
    /\ <<s, t>> \notin DOMAIN deps /\ Cardinality(DOMAIN deps) < MaxDeps
    /\ deps' = [d \in DOMAIN deps \cup {<<s, t>>} |-> IF d = <<s, t>> THEN "ok" ELSE deps[d]]
    /\ UNCHANGED <<svc, rr_counter, now, picks, ring>>
\* sr_dependency_check with sr_discover_healthy.
DependencyCheck(s) ==
    /\ \E d \in DOMAIN deps : d[1] = s
    /\ deps' = [d \in DOMAIN deps |-> IF d[1] # s THEN deps[d] ELSE IF Up(d[2]) = {} THEN "down" ELSE "ok"]
    /\ UNCHANGED <<svc, rr_counter, now, picks, ring>>

Clock == now < MaxTime /\ now' = now + 1 /\ UNCHANGED <<registry, ring>>

RegistryNext ==
    \/ \E s \in Services, id \in Ids :
        \/ Register(s, id) \/ Deregister(s, id) \/ Heartbeat(s, id) \/ SetStatus(s, id, "starting")
        \/ HealthCheckInstance(s, id) \/ HealthCheckQuorum(s, id)
    \/ \E s \in Services : LookupOne(s) \/ DependencyCheck(s) \/ \E t \in Services \ {s} : DependencyAdd(s, t)
    \/ HealthCheck \/ Clock
----------------------------------------------------------------------------
(* The ring.                                                               *)

Hashes(n) == SetToSortSeq(Points[n], <)
Vnodes(n, idx) == [i \in DOMAIN Hashes(n) |-> [hash |-> Hashes(n)[i], idx |-> idx]]
Sorted(vs) == SortSeq(vs, LAMBDA a, b : a.hash < b.hash)

AddNode(n) ==
    /\ n \notin Range(names)
    /\ names' = Append(names, n)
    /\ vnodes' = Sorted(vnodes \o Vnodes(n, Len(names) + 1))
    /\ UNCHANGED <<registry, now>>

\* The names after the removed one move up, and so do the indices of their virtual nodes.
NotShifted(v, gone) == v
Shifted(v, gone) == IF v.idx > gone THEN [v EXCEPT !.idx = @ - 1] ELSE v
RemoveNode(n) ==
    LET gone == SelectInSeq(names, LAMBDA x : x = n)
        rest == SelectSeq(vnodes, LAMBDA v : v.idx # gone)
    IN
    /\ gone # 0
    /\ names' = RemoveAt(names, gone)
    /\ vnodes' = Sorted([i \in DOMAIN rest |-> Shifted(rest[i], gone)])
    /\ UNCHANGED <<registry, now>>

Rebalance ==
    /\ names # <<>>
    /\ vnodes' = Sorted(FlattenSeq([i \in DOMAIN names |-> Vnodes(names[i], i)]))
    /\ UNCHANGED <<registry, now, names>>

RingNext == (\E n \in Nodes : AddNode(n) \/ RemoveNode(n)) \/ Rebalance

\* ch_find_vnode: binary search for the first virtual node at or above the hash, or the first of all.
Search(h) ==
    LET s[b \in (1 .. Len(vnodes) + 1) \X (0 .. Len(vnodes))] ==
            IF b[1] > b[2] THEN b[1]
            ELSE LET mid == (b[1] + b[2] - 2) \div 2 + 1
                 IN  IF vnodes[mid].hash < h THEN s[<<mid + 1, b[2]>>] ELSE s[<<b[1], mid - 1>>]
        lo == s[<<1, Len(vnodes)>>]
    IN  IF lo > Len(vnodes) THEN 1 ELSE lo
GetNode(h) == names[vnodes[Search(h)].idx]

\* ch_ring_get_nodes: the different nodes met from there on.
GetNodes(h) ==
    LET at(i) == names[vnodes[((Search(h) + i - 2) % Len(vnodes)) + 1].idx]
        met[i \in 0 .. Len(vnodes)] == IF i = 0 THEN <<>>
                                       ELSE IF at(i) \in Range(met[i - 1]) THEN met[i - 1] ELSE Append(met[i - 1], at(i))
    IN  met[Len(vnodes)]
----------------------------------------------------------------------------
(* Properties.                                                             *)

\* Round robin: when an instance has its turn again, then every other instance of the service that is
\* up had one in between, or a lookup of another service came in between and moved the counter that
\* all services share (service_registry.c:177).  Without the exception it does not hold: of a service
\* with two instances whose lookups alternate with those of a service with one, the first is never given.
TurnsFair ==
    \A i, k \in DOMAIN picks : i < k /\ picks[i] = picks[k] =>
        LET between == Range(SubSeq(picks, i, k - 1))
            s == picks[i].svc
        IN  \/ \A up \in Up(s) : [svc |-> s, at |-> up] \in between
            \/ \E p \in between : p.svc # s

\* After any additions and removals a key belongs to the node that owns the next point of the circle,
\* whatever the order of the nodes was: a change of nodes moves only the keys next to their points.
Owner(h) ==
    LET points == UNION {Points[n] : n \in Range(names)}
        above == {p \in points : p >= h}
        next == CHOOSE p \in (IF above = {} THEN points ELSE above) : \A q \in (IF above = {} THEN points ELSE above) : p <= q
    IN  CHOOSE n \in Range(names) : next \in Points[n]
RingConsistent ==
    /\ \A i \in DOMAIN vnodes : vnodes[i].idx \in DOMAIN names
    /\ names # <<>> => \A h \in 0 .. MaxHash :
        GetNode(h) = Owner(h) /\ Head(GetNodes(h)) = Owner(h) /\ Range(GetNodes(h)) = Range(names)
=============================================================================
