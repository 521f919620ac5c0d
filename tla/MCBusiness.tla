----------------------------- MODULE MCBusiness -----------------------------
(***************************************************************************)
(* The parts of mini-business-infra and of mini-business-arch on small     *)
(* instances.  They share nothing but the clock: the one that active names *)
(* moves and the others keep their initial state, so the run explores the  *)
(* sum of their state spaces.                                              *)
(***************************************************************************)
EXTENDS BusinessProofs

VARIABLES active,
          \* mini-business-infra
          exchanges, queues, bindings, dedup, pos, filled, consuming, j, next, freed, seen,
          pattern, routing_key,
          cache, db, bits, recent, removed, shared, added, refused,
          svc, rr_counter, deps, picks, names, vnodes,
          routes, known, upstreams, buckets, call, current, granted, cap, answers, chosen,
          \* mini-business-arch
          inst, req, timers, last, fired, ran, sent,
          process, instances, called

-----------------------------------------------------------------------------
(* mini-business-infra *)

Declared == [work |-> [max |-> 2, dlx |-> "dlx"], dead |-> [max |-> 0, dlx |-> None]]
Exchanges == [ex |-> "fanout", dlx |-> "direct"]
Bindable == {<<"work", "ex", "k">>, <<"dead", "dlx", "dead">>}

\* A work queue of two messages with a dead-letter exchange, and the queue for it.
Mq == INSTANCE MessageQueue WITH
    Names <- {"work", "dead"}, Keys <- {"k", "dead"}, DeadKey <- "dead", Ids <- {1}, Ttls <- {1},
    MaxRetries <- 0, DedupWindow <- 2, MaxQueues <- 2, MaxBindings <- 2, MaxCopies <- 4, MaxTime <- 2, MaxRecords <- 0
\* Deduplication, and refusals with a retry left, with one queue.
Md == INSTANCE MessageQueue WITH
    Names <- {"dead"}, Keys <- {"dead"}, DeadKey <- "dead", Ids <- {1, 2, 3}, Ttls <- {0},
    MaxRetries <- 1, DedupWindow <- 2, MaxQueues <- 1, MaxBindings <- 1, MaxCopies <- 2, MaxTime <- 2, MaxRecords <- 5
Tm == INSTANCE TopicMatch WITH Letters <- {"a", "b"}, MaxPattern <- 5, MaxKey <- 5

\* Three keys in three buckets and room for two entries, or for one and a half of the larger value.
Dc == INSTANCE DistributedCache WITH
    Keys <- {"a", "b", "c"}, Values <- {1, 2}, Bucket <- [a |-> 1, b |-> 2, c |-> 3],
    BitsOf <- [a |-> {1, 2}, b |-> {2, 3}, c |-> {1, 3}], MaxEntries <- 2, MaxMemory <- 3, Policy <- "LFU", DefaultTTL <- 1, MaxAlloc <- 3, MaxTime <- 2
\* Three keys in two buckets.
Dk == INSTANCE DistributedCache WITH
    Keys <- {"a", "b", "c"}, Values <- {1}, Bucket <- [a |-> 1, b |-> 2, c |-> 1],
    BitsOf <- [a |-> {}, b |-> {}, c |-> {}], MaxEntries <- 3, MaxMemory <- 0, Policy <- "LRU", DefaultTTL <- 0, MaxAlloc <- 4, MaxTime <- 0
\* Two keys, each in a namespace of its own.
TwoNamespaces == [k |-> "n", l |-> "m"]
Encrypted == [v |-> "xv"]
Writes == [k |-> 3, l |-> 1]
ASSUME ConfigConstants

\* A service of two instances and one of one; a ring of three nodes with two points each.
Sr == INSTANCE Registry WITH
    Services <- {"s", "t"}, Ids <- {1, 2}, TTL <- 1, MaxInstances <- [s |-> 2, t |-> 1], MaxTime <- 2, MaxPicks <- 4, MaxDeps <- 0,
    Nodes <- {"x", "y", "z"}, Points <- [x |-> {1, 6}, y |-> {3, 4}, z |-> {0, 7}], MaxHash <- 9
\* Services that depend on each other.
Sd == INSTANCE Registry WITH
    Services <- {"s", "t"}, Ids <- {1}, TTL <- 1, MaxInstances <- [s |-> 2, t |-> 1], MaxTime <- 2, MaxPicks <- 2, MaxDeps <- 2,
    Nodes <- {}, Points <- <<>>, MaxHash <- 0

Rule(m, p, n, auth, limit) == [method |-> m, path |-> p, svc |-> "s", prio |-> n, enabled |-> TRUE, auth |-> auth, limit |-> limit]
Policy(max, on_5xx) == [max |-> max, on_5xx |-> on_5xx, on_timeout |-> TRUE]
\* Two rules of which one path begins the other, and requests that both fit.
Gw == INSTANCE Gateway WITH
    Rules <- {Rule("any", <<"a">>, 0, FALSE, 2), Rule("post", <<"a", "b">>, 2, TRUE, 1)},
    Requests <- {[method |-> "get", path |-> <<"a", "b">>, ip |-> 1], [method |-> "post", path |-> <<"a", "b">>, ip |-> 2]},
    Slot <- <<3, 3>>, Rewritten <- {500},
    Services <- {"s"}, Hosts <- {"h"}, Weight <- [h |-> 1], Policies <- {Policy(2, FALSE), Policy(1, TRUE)},
    MaxRules <- 2, MaxTime <- 1, MaxPicks <- 0
\* Three upstreams of different weights.
Gs == INSTANCE Gateway WITH
    Rules <- {Rule("any", <<"a">>, 1, FALSE, 2)}, Requests <- {}, Slot <- <<>>, Rewritten <- {},
    Services <- {"s"}, Hosts <- {"h", "i", "j"}, Weight <- [h |-> 3, i |-> 1, j |-> 2], Policies <- {},
    MaxRules <- 1, MaxTime <- 0, MaxPicks <- 8

mqVars == <<exchanges, queues, bindings, dedup, pos, filled, consuming, j, next, freed, seen>>
tmVars == <<pattern, routing_key>>
dcVars == <<cache, db, bits, recent, removed, shared, added, refused>>
ccVars == <<conf, subs, told, file, saved, torn, log, loaded>>
srVars == <<svc, rr_counter, deps, picks, names, vnodes>>
gwVars == <<routes, known, upstreams, buckets, call, current, granted, cap, answers, chosen>>
infra == <<mqVars, tmVars, dcVars, ccVars, srVars, gwVars>>

-----------------------------------------------------------------------------
(* mini-business-arch *)

\* The approval workflow with a fork, a guarded expiry and a reminder, on two timers.
Wf == INSTANCE Workflow WITH
        Parallel <- [from |-> "draft", targets |-> <<"left", "right">>, join |-> "joined"],
        Extra <- << <<"pending_approval", "expire", "rejected", TRUE>>, <<"draft", "remind", "draft", FALSE>>,
                    <<"joined", "merge", "pending_approval", FALSE>> >>,
        TimerEvents <- <<"remind", "expire">>, Interval <- 2, Repeating <- {1},
        MaxTime <- 3, MaxRevisions <- 1, MaxSteps <- 5

F(to) == [to |-> to, text |-> FALSE]
G(to) == [to |-> to, text |-> TRUE]
\* Two forks of which one is inside the other, a fork that joins, an inclusive choice with a
\* timer and a missing node, a fork straight to the end.
Custom ==
    { [type |-> [start |-> "start", fork |-> "and", a |-> "task", b |-> "task", or |-> "or", c |-> "task", d |-> "task", end |-> "end"],
       out |-> [start |-> <<F("fork")>>, fork |-> <<F("a"), F("or"), F("b")>>, a |-> <<F("end")>>, b |-> <<F("end")>>,
                or |-> <<F("c"), F("d")>>, c |-> <<F("end")>>, d |-> <<F("end")>>, end |-> << >>]],
      [type |-> [start |-> "start", fork |-> "and", a |-> "task", b |-> "task", join |-> "and", end |-> "end"],
       out |-> [start |-> <<F("fork")>>, fork |-> <<F("a"), F("b")>>, a |-> <<F("join")>>, b |-> <<F("join")>>,
                join |-> <<F("end")>>, end |-> << >>]],
      [type |-> [start |-> "start", pick |-> "or", a |-> "task", wait |-> "timer", end |-> "end"],
       out |-> [start |-> <<F("pick")>>, pick |-> <<F("a"), G("wait"), G("missing")>>, a |-> <<F("end")>>,
                wait |-> <<F("end")>>, end |-> << >>]],
      [type |-> [start |-> "start", fork |-> "and", a |-> "task", end |-> "end"],
       out |-> [start |-> <<F("fork")>>, fork |-> <<F("a"), F("end"), F("missing")>>, a |-> <<F("end")>>, end |-> << >>]] }
Bp == INSTANCE Bpmn WITH MaxInstances <- 2, MaxSteps <- 8

ASSUME OrdersConstants /\ ResilienceConstants /\ SagasConstants

sgVars == <<sagas, saga_call, effects, bus, cursor, published, delivered, misread>>
wfVars == <<inst, req, timers, last, fired, ran, sent>>
bpVars == <<process, instances, called>>
orVars == <<held, repo, heap, store, events>>
rsVars == <<cb, bh, tb, eb, calls, entries, client, started, target, silent>>
arch == <<sgVars, wfVars, bpVars, orVars, rsVars>>

-----------------------------------------------------------------------------

vars == <<active, now, infra, arch>>

Init ==
    /\ active \in {"broker", "dedup", "topic", "cache", "collision", "filter", "config", "registry", "dependencies", "ring", "gateway", "swrr",
                   "saga", "bus", "workflow", "bpmn", "orders", "events", "policy", "keys", "health"}
    /\ Mq!Init /\ Tm!Init /\ Cc!Init /\ Sr!Init
    /\ IF active = "collision" THEN Dk!Init ELSE Dc!Init
    /\ IF active = "swrr" THEN Gs!Init ELSE Gw!Init
    /\ Sg!Init /\ Wf!Init /\ Bp!Init /\ Or!Init /\ Rs!Init
    /\ active # "bpmn" => process = Bp!OrderFulfillment

InfraNext ==
    \/ active = "broker" /\ Mq!Next /\ UNCHANGED <<tmVars, dcVars, ccVars, srVars, gwVars>>
    \/ active = "dedup" /\ Md!Next /\ UNCHANGED <<tmVars, dcVars, ccVars, srVars, gwVars>>
    \/ active = "topic" /\ Tm!Next /\ UNCHANGED <<now, mqVars, dcVars, ccVars, srVars, gwVars>>
    \/ active = "cache" /\ Dc!Serve /\ UNCHANGED <<mqVars, tmVars, ccVars, srVars, gwVars>>
    \/ active = "collision" /\ Dk!Serve /\ UNCHANGED <<mqVars, tmVars, ccVars, srVars, gwVars>>
    \/ active = "filter" /\ Dc!Filter /\ UNCHANGED <<mqVars, tmVars, ccVars, srVars, gwVars>>
    \/ active = "config" /\ Cc!Next /\ UNCHANGED <<now, mqVars, tmVars, dcVars, srVars, gwVars>>
    \/ active = "registry" /\ Sr!RegistryNext /\ UNCHANGED <<mqVars, tmVars, dcVars, ccVars, gwVars>>
    \/ active = "dependencies" /\ Sd!RegistryNext /\ UNCHANGED <<mqVars, tmVars, dcVars, ccVars, gwVars>>
    \/ active = "ring" /\ Sr!RingNext /\ UNCHANGED <<mqVars, tmVars, dcVars, ccVars, gwVars>>
    \/ active = "gateway" /\ Gw!GatewayNext /\ UNCHANGED <<mqVars, tmVars, dcVars, ccVars, srVars>>
    \/ active = "swrr" /\ Gs!SwrrNext /\ UNCHANGED <<mqVars, tmVars, dcVars, ccVars, srVars>>
ArchNext ==
    \/ active = "saga" /\ Sg!SagaNext /\ UNCHANGED <<wfVars, bpVars, orVars, rsVars, now>>
    \/ active = "bus" /\ Sg!BusNext /\ UNCHANGED <<wfVars, bpVars, orVars, rsVars, now>>
    \/ active = "workflow" /\ Wf!Next /\ UNCHANGED <<sgVars, bpVars, orVars, rsVars>>
    \/ active = "bpmn" /\ Bp!Next /\ UNCHANGED <<sgVars, wfVars, orVars, rsVars, now>>
    \/ active = "orders" /\ Or!OrderNext /\ UNCHANGED <<sgVars, wfVars, bpVars, rsVars, now>>
    \/ active = "events" /\ Or!EventNext /\ UNCHANGED <<sgVars, wfVars, bpVars, rsVars, now>>
    \/ active = "policy" /\ Rs!PolicyNext /\ UNCHANGED <<sgVars, wfVars, bpVars, orVars>>
    \/ active = "keys" /\ Rs!IkNext /\ UNCHANGED <<sgVars, wfVars, bpVars, orVars>>
    \/ active = "health" /\ Rs!HealthNext /\ UNCHANGED <<sgVars, wfVars, bpVars, orVars>>
Next ==
    \/ InfraNext /\ UNCHANGED <<active, arch>>
    \/ ArchNext /\ UNCHANGED <<active, infra>>
Spec == Init /\ [][Next]_vars

\* The cache with all its operations, the removals too.
CacheNext == Dc!Next /\ UNCHANGED <<active, mqVars, tmVars, ccVars, srVars, gwVars, arch>>
CacheSpec == Init /\ active = "cache" /\ [][CacheNext]_vars

\* Orders alone; with GivesAway = FALSE the callers go on with what they saved.
OrdersSpec == Init /\ active = "orders" /\ [][Next]_vars

-----------------------------------------------------------------------------

\* Queues keep the order of their messages and own each copy once, and the ring
\* of recent message ids forgets nothing too early and nothing too late.
BrokerSound ==
    /\ active = "broker" => Mq!TypeOK /\ Mq!QueuesInOrder
    /\ active = "dedup" => Md!DedupWindowExact /\ Md!QueuesInOrder

\* Matching by characters agrees with matching by words.
TopicAgrees == active = "topic" => Tm!TopicAgrees

\* While nothing is removed by hand, the links of the cache serve as list and as chains.
CacheSound == (active \in {"cache", "filter"} => Dc!CacheSound) /\ (active = "collision" => Dk!CacheSound)

\* Instances take turns, keys stay with their nodes, limits and shares are kept, retries end with success.
RoutingSound ==
    /\ active = "registry" => Sr!TurnsFair
    /\ active = "dependencies" => Sd!TurnsFair
    /\ active = "ring" => Sr!RingConsistent
    /\ active = "gateway" => Gw!LimitKept /\ Gw!AnsweredOnce
    /\ active = "swrr" => Gs!SharesKept

\* No operation of the cache uses an entry that was freed.
NoStaleEntry == Dc!NoStaleEntry


\* Orders that the service persists keep their line items.
PersistedWhole == Or!PersistedWhole
=============================================================================
