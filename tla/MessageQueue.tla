---------------------------- MODULE MessageQueue ----------------------------
(***************************************************************************)
(* mini-business-infra/src/message_queue.c: the broker.  Queues, exchanges *)
(* and bindings are arrays in order of declaration; every delivery stores  *)
(* a copy of the message, numbered here in the order of storing.           *)
(*                                                                         *)
(* mq_basic_consume is split at the consumer's callback, which may publish *)
(* (also to the queue that is being consumed) before it returns its        *)
(* verdict.  Dead-letter queues have no dead-letter exchange of their own, *)
(* so that a publish nests at most once.                                   *)
(***************************************************************************)
EXTENDS Naturals, Sequences, SequencesExt, FiniteSets

CONSTANTS
    Names,          \* queue names
    Declared,       \* Declared[q]: [max, dlx] given to mq_queue_declare, max = 0 for no limit
    Exchanges,      \* Exchanges[e] \in {"direct", "topic", "fanout"}: the types declared
    Bindable,       \* the triples <<queue, exchange, routing key>> that are bound
    Keys,           \* routing keys of publishers
    DeadKey,        \* dead_letter_routing_key
    Ids,            \* message ids
    Ttls,           \* ttl_seconds of messages, 0 for none
    MaxRetries,     \* max_retries of messages
    DedupWindow,    \* MQ_DEDUP_WINDOW
    MaxQueues,      \* MQ_MAX_QUEUES
    MaxBindings,    \* MQ_MAX_QUEUES * 4
    MaxCopies, MaxTime, MaxRecords, \* bounds of the instance
    None

VARIABLES
    exchanges, queues, bindings,
    dedup, pos, filled,     \* the ring of recent ids
    consuming, j,           \* the queue in mq_basic_consume and the cell it is at
    now,
    next,                   \* history: copies stored so far
    freed,                  \* history: copies given to free()
    seen                    \* history: ids recorded for deduplication, in order

topology == <<exchanges, bindings>>
tracker == <<dedup, pos, filled, seen>>
vars == <<topology, queues, tracker, consuming, j, now, next, freed>>

Message == [id : Ids, stamp : Nat, ttl : Ttls, retry : Nat, copy : Nat]
IndexOf(q) == SelectInSeq(queues, LAMBDA x : x.name = q)
TypeOf(e) == SelectInSeq(exchanges, LAMBDA x : x = e)
Idle == consuming = None

Init ==
    /\ exchanges = <<>> /\ queues = <<>> /\ bindings = <<>>
    /\ dedup = [n \in 0 .. DedupWindow - 1 |-> None] /\ pos = 0 /\ filled = FALSE
    /\ consuming = None /\ j = 0 /\ now = 0
    /\ next = 1 /\ freed = {} /\ seen = <<>>
----------------------------------------------------------------------------
(* Declarations.                                                           *)

ExchangeDeclare(e) ==
    /\ Idle /\ TypeOf(e) = 0 /\ Len(exchanges) + 1 < MaxQueues  \* one place is taken by amq.default
    /\ exchanges' = Append(exchanges, e)
    /\ UNCHANGED <<bindings, queues, tracker, consuming, j, now, next, freed>>

ExchangeDelete(e) ==
    /\ Idle /\ TypeOf(e) # 0
    /\ exchanges' = RemoveAt(exchanges, TypeOf(e))
    /\ UNCHANGED <<bindings, queues, tracker, consuming, j, now, next, freed>>

QueueDeclare(q) ==
    /\ Idle /\ IndexOf(q) = 0 /\ Len(queues) < MaxQueues
    /\ queues' = Append(queues, [name |-> q, max |-> Declared[q].max, dlx |-> Declared[q].dlx, msgs |-> <<>>])
    /\ UNCHANGED <<topology, tracker, consuming, j, now, next, freed>>

QueueBind(q, e, k) ==
    /\ Idle /\ Len(bindings) < MaxBindings
    /\ bindings' = Append(bindings, [exchange |-> e, queue |-> q, key |-> k])
    /\ UNCHANGED <<exchanges, queues, tracker, consuming, j, now, next, freed>>

QueueUnbind(q, e, k) ==
    LET i == SelectInSeq(bindings, LAMBDA b : b = [exchange |-> e, queue |-> q, key |-> k])
    IN /\ Idle /\ i # 0
       /\ bindings' = RemoveAt(bindings, i)
       /\ UNCHANGED <<exchanges, queues, tracker, consuming, j, now, next, freed>>

Copies(msgs) == {m.copy : m \in ToSet(msgs) \ {None}}

QueuePurge(q) ==
    /\ Idle /\ IndexOf(q) # 0
    /\ queues' = [queues EXCEPT ![IndexOf(q)].msgs = <<>>]
    /\ freed' = freed \cup Copies(queues[IndexOf(q)].msgs)
    /\ UNCHANGED <<topology, tracker, consuming, j, now, next>>

QueueDelete(q) ==
    /\ Idle /\ IndexOf(q) # 0
    /\ freed' = freed \cup Copies(queues[IndexOf(q)].msgs)
    /\ queues' = RemoveAt(queues, IndexOf(q))
    /\ UNCHANGED <<topology, tracker, consuming, j, now, next>>
----------------------------------------------------------------------------
(* Publishing.  A broker is [queues, next]: the queues and the number of   *)
(* the next copy.                                                          *)

Store(b, i, m) ==
    [queues |-> [b.queues EXCEPT ![i].msgs = Append(@, [m EXCEPT !.copy = b.next])], next |-> b.next + 1]

\* mq_basic_publish: the key need not match unless the exchange is direct, or unknown.
Routed(e, k) == SelectSeq(bindings, LAMBDA b :
    b.exchange = e /\ (b.key = k \/ (TypeOf(e) # 0 /\ Exchanges[e] # "direct")))

Full(b, i) == b.queues[i].max > 0 /\ Len(b.queues[i].msgs) >= b.queues[i].max

Target(b, binding) == SelectInSeq(b.queues, LAMBDA x : x.name = binding.queue)
Deliver(b, i, m) == IF i = 0 \/ Full(b, i) THEN b ELSE Store(b, i, m)

DeadLetter(b, i, m) ==
    IF b.queues[i].dlx = None THEN b
    ELSE FoldLeft(LAMBDA acc, x : Deliver(acc, Target(acc, x), m), b, Routed(b.queues[i].dlx, DeadKey))

DeliverOrDead(b, i, m) == IF i # 0 /\ Full(b, i) THEN DeadLetter(b, i, m) ELSE Deliver(b, i, m)

Published(e, k, m) ==
    FoldLeft(LAMBDA acc, x : DeliverOrDead(acc, Target(acc, x), m), [queues |-> queues, next |-> next], Routed(e, k))

Fresh(id, ttl) == [id |-> id, stamp |-> now, ttl |-> ttl, retry |-> 0, copy |-> 0]

\* From the outside, or from the consumer's callback.
Publish(e, k, m) ==
    LET b == Published(e, k, m)
    IN /\ b.next <= MaxCopies
       /\ queues' = b.queues /\ next' = b.next

BasicPublish(e, k, id, ttl) ==
    /\ Publish(e, k, Fresh(id, ttl))
    /\ UNCHANGED <<topology, tracker, consuming, j, now, freed>>

\* mq_basic_publish_topic over an exchange that is not a topic exchange; it
\* ignores max_length.  (For topic exchanges see TopicMatch.)
BasicPublishTopic(e, k, id, ttl) ==
    LET route == SelectSeq(bindings, LAMBDA b : b.exchange = e /\ (Exchanges[e] = "fanout" \/ b.key = k))
        store(acc, x) == IF Target(acc, x) = 0 THEN acc ELSE Store(acc, Target(acc, x), Fresh(id, ttl))
        b == FoldLeft(store, [queues |-> queues, next |-> next], route)
    IN /\ Idle /\ TypeOf(e) # 0 /\ Exchanges[e] # "topic"
       /\ b.next <= MaxCopies
       /\ queues' = b.queues /\ next' = b.next
       /\ UNCHANGED <<topology, tracker, consuming, j, now, freed>>

LookedAt == 0 .. (IF filled THEN DedupWindow ELSE pos) - 1
IsDuplicate(id) == \E n \in LookedAt : dedup[n] = id

DedupRecord(id) ==
    /\ dedup' = [dedup EXCEPT ![pos] = id] /\ seen' = Append(seen, id)
    /\ pos' = IF pos + 1 >= DedupWindow THEN 0 ELSE pos + 1
    /\ filled' = (filled \/ pos + 1 >= DedupWindow)

PublishDedup(e, k, id, ttl) ==
    /\ Idle /\ ~IsDuplicate(id) /\ Len(seen) < MaxRecords
    /\ DedupRecord(id)
    /\ Publish(e, k, Fresh(id, ttl))
    /\ UNCHANGED <<topology, consuming, j, now, freed>>

\* A duplicate is confirmed like a publish that was delivered, and dropped.
PublishDuplicate(id) ==
    /\ Idle /\ IsDuplicate(id)
    /\ UNCHANGED vars
----------------------------------------------------------------------------
(* Consuming.                                                              *)

ConsumeStart(q) ==
    /\ Idle /\ IndexOf(q) # 0
    /\ consuming' = q /\ j' = 1
    /\ UNCHANGED <<topology, queues, tracker, now, next, freed>>

Current == queues[IndexOf(consuming)].msgs
Expired(m) == m.ttl > 0 /\ now - m.stamp > m.ttl
AtMessage == ~Idle /\ j <= Len(Current)

\* Mutant: the cell keeps pointing to the freed copy.
DropKeeps(b, i, m) ==
    /\ queues' = b.queues /\ next' = b.next
    /\ b.next <= MaxCopies
    /\ freed' = freed \cup {m.copy}
    /\ j' = j + 1

\* The message leaves the queue: the cell becomes NULL and the copy is freed.
Drop(b, i, m) ==
    /\ queues' = [b.queues EXCEPT ![i].msgs[j] = None] /\ next' = b.next
    /\ b.next <= MaxCopies
    /\ freed' = freed \cup {m.copy}
    /\ j' = j + 1

Broker == [queues |-> queues, next |-> next]

ConsumeExpired ==
    /\ AtMessage /\ Expired(Current[j])
    /\ LET i == IndexOf(consuming)
       IN Drop(DeadLetter(Broker, i, Current[j]), i, Current[j])
    /\ UNCHANGED <<topology, tracker, consuming, now>>

ConsumeAck ==
    /\ AtMessage /\ ~Expired(Current[j])
    /\ Drop(Broker, IndexOf(consuming), Current[j])
    /\ UNCHANGED <<topology, tracker, consuming, now>>

\* With retries left the message is counted and freed like any other.
ConsumeNack ==
    /\ AtMessage /\ ~Expired(Current[j])
    /\ LET i == IndexOf(consuming)
           m == Current[j]
       IN Drop(IF m.retry < MaxRetries THEN Broker ELSE DeadLetter(Broker, i, m), i, m)
    /\ UNCHANGED <<topology, tracker, consuming, now>>

ConsumeRequeue ==
    /\ AtMessage /\ ~Expired(Current[j])
    /\ j' = j + 1
    /\ UNCHANGED <<topology, queues, tracker, consuming, now, next, freed>>

Compact(msgs) == SelectSeq(msgs, LAMBDA m : m # None)

ConsumeEnd ==
    /\ ~Idle /\ j > Len(Current)
    /\ queues' = [queues EXCEPT ![IndexOf(consuming)].msgs = Compact(@)]
    /\ consuming' = None /\ j' = 0
    /\ UNCHANGED <<topology, tracker, now, next, freed>>

\* mq_basic_consume_priority delivers everything and frees it, whatever the verdicts.
ConsumePriority(q) ==
    /\ Idle /\ IndexOf(q) # 0 /\ queues[IndexOf(q)].msgs # <<>>
    /\ queues' = [queues EXCEPT ![IndexOf(q)].msgs = <<>>]
    /\ freed' = freed \cup Copies(queues[IndexOf(q)].msgs)
    /\ UNCHANGED <<topology, tracker, consuming, j, now, next>>

Tick ==
    /\ now < MaxTime
    /\ now' = now + 1
    /\ UNCHANGED <<topology, queues, tracker, consuming, j, next, freed>>

Next ==
    \/ \E e \in DOMAIN Exchanges : ExchangeDeclare(e) \/ ExchangeDelete(e)
    \/ \E q \in Names : QueueDeclare(q) \/ QueuePurge(q) \/ QueueDelete(q) \/ ConsumeStart(q) \/ ConsumePriority(q)
    \/ \E b \in Bindable : QueueBind(b[1], b[2], b[3]) \/ QueueUnbind(b[1], b[2], b[3])
    \/ \E e \in DOMAIN Exchanges, k \in Keys, id \in Ids, ttl \in Ttls :
          BasicPublish(e, k, id, ttl) \/ BasicPublishTopic(e, k, id, ttl) \/ PublishDedup(e, k, id, ttl)
    \/ \E id \in Ids : PublishDuplicate(id)
    \/ ConsumeExpired \/ ConsumeAck \/ ConsumeNack \/ ConsumeRequeue \/ ConsumeEnd
    \/ Tick
----------------------------------------------------------------------------
\* Type invariant: a queue has NULL cells only while it is consumed.
TypeOK ==
    /\ \A n \in DOMAIN queues : ToSet(queues[n].msgs) \subseteq Message \cup {None}
    /\ consuming \in Names \cup {None} /\ pos \in 0 .. DedupWindow - 1
    /\ Idle => \A n \in DOMAIN queues : None \notin ToSet(queues[n].msgs)

\* Messages wait in the order they were stored, no copy waits twice, and none
\* that was freed is still in a queue: through requeues, dead letters, a
\* callback that publishes to the queue it is consuming, and the compaction.
QueuesInOrder ==
    /\ \A n \in DOMAIN queues :
         LET kept == SelectSeq(queues[n].msgs, LAMBDA m : m # None)
         IN /\ \A x, y \in DOMAIN kept : x < y => kept[x].copy < kept[y].copy
            /\ Copies(kept) \cap freed = {}
    /\ \A n, o \in DOMAIN queues : n # o => Copies(queues[n].msgs) \cap Copies(queues[o].msgs) = {}

\* mq_is_duplicate knows exactly the last DedupWindow ids that were recorded.
DedupWindowExact ==
    \A id \in Ids : IsDuplicate(id) <=>
        \E x \in DOMAIN seen : x > Len(seen) - DedupWindow /\ seen[x] = id
============================================================================
