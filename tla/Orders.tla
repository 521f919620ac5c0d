------------------------------- MODULE Orders -------------------------------
(* The order aggregate with its in-memory repository and domain service     *)
(* (mini-business-arch/src/ddd_model.c), and the command side with its      *)
(* event store and read model (src/cqrs_es.c).  An aggregate is a value     *)
(* that points to a buffer of line items; copying one copies the pointer.   *)
EXTENDS Naturals, Sequences, SequencesExt, FiniteSets

CONSTANTS Handles,      \* the caller's variables of type OrderAggregate
          Products,
          FirstCapacity,  \* line_item_capacity of a new order
          GivesAway,    \* the caller does not touch an order after saving it, nor saves one it found
          MaxBuffers, MaxVersion,     \* bounds: buffers allocated, root_version
          Types, MaxEvents,           \* command types; bound: events made
          None

VARIABLES held,    \* the caller's orders
          repo,    \* InMemoryOrderRepo.orders
          heap,    \* the line item buffers: live or freed
          store,   \* EventStore.global_sequence, the handlers of the CommandBus, the OrderListView
          events   \* history: the events handlers made, with their numbers

orderVars == <<held, repo, heap>>
eventVars == <<store, events>>
vars == <<orderVars, eventVars>>

Init ==
    /\ held = [h \in Handles |-> None] /\ repo = << >> /\ heap = << >>
    /\ store = [sequence |-> 0, handlers |-> << >>, view |-> << >>] /\ events = << >>

-----------------------------------------------------------------------------
(* Orders *)

Bytes == [live |-> TRUE, lines |-> << >>]
Freed == [live |-> FALSE, lines |-> << >>]
\* order_aggregate_create; the id is the buffer's number, unique like the generated one.
Create(h) ==
    /\ held[h] = None /\ Len(heap) < MaxBuffers
    /\ held' = [held EXCEPT ![h] = [id |-> Len(heap) + 1, version |-> 0, status |-> "DRAFT", buf |-> Len(heap) + 1,
                                    count |-> 0, capacity |-> FirstCapacity, total |-> 0, own |-> TRUE]]
    /\ heap' = Append(heap, Bytes)
    /\ UNCHANGED <<repo, eventVars>>

Has(h) == held[h] # None /\ heap[held[h].buf].live /\ (GivesAway => held[h].own)
Lines(a) == SubSeq(heap[a.buf].lines, 1, a.count)

\* A line goes behind the order's own count, over what another copy may have put
\* there; a full buffer is reallocated.
AddLine(h, p) ==
    LET a == held[h]  lines == Append(Lines(a), p) IN
    /\ Has(h) /\ a.status = "DRAFT"
    /\ IF a.count < a.capacity
       THEN /\ heap' = [heap EXCEPT ![a.buf].lines = lines \o SubSeq(@, a.count + 2, Len(@))]
            /\ held' = [held EXCEPT ![h].count = @ + 1]
       ELSE /\ Len(heap) < MaxBuffers
            /\ heap' = Append([heap EXCEPT ![a.buf] = Freed], [live |-> TRUE, lines |-> lines])
            /\ held' = [held EXCEPT ![h].count = @ + 1, ![h].capacity = 2 * @, ![h].buf = Len(heap) + 1]
    /\ UNCHANGED <<repo, eventVars>>
RemoveLine(h, p) ==
    LET a == held[h]  i == SelectInSeq(Lines(a), LAMBDA x : x = p) IN
    /\ Has(h) /\ a.status = "DRAFT" /\ i > 0
    /\ heap' = [heap EXCEPT ![a.buf].lines = RemoveAt(Lines(a), i) \o << Lines(a)[a.count] >> \o SubSeq(@, a.count + 1, Len(@))]
    /\ held' = [held EXCEPT ![h].count = @ - 1]
    /\ UNCHANGED <<repo, eventVars>>

\* The prices are 1: the total is the number of lines.
Total(a) == Len(Lines(a))
Moved(a, status) == [a EXCEPT !.status = status, !.version = @ + 1]
Place(h) ==
    /\ Has(h) /\ held[h].status = "DRAFT" /\ held[h].count > 0
    /\ held' = [held EXCEPT ![h] = [Moved(@, "PLACED") EXCEPT !.total = Total(held[h])]]
    /\ UNCHANGED <<repo, heap, eventVars>>
Ship(h) ==
    /\ Has(h) /\ held[h].status = "PLACED"
    /\ held' = [held EXCEPT ![h] = Moved(@, "SHIPPED")]
    /\ UNCHANGED <<repo, heap, eventVars>>
\* Every status but DELIVERED, which nothing sets, can be cancelled, CANCELLED too.
CancelOrder(h) ==
    /\ Has(h) /\ held[h].version < MaxVersion
    /\ held' = [held EXCEPT ![h] = Moved(@, "CANCELLED")]
    /\ UNCHANGED <<repo, heap, eventVars>>

Stored(id) == SelectInSeq(repo, LAMBDA o : o.id = id)
\* inmem_order_save: an order stored before is destroyed, its buffer freed, and
\* the caller's is copied in its place.
Store(a) ==
    LET i == Stored(a.id) IN
    IF i > 0 THEN /\ heap' = [heap EXCEPT ![repo[i].buf] = Freed]
                  /\ repo' = [repo EXCEPT ![i] = a]
             ELSE /\ repo' = Append(repo, a) /\ UNCHANGED heap
Kept(h, a) == held' = [held EXCEPT ![h] = IF GivesAway THEN None ELSE a]
Save(h) == Has(h) /\ Store(held[h]) /\ Kept(h, held[h]) /\ UNCHANGED eventVars
PlaceOrder(h) == Has(h) /\ Total(held[h]) > 0 /\ Store(held[h]) /\ Kept(h, held[h]) /\ UNCHANGED eventVars
CancelAndSave(h) ==
    LET a == Moved(held[h], "CANCELLED") IN
    Has(h) /\ held[h].version < MaxVersion /\ Store(a) /\ Kept(h, a) /\ UNCHANGED eventVars
Find(h, i) ==
    /\ held[h] = None
    /\ held' = [held EXCEPT ![h] = [repo[i] EXCEPT !.own = FALSE]]
    /\ UNCHANGED <<repo, heap, eventVars>>
\* Mutant: a deleted order's line items are not freed.
DeleteLeaks(i) == repo' = RemoveAt(repo, i) /\ UNCHANGED <<held, heap, eventVars>>
Delete(i) ==
    /\ heap' = [heap EXCEPT ![repo[i].buf] = Freed]
    /\ repo' = RemoveAt(repo, i)
    /\ UNCHANGED <<held, eventVars>>
Destroy(h) ==
    /\ Has(h)
    /\ heap' = [heap EXCEPT ![held[h].buf] = Freed] /\ held' = [held EXCEPT ![h] = None]
    /\ UNCHANGED <<repo, eventVars>>
Forget(h) == held[h] # None /\ ~Has(h) /\ held' = [held EXCEPT ![h] = None] /\ UNCHANGED <<repo, heap, eventVars>>

OrderNext ==
    \/ \E h \in Handles : Create(h) \/ Place(h) \/ Ship(h) \/ CancelOrder(h) \/ Save(h) \/ PlaceOrder(h)
                          \/ CancelAndSave(h) \/ Destroy(h) \/ Forget(h)
    \/ \E h \in Handles, p \in Products : AddLine(h, p) \/ RemoveLine(h, p)
    \/ \E h \in Handles, i \in DOMAIN repo : Find(h, i)
    \/ \E i \in DOMAIN repo : Delete(i)

\* "Validate + persist": every order in the repository has its line items: the
\* buffer it points to has not been freed.
PersistedWhole == \A i \in DOMAIN repo : heap[repo[i].buf].live

\* When callers give orders away, each buffer has one owner, the caller or the
\* repository, and an order that was placed keeps the lines its total was
\* computed from, through removals, reallocations, saves and deletions.
OrdersOwned ==
    /\ PersistedWhole
    /\ \A b \in DOMAIN heap : heap[b].live =>
          Cardinality({h \in Handles : held[h] # None /\ held[h].own /\ held[h].buf = b})
          + Cardinality({i \in DOMAIN repo : repo[i].buf = b}) = 1
    /\ \A i \in DOMAIN repo : repo[i].status \in {"PLACED", "SHIPPED"} => repo[i].total = Total(repo[i]) /\ repo[i].total > 0

-----------------------------------------------------------------------------
(* Commands and events *)

Register(t) ==
    /\ Len(store.handlers) < 2
    /\ store' = [store EXCEPT !.handlers = Append(@, t)]
    /\ UNCHANGED <<orderVars, events>>
\* command_bus_dispatch: the first handler of the type makes n events; those of
\* one that fails get no number.  The store numbers events and keeps none.
DispatchCommand(t, ok, n) ==
    LET made == [i \in 1 .. n |-> [type |-> t, number |-> IF ok THEN store.sequence + i ELSE 0]] IN
    /\ t \in ToSet(store.handlers) /\ Len(events) + n <= MaxEvents
    /\ events' = events \o made
    /\ store' = [store EXCEPT !.sequence = IF ok THEN @ + n ELSE @]
    /\ UNCHANGED orderVars
\* projection_engine_poll and _replay_events find no events: the store returns none.
Poll == UNCHANGED vars
\* The caller hands an event to order_list_view_projection.
Project(i) ==
    /\ Len(store.view) < 2
    /\ store' = [store EXCEPT !.view = IF events[i].type = "OrderCreated" THEN Append(@, events[i].number) ELSE @]
    /\ UNCHANGED <<orderVars, events>>

EventNext ==
    \/ Poll
    \/ \E t \in Types : Register(t) \/ \E ok \in BOOLEAN, n \in 0 .. 2 : DispatchCommand(t, ok, n)
    \/ \E i \in DOMAIN events : Project(i)

Spec == Init /\ [][OrderNext \/ EventNext]_vars

\* The numbers of the event store are the order of the successful commands: the
\* events of commands that succeeded are numbered 1, 2, ... without gap or repeat.
EventsNumbered ==
    LET numbered == {i \in DOMAIN events : events[i].number > 0} IN
    /\ {events[i].number : i \in numbered} = 1 .. store.sequence
    /\ \A i, k \in numbered : i < k => events[i].number < events[k].number
=============================================================================
