---------------------------- MODULE DelayedQueue ----------------------------
(***************************************************************************)
(* The delayed queue of mini-job-system (delayed_queue.c): a binary heap   *)
(* ordered by fire time, with one entry per key and lazy cancellation.  A  *)
(* job's key stands for its id too, as jc_schedule_delayed makes the key   *)
(* from the id.  The heap array starts at 1 here.                          *)
(***************************************************************************)
EXTENDS Naturals, Sequences, SequencesExt, FiniteSetsExt

CONSTANTS Keys, Capacity,
          Delays,    \* arguments delay_ms of dq_enqueue
          Second,    \* milliseconds in a second (1000 in the code)
          MaxTime    \* bound of the clock

VARIABLES now, heap,
          last    \* the last call, and the key dq_dequeue handed out

vars == <<now, heap, last>>

Called(op, got) == last' = [op |-> op, got |-> got] /\ UNCHANGED now

Init == now = 0 /\ heap = <<>> /\ last = [op |-> "create", got |-> {}]

Swap(h, i, j) == [h EXCEPT ![i] = h[j], ![j] = h[i]]

RECURSIVE SiftUp(_, _)
SiftUp(h, i) ==
    LET parent == i \div 2
    IN  IF i = 1 \/ h[i].fire_time >= h[parent].fire_time THEN h
        ELSE SiftUp(Swap(h, i, parent), parent)

\* The child that dq_heap_sift_down swaps with, i when there is none: the right
\* one only when it is strictly earlier than the left.
SmallestLeft(h, i) == IF 2 * i <= Len(h) /\ h[2 * i].fire_time < h[i].fire_time THEN 2 * i ELSE i
Smallest(h, i) ==
    LET left == SmallestLeft(h, i)
        right == 2 * i + 1
    IN  IF right <= Len(h) /\ h[right].fire_time < h[left].fire_time THEN right ELSE left

RECURSIVE SiftDown(_, _)
SiftDown(h, i) ==
    LET s == Smallest(h, i)
    IN  IF s = i THEN h ELSE SiftDown(Swap(h, i, s), s)

\* The first entry gives way to the last one.
Pop(h) ==
    IF Len(h) = 1 THEN <<>> ELSE SiftDown(<<Last(h)>> \o SubSeq(h, 2, Len(h) - 1), 1)

FindByKey(k) == SelectInSeq(heap, LAMBDA e : e.key = k)

-----------------------------------------------------------------------------

FireTime(d) == now + d \div Second

\* A new entry fires in the next second at the earliest, an updated one may be
\* due at once.
EnqueueNew(k, d) ==
    LET at == IF FireTime(d) <= now THEN now + 1 ELSE FireTime(d)
    IN  SiftUp(Append(heap, [key |-> k, fire_time |-> at, cancelled |-> FALSE]), Len(heap) + 1)

UpdateInPlace(i, d) == [heap EXCEPT ![i].fire_time = FireTime(d), ![i].cancelled = FALSE]
UpdateUpOnly(i, d) == SiftUp(UpdateInPlace(i, d), i)
Update(i, d) == SiftDown(SiftUp(UpdateInPlace(i, d), i), i)

Enqueue(k, d) ==
    /\ Len(heap) < Capacity
    /\ heap' = LET i == FindByKey(k) IN IF i > 0 THEN Update(i, d) ELSE EnqueueNew(k, d)
    /\ Called("enqueue", {})

\* dq_cancel and dq_cancel_by_key
Cancel(k) ==
    /\ FindByKey(k) > 0
    /\ heap' = [heap EXCEPT ![FindByKey(k)].cancelled = TRUE]
    /\ Called("cancel", {})

\* What dq_dequeue leaves of h once the cancelled entries at its top are gone.
RECURSIVE DropCancelled(_)
DropCancelled(h) == IF h # <<>> /\ h[1].cancelled THEN DropCancelled(Pop(h)) ELSE h

Dequeue ==
    LET h == DropCancelled(heap)
        due == h # <<>> /\ h[1].fire_time <= now
    IN  /\ heap # <<>>
        /\ heap' = IF due THEN Pop(h) ELSE h
        /\ Called("dequeue", IF due THEN {h[1].key} ELSE {})

Tick == now < MaxTime /\ now' = now + 1 /\ UNCHANGED <<heap, last>>

Next ==
    \/ \E k \in Keys : Cancel(k) \/ \E d \in Delays : Enqueue(k, d)
    \/ Dequeue \/ Tick

Spec == Init /\ [][Next]_vars

-----------------------------------------------------------------------------
(* Properties                                                              *)

\* Type invariant.
TypeOK ==
    /\ now \in 0 .. MaxTime /\ Len(heap) <= Capacity
    /\ \A i \in DOMAIN heap : heap[i].key \in Keys /\ heap[i].fire_time \in Nat
                              /\ heap[i].cancelled \in BOOLEAN

Armed == {[key |-> e.key, fire_time |-> e.fire_time] : e \in {x \in Range(heap) : ~x.cancelled}}

Promise == INSTANCE TimerSet WITH timers <- Armed

\* The heap is a set of timers, one per key: whatever updates and lazy
\* cancellations left in the array, dq_dequeue hands out an armed timer that is
\* due and earliest, misses none, and no other timer leaves the set.
ImplementsTimers == Promise!Spec
=============================================================================
