---------------------------- MODULE FailureWindow ----------------------------
(***************************************************************************)
(* The sliding failure window of mini-job-system's circuit breaker: a ring *)
(* of timestamps that overwrites the oldest, counted from the newest back  *)
(* until the first one outside the window.                                 *)
(***************************************************************************)
EXTENDS Integers, Sequences, FiniteSetsExt

CONSTANTS Size,       \* slots of the ring (256 in the code)
          Windows,    \* arguments window_sec of cb_failure_window_count
          MaxTime,    \* bound of the clock
          MaxRecords  \* bound of the history

VARIABLES now, timestamps, head, count,
          history  \* the failures recorded since the last reset, oldest first

vars == <<now, timestamps, head, count, history>>

Init ==
    /\ now = 0 /\ head = 0 /\ count = 0 /\ history = <<>>
    /\ timestamps = [i \in 0 .. Size - 1 |-> 0]

NextHead == (head + 1) % Size

Record ==
    /\ Len(history) < MaxRecords
    /\ timestamps' = [timestamps EXCEPT ![head] = now]
    /\ head' = NextHead
    /\ count' = IF count < Size THEN count + 1 ELSE count
    /\ history' = Append(history, now)
    /\ UNCHANGED now

\* cb_reset clears the window.
Reset ==
    /\ head' = 0 /\ count' = 0 /\ history' = <<>>
    /\ timestamps' = [i \in 0 .. Size - 1 |-> 0]
    /\ UNCHANGED now

Tick == now < MaxTime /\ now' = now + 1 /\ UNCHANGED <<timestamps, head, count, history>>

Next == Record \/ Reset \/ Tick

Spec == Init /\ [][Next]_vars

\* cb_failure_window_count: the i-th newest slot, and the first i that is too old.
SlotFromHead(i) == (head - i + Size) % Size
Slot(i) == (head - 1 - i + Size) % Size
Stale(i, w) == timestamps[Slot(i)] < now - w
WindowCount(w) == Min({count} \cup {i \in 0 .. count - 1 : Stale(i, w)})

-----------------------------------------------------------------------------
\* Type invariant: head and count stay inside the ring.
TypeOK == head \in 0 .. Size - 1 /\ count \in 0 .. Size /\ now \in Nat

Kept == {i \in DOMAIN history : i > Len(history) - Size}

\* The count equals the number of failures, among the last Size ones, that lie
\* in the window, however often the ring wrapped or was reset: stopping at the
\* first old timestamp skips no newer one.
CountsWindow ==
    \A w \in Windows : WindowCount(w) = Cardinality({i \in Kept : history[i] >= now - w})
=============================================================================
