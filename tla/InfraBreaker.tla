---------------------------- MODULE InfraBreaker ----------------------------
(***************************************************************************)
(* The circuit breaker of mini-business-infra (circuit_breaker.c).  Here   *)
(* cb_call runs the guarded operation itself, between the check and the    *)
(* count; the operation may call the breaker again, so that calls nest.    *)
(* A closed breaker trips on the failures in a rolling window.             *)
(***************************************************************************)
EXTENDS Integers, FiniteSets

CONSTANTS FailureThreshold, SuccessThreshold, HalfOpenMax,
          Timeout,      \* timeout_ms: ticks in OPEN before HALF_OPEN
          WindowSize, WindowTime,
          MaxCalls,     \* bound: calls nested in one another
          MaxCount,     \* the consecutive counters are not told apart above this
          Manual        \* are cb_reset and cb_half_open_probe called?

\* A usable configuration: cb_create does not check it, and the defaults are one.
BreakerConstants ==
    /\ {FailureThreshold, SuccessThreshold, HalfOpenMax, Timeout, WindowSize, WindowTime,
        MaxCalls, MaxCount} \subseteq Nat \ {0}
    /\ MaxCount >= SuccessThreshold /\ MaxCount >= HalfOpenMax
    /\ Manual \in BOOLEAN

VARIABLES state, consecutive_failures, consecutive_successes,
          age,                            \* ticks since last_transition_time
          window, window_pos, window_filled,  \* the ring of outcomes and their ages
          calls,                          \* operations under way
          healthy,                        \* environment: operations succeed from now on
          by                              \* history: who made the last step, "itself" or the "owner"

counters == <<consecutive_failures, consecutive_successes>>
ring == <<window, window_pos, window_filled>>
vars == <<state, counters, age, ring, calls, healthy, by>>

Slots == 0 .. WindowSize - 1
Blank == [i \in Slots |-> [age |-> WindowTime + 1, failed |-> FALSE]]

Init ==
    /\ state = "CLOSED" /\ age = 0
    /\ consecutive_failures = 0 /\ consecutive_successes = 0
    /\ window = Blank /\ window_pos = 0 /\ window_filled = FALSE
    /\ calls = 0 /\ healthy = FALSE /\ by = "itself"

\* cb_transition: the counters are cleared only when the state changes.
Counted(f, s) == consecutive_failures' = f /\ consecutive_successes' = s
Transition(s, f, c) ==
    /\ state' = s
    /\ IF s = state THEN Counted(f, c) /\ UNCHANGED age
                    ELSE Counted(0, 0) /\ age' = 0

OneMore(n) == IF n < MaxCount THEN n + 1 ELSE n

-----------------------------------------------------------------------------
(* cb_call up to the operation.  A fast failure only counts in the stats.  *)

AdmitClosed ==
    /\ state = "CLOSED"
    /\ UNCHANGED <<state, counters, age>>

AdmitFirstAtOnce ==
    /\ state = "OPEN"
    /\ Transition("HALF_OPEN", consecutive_failures, consecutive_successes)
AdmitFirst ==
    /\ state = "OPEN" /\ age >= Timeout
    /\ Transition("HALF_OPEN", consecutive_failures, consecutive_successes)

ProbesSeen == consecutive_successes + consecutive_failures
AdmitProbe ==
    /\ state = "HALF_OPEN" /\ ProbesSeen < HalfOpenMax
    /\ UNCHANGED <<state, counters, age>>

\* cb_half_open_probe overrides the timeout of an open breaker.
ForceProbe ==
    /\ Manual /\ state = "OPEN"
    /\ Transition("HALF_OPEN", consecutive_failures, consecutive_successes)

Admit ==
    /\ calls < MaxCalls /\ calls' = calls + 1
    /\ \/ by' = "itself" /\ (AdmitClosed \/ AdmitFirst \/ AdmitProbe)
       \/ by' = "owner" /\ ForceProbe
    /\ UNCHANGED <<ring, healthy>>

-----------------------------------------------------------------------------
(* cb_call after the operation.                                            *)

NextPos == (window_pos + 1) % WindowSize

WindowRecord(failed) ==
    /\ window' = [window EXCEPT ![window_pos] = [age |-> 0, failed |-> failed]]
    /\ window_pos' = NextPos
    /\ window_filled' = (window_filled \/ window_pos + 1 >= WindowSize)

WindowFailures ==
    Cardinality({i \in Slots : /\ window_filled' \/ i < window_pos'
                               /\ window'[i].failed /\ window'[i].age <= WindowTime})

Returned == calls > 0 /\ calls' = calls - 1 /\ by' = "itself" /\ UNCHANGED healthy

ReturnFailure ==
    /\ ~healthy /\ Returned
    /\ WindowRecord(TRUE)
    /\ Transition(IF \/ state = "HALF_OPEN"
                     \/ state = "CLOSED" /\ WindowFailures >= FailureThreshold
                  THEN "OPEN" ELSE state,
                  OneMore(consecutive_failures), 0)

Closes == consecutive_successes + 1 >= SuccessThreshold

ReturnSuccess ==
    /\ Returned
    /\ WindowRecord(FALSE)
    /\ Transition(IF state = "HALF_OPEN" /\ Closes THEN "CLOSED" ELSE state,
                  0, OneMore(consecutive_successes))

-----------------------------------------------------------------------------
Reset ==
    /\ Manual
    /\ Transition("CLOSED", 0, 0)
    /\ window' = Blank /\ window_pos' = 0 /\ window_filled' = FALSE
    /\ by' = "owner" /\ UNCHANGED <<calls, healthy>>

Older(a, max) == IF a < max THEN a + 1 ELSE a
Tick ==
    /\ age' = Older(age, Timeout)
    /\ window' = [i \in Slots |-> [window[i] EXCEPT !.age = Older(@, WindowTime + 1)]]
    /\ by' = "itself" /\ UNCHANGED <<state, counters, window_pos, window_filled, calls, healthy>>

Heal == ~healthy /\ healthy' = TRUE /\ by' = "itself" /\ UNCHANGED <<state, counters, age, ring, calls>>

Next == Admit \/ ReturnFailure \/ ReturnSuccess \/ Reset \/ Tick \/ Heal

Spec == Init /\ [][Next]_vars

\* The clock advances, callers keep calling and operations return.
FairSpec == Spec /\ WF_vars(Tick) /\ WF_vars(Admit) /\ WF_vars(ReturnSuccess \/ ReturnFailure)

-----------------------------------------------------------------------------
(* Properties                                                              *)

\* Type invariant.
TypeOK ==
    /\ state \in {"CLOSED", "OPEN", "HALF_OPEN"}
    /\ consecutive_failures \in 0 .. MaxCount /\ consecutive_successes \in 0 .. MaxCount
    /\ age \in 0 .. Timeout
    /\ window \in [Slots -> [age : 0 .. WindowTime + 1, failed : BOOLEAN]]
    /\ window_pos \in Slots /\ window_filled \in BOOLEAN
    /\ calls \in 0 .. MaxCalls /\ healthy \in BOOLEAN /\ by \in {"itself", "owner"}

\* In HALF_OPEN the counters speak of the current probing period only and no
\* failure is among them, although operations admitted in an earlier state
\* return during it: the breaker never stays half-open after a failure.
HalfOpenClean ==
    state = "HALF_OPEN" => consecutive_failures = 0 /\ consecutive_successes < SuccessThreshold

Good == IF state = "HALF_OPEN" THEN consecutive_successes ELSE 0
FSM == INSTANCE BreakerFSM WITH cooled <- age >= Timeout, good <- Good

\* cb_call implements the state diagram of circuit_breaker.h, with operations
\* that nest and return in another state than the one that admitted them; only
\* cb_half_open_probe and cb_reset make other changes of state.
ImplementsFSM == FSM!Spec

\* When operations succeed again the breaker closes again.
Recovers == healthy ~> state = "CLOSED"
=============================================================================
