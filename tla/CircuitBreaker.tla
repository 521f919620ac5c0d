--------------------------- MODULE CircuitBreaker ---------------------------
(***************************************************************************)
(* The circuit breaker of mini-job-system (circuit_breaker.c).  The caller *)
(* asks cb_allow_request before it works and reports the outcome later, so *)
(* a report may reach the breaker in another state than the one that       *)
(* admitted its request.  Statistics that no decision reads are left out.  *)
(***************************************************************************)
EXTENDS Integers, FiniteSets

CONSTANTS Requests,         \* callers, each with at most one request under way
          FailureThreshold, SuccessThreshold, HalfOpenMax,
          Cooldown,         \* cooldown_ms, in ticks of the clock
          MaxFailures,      \* consecutive_failures is not told apart above this
          Manual,           \* does the owner call cb_reset and cb_transition_to_*?
          Lossy             \* may a caller fail to report?

\* A usable configuration: cb_create does not check it, and the defaults are one.
BreakerConstants ==
    /\ FailureThreshold \in Nat \ {0} /\ SuccessThreshold \in Nat \ {0}
    /\ HalfOpenMax \in Nat \ {0} /\ Cooldown \in Nat
    /\ MaxFailures \in Nat /\ MaxFailures >= FailureThreshold
    /\ Manual \in BOOLEAN /\ Lossy \in BOOLEAN

VARIABLES state, consecutive_failures, consecutive_successes, half_open_requests,
          age,      \* ticks since opened_at, up to Cooldown
          pending,  \* callers that were admitted and have not reported
          healthy,  \* environment: from now on every request succeeds
          by        \* history: who made the last step, the breaker "itself" or its "owner"

counters == <<consecutive_failures, consecutive_successes, half_open_requests>>
vars == <<state, counters, age, pending, healthy, by>>

Init ==
    /\ state = "CLOSED"
    /\ consecutive_failures = 0 /\ consecutive_successes = 0 /\ half_open_requests = 0
    /\ age = Cooldown
    /\ pending = {}
    /\ healthy = FALSE /\ by = "itself"

\* cb_change_state: a change to OPEN stamps opened_at.
ChangeState(s) ==
    /\ state' = s
    /\ age' = IF s = "OPEN" /\ state # s THEN 0 ELSE age

-----------------------------------------------------------------------------
(* cb_allow_request.  A rejection only counts in the statistics.           *)

AllowClosed ==
    /\ state = "CLOSED"
    /\ UNCHANGED <<state, counters, age>>

Cooled == age >= Cooldown

AllowFirstProbeAtOnce ==
    /\ state = "OPEN"
    /\ ChangeState("HALF_OPEN")
    /\ half_open_requests' = 1
    /\ UNCHANGED <<consecutive_failures, consecutive_successes>>
AllowFirstProbe ==
    /\ state = "OPEN" /\ Cooled
    /\ ChangeState("HALF_OPEN")
    /\ half_open_requests' = 1
    /\ UNCHANGED <<consecutive_failures, consecutive_successes>>

AllowProbe ==
    /\ state = "HALF_OPEN" /\ half_open_requests < HalfOpenMax
    /\ half_open_requests' = half_open_requests + 1
    /\ UNCHANGED <<state, consecutive_failures, consecutive_successes, age>>

AllowRequest(r) ==
    /\ r \notin pending /\ pending' = pending \cup {r}
    /\ AllowClosed \/ AllowFirstProbe \/ AllowProbe
    /\ by' = "itself" /\ UNCHANGED healthy

-----------------------------------------------------------------------------
(* cb_report_success and cb_report_failure                                 *)

ReturnedNever == half_open_requests
ReturnedBelowZero == half_open_requests - 1
Returned == IF half_open_requests > 0 THEN half_open_requests - 1 ELSE 0

SuccessClosed ==
    /\ state = "CLOSED"
    /\ consecutive_failures' = 0
    /\ ChangeState(state)
    /\ UNCHANGED <<consecutive_successes, half_open_requests>>

SuccessHalfOpen ==
    /\ state = "HALF_OPEN"
    /\ IF consecutive_successes + 1 >= SuccessThreshold
       THEN /\ consecutive_failures' = 0 /\ consecutive_successes' = 0
            /\ ChangeState("CLOSED")
       ELSE /\ consecutive_successes' = consecutive_successes + 1
            /\ ChangeState(state)
            /\ UNCHANGED consecutive_failures
    /\ half_open_requests' = Returned

SuccessOpen == state = "OPEN" /\ ChangeState(state) /\ UNCHANGED counters

ReportSuccess(r) ==
    /\ r \in pending /\ pending' = pending \ {r}
    /\ SuccessClosed \/ SuccessHalfOpen \/ SuccessOpen
    /\ by' = "itself" /\ UNCHANGED healthy

OneMoreFailure == IF consecutive_failures < MaxFailures THEN consecutive_failures + 1
                  ELSE MaxFailures

Trips(n) == n >= FailureThreshold

FailureClosed ==
    /\ state = "CLOSED"
    /\ consecutive_failures' = OneMoreFailure
    /\ IF Trips(OneMoreFailure)
       THEN /\ consecutive_successes' = 0 /\ half_open_requests' = 0
            /\ ChangeState("OPEN")
       ELSE /\ ChangeState(state)
            /\ UNCHANGED <<consecutive_successes, half_open_requests>>

FailureHalfOpen ==
    /\ state = "HALF_OPEN"
    /\ consecutive_failures' = OneMoreFailure
    /\ consecutive_successes' = 0 /\ half_open_requests' = 0
    /\ ChangeState("OPEN")

FailureOpen == state = "OPEN" /\ ChangeState(state) /\ UNCHANGED counters

ReportFailure(r) ==
    /\ ~healthy
    /\ r \in pending /\ pending' = pending \ {r}
    /\ FailureClosed \/ FailureHalfOpen \/ FailureOpen
    /\ by' = "itself" /\ UNCHANGED healthy

\* jc_submit_with_breaker returns what jc_submit returned, without a report.
NeverReport(r) ==
    /\ Lossy /\ r \in pending /\ pending' = pending \ {r}
    /\ by' = "itself" /\ UNCHANGED <<state, counters, age, healthy>>

-----------------------------------------------------------------------------
(* The owner's calls.  consecutive_failures survives a forced OPEN, and    *)
(* every counter but half_open_requests a forced HALF_OPEN.                *)

TransitionToOpen ==
    /\ Manual /\ ChangeState("OPEN")
    /\ consecutive_successes' = 0 /\ half_open_requests' = 0
    /\ UNCHANGED <<consecutive_failures, pending, healthy>>

TransitionToHalfOpen ==
    /\ Manual /\ ChangeState("HALF_OPEN")
    /\ half_open_requests' = 0
    /\ UNCHANGED <<consecutive_failures, consecutive_successes, pending, healthy>>

TransitionToClosedKeeps ==
    /\ Manual /\ ChangeState("CLOSED")
    /\ consecutive_successes' = 0 /\ half_open_requests' = 0
    /\ UNCHANGED <<consecutive_failures, pending, healthy>>
\* cb_transition_to_closed, and cb_reset as far as decisions read its fields.
TransitionToClosed ==
    /\ Manual /\ ChangeState("CLOSED")
    /\ consecutive_failures' = 0 /\ consecutive_successes' = 0 /\ half_open_requests' = 0
    /\ UNCHANGED <<pending, healthy>>

Owner == by' = "owner" /\ (TransitionToOpen \/ TransitionToHalfOpen \/ TransitionToClosed)

Tick ==
    /\ age < Cooldown /\ age' = age + 1
    /\ by' = "itself" /\ UNCHANGED <<state, counters, pending, healthy>>

Heal == ~healthy /\ healthy' = TRUE /\ by' = "itself" /\ UNCHANGED <<state, counters, age, pending>>

Next ==
    \/ \E r \in Requests : AllowRequest(r) \/ ReportSuccess(r) \/ ReportFailure(r) \/ NeverReport(r)
    \/ Owner \/ Tick \/ Heal

Spec == Init /\ [][Next]_vars

-----------------------------------------------------------------------------
(* Properties                                                              *)

\* Type invariant: the counters never go below zero or past the configuration.
TypeOK ==
    /\ state \in {"CLOSED", "OPEN", "HALF_OPEN"}
    /\ consecutive_failures \in 0 .. MaxFailures /\ consecutive_successes \in Nat
    /\ half_open_requests \in 0 .. HalfOpenMax
    /\ age \in 0 .. Cooldown
    /\ pending \subseteq Requests
    /\ healthy \in BOOLEAN /\ by \in {"itself", "owner"}

\* A counter that reached its threshold has already changed the state, whatever
\* late reports and forced transitions came before: a closed breaker is below
\* failure_threshold, and successes count for the current HALF_OPEN period only.
CountersBelowThreshold ==
    /\ state = "CLOSED" => consecutive_failures < FailureThreshold
    /\ state = "HALF_OPEN" => consecutive_successes < SuccessThreshold
    /\ state # "HALF_OPEN" => consecutive_successes = 0

FSM == INSTANCE BreakerFSM WITH cooled <- Cooled, good <- consecutive_successes

\* The breaker implements the state diagram of its header: by itself it leaves OPEN only
\* after the cooldown and closes only after success_threshold successes in HALF_OPEN, and
\* no other change of state but these is ever made unless the owner calls for it.
ImplementsFSM == FSM!Spec

\* When the callee has recovered the breaker closes again.
Recovers == healthy ~> state = "CLOSED"

=============================================================================
