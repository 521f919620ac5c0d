----------------------------- MODULE JobProofs -----------------------------
(***************************************************************************)
(* For every usable configuration and any number of callers, the breaker   *)
(* of mini-job-system keeps its types and counters, and implements the     *)
(* state machine BreakerFSM.  So does the breaker of mini-business-infra,  *)
(* for every window and depth of calls; the failure window counts exactly  *)
(* for every size of its ring; the priority scheduler keeps its jobs for   *)
(* every number of levels; and retries end, and no dead letter is lost,    *)
(* for any jobs.                                                           *)
(***************************************************************************)
EXTENDS CircuitBreaker, FiniteSetsExt, FiniteSetTheorems, SequenceTheorems, WellFoundedInduction, TLAPS

CONSTANTS RingSize, Windows, MaxTime, MaxRecords,                 \* FailureWindow
          Timeout, WindowSize, WindowTime, MaxCalls, MaxCount,    \* InfraBreaker
          MaxJobs, PerLevel, Levels, MaxBoosts, Algorithms, Crowded,  \* PriorityScheduler
          RetryJobs, Capacity, DeadLetterMax, MaxRetries, Bases,
          MaxDelay, MaxJitter, Word, Second, RetryTime            \* TaskRetry

VARIABLES now, timestamps, f_head, f_count, history,
          i_state, i_failures, i_successes, i_age, window, window_pos, window_filled, calls, i_healthy, i_by,
          algorithm, ps_jobs, queues, queue_head, queue_count,
          entries, dead_letters, runs, unreported, buried

Fw == INSTANCE FailureWindow WITH Size <- RingSize, head <- f_head, count <- f_count
Ib == INSTANCE InfraBreaker WITH
        state <- i_state, consecutive_failures <- i_failures, consecutive_successes <- i_successes,
        age <- i_age, healthy <- i_healthy, by <- i_by
Ps == INSTANCE PriorityScheduler WITH jobs <- ps_jobs
Tr == INSTANCE TaskRetry WITH Jobs <- RetryJobs, MaxTime <- RetryTime

\* cb_failure_window_count is exact over the failures the ring still holds.
CountsWindow == Fw!TypeOK /\ Fw!CountsWindow

\* cb_call implements the state diagram of circuit_breaker.h, and its counts in
\* HALF_OPEN speak of the current probing period only.
InfraImplementsFSM == Ib!ImplementsFSM /\ [](Ib!TypeOK /\ Ib!HalfOpenClean)

\* ps_submit, ps_cancel and ps_schedule_next neither lose nor repeat a job.
QueuedOnce == Ps!TypeOK /\ Ps!QueuedOnce

\* tr_report_result gives a job up after 1 + max_retries runs, and its letter waits
\* for tr_process_dead_letters once.
RetriesSound == Tr!TypeOK /\ Tr!GivesUpInTime

-----------------------------------------------------------------------------
(* The breaker of mini-job-system                                          *)

Inv == TypeOK /\ CountersBelowThreshold

\* cb_create establishes the invariant.
LEMMA InitInv == ASSUME BreakerConstants PROVE Init => Inv
<1> SUFFICES ASSUME Init PROVE Inv
  OBVIOUS
<1>1. healthy \in BOOLEAN
  BY Zenon DEF Init
<1> QED BY <1>1 DEF Init, Inv, TypeOK, CountersBelowThreshold, BreakerConstants

\* cb_allow_request preserves it.
LEMMA AllowInv ==
  ASSUME BreakerConstants, Inv, NEW r \in Requests, AllowRequest(r)
  PROVE  Inv'
<1>1. CASE AllowClosed
  BY <1>1 DEF Inv, TypeOK, CountersBelowThreshold, BreakerConstants, AllowRequest, AllowClosed, counters
<1>2. CASE AllowFirstProbe
  BY <1>2 DEF Inv, TypeOK, CountersBelowThreshold, BreakerConstants, AllowRequest, AllowFirstProbe,
              ChangeState, Cooled
<1>3. CASE AllowProbe
  BY <1>3 DEF Inv, TypeOK, CountersBelowThreshold, BreakerConstants, AllowRequest, AllowProbe
<1> QED BY <1>1, <1>2, <1>3 DEF AllowRequest

\* cb_report_success preserves it, in whatever state the report arrives.
LEMMA SuccessInv ==
  ASSUME BreakerConstants, Inv, NEW r \in Requests, ReportSuccess(r)
  PROVE  Inv'
<1> USE DEF Inv, TypeOK, CountersBelowThreshold, BreakerConstants, ReportSuccess, ChangeState
<1>1. CASE SuccessClosed
  BY <1>1 DEF SuccessClosed
<1>2. CASE SuccessHalfOpen
  <2>1. half_open_requests' \in 0 .. HalfOpenMax
    BY <1>2 DEF SuccessHalfOpen, Returned
  <2>2. CASE consecutive_successes + 1 >= SuccessThreshold
    BY <1>2, <2>1, <2>2 DEF SuccessHalfOpen
  <2>3. CASE ~(consecutive_successes + 1 >= SuccessThreshold)
    BY <1>2, <2>1, <2>3 DEF SuccessHalfOpen
  <2> QED BY <2>2, <2>3
<1>3. CASE SuccessOpen
  BY <1>3 DEF SuccessOpen, counters
<1> QED BY <1>1, <1>2, <1>3

\* cb_report_failure preserves it, in whatever state the report arrives.
LEMMA FailureInv ==
  ASSUME BreakerConstants, Inv, NEW r \in Requests, ReportFailure(r)
  PROVE  Inv'
<1> USE DEF Inv, TypeOK, CountersBelowThreshold, BreakerConstants, ReportFailure, ChangeState,
            OneMoreFailure, Trips
<1>1. CASE FailureClosed
  BY <1>1 DEF FailureClosed
<1>2. CASE FailureHalfOpen
  BY <1>2 DEF FailureHalfOpen
<1>3. CASE FailureOpen
  BY <1>3 DEF FailureOpen, counters
<1> QED BY <1>1, <1>2, <1>3

\* A forced transition preserves it.
LEMMA OwnerInv == ASSUME BreakerConstants, Inv, Owner PROVE Inv'
  BY DEF Owner, TransitionToOpen, TransitionToHalfOpen, TransitionToClosed, ChangeState,
         Inv, TypeOK, CountersBelowThreshold, BreakerConstants

LEMMA NextInv == ASSUME BreakerConstants, Inv, [Next]_vars PROVE Inv'
<1>1. CASE UNCHANGED vars
  BY <1>1 DEF Inv, TypeOK, CountersBelowThreshold, vars, counters
<1>2. ASSUME NEW r \in Requests, AllowRequest(r) PROVE Inv'
  BY <1>2, AllowInv
<1>3. ASSUME NEW r \in Requests, ReportSuccess(r) PROVE Inv'
  BY <1>3, SuccessInv
<1>4. ASSUME NEW r \in Requests, ReportFailure(r) PROVE Inv'
  BY <1>4, FailureInv
<1>5. ASSUME NEW r \in Requests, NeverReport(r) PROVE Inv'
  BY <1>5 DEF NeverReport, counters, Inv, TypeOK, CountersBelowThreshold
<1>6. CASE Owner
  BY <1>6, OwnerInv
<1>7. CASE Tick
  BY <1>7 DEF Tick, counters, Inv, TypeOK, CountersBelowThreshold, BreakerConstants
<1>8. CASE Heal
  BY <1>8 DEF Heal, counters, Inv, TypeOK, CountersBelowThreshold
<1> QED BY <1>1, <1>2, <1>3, <1>4, <1>5, <1>6, <1>7, <1>8 DEF Next

LEMMA Invariance == ASSUME BreakerConstants PROVE Spec => []Inv
  BY InitInv, NextInv, PTL DEF Spec

\* Late, stale and lost reports and forced transitions never take a counter of
\* circuit_breaker.c below zero or past the configuration.
THEOREM BreakerTypes == ASSUME BreakerConstants PROVE Spec => []TypeOK
<1>1. Inv => TypeOK BY DEF Inv
<1> QED BY <1>1, Invariance, PTL

\* No counter is left at its threshold: a closed breaker has seen fewer than
\* failure_threshold failures in a row, a half-open one fewer than
\* success_threshold successes in this period.
THEOREM BreakerCounters == ASSUME BreakerConstants PROVE Spec => []CountersBelowThreshold
<1>1. Inv => CountersBelowThreshold BY DEF Inv
<1> QED BY <1>1, Invariance, PTL

-----------------------------------------------------------------------------
(* The refinement: every step is a step of the state machine or a stutter. *)

LEMMA InitFSM == ASSUME BreakerConstants PROVE Init => FSM!Init
  BY DEF Init, FSM!Init, Cooled, BreakerConstants

LEMMA AllowFSM ==
  ASSUME BreakerConstants, Inv, NEW r \in Requests, AllowRequest(r)
  PROVE  [FSM!Next]_(FSM!fsmVars)
<1>0. by' = "itself"
  BY DEF AllowRequest
<1>1. CASE AllowClosed
  BY <1>0, <1>1 DEF AllowClosed, counters, FSM!Idle, FSM!Automatic, FSM!Next, Cooled
<1>2. CASE AllowFirstProbe
  <2>1. FSM!Probe
    BY <1>0, <1>2 DEF AllowFirstProbe, FSM!Probe, Inv, CountersBelowThreshold, ChangeState, Cooled
  <2> QED BY <1>0, <2>1 DEF FSM!Next, FSM!Automatic
<1>3. CASE AllowProbe
  BY <1>0, <1>3 DEF AllowProbe, FSM!Idle, FSM!Automatic, FSM!Next, Cooled
<1> QED BY <1>1, <1>2, <1>3 DEF AllowRequest

LEMMA SuccessFSM ==
  ASSUME BreakerConstants, Inv, NEW r \in Requests, ReportSuccess(r)
  PROVE  [FSM!Next]_(FSM!fsmVars)
<1>0. by' = "itself"
  BY DEF ReportSuccess
<1>1. CASE SuccessClosed
  BY <1>0, <1>1 DEF SuccessClosed, ChangeState, FSM!Idle, FSM!Automatic, FSM!Next, Cooled
<1>2. CASE SuccessHalfOpen /\ consecutive_successes + 1 >= SuccessThreshold
  <2>1. FSM!Recover
    BY <1>0, <1>2 DEF SuccessHalfOpen, FSM!Recover, ChangeState, Cooled
  <2> QED BY <1>0, <2>1 DEF FSM!Next, FSM!Automatic
<1>3. CASE SuccessHalfOpen /\ ~(consecutive_successes + 1 >= SuccessThreshold)
  <2>1. FSM!Good
    BY <1>0, <1>3 DEF SuccessHalfOpen, FSM!Good, ChangeState, Cooled, Inv, TypeOK, BreakerConstants
  <2> QED BY <1>0, <2>1 DEF FSM!Next, FSM!Automatic
<1>4. CASE SuccessOpen
  BY <1>0, <1>4 DEF SuccessOpen, counters, ChangeState, FSM!Idle, FSM!Automatic, FSM!Next, Cooled
<1> QED BY <1>1, <1>2, <1>3, <1>4 DEF ReportSuccess

\* cooldown_ms may be zero: the breaker is then open and cooled at once.
LEMMA FailureFSM ==
  ASSUME BreakerConstants, Cooldown > 0, Inv, NEW r \in Requests, ReportFailure(r)
  PROVE  [FSM!Next]_(FSM!fsmVars)
<1>0. by' = "itself"
  BY DEF ReportFailure
<1>1. CASE FailureClosed /\ Trips(OneMoreFailure)
  <2>1. FSM!Trip
    BY <1>0, <1>1 DEF FailureClosed, FSM!Trip, ChangeState, Cooled, BreakerConstants
  <2> QED BY <1>0, <2>1 DEF FSM!Next, FSM!Automatic
<1>2. CASE FailureClosed /\ ~Trips(OneMoreFailure)
  BY <1>0, <1>2 DEF FailureClosed, ChangeState, FSM!Idle, FSM!Automatic, FSM!Next, Cooled
<1>3. CASE FailureHalfOpen
  <2>1. FSM!Relapse
    BY <1>0, <1>3 DEF FailureHalfOpen, FSM!Relapse, ChangeState, Cooled, BreakerConstants
  <2> QED BY <1>0, <2>1 DEF FSM!Next, FSM!Automatic
<1>4. CASE FailureOpen
  BY <1>0, <1>4 DEF FailureOpen, counters, ChangeState, FSM!Idle, FSM!Automatic, FSM!Next, Cooled
<1> QED BY <1>1, <1>2, <1>3, <1>4 DEF ReportFailure

LEMMA OwnerFSM == ASSUME BreakerConstants, Inv, Owner PROVE [FSM!Next]_(FSM!fsmVars)
<1>0. by' = "owner"
  BY DEF Owner
<1>1. CASE TransitionToOpen
  BY <1>0, <1>1 DEF TransitionToOpen, FSM!Force, FSM!Next, ChangeState, Cooled
<1>2. CASE TransitionToHalfOpen /\ state = "HALF_OPEN"
  BY <1>0, <1>2 DEF TransitionToHalfOpen, FSM!Force, FSM!Next, ChangeState, Cooled
<1>3. CASE TransitionToHalfOpen /\ state # "HALF_OPEN"
  BY <1>0, <1>3 DEF TransitionToHalfOpen, FSM!Force, FSM!Next, ChangeState, Cooled, Inv, CountersBelowThreshold
<1>4. CASE TransitionToClosed
  BY <1>0, <1>4 DEF TransitionToClosed, FSM!Force, FSM!Next, ChangeState, Cooled
<1> QED BY <1>1, <1>2, <1>3, <1>4 DEF Owner

LEMMA TickFSM == ASSUME BreakerConstants, Inv, Tick PROVE [FSM!Next]_(FSM!fsmVars)
<1>1. state' = state /\ consecutive_successes' = consecutive_successes /\ by' = "itself"
  BY DEF Tick, counters
<1>2. age \in Nat /\ Cooldown \in Nat /\ age' = age + 1 /\ age < Cooldown
  BY DEF Tick, Inv, TypeOK, BreakerConstants
<1>3. CASE age + 1 >= Cooldown
  <2>1. FSM!Cool
    BY <1>1, <1>2, <1>3 DEF FSM!Cool, Cooled
  <2> QED BY <1>1, <2>1 DEF FSM!Next, FSM!Automatic
<1>4. CASE ~(age + 1 >= Cooldown)
  <2>1. Cooled' = Cooled
    BY <1>2, <1>4 DEF Cooled
  <2> QED BY <1>1, <2>1 DEF FSM!Idle, FSM!Automatic, FSM!Next
<1> QED BY <1>3, <1>4

LEMMA NextFSM ==
  ASSUME BreakerConstants, Cooldown > 0, Inv, [Next]_vars
  PROVE  [FSM!Next]_(FSM!fsmVars)
<1>1. CASE UNCHANGED vars
  BY <1>1 DEF vars, counters, FSM!fsmVars, Cooled
<1>2. ASSUME NEW r \in Requests, AllowRequest(r) PROVE [FSM!Next]_(FSM!fsmVars)
  BY <1>2, AllowFSM
<1>3. ASSUME NEW r \in Requests, ReportSuccess(r) PROVE [FSM!Next]_(FSM!fsmVars)
  BY <1>3, SuccessFSM
<1>4. ASSUME NEW r \in Requests, ReportFailure(r) PROVE [FSM!Next]_(FSM!fsmVars)
  BY <1>4, FailureFSM
<1>5. ASSUME NEW r \in Requests, NeverReport(r) PROVE [FSM!Next]_(FSM!fsmVars)
  BY <1>5 DEF NeverReport, counters, FSM!Idle, FSM!Automatic, FSM!Next, Cooled
<1>6. CASE Owner
  BY <1>6, OwnerFSM
<1>7. CASE Tick
  BY <1>7, TickFSM
<1>8. CASE Heal
  BY <1>8 DEF Heal, counters, FSM!Idle, FSM!Automatic, FSM!Next, Cooled
<1> QED BY <1>1, <1>2, <1>3, <1>4, <1>5, <1>6, <1>7, <1>8 DEF Next

\* cb_allow_request and the reports implement the three-state machine for every
\* configuration with a cooldown, any number of callers, and reports that come
\* late, in another state or never: only cb_transition_to_open, _half_open, _closed
\* and cb_reset, the owner's steps, may change the state in another way.
THEOREM BreakerImplementsFSM ==
  ASSUME BreakerConstants, Cooldown > 0 PROVE Spec => ImplementsFSM
<1>1. Init => FSM!Init BY InitFSM
<1>2. Inv /\ [Next]_vars => [FSM!Next]_(FSM!fsmVars) BY NextFSM
<1> QED BY <1>1, <1>2, Invariance, PTL DEF Spec, ImplementsFSM, FSM!Spec

-----------------------------------------------------------------------------
(* The breaker of mini-business-infra                                      *)

InfraInv == Ib!TypeOK /\ Ib!HalfOpenClean

LEMMA InfraBlank ==
  ASSUME Ib!BreakerConstants
  PROVE  Ib!Blank \in [Ib!Slots -> [age : 0 .. WindowTime + 1, failed : BOOLEAN]] /\ 0 \in Ib!Slots
<1>1. WindowTime \in Nat /\ WindowTime + 1 \in 0 .. WindowTime + 1 /\ WindowSize \in Nat \ {0}
  BY DEF Ib!BreakerConstants
<1> QED BY <1>1 DEF Ib!Blank, Ib!Slots

LEMMA InfraInit == ASSUME Ib!BreakerConstants, Ib!Init PROVE InfraInv /\ Ib!FSM!Init
<1> USE DEF Ib!BreakerConstants, Ib!Init, InfraInv
<1>0. window_filled \in BOOLEAN /\ i_healthy \in BOOLEAN
  BY Zenon
<1>1. Ib!TypeOK
  BY <1>0, InfraBlank DEF Ib!TypeOK
<1>2. Ib!HalfOpenClean
  BY DEF Ib!HalfOpenClean
<1>3. Ib!FSM!Init
  BY DEF Ib!FSM!Init, Ib!Good
<1> QED BY <1>1, <1>2, <1>3

\* A result is written where the ring points, whatever state it arrives in.
LEMMA InfraRecord ==
  ASSUME Ib!BreakerConstants, Ib!TypeOK, NEW failed \in BOOLEAN, Ib!WindowRecord(failed)
  PROVE  /\ window' \in [Ib!Slots -> [age : 0 .. WindowTime + 1, failed : BOOLEAN]]
         /\ window_pos' \in Ib!Slots /\ window_filled' \in BOOLEAN
<1> USE DEF Ib!BreakerConstants, Ib!TypeOK, Ib!WindowRecord, Ib!Slots
<1>1. window_pos' \in 0 .. WindowSize - 1
  BY DEF Ib!NextPos
<1>2. window' \in [Ib!Slots -> [age : 0 .. WindowTime + 1, failed : BOOLEAN]]
  OBVIOUS
<1>3. window_filled' \in BOOLEAN
  BY Zenon
<1> QED BY <1>1, <1>2, <1>3

\* cb_call up to the operation: the machine probes, or is forced to.
LEMMA InfraAdmit ==
  ASSUME Ib!BreakerConstants, InfraInv, Ib!Admit
  PROVE  InfraInv' /\ [Ib!FSM!Next]_(Ib!FSM!fsmVars)
<1> USE DEF Ib!BreakerConstants, InfraInv
<1>1. calls' \in 0 .. MaxCalls /\ UNCHANGED <<window, window_pos, window_filled, i_healthy>>
  BY DEF Ib!Admit, Ib!TypeOK, Ib!ring
<1>2. CASE i_by' = "itself" /\ (Ib!AdmitClosed \/ Ib!AdmitProbe)
  BY <1>1, <1>2 DEF Ib!AdmitClosed, Ib!AdmitProbe, Ib!counters, Ib!TypeOK, Ib!HalfOpenClean,
                    Ib!FSM!Idle, Ib!FSM!Automatic, Ib!FSM!Next, Ib!Good
<1>3. CASE (i_by' = "itself" /\ Ib!AdmitFirst) \/ (i_by' = "owner" /\ Ib!ForceProbe)
  <2>1. /\ i_state = "OPEN" /\ i_state' = "HALF_OPEN" /\ i_failures' = 0 /\ i_successes' = 0 /\ i_age' = 0
        /\ (i_by' = "itself" /\ i_age >= Timeout) \/ (i_by' = "owner" /\ Manual)
    BY <1>3 DEF Ib!AdmitFirst, Ib!ForceProbe, Ib!Transition, Ib!Counted
  <2>2. InfraInv'
    BY <1>1, <2>1 DEF Ib!TypeOK, Ib!HalfOpenClean
  <2>3. (i_by' = "itself" /\ Ib!FSM!Probe) \/ Ib!FSM!Force
    BY <2>1 DEF Ib!FSM!Probe, Ib!FSM!Force, Ib!Good
  <2> QED BY <2>2, <2>3 DEF Ib!FSM!Next, Ib!FSM!Automatic
<1> QED BY <1>2, <1>3 DEF Ib!Admit

\* cb_call after an operation that failed.
LEMMA InfraFailure ==
  ASSUME Ib!BreakerConstants, InfraInv, Ib!ReturnFailure
  PROVE  InfraInv' /\ [Ib!FSM!Next]_(Ib!FSM!fsmVars)
<1> USE DEF Ib!BreakerConstants, InfraInv
<1>1. /\ window' \in [Ib!Slots -> [age : 0 .. WindowTime + 1, failed : BOOLEAN]]
      /\ window_pos' \in Ib!Slots /\ window_filled' \in BOOLEAN
  BY InfraRecord DEF Ib!ReturnFailure
<1>2. calls' \in 0 .. MaxCalls /\ i_healthy' = i_healthy /\ i_by' = "itself"
  BY DEF Ib!ReturnFailure, Ib!Returned, Ib!TypeOK
<1>3. Ib!OneMore(i_failures) \in 0 .. MaxCount
  BY DEF Ib!OneMore, Ib!TypeOK
<1>4. CASE i_state \in {"CLOSED", "HALF_OPEN"} /\ Ib!Transition("OPEN", Ib!OneMore(i_failures), 0)
  <2>1. i_state' = "OPEN" /\ i_failures' = 0 /\ i_successes' = 0 /\ i_age' = 0
    BY <1>4 DEF Ib!Transition, Ib!Counted
  <2>2. InfraInv'
    BY <1>1, <1>2, <2>1 DEF Ib!TypeOK, Ib!HalfOpenClean
  <2>3. Ib!FSM!Trip \/ Ib!FSM!Relapse
    BY <1>4, <2>1 DEF Ib!FSM!Trip, Ib!FSM!Relapse, Ib!Good
  <2> QED BY <1>2, <2>2, <2>3 DEF Ib!FSM!Next, Ib!FSM!Automatic
<1>5. CASE i_state # "HALF_OPEN" /\ Ib!Transition(i_state, Ib!OneMore(i_failures), 0)
  <2>1. i_state' = i_state /\ i_failures' = Ib!OneMore(i_failures) /\ i_successes' = 0 /\ i_age' = i_age
    BY <1>5 DEF Ib!Transition, Ib!Counted
  <2>2. InfraInv'
    BY <1>1, <1>2, <1>3, <1>5, <2>1 DEF Ib!TypeOK, Ib!HalfOpenClean
  <2> QED BY <1>2, <1>5, <2>1, <2>2 DEF Ib!FSM!Idle, Ib!FSM!Automatic, Ib!FSM!Next, Ib!Good
<1>6. i_state \in {"CLOSED", "OPEN", "HALF_OPEN"}
  BY DEF Ib!TypeOK
<1>7. \/ i_state \in {"CLOSED", "HALF_OPEN"} /\ Ib!Transition("OPEN", Ib!OneMore(i_failures), 0)
      \/ i_state # "HALF_OPEN" /\ Ib!Transition(i_state, Ib!OneMore(i_failures), 0)
  <2>1. CASE i_state = "HALF_OPEN" \/ (i_state = "CLOSED" /\ Ib!WindowFailures >= FailureThreshold)
    BY <2>1 DEF Ib!ReturnFailure
  <2>2. CASE ~(i_state = "HALF_OPEN" \/ (i_state = "CLOSED" /\ Ib!WindowFailures >= FailureThreshold))
    BY <2>2 DEF Ib!ReturnFailure
  <2> QED BY <2>1, <2>2
<1> QED BY <1>4, <1>5, <1>7

\* cb_call after an operation that succeeded.
LEMMA InfraSuccess ==
  ASSUME Ib!BreakerConstants, InfraInv, Ib!ReturnSuccess
  PROVE  InfraInv' /\ [Ib!FSM!Next]_(Ib!FSM!fsmVars)
<1> USE DEF Ib!BreakerConstants, InfraInv
<1>1. /\ window' \in [Ib!Slots -> [age : 0 .. WindowTime + 1, failed : BOOLEAN]]
      /\ window_pos' \in Ib!Slots /\ window_filled' \in BOOLEAN
  BY InfraRecord DEF Ib!ReturnSuccess
<1>2. calls' \in 0 .. MaxCalls /\ i_healthy' = i_healthy /\ i_by' = "itself"
  BY DEF Ib!ReturnSuccess, Ib!Returned, Ib!TypeOK
<1>3. Ib!OneMore(i_successes) \in 0 .. MaxCount
  BY DEF Ib!OneMore, Ib!TypeOK
<1>4. CASE i_state = "HALF_OPEN" /\ Ib!Closes
  <2>1. i_state' = "CLOSED" /\ i_failures' = 0 /\ i_successes' = 0 /\ i_age' = 0
    BY <1>4 DEF Ib!ReturnSuccess, Ib!Transition, Ib!Counted
  <2>2. InfraInv'
    BY <1>1, <1>2, <2>1 DEF Ib!TypeOK, Ib!HalfOpenClean
  <2>3. Ib!FSM!Recover
    BY <1>4, <2>1 DEF Ib!FSM!Recover, Ib!Good, Ib!Closes
  <2> QED BY <1>2, <2>2, <2>3 DEF Ib!FSM!Next, Ib!FSM!Automatic
<1>5. CASE ~(i_state = "HALF_OPEN" /\ Ib!Closes)
  <2>1. i_state' = i_state /\ i_failures' = 0 /\ i_successes' = Ib!OneMore(i_successes) /\ i_age' = i_age
    BY <1>5 DEF Ib!ReturnSuccess, Ib!Transition, Ib!Counted
  <2>2. i_state = "HALF_OPEN" => i_successes' = i_successes + 1 /\ i_successes + 1 < SuccessThreshold
    BY <1>5, <2>1 DEF Ib!Closes, Ib!OneMore, Ib!TypeOK
  <2>3. InfraInv'
    BY <1>1, <1>2, <1>3, <2>1, <2>2 DEF Ib!TypeOK, Ib!HalfOpenClean
  <2>4. CASE i_state = "HALF_OPEN"
    <3>1. Ib!FSM!Good
      BY <2>1, <2>2, <2>4 DEF Ib!FSM!Good, Ib!Good
    <3> QED BY <1>2, <2>3, <3>1 DEF Ib!FSM!Next, Ib!FSM!Automatic
  <2>5. CASE i_state # "HALF_OPEN"
    BY <1>2, <2>1, <2>3, <2>5 DEF Ib!FSM!Idle, Ib!FSM!Automatic, Ib!FSM!Next, Ib!Good
  <2> QED BY <2>4, <2>5
<1> QED BY <1>4, <1>5

LEMMA InfraNext ==
  ASSUME Ib!BreakerConstants, InfraInv, [Ib!Next]_(Ib!vars)
  PROVE  InfraInv' /\ [Ib!FSM!Next]_(Ib!FSM!fsmVars)
<1>1. CASE Ib!Reset
  <2>1. /\ i_state' = "CLOSED" /\ i_failures' = 0 /\ i_successes' = 0 /\ Manual /\ i_by' = "owner"
        /\ IF i_state = "CLOSED" THEN i_age' = i_age ELSE i_age' = 0
        /\ window' = Ib!Blank /\ window_pos' = 0 /\ window_filled' = FALSE /\ UNCHANGED <<calls, i_healthy>>
    BY <1>1 DEF Ib!Reset, Ib!Transition, Ib!Counted
  <2>0. window_filled' \in BOOLEAN
    BY <2>1, Zenon
  <2>2. InfraInv'
    BY <2>0, <2>1, InfraBlank DEF InfraInv, Ib!TypeOK, Ib!HalfOpenClean, Ib!BreakerConstants
  <2>3. Ib!FSM!Force
    BY <2>1 DEF Ib!FSM!Force, Ib!Good
  <2> QED BY <2>2, <2>3 DEF Ib!FSM!Next, Ib!FSM!Automatic
<1>2. CASE Ib!Tick
  <2>1. /\ i_age' = Ib!Older(i_age, Timeout)
        /\ window' = [i \in Ib!Slots |-> [window[i] EXCEPT !.age = Ib!Older(@, WindowTime + 1)]]
        /\ i_by' = "itself" /\ UNCHANGED <<i_state, i_failures, i_successes, window_pos, window_filled, calls, i_healthy>>
    BY <1>2 DEF Ib!Tick, Ib!counters
  <2>2. i_age' \in 0 .. Timeout /\ i_age' >= i_age
    BY <2>1 DEF Ib!Older, InfraInv, Ib!TypeOK, Ib!BreakerConstants
  <2>3. window' \in [Ib!Slots -> [age : 0 .. WindowTime + 1, failed : BOOLEAN]]
    BY <2>1 DEF Ib!Older, InfraInv, Ib!TypeOK, Ib!BreakerConstants
  <2>4. InfraInv'
    BY <2>1, <2>2, <2>3 DEF InfraInv, Ib!TypeOK, Ib!HalfOpenClean
  <2>5. Ib!Good' = Ib!Good
    BY <2>1 DEF Ib!Good
  <2>6. CASE i_age' >= Timeout
    <3>1. Ib!FSM!Cool
      BY <2>1, <2>5, <2>6 DEF Ib!FSM!Cool
    <3> QED BY <2>1, <2>4, <3>1 DEF Ib!FSM!Next, Ib!FSM!Automatic
  <2>7. CASE ~(i_age' >= Timeout)
    <3>1. (i_age >= Timeout) = FALSE /\ (i_age' >= Timeout) = FALSE
      BY <2>2, <2>7 DEF InfraInv, Ib!TypeOK, Ib!BreakerConstants
    <3> QED BY <2>1, <2>4, <2>5, <3>1 DEF Ib!FSM!Idle, Ib!FSM!Automatic, Ib!FSM!Next
  <2> QED BY <2>6, <2>7
<1>3. CASE Ib!Heal
  BY <1>3 DEF Ib!Heal, Ib!counters, Ib!ring, InfraInv, Ib!TypeOK, Ib!HalfOpenClean, Ib!FSM!Idle, Ib!FSM!Automatic, Ib!FSM!Next, Ib!Good
<1>4. CASE UNCHANGED Ib!vars
  BY <1>4 DEF Ib!vars, Ib!counters, Ib!ring, InfraInv, Ib!TypeOK, Ib!HalfOpenClean, Ib!FSM!fsmVars, Ib!Good
<1> QED BY <1>1, <1>2, <1>3, <1>4, InfraAdmit, InfraFailure, InfraSuccess DEF Ib!Next

\* cb_call implements the three-state machine for every usable configuration,
\* every size and length of the rolling window and every depth of nested calls,
\* although an operation may return in another state than the one that let it
\* start: only a reset or a forced probe may change the state in another way.  And no
\* failure is among the counts of a half-open breaker.
THEOREM InfraBreakerImplementsFSM ==
  ASSUME Ib!BreakerConstants PROVE Ib!Spec => InfraImplementsFSM
<1>1. Ib!Init => InfraInv /\ Ib!FSM!Init BY InfraInit
<1>2. InfraInv /\ [Ib!Next]_(Ib!vars) => InfraInv' /\ [Ib!FSM!Next]_(Ib!FSM!fsmVars) BY InfraNext
<1>3. InfraInv <=> Ib!TypeOK /\ Ib!HalfOpenClean BY DEF InfraInv
<1> QED BY <1>1, <1>2, <1>3, PTL DEF Ib!Spec, InfraImplementsFSM, Ib!ImplementsFSM, Ib!FSM!Spec

-----------------------------------------------------------------------------
(* The failure window                                                      *)

WindowConstants == RingSize \in Nat \ {0} /\ Windows \subseteq Nat

\* An index that ran past the end of a ring once.
LEMMA ModOnce == ASSUME NEW n \in Nat \ {0}, NEW y \in 0 .. 2 * n - 1
   PROVE y % n = IF y < n THEN y ELSE y - n
  <1>1. y % n \in 0 .. n - 1 /\ y = n * (y \div n) + (y % n) /\ y \div n \in Int
    OBVIOUS
  <1> DEFINE q == y \div n
  <1>3. q \in Int /\ n * q > 0 - n  /\ n * q < 2 * n
    BY <1>1
  <1>4. y = n * q + (y % n)
    BY <1>1
  <1> HIDE DEF q
  <1>5. q = 0 \/ q = 1
    <2>1. ASSUME q <= 0 - 1 PROVE FALSE
      <3>1. n * q <= n * (0 - 1)
        BY <2>1, <1>3
      <3> QED BY <3>1, <1>3
    <2>2. ASSUME q >= 2 PROVE FALSE
      <3>1. n * q >= n * 2
        BY <2>2, <1>3
      <3> QED BY <3>1, <1>3
    <2> QED BY <2>1, <2>2, <1>3
  <1> DEFINE r == y % n
  <1>6. r \in Int /\ 0 <= r /\ r < n /\ y = n * q + r
    BY <1>1, <1>4
  <1> HIDE DEF r
  <1>7. r = IF y < n THEN y ELSE y - n
    <2>1. CASE q = 0
      <3>1. n * q = 0
        BY <2>1
      <3> QED BY <1>6, <3>1
    <2>2. CASE q = 1
      <3>1. n * q = n
        BY <2>2
      <3> QED BY <1>6, <3>1
    <2> QED BY <1>5, <2>1, <2>2
  <1> QED BY <1>7 DEF r

\* A nonempty set of numbers has a least one.
LEMMA MinExists == ASSUME NEW S \in SUBSET Nat, S # {} PROVE Min(S) \in S /\ \A x \in S : Min(S) <= x
  <1>1. \E m \in S : \A x \in S : ~(<<x, m>> \in OpToRel(<, Nat))
    BY NatLessThanWellFounded, WFMin, Zenon
  <1>2. PICK m \in S : \A x \in S : ~(<<x, m>> \in OpToRel(<, Nat))
    BY <1>1
  <1>3. \A x \in S : m <= x
    <2> SUFFICES ASSUME NEW x \in S, ~(m <= x) PROVE FALSE
      OBVIOUS
    <2>1. x \in Nat /\ m \in Nat /\ x < m
      OBVIOUS
    <2>2. <<x, m>> \in OpToRel(<, Nat)
      BY <2>1, Zenon DEF OpToRel
    <2> QED BY <1>2, <2>2
  <1> QED BY <1>2, <1>3 DEF Min

\* The i-th cell before the head of a ring of n.
LEMMA BackFromHead ==
  ASSUME NEW n \in Nat \ {0}, NEW h \in 0 .. n - 1, NEW i \in 0 .. n - 1
  PROVE  (h - 1 - i + n) % n = IF i < h THEN h - 1 - i ELSE h - 1 - i + n
<1> DEFINE y == h - 1 - i + n
<1>1. y \in 0 .. 2 * n - 1
  OBVIOUS
<1> HIDE DEF y
<1>2. y % n = IF y < n THEN y ELSE y - n
  BY <1>1, ModOnce
<1> QED BY <1>1, <1>2 DEF y

\* The failures recorded since the last reset, in the order of time.
HistorySound ==
    /\ history \in Seq(Nat)
    /\ \A i \in 1 .. Len(history) : history[i] <= now
    /\ \A i, j \in 1 .. Len(history) : i <= j => history[i] <= history[j]

\* The ring holds the newest of them, the newest just before the head.
RingHolds ==
    /\ timestamps \in [0 .. RingSize - 1 -> Nat]
    /\ f_count = IF Len(history) < RingSize THEN Len(history) ELSE RingSize
    /\ \A i \in 0 .. f_count - 1 : timestamps[Fw!Slot(i)] = history[Len(history) - i]

WindowInv == Fw!TypeOK /\ HistorySound /\ RingHolds

\* cb_failure_window_record overwrites the oldest one.
LEMMA RecordKeeps == ASSUME WindowConstants, WindowInv, Fw!Record PROVE WindowInv'
<1> DEFINE n == Len(history)
<1>1. /\ timestamps' = [timestamps EXCEPT ![f_head] = now] /\ f_head' = (f_head + 1) % RingSize
      /\ f_count' = (IF f_count < RingSize THEN f_count + 1 ELSE f_count)
      /\ history' = Append(history, now) /\ now' = now
  BY DEF Fw!Record, Fw!NextHead
<1>2. /\ RingSize \in Nat \ {0} /\ f_head \in 0 .. RingSize - 1 /\ f_count \in 0 .. RingSize /\ now \in Nat
      /\ history \in Seq(Nat) /\ n \in Nat /\ timestamps \in [0 .. RingSize - 1 -> Nat]
      /\ f_count = IF n < RingSize THEN n ELSE RingSize
  BY LenProperties DEF WindowConstants, WindowInv, Fw!TypeOK, HistorySound, RingHolds
<1>3. /\ history' \in Seq(Nat) /\ Len(history') = n + 1 /\ history'[n + 1] = now
      /\ \A i \in 1 .. n : history'[i] = history[i]
  BY <1>1, <1>2, AppendProperties
<1> HIDE DEF n
<1>4. f_head' = IF f_head + 1 < RingSize THEN f_head + 1 ELSE 0
  <2> DEFINE y == f_head + 1
  <2>1. y \in 0 .. 2 * RingSize - 1 /\ f_head' = y % RingSize
    BY <1>1, <1>2
  <2> HIDE DEF y
  <2>2. y % RingSize = IF y < RingSize THEN y ELSE y - RingSize
    BY <1>2, <2>1, ModOnce
  <2> QED BY <1>2, <2>1, <2>2 DEF y
<1>5. f_head' \in 0 .. RingSize - 1 /\ f_count' \in 0 .. RingSize
      /\ f_count' = IF n + 1 < RingSize THEN n + 1 ELSE RingSize
  BY <1>1, <1>2, <1>4
<1>6. HistorySound'
  <2>1. /\ \A i \in 1 .. n : history[i] <= now /\ history[i] \in Nat
        /\ \A i, j \in 1 .. n : i <= j => history[i] <= history[j]
    BY <1>2, ElementOfSeq DEF WindowInv, HistorySound, n
  <2>2. \A i \in 1 .. n + 1 : (i \in 1 .. n /\ history'[i] = history[i]) \/ (i = n + 1 /\ history'[i] = now)
    BY <1>2, <1>3
  <2>3. ASSUME NEW i \in 1 .. n + 1 PROVE history'[i] <= now
    <3>1. CASE i \in 1 .. n /\ history'[i] = history[i]
      BY <2>1, <3>1
    <3>2. CASE history'[i] = now
      BY <1>2, <3>2
    <3> QED BY <2>2, <3>1, <3>2
  <2>4. \A i, j \in 1 .. n + 1 : i <= j => history'[i] <= history'[j]
    BY <1>2, <2>1, <2>2
  <2> QED BY <1>1, <1>3, <2>3, <2>4 DEF HistorySound
<1>7. ASSUME NEW i \in 0 .. f_count' - 1 PROVE timestamps'[Fw!Slot(i)'] = history'[n + 1 - i]
  <2>1. i \in 0 .. RingSize - 1 /\ i \in 0 .. n
    BY <1>2, <1>5
  <2>2. Fw!Slot(i)' = (f_head' - 1 - i + RingSize) % RingSize
    BY DEF Fw!Slot
  <2>3. Fw!Slot(i)' = IF i < f_head' THEN f_head' - 1 - i ELSE f_head' - 1 - i + RingSize
    BY <1>2, <1>5, <2>1, <2>2, BackFromHead
  <2>4. CASE i = 0
    <3>1. Fw!Slot(i)' = f_head
      BY <1>2, <1>4, <2>3, <2>4
    <3> QED BY <1>1, <1>2, <1>3, <2>4, <3>1
  <2>5. CASE i # 0
    <3>1. i - 1 \in 0 .. RingSize - 1 /\ i - 1 \in 0 .. f_count - 1 /\ n - (i - 1) \in 1 .. n
      BY <1>1, <1>2, <2>1, <2>5
    <3>2. Fw!Slot(i - 1) = IF i - 1 < f_head THEN f_head - 1 - (i - 1) ELSE f_head - 1 - (i - 1) + RingSize
      BY <1>2, <3>1, BackFromHead DEF Fw!Slot
    <3>3. Fw!Slot(i)' = Fw!Slot(i - 1) /\ Fw!Slot(i - 1) # f_head /\ Fw!Slot(i - 1) \in 0 .. RingSize - 1
      BY <1>2, <1>4, <2>1, <2>3, <2>5, <3>2
    <3>4. timestamps[Fw!Slot(i - 1)] = history[n - (i - 1)]
      BY <3>1 DEF WindowInv, RingHolds, n
    <3>5. history'[n + 1 - i] = history[n - (i - 1)]
      BY <1>2, <1>3, <2>1, <3>1
    <3> QED BY <1>1, <1>2, <3>3, <3>4, <3>5
  <2> QED BY <2>4, <2>5
<1>8. timestamps' \in [0 .. RingSize - 1 -> Nat]
  BY <1>1, <1>2
<1>9. RingHolds'
  BY <1>2, <1>3, <1>5, <1>7, <1>8 DEF RingHolds
<1>10. Fw!TypeOK'
  BY <1>1, <1>2, <1>5 DEF Fw!TypeOK
<1> QED BY <1>6, <1>9, <1>10 DEF WindowInv

LEMMA WindowEmpty ==
  ASSUME WindowConstants, now \in Nat, f_head = 0, f_count = 0, history = <<>>,
         timestamps = [i \in 0 .. RingSize - 1 |-> 0]
  PROVE  WindowInv
<1>1. history \in Seq(Nat) /\ Len(history) = 0
  BY EmptySeq
<1> QED BY <1>1 DEF WindowConstants, WindowInv, Fw!TypeOK, HistorySound, RingHolds

LEMMA WindowNext == ASSUME WindowConstants, WindowInv, [Fw!Next]_(Fw!vars) PROVE WindowInv'
<1>0. now \in Nat /\ Len(history) \in Nat
  BY LenProperties DEF WindowInv, Fw!TypeOK, HistorySound
<1>1. CASE Fw!Reset
  <2>1. now' \in Nat /\ f_head' = 0 /\ f_count' = 0 /\ history' = <<>>
        /\ timestamps' = [i \in 0 .. RingSize - 1 |-> 0]
    BY <1>0, <1>1 DEF Fw!Reset
  <2>2. history' \in Seq(Nat) /\ Len(history') = 0
    BY <2>1, EmptySeq
  <2> QED BY <2>1, <2>2 DEF WindowConstants, WindowInv, Fw!TypeOK, HistorySound, RingHolds
<1>2. CASE Fw!Tick
  <2>1. now' = now + 1 /\ UNCHANGED <<timestamps, f_head, f_count, history>>
    BY <1>2 DEF Fw!Tick
  <2>2. \A i \in 1 .. Len(history) : history[i] \in Nat
    BY ElementOfSeq DEF WindowInv, HistorySound
  <2>3. HistorySound'
    BY <1>0, <2>1, <2>2 DEF WindowInv, HistorySound
  <2> QED BY <1>0, <2>1, <2>3 DEF WindowInv, Fw!TypeOK, RingHolds, Fw!Slot
<1>3. CASE UNCHANGED Fw!vars
  BY <1>3 DEF Fw!vars, WindowInv, Fw!TypeOK, HistorySound, RingHolds, Fw!Slot
<1> QED BY <1>1, <1>2, <1>3, RecordKeeps DEF Fw!Next

\* The count is the length of the part of the history that lies in the window.
LEMMA WindowCounts == ASSUME WindowConstants, WindowInv PROVE Fw!CountsWindow
<1> SUFFICES ASSUME NEW w \in Windows
             PROVE  Fw!WindowCount(w) = Cardinality({i \in Fw!Kept : history[i] >= now - w})
  BY DEF Fw!CountsWindow, Fw!Cardinality, Cardinality
<1> DEFINE n == Len(history)
           S == {f_count} \cup {i \in 0 .. f_count - 1 : Fw!Stale(i, w)}
           c == Min(S)
<1>1. /\ RingSize \in Nat \ {0} /\ f_head \in 0 .. RingSize - 1 /\ f_count \in 0 .. RingSize /\ now \in Nat
      /\ history \in Seq(Nat) /\ n \in Nat /\ DOMAIN history = 1 .. n /\ Len(history) = n /\ w \in Nat
      /\ f_count = IF n < RingSize THEN n ELSE RingSize
      /\ \A i \in 1 .. n : history[i] \in Nat
  BY LenProperties, ElementOfSeq DEF WindowConstants, WindowInv, Fw!TypeOK, HistorySound, RingHolds
<1> HIDE DEF n
<1>2. S \in SUBSET Nat /\ S # {} /\ S \subseteq 0 .. f_count
  BY <1>1
<1>3. Fw!WindowCount(w) = c
  BY DEF Fw!WindowCount, Fw!Min, Min
<1> HIDE DEF S
<1>4. c \in S /\ \A x \in S : c <= x
  BY <1>2, MinExists
<1> HIDE DEF c
<1>5. c \in 0 .. f_count
  BY <1>2, <1>4
<1>6. \A j \in 0 .. c - 1 : history[n - j] >= now - w
  <2> SUFFICES ASSUME NEW j \in 0 .. c - 1 PROVE history[n - j] >= now - w
    OBVIOUS
  <2>1. j \in 0 .. f_count - 1 /\ j \notin S /\ n - j \in 1 .. n
    BY <1>1, <1>4, <1>5
  <2>2. ~Fw!Stale(j, w) /\ timestamps[Fw!Slot(j)] = history[n - j]
    BY <2>1 DEF WindowInv, RingHolds, S, n
  <2> QED BY <1>1, <2>1, <2>2 DEF Fw!Stale
<1>7. c < f_count => n - c \in 1 .. n /\ history[n - c] < now - w
  <2> SUFFICES ASSUME c < f_count PROVE n - c \in 1 .. n /\ history[n - c] < now - w
    OBVIOUS
  <2>1. c \in 0 .. f_count - 1 /\ n - c \in 1 .. n /\ c # f_count
    BY <1>1, <1>5
  <2>2. Fw!Stale(c, w) /\ timestamps[Fw!Slot(c)] = history[n - c]
    BY <1>4, <2>1 DEF WindowInv, RingHolds, S, n
  <2> QED BY <2>1, <2>2 DEF Fw!Stale
<1>8. Fw!Kept = n - f_count + 1 .. n
  BY <1>1 DEF Fw!Kept
<1>9. {i \in Fw!Kept : history[i] >= now - w} = n - c + 1 .. n
  <2>1. ASSUME NEW i \in n - c + 1 .. n PROVE i \in Fw!Kept /\ history[i] >= now - w
    <3>1. n - i \in 0 .. c - 1 /\ n - (n - i) = i
      BY <1>1, <1>5
    <3>2. history[i] >= now - w
      BY <1>6, <3>1
    <3> QED BY <1>1, <1>5, <1>8, <3>2
  <2>2. ASSUME NEW i \in Fw!Kept, history[i] >= now - w PROVE i \in n - c + 1 .. n
    <3> SUFFICES ASSUME i <= n - c PROVE FALSE
      BY <1>1, <1>5, <1>8
    <3>1. c < f_count /\ i \in 1 .. n
      BY <1>1, <1>5, <1>8
    <3>2. n - c \in 1 .. n /\ history[n - c] < now - w /\ history[i] <= history[n - c]
      BY <1>5, <1>7, <3>1 DEF WindowInv, HistorySound, n
    <3> QED BY <1>1, <2>2, <3>1, <3>2
  <2> QED BY <2>1, <2>2
<1>10. Cardinality(n - c + 1 .. n) = c
  BY <1>1, <1>5, FS_Interval
<1> QED BY <1>3, <1>9, <1>10

\* cb_failure_window_count is exact, for every size of the ring, every window
\* and every sequence of failures, resets and passing of time: stopping at the
\* first timestamp that is too old skips none that is not.
THEOREM WindowIsExact == ASSUME WindowConstants PROVE Fw!Spec => []CountsWindow
<1>1. Fw!Init => WindowInv
  BY WindowEmpty DEF Fw!Init
<1>2. WindowInv /\ [Fw!Next]_(Fw!vars) => WindowInv'
  BY WindowNext
<1>3. WindowInv => CountsWindow
  BY WindowCounts DEF CountsWindow, WindowInv
<1> QED BY <1>1, <1>2, <1>3, PTL DEF Fw!Spec
-----------------------------------------------------------------------------
(* The priority scheduler                                                  *)

\* No level is given more jobs than its ring holds.
SchedulerConstants ==
    MaxJobs \in Nat /\ PerLevel \in Nat \ {0} /\ Levels \in Nat /\ MaxBoosts \in Nat /\ ~Crowded

JobRecord == [priority : Ps!LevelIds, original : Ps!LevelIds, boosts : Nat, active : BOOLEAN]
SchedulerTypes ==
    /\ ps_jobs \in Seq(JobRecord) /\ Len(ps_jobs) <= MaxJobs
    /\ queues \in [Ps!LevelIds -> [Ps!Slots -> Nat]]
    /\ queue_head \in [Ps!LevelIds -> Ps!Slots] /\ queue_count \in [Ps!LevelIds -> Nat]
    /\ \A l \in Ps!LevelIds : queue_count[l] <= Len(ps_jobs)

\* A ring holds jobs submitted to its level, in the order of their submission.
RingsSorted ==
    algorithm = "MLFQ" => \A l \in Ps!LevelIds :
        /\ queue_count[l] <= PerLevel
        /\ \A k \in 0 .. queue_count[l] - 1 : Ps!At(l, k) \in 1 .. Len(ps_jobs) /\ ps_jobs[Ps!At(l, k)].original = l
        /\ \A k, m \in 0 .. queue_count[l] - 1 : k < m => Ps!At(l, k) < Ps!At(l, m)

\* An active job is in the ring of its level.
ActiveWaits ==
    algorithm = "MLFQ" => \A i \in Ps!Active :
        \E k \in 0 .. queue_count[ps_jobs[i].original] - 1 : Ps!At(ps_jobs[i].original, k) = i

SchedulerInv == SchedulerTypes /\ RingsSorted /\ ActiveWaits

\* What is k cells after the head is k - t cells after the head moved by t.
LEMMA HeadMoves ==
    ASSUME NEW n \in Nat \ {0}, NEW h \in 0 .. n - 1, NEW t \in 0 .. n
    PROVE  /\ (h + t) % n \in 0 .. n - 1
           /\ \A k \in Nat : t + k < n => (((h + t) % n) + k) % n = (h + (t + k)) % n
  <1> DEFINE x == h + t
             g == IF x < n THEN x ELSE x - n
  <1>1. x \in 0 .. 2 * n - 1 /\ g \in 0 .. n - 1
    OBVIOUS
  <1>2. x % n = g
    <2> HIDE DEF x
    <2> QED
      BY <1>1, ModOnce
  <1>3. ASSUME NEW k \in Nat, t + k < n PROVE (g + k) % n = (h + (t + k)) % n
    <2> DEFINE y == g + k
               z == h + (t + k)
    <2>1. y \in 0 .. 2 * n - 1 /\ z \in 0 .. 2 * n - 1 /\ ((y = z /\ x < n) \/ (y = z - n /\ x >= n))
      BY <1>3
    <2>2. y = z - n => y < n /\ z >= n
      BY <1>3
    <2> HIDE DEF x, g, y, z
    <2>3. y % n = IF y < n THEN y ELSE y - n
      BY <2>1, ModOnce
    <2>4. z % n = IF z < n THEN z ELSE z - n
      BY <2>1, ModOnce
    <2>5. y % n = z % n
      BY <2>1, <2>2, <2>3, <2>4
    <2> QED
      BY <2>5 DEF y, z
  <1> HIDE DEF g
  <1> QED
    BY <1>1, <1>2, <1>3 DEF x

\* The cells of a ring from its head on are different.
LEMMA CellsDiffer ==
    ASSUME NEW n \in Nat \ {0}, NEW h \in 0 .. n - 1, NEW k \in 0 .. n - 1, NEW j \in 0 .. n - 1, k # j
    PROVE  (h + k) % n # (h + j) % n /\ (h + k) % n \in 0 .. n - 1
  <1> DEFINE x == h + k
             y == h + j
  <1>1. x \in 0 .. 2 * n - 1 /\ y \in 0 .. 2 * n - 1
    OBVIOUS
  <1>2. (IF x < n THEN x ELSE x - n) # (IF y < n THEN y ELSE y - n) /\ (IF x < n THEN x ELSE x - n) \in 0 .. n - 1
    OBVIOUS
  <1> HIDE DEF x, y
  <1>3. x % n = (IF x < n THEN x ELSE x - n) /\ y % n = (IF y < n THEN y ELSE y - n)
    BY <1>1, ModOnce
  <1>4. x % n # y % n /\ x % n \in 0 .. n - 1
    BY <1>2, <1>3
  <1> QED
    BY <1>4 DEF x, y

\* Records change, and no job becomes active or changes its level: the rings hold.
LEMMA RecordsKeep ==
    ASSUME SchedulerConstants, SchedulerInv, UNCHANGED <<algorithm, queues, queue_head, queue_count>>,
           ps_jobs' \in Seq(JobRecord), Len(ps_jobs') = Len(ps_jobs),
           \A i \in 1 .. Len(ps_jobs) : /\ ps_jobs'[i].original = ps_jobs[i].original
                                        /\ ps_jobs'[i].active => ps_jobs[i].active
    PROVE  SchedulerInv'
  <1>1. SchedulerTypes'
    BY DEF SchedulerInv, SchedulerTypes
  <1>2. \A l, k : Ps!At(l, k)' = Ps!At(l, k)
    BY DEF Ps!At
  <1>3. RingsSorted'
    BY <1>2 DEF SchedulerInv, RingsSorted
  <1>4. DOMAIN ps_jobs = 1 .. Len(ps_jobs) /\ DOMAIN ps_jobs' = 1 .. Len(ps_jobs)
    BY LenProperties DEF SchedulerInv, SchedulerTypes
  <1>5. Ps!Active' \subseteq Ps!Active /\ \A i \in Ps!Active' : ps_jobs'[i].original = ps_jobs[i].original
    BY <1>4 DEF Ps!Active
  <1>6. ActiveWaits'
    BY <1>2, <1>5 DEF SchedulerInv, ActiveWaits
  <1> QED
    BY <1>1, <1>3, <1>6 DEF SchedulerInv

\* ps_cancel, ps_boost_priority, ps_restore_priority and ps_priority_inherit.
LEMMA ChangeKeeps ==
    ASSUME SchedulerConstants, SchedulerInv, NEW i, NEW r \in JobRecord, Ps!Change(i, r), r.original = ps_jobs[i].original
    PROVE  SchedulerInv'
  <1>1. ps_jobs \in Seq(JobRecord) /\ DOMAIN ps_jobs = 1 .. Len(ps_jobs) /\ Len(ps_jobs) \in Nat
    BY LenProperties DEF SchedulerInv, SchedulerTypes
  <1>2. i \in 1 .. Len(ps_jobs) /\ ps_jobs[i].active /\ ps_jobs' = [ps_jobs EXCEPT ![i] = r]
        /\ UNCHANGED <<algorithm, queues, queue_head, queue_count>>
    BY <1>1 DEF Ps!Change, Ps!Active, Ps!rings
  <1>3. ps_jobs' \in Seq(JobRecord) /\ Len(ps_jobs') = Len(ps_jobs)
        /\ \A k \in 1 .. Len(ps_jobs) : ps_jobs'[k] = IF k = i THEN r ELSE ps_jobs[k]
    BY <1>1, <1>2, ExceptSeq
  <1>4. \A k \in 1 .. Len(ps_jobs) : /\ ps_jobs'[k].original = ps_jobs[k].original
                                     /\ ps_jobs'[k].active => ps_jobs[k].active
    BY <1>2, <1>3
  <1> QED
    BY <1>2, <1>3, <1>4, RecordsKeep

\* ps_age_jobs leaves levels and activity alone.
LEMMA AgedKeeps ==
    ASSUME SchedulerConstants, SchedulerInv, NEW ripe
    PROVE  /\ Ps!Aged(ripe) \in Seq(JobRecord) /\ Len(Ps!Aged(ripe)) = Len(ps_jobs)
           /\ \A i \in 1 .. Len(ps_jobs) : /\ Ps!Aged(ripe)[i].original = ps_jobs[i].original
                                           /\ Ps!Aged(ripe)[i].active = ps_jobs[i].active
  <1> DEFINE a == Ps!Aged(ripe)
             n == Len(ps_jobs)
  <1>1. ps_jobs \in Seq(JobRecord) /\ DOMAIN ps_jobs = 1 .. n /\ n \in Nat
    BY LenProperties DEF SchedulerInv, SchedulerTypes
  <1>2. \A i \in 1 .. n : ps_jobs[i] \in JobRecord
    BY <1>1, ElementOfSeq
  <1>3. DOMAIN a = 1 .. n /\ a = [i \in 1 .. n |-> a[i]]
    BY <1>1 DEF Ps!Aged
  <1>4. ASSUME NEW i \in 1 .. n
        PROVE  a[i] \in JobRecord /\ a[i].original = ps_jobs[i].original /\ a[i].active = ps_jobs[i].active
    <2> DEFINE e == ps_jobs[i]
    <2>1. a[i] = e \/ (e.priority > 0 /\ a[i] = [e EXCEPT !.priority = @ - 1, !.boosts = @ + 1])
      BY <1>1 DEF Ps!Aged
    <2>2. e \in JobRecord
      BY <1>2
    <2> HIDE DEF e, a
    <2>3. CASE e.priority > 0 /\ a[i] = [e EXCEPT !.priority = @ - 1, !.boosts = @ + 1]
      <3>1. e.priority - 1 \in Ps!LevelIds /\ e.boosts + 1 \in Nat
        BY <2>2, <2>3 DEF JobRecord, Ps!LevelIds, SchedulerConstants
      <3>2. a[i] \in JobRecord /\ a[i].original = e.original /\ a[i].active = e.active
        BY <2>2, <2>3, <3>1 DEF JobRecord
      <3> QED
        BY <3>2 DEF e
    <2> QED
      BY <2>1, <2>2, <2>3 DEF e
  <1> HIDE DEF a
  <1>5. a \in Seq(JobRecord) /\ Len(a) = n
    BY <1>1, <1>3, <1>4, IsASeq
  <1> QED
    BY <1>4, <1>5 DEF a

\* The job that ps_schedule_next hands out is no longer active.
LEMMA HandedOut ==
    ASSUME SchedulerConstants, SchedulerInv, NEW ripe, NEW i \in 1 .. Len(ps_jobs)
    PROVE  LET b == [Ps!Aged(ripe) EXCEPT ![i].active = FALSE]
           IN  /\ b \in Seq(JobRecord) /\ Len(b) = Len(ps_jobs)
               /\ \A k \in 1 .. Len(ps_jobs) : b[k].original = ps_jobs[k].original /\ (b[k].active => ps_jobs[k].active)
               /\ ~b[i].active
  <1> DEFINE a == Ps!Aged(ripe)
             n == Len(ps_jobs)
             r == [a[i] EXCEPT !.active = FALSE]
             b == [a EXCEPT ![i] = r]
  <1>1. a \in Seq(JobRecord) /\ Len(a) = n
        /\ \A k \in 1 .. n : a[k].original = ps_jobs[k].original /\ a[k].active = ps_jobs[k].active
    BY AgedKeeps
  <1>2. [a EXCEPT ![i].active = FALSE] = b
    OBVIOUS
  <1> HIDE DEF a, n
  <1>3. i \in 1 .. n /\ a[i] \in JobRecord
    BY <1>1, ElementOfSeq DEF n
  <1>4. r \in JobRecord /\ r.original = a[i].original /\ r.active = FALSE
    BY <1>3 DEF JobRecord
  <1> HIDE DEF r
  <1>5. b \in Seq(JobRecord) /\ Len(b) = n /\ \A k \in 1 .. n : b[k] = IF k = i THEN r ELSE a[k]
    BY <1>1, <1>3, <1>4, ExceptSeq
  <1> HIDE DEF b
  <1>6. \A k \in 1 .. n : b[k].original = ps_jobs[k].original /\ (b[k].active => ps_jobs[k].active)
    BY <1>1, <1>4, <1>5
  <1>7. ~b[i].active
    BY <1>3, <1>4, <1>5
  <1> QED
    BY <1>2, <1>5, <1>6, <1>7 DEF a, n

LEMMA SubmitKeeps ==
    ASSUME SchedulerConstants, SchedulerInv, NEW l \in Ps!LevelIds, Ps!Submit(l) PROVE SchedulerInv'
  <1> DEFINE n == Len(ps_jobs)
             N == PerLevel
             new == [priority |-> l, original |-> l, boosts |-> 0, active |-> TRUE]
             c == queue_count[l]
             tail == (queue_head[l] + c) % N
             NewAt(m, k) == queues'[m][(queue_head[m] + k) % N]
  <1>1. /\ ps_jobs \in Seq(JobRecord) /\ n \in Nat /\ DOMAIN ps_jobs = 1 .. n /\ N \in Nat \ {0}
        /\ queues \in [Ps!LevelIds -> [Ps!Slots -> Nat]]
        /\ queue_head \in [Ps!LevelIds -> 0 .. N - 1] /\ queue_count \in [Ps!LevelIds -> Nat]
        /\ \A m \in Ps!LevelIds : queue_count[m] <= n
    BY LenProperties DEF SchedulerInv, SchedulerTypes, SchedulerConstants, Ps!Slots
  <1>2. /\ n < MaxJobs /\ (algorithm = "MLFQ" => queue_count[l] < N)
        /\ ps_jobs' = Append(ps_jobs, new) /\ queues' = [queues EXCEPT ![l][tail] = n + 1]
        /\ queue_count' = [queue_count EXCEPT ![l] = @ + 1] /\ UNCHANGED <<algorithm, queue_head>>
    BY DEF Ps!Submit, SchedulerConstants, Ps!RingTail
  <1>3. new \in JobRecord /\ new.original = l
    BY DEF JobRecord
  <1> HIDE DEF new
  <1>4. ps_jobs' \in Seq(JobRecord) /\ Len(ps_jobs') = n + 1 /\ ps_jobs'[n + 1] = new
        /\ \A i \in 1 .. n : ps_jobs'[i] = ps_jobs[i]
    BY <1>1, <1>2, <1>3, AppendProperties
  <1>5. queue_count'[l] = queue_count[l] + 1 /\ \A m \in Ps!LevelIds \ {l} : queue_count'[m] = queue_count[m]
    BY <1>1, <1>2
  <1>6. SchedulerTypes'
    <2>1. tail \in Ps!Slots
      <3> DEFINE x == queue_head[l] + c
      <3>1. x \in Nat
        BY <1>1
      <3> HIDE DEF x
      <3>2. x % N \in 0 .. N - 1
        BY <1>1, <3>1
      <3> QED
        BY <3>2 DEF x, Ps!Slots
    <2> HIDE DEF tail
    <2>2. queues' \in [Ps!LevelIds -> [Ps!Slots -> Nat]]
      BY <1>1, <1>2, <2>1
    <2>3. queue_count' \in [Ps!LevelIds -> Nat] /\ \A m \in Ps!LevelIds : queue_count'[m] <= n + 1
      BY <1>1, <1>2, <1>5
    <2>4. n + 1 <= MaxJobs
      BY <1>1, <1>2 DEF SchedulerConstants
    <2> QED
      BY <1>1, <1>2, <1>4, <2>2, <2>3, <2>4 DEF SchedulerTypes, Ps!Slots
  <1>7. ASSUME algorithm = "MLFQ"
        PROVE  /\ \A m \in Ps!LevelIds : \A k \in 0 .. queue_count[m] - 1 : NewAt(m, k) = Ps!At(m, k)
               /\ NewAt(l, c) = n + 1
    <2>1. \A m \in Ps!LevelIds \ {l} : queues'[m] = queues[m]
      BY <1>1, <1>2
    <2>2. c \in 0 .. N - 1 /\ queue_head[l] \in 0 .. N - 1
      BY <1>1, <1>2, <1>7
    <2>3. \A k \in 0 .. c - 1 : k \in 0 .. N - 1 /\ k # c
      <3> HIDE DEF c
      <3> QED
        BY <1>1, <2>2
    <2>4. \A k \in 0 .. c - 1 : (queue_head[l] + k) % N # tail /\ (queue_head[l] + k) % N \in 0 .. N - 1
      BY <1>1, <2>2, <2>3, CellsDiffer
    <2>5. tail \in 0 .. N - 1
      <3> DEFINE x == queue_head[l] + c
      <3>1. x \in Nat
        BY <1>1
      <3> HIDE DEF x
      <3>2. x % N \in 0 .. N - 1
        BY <1>1, <3>1
      <3> QED
        BY <3>2 DEF x
    <2> DEFINE t == tail
    <2>6. queues' = [queues EXCEPT ![l][t] = n + 1] /\ t \in 0 .. N - 1
      BY <1>2, <2>5
    <2>7. \A k \in 0 .. c - 1 : NewAt(l, k) = Ps!At(l, k)
      <3> HIDE DEF t
      <3>1. \A s \in 0 .. N - 1 : s # t => queues'[l][s] = queues[l][s]
        BY <1>1, <2>6 DEF Ps!Slots
      <3>2. \A k \in 0 .. c - 1 : (queue_head[l] + k) % N # t
        BY <2>4 DEF t
      <3> QED
        BY <2>4, <3>1, <3>2 DEF Ps!At
    <2>8. queues'[l][t] = n + 1
      <3> HIDE DEF t
      <3> QED
        BY <1>1, <2>6 DEF Ps!Slots
    <2>9. NewAt(l, c) = n + 1 /\ \A m \in Ps!LevelIds \ {l} : \A k \in Nat : NewAt(m, k) = Ps!At(m, k)
      BY <1>2, <2>1, <2>8 DEF Ps!At
    <2> QED
      BY <2>7, <2>9
  <1>8. RingsSorted'
    <2> SUFFICES ASSUME algorithm = "MLFQ", NEW m \in Ps!LevelIds
                 PROVE  /\ queue_count'[m] <= N
                        /\ \A k \in 0 .. queue_count'[m] - 1 :
                              NewAt(m, k) \in 1 .. n + 1 /\ ps_jobs'[NewAt(m, k)].original = m
                        /\ \A k, j \in 0 .. queue_count'[m] - 1 : k < j => NewAt(m, k) < NewAt(m, j)
      BY <1>2, <1>4 DEF RingsSorted, Ps!At
    <2>1. /\ queue_count[m] <= N /\ queue_count[m] \in Nat
          /\ \A k \in 0 .. queue_count[m] - 1 : Ps!At(m, k) \in 1 .. n /\ ps_jobs[Ps!At(m, k)].original = m
          /\ \A k, j \in 0 .. queue_count[m] - 1 : k < j => Ps!At(m, k) < Ps!At(m, j)
      BY <1>1 DEF SchedulerInv, RingsSorted
    <2>2. \A k \in 0 .. queue_count[m] - 1 : NewAt(m, k) = Ps!At(m, k)
      BY <1>7
    <2> HIDE DEF NewAt, n, c
    <2>3. CASE m # l
      <3>1. queue_count'[m] = queue_count[m]
        BY <1>5, <2>3
      <3>2. \A k \in 0 .. queue_count[m] - 1 : NewAt(m, k) \in 1 .. n + 1 /\ ps_jobs'[NewAt(m, k)] = ps_jobs[Ps!At(m, k)]
        BY <1>1, <1>4, <2>1, <2>2
      <3> QED
        BY <2>1, <2>2, <3>1, <3>2
    <2>4. CASE m = l
      <3>1. queue_count'[l] = c + 1 /\ c < N /\ c \in Nat
        BY <1>1, <1>2, <1>5 DEF c
      <3>2. \A k \in 0 .. c : k = c \/ k \in 0 .. c - 1
        BY <3>1
      <3>3. NewAt(l, c) = n + 1
        BY <1>7
      <3>4. \A k \in 0 .. c - 1 : NewAt(l, k) \in 1 .. n /\ ps_jobs'[NewAt(l, k)].original = l
        BY <1>4, <2>1, <2>2, <2>4 DEF c
      <3>5. \A k, j \in 0 .. c - 1 : k < j => NewAt(l, k) < NewAt(l, j)
        BY <2>1, <2>2, <2>4 DEF c
      <3>6. c \in Nat /\ c + 1 <= N /\ queue_count'[l] = c + 1
        BY <1>1, <2>1, <2>4, <3>1 DEF c
      <3>7. \A k \in 0 .. c : NewAt(l, k) \in 1 .. n + 1 /\ ps_jobs'[NewAt(l, k)].original = l
        BY <1>1, <1>3, <1>4, <3>2, <3>3, <3>4, <3>6
      <3>8. \A k, j \in 0 .. c : k < j => NewAt(l, k) < NewAt(l, j)
        <4> SUFFICES ASSUME NEW k \in 0 .. c, NEW j \in 0 .. c, k < j PROVE NewAt(l, k) < NewAt(l, j)
          OBVIOUS
        <4>1. k \in 0 .. c - 1 /\ NewAt(l, k) \in 1 .. n /\ n \in Nat
          BY <1>1, <3>4, <3>6
        <4>2. CASE j = c
          BY <3>3, <4>1, <4>2
        <4> QED
          BY <3>2, <3>5, <4>1, <4>2
      <3> QED
        BY <2>4, <3>6, <3>7, <3>8
    <2> QED
      BY <2>3, <2>4
  <1>9. ActiveWaits'
    <2> SUFFICES ASSUME algorithm = "MLFQ", NEW i \in Ps!Active'
                 PROVE  \E k \in 0 .. queue_count'[ps_jobs'[i].original] - 1 : NewAt(ps_jobs'[i].original, k) = i
      BY <1>2 DEF ActiveWaits, Ps!At
    <2>1. i \in 1 .. n + 1 /\ ps_jobs'[i].active
      BY <1>4, LenProperties DEF Ps!Active
    <2>2. CASE i = n + 1
      <3>1. c \in 0 .. queue_count'[l] - 1
        BY <1>1, <1>5
      <3> QED
        BY <1>3, <1>4, <1>7, <2>2, <3>1
    <2>3. CASE i # n + 1
      <3>1. i \in 1 .. n /\ ps_jobs'[i] = ps_jobs[i]
        BY <1>1, <1>4, <2>1, <2>3
      <3>2. i \in Ps!Active /\ ps_jobs[i].original \in Ps!LevelIds
        <4>1. ps_jobs[i] \in JobRecord
          BY <1>1, <3>1, ElementOfSeq
        <4> QED
          BY <1>1, <2>1, <3>1, <4>1 DEF Ps!Active, JobRecord
      <3> DEFINE m == ps_jobs[i].original
      <3>3. PICK k \in 0 .. queue_count[m] - 1 : Ps!At(m, k) = i
        BY <3>2 DEF SchedulerInv, ActiveWaits
      <3>4. k \in 0 .. queue_count'[m] - 1
        <4>1. queue_count'[m] \in {queue_count[m], queue_count[m] + 1} /\ queue_count[m] \in Nat
          BY <1>1, <1>5, <3>2
        <4> QED
          BY <4>1
      <3>5. NewAt(m, k) = i
        BY <1>7, <3>2, <3>3
      <3> QED
        BY <3>1, <3>4, <3>5
    <2> QED
      BY <2>2, <2>3
  <1> QED
    BY <1>6, <1>8, <1>9 DEF SchedulerInv

\* The least number of a set, as CHOOSE finds it.
LEMMA LeastChosen ==
    ASSUME NEW S \in SUBSET Nat, S # {}
    PROVE  LET m == CHOOSE k \in S : \A x \in S : k <= x IN m \in S /\ \A x \in S : m <= x
  <1>1. \E k \in S : \A x \in S : k <= x
    BY MinExists
  <1> QED
    BY <1>1

\* schedule_mlfq stops at the first active job of the first level that has one.
LEMMA TakenSkips ==
    ASSUME SchedulerConstants, SchedulerInv
    PROVE  /\ \A l \in Ps!LevelIds : Ps!Taken(l) \in 0 .. queue_count[l]
           /\ \A l \in Ps!LevelIds : \A k \in Ps!Skip(l) :
                 k >= Ps!Taken(l) \/ (Ps!Busy # {} /\ l = Ps!Top /\ k = Ps!FirstActive(l))
           /\ Ps!Busy # {} => Ps!Top \in Ps!LevelIds /\ Ps!FirstActive(Ps!Top) \in Ps!Skip(Ps!Top)
  <1>0. queue_count \in [Ps!LevelIds -> Nat] /\ Ps!LevelIds \subseteq Nat
    BY DEF SchedulerInv, SchedulerTypes, SchedulerConstants, Ps!LevelIds
  <1>1. \A l \in Ps!LevelIds : Ps!Skip(l) \subseteq 0 .. queue_count[l] - 1 /\ Ps!Skip(l) \in SUBSET Nat
    BY <1>0 DEF Ps!Skip
  <1>2. \A l \in Ps!Busy : Ps!FirstActive(l) \in Ps!Skip(l) /\ \A k \in Ps!Skip(l) : Ps!FirstActive(l) <= k
    <2> SUFFICES ASSUME NEW l \in Ps!Busy
                 PROVE  Ps!FirstActive(l) \in Ps!Skip(l) /\ \A k \in Ps!Skip(l) : Ps!FirstActive(l) <= k
      OBVIOUS
    <2>1. Ps!Skip(l) \in SUBSET Nat /\ Ps!Skip(l) # {}
      BY <1>1 DEF Ps!Busy
    <2> QED
      BY <2>1, LeastChosen DEF Ps!FirstActive
  <1>3. ASSUME Ps!Busy # {} PROVE Ps!Top \in Ps!Busy /\ \A m \in Ps!Busy : Ps!Top <= m
    <2>1. Ps!Busy \in SUBSET Nat
      BY <1>0 DEF Ps!Busy
    <2> QED
      BY <1>3, <2>1, LeastChosen DEF Ps!Top
  <1>4. Ps!Busy \subseteq Ps!LevelIds /\ \A l \in Ps!LevelIds : l \in Ps!Busy <=> Ps!Skip(l) # {}
    BY DEF Ps!Busy
  <1>5. ASSUME NEW l \in Ps!LevelIds PROVE Ps!Taken(l) \in 0 .. queue_count[l]
    <2>1. CASE Ps!Busy # {} /\ l = Ps!Top
      <3>1. Ps!FirstActive(l) \in 0 .. queue_count[l] - 1
        BY <1>1, <1>2, <1>3, <1>5, <2>1
      <3>2. Ps!Taken(l) = Ps!FirstActive(l) + 1
        BY <1>0, <1>5, <2>1 DEF Ps!Taken
      <3> QED
        BY <1>0, <1>5, <3>1, <3>2
    <2>2. CASE ~(Ps!Busy # {} /\ l = Ps!Top)
      BY <1>0, <1>5, <2>2 DEF Ps!Taken
    <2> QED
      BY <2>1, <2>2
  <1>6. ASSUME NEW l \in Ps!LevelIds, NEW k \in Ps!Skip(l)
        PROVE  k >= Ps!Taken(l) \/ (Ps!Busy # {} /\ l = Ps!Top /\ k = Ps!FirstActive(l))
    <2>1. l \in Ps!Busy /\ k \in Nat /\ Ps!Top <= l /\ Ps!Top \in Nat /\ l \in Nat /\ Ps!Busy # {}
      BY <1>0, <1>1, <1>3, <1>4, <1>6
    <2>2. CASE l = Ps!Top
      <3>1. Ps!Taken(l) = Ps!FirstActive(l) + 1
        BY <2>1, <2>2 DEF Ps!Taken
      <3>2. Ps!FirstActive(l) <= k /\ Ps!FirstActive(l) \in Nat
        BY <1>1, <1>2, <2>1
      <3> QED
        BY <2>1, <2>2, <3>1, <3>2
    <2>3. CASE l # Ps!Top
      <3>1. Ps!Taken(l) = 0
        BY <2>1, <2>3 DEF Ps!Taken
      <3> QED
        BY <2>1, <3>1
    <2> QED
      BY <2>2, <2>3
  <1> QED
    BY <1>2, <1>3, <1>4, <1>5, <1>6

LEMMA MlfqKeeps ==
    ASSUME SchedulerConstants, SchedulerInv, NEW ripe, Ps!ScheduleMlfq(ripe) PROVE SchedulerInv'
  <1> DEFINE N == PerLevel
             n == Len(ps_jobs)
             i == Ps!At(Ps!Top, Ps!FirstActive(Ps!Top))
             NewAt(m, k) == queues[m][(queue_head'[m] + k) % N]
  <1>1. /\ ps_jobs \in Seq(JobRecord) /\ n \in Nat /\ DOMAIN ps_jobs = 1 .. n /\ N \in Nat \ {0}
        /\ queue_head \in [Ps!LevelIds -> 0 .. N - 1] /\ queue_count \in [Ps!LevelIds -> Nat]
        /\ \A m \in Ps!LevelIds : queue_count[m] <= n
    BY LenProperties DEF SchedulerInv, SchedulerTypes, SchedulerConstants, Ps!Slots
  <1>2. /\ algorithm = "MLFQ" /\ UNCHANGED <<algorithm, queues>>
        /\ queue_head' = [l \in Ps!LevelIds |-> (queue_head[l] + Ps!Taken(l)) % N]
        /\ queue_count' = [l \in Ps!LevelIds |-> queue_count[l] - Ps!Taken(l)]
        /\ \/ Ps!Busy = {} /\ ps_jobs' = Ps!Aged(ripe)
           \/ Ps!Busy # {} /\ ps_jobs' = [Ps!Aged(ripe) EXCEPT ![i].active = FALSE]
    BY DEF Ps!ScheduleMlfq
  <1>3. \A l \in Ps!LevelIds :
          /\ queue_count[l] <= N /\ Ps!Taken(l) \in 0 .. queue_count[l]
          /\ \A k \in 0 .. queue_count[l] - 1 : Ps!At(l, k) \in 1 .. n /\ ps_jobs[Ps!At(l, k)].original = l
          /\ \A k, m \in 0 .. queue_count[l] - 1 : k < m => Ps!At(l, k) < Ps!At(l, m)
    BY <1>2, TakenSkips DEF SchedulerInv, RingsSorted
  <1>4. ASSUME NEW l \in Ps!LevelIds
        PROVE  /\ queue_head'[l] \in 0 .. N - 1
               /\ queue_count'[l] \in Nat /\ queue_count'[l] <= queue_count[l] /\ queue_count'[l] = queue_count[l] - Ps!Taken(l)
               /\ \A k \in 0 .. queue_count'[l] - 1 :
                     Ps!Taken(l) + k \in 0 .. queue_count[l] - 1 /\ NewAt(l, k) = Ps!At(l, Ps!Taken(l) + k)
    <2> DEFINE t == Ps!Taken(l)
               h == queue_head[l]
               c == queue_count[l]
    <2>1. t \in 0 .. c /\ c \in Nat /\ c <= N /\ h \in 0 .. N - 1 /\ queue_count'[l] = c - t /\ queue_head'[l] = (h + t) % N
      BY <1>1, <1>2, <1>3
    <2> HIDE DEF t, h, c
    <2>2. t \in 0 .. N /\ c - t \in Nat /\ c - t <= c /\ \A k \in 0 .. (c - t) - 1 : k \in Nat /\ t + k < N /\ t + k \in 0 .. c - 1
      BY <1>1, <2>1
    <2>3. (h + t) % N \in 0 .. N - 1 /\ \A k \in Nat : t + k < N => (((h + t) % N) + k) % N = (h + (t + k)) % N
      BY <1>1, <2>1, <2>2, HeadMoves
    <2>4. \A k \in 0 .. (c - t) - 1 : NewAt(l, k) = Ps!At(l, t + k)
      BY <2>1, <2>2, <2>3 DEF Ps!At, h
    <2> HIDE DEF NewAt
    <2>5. queue_count[l] = c /\ Ps!Taken(l) = t
      BY DEF c, t
    <2> QED
      BY <2>1, <2>2, <2>3, <2>4, <2>5
  <1>5. ASSUME Ps!Busy # {} PROVE i \in 1 .. n
    <2>1. Ps!FirstActive(Ps!Top) \in 0 .. queue_count[Ps!Top] - 1 /\ Ps!Top \in Ps!LevelIds
      BY <1>5, TakenSkips DEF Ps!Skip
    <2> QED
      BY <1>3, <2>1
  <1>6. /\ ps_jobs' \in Seq(JobRecord) /\ Len(ps_jobs') = n
        /\ \A j \in 1 .. n : ps_jobs'[j].original = ps_jobs[j].original /\ (ps_jobs'[j].active => ps_jobs[j].active)
        /\ Ps!Busy # {} => ~ps_jobs'[i].active
    <2>1. CASE Ps!Busy = {}
      BY <1>2, <2>1, AgedKeeps
    <2>2. CASE Ps!Busy # {}
      <3> HIDE DEF i
      <3>1. ps_jobs' = [Ps!Aged(ripe) EXCEPT ![i].active = FALSE] /\ i \in 1 .. Len(ps_jobs)
        BY <1>2, <1>5, <2>2
      <3> DEFINE b == [Ps!Aged(ripe) EXCEPT ![i].active = FALSE]
      <3>2. /\ b \in Seq(JobRecord) /\ Len(b) = Len(ps_jobs)
            /\ \A k \in 1 .. Len(ps_jobs) : b[k].original = ps_jobs[k].original /\ (b[k].active => ps_jobs[k].active)
            /\ ~b[i].active
        BY <3>1, HandedOut
      <3>3. ps_jobs' = b
        BY <3>1
      <3> HIDE DEF b
      <3> QED
        BY <3>2, <3>3
    <2> QED
      BY <2>1, <2>2
  <1> HIDE DEF NewAt, i
  <1>7. SchedulerTypes'
    <2>1. queue_head' \in [Ps!LevelIds -> Ps!Slots] /\ queue_count' \in [Ps!LevelIds -> Nat]
      BY <1>2, <1>4 DEF Ps!Slots
    <2>2. \A l \in Ps!LevelIds : queue_count'[l] <= n
      BY <1>1, <1>4
    <2> QED
      BY <1>2, <1>6, <2>1, <2>2 DEF SchedulerTypes, SchedulerInv, Ps!Slots
  <1>8. RingsSorted'
    <2>1. ASSUME NEW l \in Ps!LevelIds
          PROVE  /\ queue_count'[l] <= N
                 /\ \A k \in 0 .. queue_count'[l] - 1 : NewAt(l, k) \in 1 .. n /\ ps_jobs'[NewAt(l, k)].original = l
                 /\ \A k, m \in 0 .. queue_count'[l] - 1 : k < m => NewAt(l, k) < NewAt(l, m)
      <3>1. queue_count'[l] <= N
        BY <1>1, <1>3, <1>4
      <3>2. \A k \in 0 .. queue_count'[l] - 1 : NewAt(l, k) \in 1 .. n /\ ps_jobs'[NewAt(l, k)].original = l
        BY <1>3, <1>4, <1>6
      <3>3. ASSUME NEW k \in 0 .. queue_count'[l] - 1, NEW m \in 0 .. queue_count'[l] - 1, k < m
            PROVE  NewAt(l, k) < NewAt(l, m)
        <4>1. Ps!Taken(l) + k < Ps!Taken(l) + m
          BY <1>1, <1>3, <1>4, <3>3
        <4> QED
          BY <1>3, <1>4, <4>1
      <3> QED
        BY <3>1, <3>2, <3>3
    <2> QED
      BY <1>2, <1>6, <2>1 DEF RingsSorted, Ps!At, NewAt
  <1>9. ActiveWaits'
    <2>1. ASSUME NEW j \in Ps!Active'
          PROVE  \E k \in 0 .. queue_count'[ps_jobs'[j].original] - 1 : NewAt(ps_jobs'[j].original, k) = j
      <3>1. j \in 1 .. n /\ ps_jobs'[j].active /\ DOMAIN ps_jobs' = 1 .. n
        BY <1>6, LenProperties DEF Ps!Active
      <3>2. j \in Ps!Active /\ ps_jobs'[j].original = ps_jobs[j].original /\ (Ps!Busy # {} => j # i)
        BY <1>1, <1>6, <3>1 DEF Ps!Active
      <3> DEFINE l == ps_jobs[j].original
      <3>3. l \in Ps!LevelIds
        <4>1. ps_jobs[j] \in JobRecord
          BY <1>1, <3>1, ElementOfSeq
        <4> QED
          BY <4>1 DEF JobRecord
      <3>4. PICK k \in 0 .. queue_count[l] - 1 : Ps!At(l, k) = j
        BY <1>2, <3>2 DEF SchedulerInv, ActiveWaits
      <3>5. k \in Ps!Skip(l)
        BY <3>2, <3>4 DEF Ps!Skip
      <3>6. k >= Ps!Taken(l)
        <4>1. k >= Ps!Taken(l) \/ (Ps!Busy # {} /\ l = Ps!Top /\ k = Ps!FirstActive(l))
          BY <3>3, <3>5, TakenSkips
        <4>2. Ps!Busy # {} /\ l = Ps!Top /\ k = Ps!FirstActive(l) => j = i
          BY <3>4 DEF i
        <4> QED
          BY <3>2, <4>1, <4>2
      <3> HIDE DEF l
      <3>7. k - Ps!Taken(l) \in 0 .. queue_count'[l] - 1 /\ Ps!Taken(l) + (k - Ps!Taken(l)) = k
        BY <1>1, <1>3, <1>4, <3>3, <3>6
      <3>8. NewAt(l, k - Ps!Taken(l)) = j
        BY <1>4, <3>3, <3>4, <3>7
      <3> QED
        BY <3>2, <3>7, <3>8 DEF l
    <2> QED
      BY <1>2, <2>1 DEF ActiveWaits, Ps!At, NewAt
  <1> QED
    BY <1>7, <1>8, <1>9 DEF SchedulerInv

LEMMA SchedulerInit == ASSUME SchedulerConstants, Ps!Init PROVE SchedulerInv
  <1>1. ps_jobs = <<>> /\ <<>> \in Seq(JobRecord) /\ Len(<<>>) = 0 /\ DOMAIN ps_jobs = {}
    BY EmptySeq DEF Ps!Init
  <1>2. SchedulerTypes
    BY <1>1 DEF SchedulerTypes, SchedulerConstants, Ps!Init, Ps!Slots, Ps!LevelIds
  <1>3. RingsSorted
    BY DEF RingsSorted, SchedulerConstants, Ps!Init
  <1>4. ActiveWaits
    BY <1>1 DEF ActiveWaits, Ps!Active
  <1> QED
    BY <1>2, <1>3, <1>4 DEF SchedulerInv

LEMMA SchedulerNext == ASSUME SchedulerConstants, SchedulerInv, [Ps!Next]_(Ps!vars) PROVE SchedulerInv'
  <1>0. ps_jobs \in Seq(JobRecord) /\ DOMAIN ps_jobs = 1 .. Len(ps_jobs) /\ \A i \in Ps!Active : ps_jobs[i] \in JobRecord
    BY LenProperties, ElementOfSeq DEF SchedulerInv, SchedulerTypes, Ps!Active
  <1>1. ASSUME NEW l \in Ps!LevelIds, NEW i \in Ps!Active, Ps!BoostPriority(i, l) PROVE SchedulerInv'
    <2> DEFINE r == [ps_jobs[i] EXCEPT !.priority = l, !.boosts = Ps!OneMoreBoost(@)]
    <2>1. Ps!Change(i, r)
      BY <1>1 DEF Ps!BoostPriority
    <2>2. ps_jobs[i] \in JobRecord /\ Ps!OneMoreBoost(ps_jobs[i].boosts) \in Nat
      BY <1>0 DEF JobRecord, Ps!OneMoreBoost, SchedulerConstants
    <2>3. r \in JobRecord /\ r.original = ps_jobs[i].original
      BY <2>2 DEF JobRecord
    <2> HIDE DEF r
    <2> QED
      BY <2>1, <2>3, ChangeKeeps
  <1>2. ASSUME NEW i \in Ps!Active, Ps!Cancel(i) PROVE SchedulerInv'
    <2> DEFINE r == [ps_jobs[i] EXCEPT !.active = FALSE]
    <2>1. Ps!Change(i, r)
      BY <1>2 DEF Ps!Cancel
    <2>2. r \in JobRecord /\ r.original = ps_jobs[i].original
      BY <1>0 DEF JobRecord
    <2> HIDE DEF r
    <2> QED
      BY <2>1, <2>2, ChangeKeeps
  <1>3. ASSUME NEW i \in Ps!Active, NEW p \in Ps!LevelIds, Ps!Change(i, [ps_jobs[i] EXCEPT !.priority = p])
        PROVE  SchedulerInv'
    <2> DEFINE r == [ps_jobs[i] EXCEPT !.priority = p]
    <2>1. r \in JobRecord /\ r.original = ps_jobs[i].original
      BY <1>0 DEF JobRecord
    <2> HIDE DEF r
    <2> QED
      BY <1>3, <2>1, ChangeKeeps DEF r
  <1>4. ASSUME NEW i \in Ps!Active, Ps!RestorePriority(i) \/ (\E w \in Ps!Active : Ps!PriorityInherit(i, w))
        PROVE  SchedulerInv'
    <2>1. \E p \in Ps!LevelIds : Ps!Change(i, [ps_jobs[i] EXCEPT !.priority = p])
      BY <1>0, <1>4 DEF Ps!RestorePriority, Ps!PriorityInherit, JobRecord
    <2> QED
      BY <1>3, <2>1
  <1>5. ASSUME NEW ripe, Ps!AgeJobs(ripe) PROVE SchedulerInv'
    BY <1>5, AgedKeeps, RecordsKeep DEF Ps!AgeJobs, Ps!rings
  <1>6. ASSUME NEW ripe, Ps!ScheduleLottery(ripe) PROVE SchedulerInv'
    <2>1. PICK i \in Ps!Active : ps_jobs' = [Ps!Aged(ripe) EXCEPT ![i].active = FALSE]
      BY <1>6 DEF Ps!ScheduleLottery
    <2>2. i \in 1 .. Len(ps_jobs) /\ UNCHANGED <<algorithm, queues, queue_head, queue_count>>
      BY <1>0, <1>6 DEF Ps!ScheduleLottery, Ps!rings, Ps!Active
    <2> QED
      BY <2>1, <2>2, HandedOut, RecordsKeep
  <1>7. CASE UNCHANGED Ps!vars
    BY <1>7, RecordsKeep DEF Ps!vars, Ps!rings, SchedulerInv, SchedulerTypes
  <1> QED
    BY <1>1, <1>2, <1>4, <1>5, <1>6, <1>7, SubmitKeeps, MlfqKeeps DEF Ps!Next, Ps!ScheduleNext

LEMMA SchedulerHolds == ASSUME SchedulerConstants, SchedulerInv PROVE QueuedOnce
  <1>0. ps_jobs \in Seq(JobRecord) /\ Len(ps_jobs) \in Nat /\ DOMAIN ps_jobs = 1 .. Len(ps_jobs)
        /\ \A i \in 1 .. Len(ps_jobs) : ps_jobs[i] \in JobRecord
    BY LenProperties, ElementOfSeq DEF SchedulerInv, SchedulerTypes
  <1>1. Ps!TypeOK
    <2>1. \A l \in Ps!LevelIds : queue_head[l] \in Ps!Slots /\ queue_count[l] \in 0 .. MaxJobs
      BY <1>0 DEF SchedulerInv, SchedulerTypes, SchedulerConstants
    <2>2. \A i \in DOMAIN ps_jobs : ps_jobs[i].priority \in Ps!LevelIds /\ ps_jobs[i].original \in Ps!LevelIds
      BY <1>0 DEF JobRecord
    <2> QED
      BY <2>1, <2>2 DEF Ps!TypeOK, SchedulerInv, SchedulerTypes
  <1>2. ASSUME algorithm = "MLFQ", NEW i \in Ps!Active
        PROVE  LET l == ps_jobs[i].original
                   places == {k \in 0 .. queue_count[l] - 1 : Ps!At(l, k) = i}
               IN  /\ Cardinality(places) = 1
                   /\ \A k \in places, m \in Ps!Skip(l) : m < k => Ps!At(l, m) < i
    <2> DEFINE l == ps_jobs[i].original
               places == {k \in 0 .. queue_count[l] - 1 : Ps!At(l, k) = i}
    <2>1. PICK k \in 0 .. queue_count[l] - 1 : Ps!At(l, k) = i
      BY <1>2 DEF SchedulerInv, ActiveWaits
    <2>2. l \in Ps!LevelIds /\ queue_count[l] \in Nat
      BY <1>0, <1>2 DEF Ps!Active, JobRecord, SchedulerInv, SchedulerTypes
    <2>3. \A a, b \in 0 .. queue_count[l] - 1 : a < b => Ps!At(l, a) < Ps!At(l, b)
      BY <1>2, <2>2 DEF SchedulerInv, RingsSorted
    <2>4. \A a \in 0 .. queue_count[l] - 1 : Ps!At(l, a) \in Nat
      BY <1>0, <1>2, <2>2 DEF SchedulerInv, RingsSorted
    <2> HIDE DEF l
    <2>5. places = {k}
      BY <2>1, <2>2, <2>3, <2>4
    <2>6. Cardinality(places) = 1
      BY <2>5, FS_Singleton
    <2>7. \A a \in places, m \in Ps!Skip(l) : m < a => Ps!At(l, m) < i
      BY <2>3 DEF Ps!Skip
    <2> QED
      BY <2>6, <2>7 DEF l
  <1>3. Ps!QueuedOnce
    BY <1>2 DEF Ps!QueuedOnce, Ps!Cardinality, Cardinality
  <1> QED
    BY <1>1, <1>3 DEF QueuedOnce

\* ps_submit, ps_cancel, ps_schedule_next and the calls that change priorities:
\* no job is lost, handed out twice or overtaken in its level, for every number
\* of levels and size of the rings, while no level is given more than fits.
THEOREM SchedulerQueuesOnce == ASSUME SchedulerConstants PROVE Ps!Spec => []QueuedOnce
  <1>1. Ps!Init => SchedulerInv
    BY SchedulerInit
  <1>2. SchedulerInv /\ [Ps!Next]_(Ps!vars) => SchedulerInv'
    BY SchedulerNext
  <1>3. SchedulerInv => QueuedOnce
    BY SchedulerHolds
  <1> QED
    BY <1>1, <1>2, <1>3, PTL DEF Ps!Spec

-----------------------------------------------------------------------------
(* Retries and dead letters                                                *)

\* The table and the list of dead letters are arrays of one size.
RetryConstants == DeadLetterMax \in Nat /\ Capacity \in 0 .. DeadLetterMax /\ MaxRetries \subseteq Nat

EntryFields == {"max_retries", "base", "retry_count", "delay", "exhausted", "next_retry_at"}
EntryTypes(e) ==
    DOMAIN e = EntryFields /\ e.max_retries \in Nat /\ e.retry_count \in Nat /\ e.exhausted \in BOOLEAN

TableTypes ==
    /\ Tr!Registered \subseteq RetryJobs /\ IsFiniteSet(Tr!Registered) /\ Cardinality(Tr!Registered) <= Capacity
    /\ unreported \subseteq Tr!Registered /\ buried \subseteq Tr!Registered /\ runs \in [RetryJobs -> Nat]
    /\ \A j \in Tr!Registered : EntryTypes(entries[j])

\* A run that was not reported is the only one its entry does not count.
RunsCounted(j) ==
    LET e == entries[j]
    IN  /\ e.retry_count <= e.max_retries /\ runs[j] <= 1 + e.max_retries
        /\ j \in unreported => ~e.exhausted /\ runs[j] = e.retry_count + 1
        /\ j \notin unreported /\ ~e.exhausted => runs[j] = e.retry_count
        /\ j \in buried => e.exhausted /\ runs[j] = 1 + e.max_retries

LettersMatch ==
    /\ dead_letters \in Seq(RetryJobs) /\ Len(dead_letters) = Cardinality(buried)
    /\ \A m, n \in 1 .. Len(dead_letters) : dead_letters[m] = dead_letters[n] => m = n
    /\ {dead_letters[n] : n \in 1 .. Len(dead_letters)} = buried

RetryInv == TableTypes /\ (\A j \in Tr!Registered : RunsCounted(j)) /\ LettersMatch

LEMMA RetryInit == ASSUME RetryConstants, Tr!Init PROVE RetryInv
  <1>1. entries = <<>> /\ dead_letters = <<>> /\ Tr!Registered = {} /\ Len(<<>>) = 0 /\ DOMAIN entries = {}
    BY DEF Tr!Init, Tr!Registered
  <1>2. Cardinality({}) = 0 /\ IsFiniteSet({})
    BY FS_EmptySet
  <1>3. TableTypes
    BY <1>1, <1>2 DEF TableTypes, Tr!Init, RetryConstants
  <1>4. LettersMatch
    BY <1>1, <1>2, EmptySeq DEF LettersMatch, Tr!Init
  <1> QED
    BY <1>1, <1>3, <1>4 DEF RetryInv

\* tr_register starts over with a job whose letter was delivered.
LEMMA RegisterKeeps ==
    ASSUME RetryConstants, RetryInv, NEW j \in RetryJobs, NEW m \in MaxRetries, NEW b \in Bases, Tr!Register(j, m, b)
    PROVE  RetryInv'
  <1> DEFINE R == Tr!Registered
             new == [max_retries |-> m, base |-> b, retry_count |-> 0, delay |-> b, exhausted |-> FALSE,
                     next_retry_at |-> IF j \in R THEN entries[j].next_retry_at ELSE 0]
  <1>1. /\ Cardinality(R) < Capacity /\ j \notin unreported /\ j \notin buried
        /\ entries' = [x \in R \cup {j} |-> IF x = j THEN new ELSE entries[x]]
        /\ runs' = [runs EXCEPT ![j] = 0] /\ UNCHANGED <<dead_letters, unreported, buried>>
    <2>1. Tr!Cardinality(R) < Capacity
      BY DEF Tr!Register
    <2>2. Cardinality(R) < Capacity
      BY <2>1 DEF Tr!Cardinality, Cardinality
    <2> QED
      BY <2>2 DEF Tr!Register
  <1>2. R' = R \cup {j} /\ entries'[j] = new /\ \A x \in R \ {j} : entries'[x] = entries[x]
    BY <1>1 DEF Tr!Registered
  <1>3. EntryTypes(new) /\ new.max_retries = m /\ new.retry_count = 0 /\ ~new.exhausted /\ m \in Nat
    BY DEF EntryTypes, EntryFields, RetryConstants
  <1> HIDE DEF new
  <1>4. Cardinality(R') <= Capacity /\ IsFiniteSet(R')
    <2>1. IsFiniteSet(R) /\ Cardinality(R) \in Nat
      BY FS_CardinalityType DEF RetryInv, TableTypes
    <2>2. Cardinality(R \cup {j}) = (IF j \in R THEN Cardinality(R) ELSE Cardinality(R) + 1) /\ IsFiniteSet(R \cup {j})
      BY <2>1, FS_AddElement
    <2> QED
      BY <1>1, <1>2, <2>1, <2>2 DEF RetryConstants
  <1>5. runs' \in [RetryJobs -> Nat] /\ runs'[j] = 0 /\ \A x \in RetryJobs \ {j} : runs'[x] = runs[x]
    BY <1>1 DEF RetryInv, TableTypes
  <1>6. R \subseteq RetryJobs /\ unreported \subseteq R /\ buried \subseteq R /\ \A x \in R : EntryTypes(entries[x]) /\ RunsCounted(x)
    BY DEF RetryInv, TableTypes
  <1>7. TableTypes'
    BY <1>1, <1>2, <1>3, <1>4, <1>5, <1>6 DEF TableTypes, EntryTypes
  <1>8. ASSUME NEW x \in R' PROVE RunsCounted(x)'
    <2>1. CASE x = j
      BY <1>1, <1>2, <1>3, <1>5, <2>1 DEF RunsCounted
    <2>2. CASE x # j
      <3>1. x \in R /\ entries'[x] = entries[x] /\ runs'[x] = runs[x] /\ RunsCounted(x)
        BY <1>2, <1>5, <1>6, <1>8, <2>2
      <3> QED
        BY <1>1, <3>1 DEF RunsCounted
    <2> QED
      BY <2>1, <2>2
  <1>9. LettersMatch'
    BY <1>1 DEF RetryInv, LettersMatch
  <1> QED
    BY <1>7, <1>8, <1>9 DEF RetryInv

\* One job's entry, run count and marks change, and its letters do not.
LEMMA OneJobKeeps ==
    ASSUME RetryConstants, RetryInv, NEW j \in Tr!Registered, NEW e, EntryTypes(e),
           Tr!Registered' = Tr!Registered, entries'[j] = e, \A x \in Tr!Registered \ {j} : entries'[x] = entries[x],
           runs' \in [RetryJobs -> Nat],
           \A x \in RetryJobs \ {j} : runs'[x] = runs[x],
           unreported' \subseteq Tr!Registered, buried' \subseteq Tr!Registered,
           \A x \in Tr!Registered \ {j} : (x \in unreported' <=> x \in unreported) /\ (x \in buried' <=> x \in buried),
           e.retry_count <= e.max_retries, runs'[j] <= 1 + e.max_retries,
           j \in unreported' => ~e.exhausted /\ runs'[j] = e.retry_count + 1,
           j \notin unreported' /\ ~e.exhausted => runs'[j] = e.retry_count,
           j \in buried' => e.exhausted /\ runs'[j] = 1 + e.max_retries
    PROVE  TableTypes' /\ \A x \in Tr!Registered' : RunsCounted(x)'
  <1>2. TableTypes /\ Tr!Registered \subseteq RetryJobs /\ \A x \in Tr!Registered : EntryTypes(entries[x]) /\ RunsCounted(x)
    BY DEF RetryInv, TableTypes
  <1>3. TableTypes'
    BY <1>2 DEF TableTypes, EntryTypes
  <1>4. ASSUME NEW x \in Tr!Registered PROVE RunsCounted(x)'
    <2>1. CASE x = j
      BY <2>1 DEF RunsCounted
    <2>2. CASE x # j
      <3>1. entries'[x] = entries[x] /\ runs'[x] = runs[x] /\ RunsCounted(x)
        BY <1>2, <2>2
      <3> QED
        BY <2>2, <3>1 DEF RunsCounted
    <2> QED
      BY <2>1, <2>2
  <1> QED
    BY <1>3, <1>4

\* tr_trigger_retry
LEMMA TriggerKeeps ==
    ASSUME RetryConstants, RetryInv, NEW j \in RetryJobs, Tr!TriggerRetry(j) PROVE RetryInv'
  <1> DEFINE e == entries[j]
  <1>1. j \in Tr!Registered /\ j \notin unreported /\ ~e.exhausted /\ EntryTypes(e) /\ RunsCounted(j)
        /\ runs' = [runs EXCEPT ![j] = @ + 1] /\ unreported' = unreported \cup {j}
        /\ UNCHANGED <<entries, dead_letters, buried>>
    BY DEF Tr!TriggerRetry, Tr!CanRetry, RetryInv, TableTypes
  <1>2. Tr!Registered' = Tr!Registered /\ entries'[j] = e /\ \A x \in Tr!Registered : entries'[x] = entries[x]
    BY <1>1 DEF Tr!Registered
  <1>3. runs' \in [RetryJobs -> Nat] /\ runs'[j] = runs[j] + 1 /\ \A x \in RetryJobs \ {j} : runs'[x] = runs[x]
    BY <1>1 DEF RetryInv, TableTypes
  <1>4. runs[j] = e.retry_count /\ e.retry_count <= e.max_retries /\ j \notin buried
    BY <1>1 DEF RunsCounted
  <1>5. e.retry_count \in Nat /\ e.max_retries \in Nat /\ unreported \subseteq Tr!Registered /\ buried \subseteq Tr!Registered
    BY <1>1 DEF EntryTypes, RetryInv, TableTypes
  <1>6. runs'[j] = e.retry_count + 1 /\ runs'[j] <= 1 + e.max_retries
    BY <1>3, <1>4, <1>5
  <1> HIDE DEF e
  <1>7. TableTypes' /\ \A x \in Tr!Registered' : RunsCounted(x)'
    BY <1>1, <1>2, <1>3, <1>4, <1>5, <1>6, OneJobKeeps
  <1>8. LettersMatch'
    BY <1>1 DEF RetryInv, LettersMatch
  <1> QED
    BY <1>7, <1>8 DEF RetryInv

\* tr_report_result: the job is done, or is given up or retried.
LEMMA ReportKeeps ==
    ASSUME RetryConstants, RetryInv, NEW j \in RetryJobs, Tr!ReportDone(j) \/ Tr!ReportGiveUp(j) \/ Tr!ReportRetry(j)
    PROVE  TableTypes' /\ (\A x \in Tr!Registered' : RunsCounted(x)') /\ j \notin buried
  <1> DEFINE e == entries[j]
  <1>1. j \in unreported /\ j \in Tr!Registered /\ EntryTypes(e) /\ RunsCounted(j)
        /\ unreported \subseteq Tr!Registered /\ buried \subseteq Tr!Registered /\ runs \in [RetryJobs -> Nat]
    BY DEF Tr!ReportDone, Tr!ReportGiveUp, Tr!ReportRetry, RetryInv, TableTypes
  <1>2. e.retry_count \in Nat /\ e.max_retries \in Nat /\ e.exhausted \in BOOLEAN /\ DOMAIN e = EntryFields
    BY <1>1 DEF EntryTypes
  <1>3. ~e.exhausted /\ runs[j] = e.retry_count + 1 /\ e.retry_count <= e.max_retries /\ j \notin buried
    BY <1>1 DEF RunsCounted
  <1>4. runs' = runs /\ unreported' = unreported \ {j} /\ j \notin unreported'
    BY DEF Tr!ReportDone, Tr!ReportGiveUp, Tr!ReportRetry
  <1>5. CASE Tr!ReportDone(j) \/ Tr!ReportGiveUp(j)
    <2> DEFINE d == [e EXCEPT !.exhausted = TRUE]
    <2>1. Tr!Registered' = Tr!Registered /\ entries'[j] = d /\ \A x \in Tr!Registered \ {j} : entries'[x] = entries[x]
      BY <1>1, <1>5 DEF Tr!ReportDone, Tr!ReportGiveUp, Tr!Registered
    <2> HIDE DEF e
    <2>2. d.max_retries = e.max_retries /\ d.retry_count = e.retry_count /\ d.exhausted /\ d.exhausted \in BOOLEAN
          /\ DOMAIN d = EntryFields
      BY <1>2 DEF EntryFields
    <2> HIDE DEF d
    <2>3. EntryTypes(d)
      BY <1>2, <2>2 DEF EntryTypes
    <2>4. runs[j] <= 1 + d.max_retries /\ d.retry_count <= d.max_retries
      BY <1>2, <1>3, <2>2
    <2>5. CASE Tr!ReportDone(j)
      <3>1. buried' = buried
        BY <2>5 DEF Tr!ReportDone
      <3>2. TableTypes' /\ \A x \in Tr!Registered' : RunsCounted(x)'
        BY <1>1, <1>3, <1>4, <2>1, <2>2, <2>3, <2>4, <3>1, OneJobKeeps
      <3> QED
        BY <1>3, <3>2
    <2>6. CASE Tr!ReportGiveUp(j)
      <3>1. buried' = buried \cup {j} /\ e.retry_count >= e.max_retries
        BY <2>6 DEF Tr!ReportGiveUp, Tr!GivesUp, e
      <3>2. runs[j] = 1 + d.max_retries
        BY <1>2, <1>3, <2>2, <3>1
      <3>3. TableTypes' /\ \A x \in Tr!Registered' : RunsCounted(x)'
        BY <1>1, <1>4, <2>1, <2>2, <2>3, <2>4, <3>1, <3>2, OneJobKeeps
      <3> QED
        BY <1>3, <3>3
    <2> QED
      BY <1>5, <2>5, <2>6
  <1>6. CASE Tr!ReportRetry(j)
    <2> DEFINE n == e.retry_count + 1
    <2>1. \E delay, at : entries' = [entries EXCEPT ![j].retry_count = n, ![j].delay = delay, ![j].next_retry_at = at]
      BY <1>6 DEF Tr!ReportRetry
    <2>2. PICK delay, at : entries' = [entries EXCEPT ![j].retry_count = n, ![j].delay = delay, ![j].next_retry_at = at]
      BY <2>1
    <2>3. ~(e.retry_count >= e.max_retries) /\ buried' = buried
      BY <1>6 DEF Tr!ReportRetry, Tr!GivesUp
    <2>4. n \in Nat /\ n <= e.max_retries /\ runs[j] = n
      <3> HIDE DEF e
      <3> QED
        BY <1>2, <1>3, <2>3
    <2> DEFINE d == [e EXCEPT !.retry_count = n, !.delay = delay, !.next_retry_at = at]
    <2>5. Tr!Registered' = Tr!Registered /\ entries'[j] = d /\ \A x \in Tr!Registered \ {j} : entries'[x] = entries[x]
      BY <1>1, <2>2 DEF Tr!Registered
    <2> HIDE DEF e, n
    <2>6. d.max_retries = e.max_retries /\ d.retry_count = n /\ d.exhausted = e.exhausted /\ DOMAIN d = EntryFields
      BY <1>2 DEF EntryFields
    <2> HIDE DEF d
    <2>7. EntryTypes(d) /\ ~d.exhausted
      BY <1>2, <1>3, <2>4, <2>6 DEF EntryTypes
    <2>8. d.retry_count <= d.max_retries /\ runs[j] <= 1 + d.max_retries /\ runs[j] = d.retry_count
      BY <1>2, <2>4, <2>6
    <2>9. TableTypes' /\ \A x \in Tr!Registered' : RunsCounted(x)'
      BY <1>1, <1>3, <1>4, <2>3, <2>5, <2>7, <2>8, OneJobKeeps
    <2> QED
      BY <1>3, <2>9
  <1> QED
    BY <1>5, <1>6

\* A job that gives up gets its letter: the list has room.
LEMMA GiveUpLetters ==
    ASSUME RetryConstants, RetryInv, NEW j \in RetryJobs, Tr!ReportGiveUp(j), j \notin buried PROVE LettersMatch'
  <1> DEFINE n == Len(dead_letters)
  <1>1. /\ dead_letters \in Seq(RetryJobs) /\ n = Cardinality(buried) /\ n \in Nat
        /\ \A a, b \in 1 .. n : dead_letters[a] = dead_letters[b] => a = b
        /\ {dead_letters[k] : k \in 1 .. n} = buried /\ buried \subseteq Tr!Registered
        /\ IsFiniteSet(Tr!Registered) /\ Cardinality(Tr!Registered) <= Capacity /\ unreported \subseteq Tr!Registered
    BY LenProperties DEF RetryInv, LettersMatch, TableTypes
  <1>2. IsFiniteSet(buried) /\ Cardinality(buried \cup {j}) = n + 1 /\ IsFiniteSet(buried \cup {j})
    BY <1>1, FS_Subset, FS_AddElement
  <1>3. n + 1 <= Cardinality(Tr!Registered) /\ Cardinality(Tr!Registered) \in Nat
    <2>1. buried \cup {j} \subseteq Tr!Registered
      BY <1>1 DEF Tr!ReportGiveUp
    <2> QED
      BY <1>1, <1>2, <2>1, FS_Subset, FS_CardinalityType
  <1>4. n < DeadLetterMax
    BY <1>1, <1>3 DEF RetryConstants
  <1>5. dead_letters' = Append(dead_letters, j) /\ buried' = buried \cup {j}
    BY <1>4 DEF Tr!ReportGiveUp
  <1>6. dead_letters' \in Seq(RetryJobs) /\ Len(dead_letters') = n + 1 /\ dead_letters'[n + 1] = j
        /\ \A k \in 1 .. n : dead_letters'[k] = dead_letters[k]
    BY <1>1, <1>5, AppendProperties
  <1> HIDE DEF n
  <1>7. \A k \in 1 .. n : dead_letters[k] # j
    BY <1>1
  <1>8. \A a, b \in 1 .. n + 1 : dead_letters'[a] = dead_letters'[b] => a = b
    <2>1. \A a \in 1 .. n + 1 : a = n + 1 \/ a \in 1 .. n
      BY <1>1
    <2> QED
      BY <1>1, <1>6, <1>7, <2>1
  <1>9. {dead_letters'[k] : k \in 1 .. n + 1} = buried'
    <2>1. \A a \in 1 .. n + 1 : a = n + 1 \/ a \in 1 .. n
      BY <1>1
    <2>2. n + 1 \in 1 .. n + 1 /\ \A a \in 1 .. n : a \in 1 .. n + 1
      BY <1>1
    <2> QED
      BY <1>1, <1>5, <1>6, <2>1, <2>2
  <1> QED
    BY <1>2, <1>5, <1>6, <1>8, <1>9 DEF LettersMatch

LEMMA RetryNext == ASSUME RetryConstants, RetryInv, [Tr!Next]_(Tr!vars) PROVE RetryInv'
  <1>1. ASSUME NEW j \in RetryJobs, Tr!ReportDone(j) \/ Tr!ReportRetry(j) PROVE RetryInv'
    <2>1. UNCHANGED <<dead_letters, buried>>
      BY <1>1 DEF Tr!ReportDone, Tr!ReportRetry
    <2>2. LettersMatch'
      BY <2>1 DEF RetryInv, LettersMatch
    <2> QED
      BY <1>1, <2>2, ReportKeeps DEF RetryInv
  <1>2. ASSUME NEW j \in RetryJobs, Tr!ReportGiveUp(j) PROVE RetryInv'
    BY <1>2, ReportKeeps, GiveUpLetters DEF RetryInv
  <1>3. CASE Tr!ProcessDeadLetters
    <2>1. dead_letters' = <<>> /\ UNCHANGED <<entries, runs, unreported>> /\ buried' = buried \ Tr!ToSet(dead_letters)
      BY <1>3 DEF Tr!ProcessDeadLetters
    <2>2. Tr!ToSet(dead_letters) = buried
      <3>1. DOMAIN dead_letters = 1 .. Len(dead_letters)
        BY LenProperties DEF RetryInv, LettersMatch
      <3> QED
        BY <3>1 DEF Tr!ToSet, RetryInv, LettersMatch
    <2>3. buried' = {} /\ Cardinality({}) = 0 /\ Tr!Registered' = Tr!Registered
      BY <2>1, <2>2, FS_EmptySet DEF Tr!Registered
    <2>4. LettersMatch'
      <3>1. dead_letters' \in Seq(RetryJobs) /\ Len(dead_letters') = 0
        BY <2>1, EmptySeq
      <3>2. 1 .. Len(dead_letters') = {}
        BY <3>1
      <3> QED
        BY <2>3, <3>1, <3>2 DEF LettersMatch
    <2>5. TableTypes'
      BY <2>1, <2>3 DEF RetryInv, TableTypes, EntryTypes
    <2>6. \A x \in Tr!Registered : RunsCounted(x)'
      BY <2>1, <2>3 DEF RetryInv, RunsCounted
    <2> QED
      BY <2>3, <2>4, <2>5, <2>6 DEF RetryInv
  <1>4. CASE Tr!Tick \/ UNCHANGED Tr!vars
    <2>1. UNCHANGED <<entries, dead_letters, runs, unreported, buried>> /\ Tr!Registered' = Tr!Registered
      BY <1>4 DEF Tr!Tick, Tr!vars, Tr!Registered
    <2> QED
      BY <2>1 DEF RetryInv, TableTypes, RunsCounted, LettersMatch, EntryTypes
  <1> QED
    BY <1>1, <1>2, <1>3, <1>4, RegisterKeeps, TriggerKeeps DEF Tr!Next

LEMMA RetryHolds == ASSUME RetryConstants, RetryInv PROVE RetriesSound
  <1>1. DOMAIN dead_letters = 1 .. Len(dead_letters) /\ Len(dead_letters) \in Nat
    BY LenProperties DEF RetryInv, LettersMatch
  <1>2. Tr!TypeOK
    <2>1. Cardinality(buried) <= Cardinality(Tr!Registered) /\ Cardinality(Tr!Registered) \in Nat
          /\ Cardinality(Tr!Registered) <= Capacity
      BY FS_Subset, FS_CardinalityType DEF RetryInv, TableTypes
    <2>2. Len(dead_letters) <= DeadLetterMax
      BY <1>1, <2>1 DEF RetryConstants, RetryInv, LettersMatch
    <2>3. Tr!Cardinality(Tr!Registered) <= Capacity
      <3>1. Cardinality(Tr!Registered) <= Capacity
        BY DEF RetryInv, TableTypes
      <3> QED
        BY <3>1 DEF Cardinality, Tr!Cardinality
    <2> QED
      BY <2>2, <2>3 DEF Tr!TypeOK, RetryInv, TableTypes
  <1>3. Tr!IsInjective(dead_letters) /\ Tr!ToSet(dead_letters) = buried
    BY <1>1 DEF RetryInv, LettersMatch, Tr!IsInjective, Tr!ToSet
  <1>4. ASSUME NEW j \in Tr!Registered
        PROVE  /\ runs[j] <= 1 + entries[j].max_retries
               /\ j \in buried => runs[j] = 1 + entries[j].max_retries
               /\ ~entries[j].exhausted => runs[j] <= entries[j].retry_count + 1
    <2>1. RunsCounted(j) /\ EntryTypes(entries[j]) /\ runs[j] \in Nat
      BY DEF RetryInv, TableTypes
    <2> QED
      BY <2>1 DEF RunsCounted, EntryTypes
  <1> QED
    BY <1>2, <1>3, <1>4 DEF RetriesSound, Tr!GivesUpInTime

\* tr_report_result and tr_process_dead_letters: a job gives up after 1 + max_retries
\* runs, and its letter is kept, once, until it is delivered, for any jobs.
THEOREM RetriesAreSound == ASSUME RetryConstants PROVE Tr!Spec => []RetriesSound
  <1>1. Tr!Init => RetryInv
    BY RetryInit
  <1>2. RetryInv /\ [Tr!Next]_(Tr!vars) => RetryInv'
    BY RetryNext
  <1>3. RetryInv => RetriesSound
    BY RetryHolds
  <1> QED
    BY <1>1, <1>2, <1>3, PTL DEF Tr!Spec
=============================================================================
