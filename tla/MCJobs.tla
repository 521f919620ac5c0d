------------------------------- MODULE MCJobs -------------------------------
(***************************************************************************)
(* The single-threaded components of mini-job-system, and the breaker of   *)
(* mini-business-infra, on small instances.  They share nothing but the    *)
(* clock: one of them, named by active, moves and the others keep their    *)
(* initial state, so the run explores the sum of their state spaces.       *)
(*                                                                         *)
(* The breakers of the module extended here have an owner who forces       *)
(* states, and callers who lose reports; Cr and Ir are left alone, to      *)
(* recover.                                                                *)
(***************************************************************************)
EXTENDS JobProofs

VARIABLES active,
          \* JobDag
          nodes, started,
          \* DelayedQueue
          heap, last,
          \* RateLimiter
          kind, level, stamp, log, head, count, grants,
          \* CronScheduler
          cron_jobs, since, cron_runs, ticked

Dag == INSTANCE JobDag WITH Ids <- {1, 2, 3}, MaxNodes <- 3
Dq == INSTANCE DelayedQueue WITH
        Keys <- {"a", "b", "c", "d"}, Capacity <- 4, Delays <- {0, 2, 4}, Second <- 2, MaxTime <- 1
Rl == INSTANCE RateLimiter WITH
        Kinds <- {"token", "leaky", "sliding", "fixed"}, Rate <- 1, Limit <- 3, Window <- 2,
        Ring <- 4, Costs <- {1, 2}, MaxTime <- 5, MaxGrants <- 6

\* Every second of minute 1, seconds 0 and 1 of every minute.
CronSpecs == {[second |-> {}, minute |-> {1}], [second |-> {0, 1}, minute |-> {}]}
Cron == INSTANCE CronScheduler WITH
        Ids <- {1, 2}, MaxJobs <- 2, SecondsPer <- 3, MinutesPer <- 2, Specs <- CronSpecs,
        MaxTime <- 5, jobs <- cron_jobs, runs <- cron_runs

Cr == INSTANCE CircuitBreaker WITH HalfOpenMax <- 1, Manual <- FALSE, Lossy <- FALSE
Ir == INSTANCE InfraBreaker WITH
        Manual <- FALSE, state <- i_state, consecutive_failures <- i_failures, consecutive_successes <- i_successes,
        age <- i_age, healthy <- i_healthy, by <- i_by

ASSUME WindowConstants /\ SchedulerConstants /\ RetryConstants
ASSUME BreakerConstants /\ Cr!BreakerConstants /\ Ib!BreakerConstants /\ Ir!BreakerConstants

dagVars == <<nodes, started>>
dqVars == <<heap, last>>
trVars == <<entries, dead_letters, runs, unreported, buried>>
psVars == <<algorithm, ps_jobs, queues, queue_head, queue_count>>
rlVars == <<kind, level, stamp, log, head, count, grants>>
cronVars == <<cron_jobs, since, cron_runs, ticked>>
fwVars == <<timestamps, f_head, f_count, history>>
ibVars == <<i_state, i_failures, i_successes, i_age, window, window_pos, window_filled, calls, i_healthy, i_by>>
scheduling == <<dagVars, dqVars, trVars, psVars, rlVars, cronVars>>
breakers == <<vars, fwVars, ibVars>>
jobsVars == <<active, now, scheduling, breakers>>

JobsInit ==
    /\ active \in {"dag", "delayed", "retry", "priority", "limiter", "cron",
                   "breaker", "recovery", "window", "infra", "infra_recovery"}
    /\ Dag!Init /\ Dq!Init /\ Tr!Init /\ Cron!Init
    /\ Ps!Init /\ (active # "priority" => algorithm = "MLFQ")
    /\ Rl!Init /\ (active # "limiter" => kind = "token")
    /\ Init /\ Fw!Init /\ Ib!Init

OnlyDag == active = "dag" /\ UNCHANGED <<active, now, dqVars, trVars, psVars, rlVars, cronVars, breakers>>
OnlyDelayed == active = "delayed" /\ UNCHANGED <<active, dagVars, trVars, psVars, rlVars, cronVars, breakers>>
OnlyRetry == active = "retry" /\ UNCHANGED <<active, dagVars, dqVars, psVars, rlVars, cronVars, breakers>>
OnlyPriority == active = "priority" /\ UNCHANGED <<active, now, dagVars, dqVars, trVars, rlVars, cronVars, breakers>>
OnlyLimiter == active = "limiter" /\ UNCHANGED <<active, dagVars, dqVars, trVars, psVars, cronVars, breakers>>
OnlyCron == active = "cron" /\ UNCHANGED <<active, dagVars, dqVars, trVars, psVars, rlVars, breakers>>
OnlyBreaker == active = "breaker" /\ UNCHANGED <<active, now, scheduling, fwVars, ibVars>>
OnlyRecovery == active = "recovery" /\ UNCHANGED <<active, now, scheduling, fwVars, ibVars>>
OnlyWindow == active = "window" /\ UNCHANGED <<active, scheduling, vars, ibVars>>
OnlyInfra == active = "infra" /\ UNCHANGED <<active, now, scheduling, vars, fwVars>>
OnlyInfraRecovery == active = "infra_recovery" /\ UNCHANGED <<active, now, scheduling, vars, fwVars>>

JobsNext ==
    \/ OnlyDag /\ Dag!Next
    \/ OnlyDelayed /\ Dq!Next
    \/ OnlyRetry /\ Tr!Next
    \/ OnlyPriority /\ Ps!Next
    \/ OnlyLimiter /\ Rl!Next
    \/ OnlyCron /\ Cron!Next
    \/ OnlyBreaker /\ Next
    \/ OnlyRecovery /\ Cr!Next
    \/ OnlyWindow /\ Fw!Next
    \/ OnlyInfra /\ Ib!Next
    \/ OnlyInfraRecovery /\ Ir!Next

\* The breakers' clocks advance, callers keep calling, and every call is answered.
JobsSpec ==
    /\ JobsInit /\ [][JobsNext]_jobsVars
    /\ WF_jobsVars(OnlyRecovery /\ Cr!Tick)
    /\ WF_jobsVars(OnlyRecovery /\ \E r \in Requests : Cr!AllowRequest(r))
    /\ \A r \in Requests : WF_jobsVars(OnlyRecovery /\ (Cr!ReportSuccess(r) \/ Cr!ReportFailure(r)))
    /\ WF_jobsVars(OnlyInfraRecovery /\ Ir!Tick) /\ WF_jobsVars(OnlyInfraRecovery /\ Ir!Admit)
    /\ WF_jobsVars(OnlyInfraRecovery /\ (Ir!ReturnSuccess \/ Ir!ReturnFailure))

\* jdag_add_edge and the removals keep the graph acyclic and both sorts right,
\* and jdag_get_ready_nodes offers a node exactly when its predecessors completed.
GraphSound == Dag!TypeOK /\ Dag!Sortable /\ Dag!ReadyWhenDone

\* The heap of dq_enqueue, dq_cancel and dq_dequeue behaves as a set of timers.
ImplementsTimers == Dq!ImplementsTimers /\ [](active = "delayed" => Dq!TypeOK)

\* tr_calc_delay stays within the jitter of the capped exponential, and rl_consume
\* never grants more over an interval than its limiter promises.
PacedCalls == Tr!BackoffNear /\ (active = "limiter" => Rl!TypeOK /\ Rl!GrantsBounded)

\* cron_tick runs jobs at the matching times, and catches up exactly.
FiresOnSchedule == active = "cron" => Cron!TypeOK /\ Cron!FiresOnSchedule

\* A breaker whose callers all report closes again once the callee works.
BreakersRecover ==
    /\ active = "recovery" => Cr!Recovers
    /\ active = "infra_recovery" => Ir!Recovers
=============================================================================
