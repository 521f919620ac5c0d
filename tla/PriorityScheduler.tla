-------------------------- MODULE PriorityScheduler --------------------------
(***************************************************************************)
(* The priority scheduler of mini-job-system (priority_scheduler.c).  Jobs *)
(* stay in an array for good; each level is a ring of indices into it.     *)
(* Cancelling, boosting, inheriting and aging change a job's record and    *)
(* leave the rings alone.  Waiting-time statistics are left out.           *)
(***************************************************************************)
EXTENDS Integers, Sequences, FiniteSets, SequencesExt

CONSTANTS MaxJobs,      \* PS_MAX_JOBS
          PerLevel,     \* PS_MAX_JOBS_PER_LEVEL
          Levels,       \* level_count
          MaxBoosts,    \* max_aging_boosts
          Algorithms,   \* subset of {"MLFQ", "LOTTERY"}; FIXED runs the MLFQ code
          Crowded       \* may a level be given more than PerLevel jobs?

VARIABLES algorithm,
          jobs,         \* jobs[0 .. job_count), here from 1; ids are indices
          queues, queue_head, queue_count

rings == <<queues, queue_head, queue_count>>
vars == <<algorithm, jobs, rings>>

LevelIds == 0 .. Levels - 1
Slots == 0 .. PerLevel - 1
Active == {i \in DOMAIN jobs : jobs[i].active}

Init ==
    /\ algorithm \in Algorithms /\ jobs = <<>>
    /\ queues = [l \in LevelIds |-> [s \in Slots |-> 0]]
    /\ queue_head = [l \in LevelIds |-> 0] /\ queue_count = [l \in LevelIds |-> 0]

RingTailFromZero(l) == queue_count[l] % PerLevel
RingTail(l) == (queue_head[l] + queue_count[l]) % PerLevel

\* ps_submit; no check keeps queue_count below the size of the ring.
Submit(l) ==
    /\ Len(jobs) < MaxJobs /\ (Crowded \/ algorithm # "MLFQ" \/ queue_count[l] < PerLevel)
    /\ jobs' = Append(jobs, [priority |-> l, original |-> l, boosts |-> 0, active |-> TRUE])
    /\ queues' = [queues EXCEPT ![l][RingTail(l)] = Len(jobs) + 1]
    /\ queue_count' = [queue_count EXCEPT ![l] = @ + 1]
    /\ UNCHANGED <<algorithm, queue_head>>

Change(i, r) ==
    i \in Active /\ jobs' = [jobs EXCEPT ![i] = r] /\ UNCHANGED <<algorithm, rings>>

\* Counted no further than aging can tell apart.
OneMoreBoost(n) == IF n < MaxBoosts THEN n + 1 ELSE MaxBoosts

Cancel(i) == i \in Active /\ Change(i, [jobs[i] EXCEPT !.active = FALSE])
BoostPriority(i, l) ==
    i \in Active /\ Change(i, [jobs[i] EXCEPT !.priority = l, !.boosts = OneMoreBoost(@)])
RestorePriority(i) == i \in Active /\ Change(i, [jobs[i] EXCEPT !.priority = jobs[i].original])
PriorityInherit(h, w) ==
    /\ {h, w} \subseteq Active /\ jobs[h].priority > jobs[w].priority
    /\ Change(h, [jobs[h] EXCEPT !.priority = jobs[w].priority])

\* ps_age_jobs, where the jobs in ripe have waited for an aging interval.
Aged(ripe) ==
    [i \in DOMAIN jobs |->
        IF i \in ripe \cap Active /\ jobs[i].boosts < MaxBoosts /\ jobs[i].priority > 0
        THEN [jobs[i] EXCEPT !.priority = @ - 1, !.boosts = @ + 1] ELSE jobs[i]]
AgeJobs(ripe) == jobs' = Aged(ripe) /\ UNCHANGED <<algorithm, rings>>

-----------------------------------------------------------------------------
(* ps_schedule_next; nothing is ripe when the aging interval has not passed. *)

\* schedule_mlfq: positions of level l in ring order, and the first active one.
At(l, k) == queues[l][(queue_head[l] + k) % PerLevel]
Skip(l) == {k \in 0 .. queue_count[l] - 1 : At(l, k) \in Active}
FirstActive(l) == CHOOSE k \in Skip(l) : \A m \in Skip(l) : k <= m
Busy == {l \in LevelIds : Skip(l) # {}}
Top == CHOOSE l \in Busy : \A m \in Busy : l <= m

\* How many entries schedule_mlfq takes from level l.
Taken(l) ==
    IF Busy = {} \/ l < Top THEN queue_count[l]
    ELSE IF l = Top THEN FirstActive(l) + 1 ELSE 0

ScheduleMlfq(ripe) ==
    LET i == At(Top, FirstActive(Top))
    IN  /\ algorithm = "MLFQ" /\ Len(jobs) > 0
        /\ queue_head' = [l \in LevelIds |-> (queue_head[l] + Taken(l)) % PerLevel]
        /\ queue_count' = [l \in LevelIds |-> queue_count[l] - Taken(l)]
        /\ IF Busy = {} THEN jobs' = Aged(ripe)
           ELSE jobs' = [Aged(ripe) EXCEPT ![i].active = FALSE]
        /\ UNCHANGED <<algorithm, queues>>

\* ps_lottery_select: the ticket may be anybody's.
ScheduleLottery(ripe) ==
    /\ algorithm = "LOTTERY"
    /\ \E i \in Active : jobs' = [Aged(ripe) EXCEPT ![i].active = FALSE]
    /\ UNCHANGED <<algorithm, rings>>

ScheduleNext(ripe) == ScheduleMlfq(ripe) \/ ScheduleLottery(ripe)

Next ==
    \/ \E l \in LevelIds : Submit(l) \/ \E i \in Active : BoostPriority(i, l)
    \/ \E i \in Active : \/ Cancel(i) \/ RestorePriority(i)
                         \/ \E w \in Active : PriorityInherit(i, w)
    \/ \E ripe \in SUBSET Active : ScheduleNext(ripe) \/ AgeJobs(ripe)

Spec == Init /\ [][Next]_vars

-----------------------------------------------------------------------------
(* Properties                                                              *)

\* Type invariant.
TypeOK ==
    /\ Len(jobs) <= MaxJobs
    /\ \A l \in LevelIds : queue_head[l] \in Slots /\ queue_count[l] \in 0 .. MaxJobs
    /\ \A i \in DOMAIN jobs : jobs[i].priority \in LevelIds /\ jobs[i].original \in LevelIds

\* Every active job waits in exactly one place, in the ring of the level it was
\* submitted to, behind every active job submitted to that level before it: none
\* is lost, handed out twice or overtaken in its level, whatever was cancelled.
QueuedOnce ==
    algorithm = "MLFQ" =>
        \A i \in Active : LET l == jobs[i].original
                              places == {k \in 0 .. queue_count[l] - 1 : At(l, k) = i}
                          IN  /\ Cardinality(places) = 1
                              /\ \A k \in places, m \in Skip(l) : m < k => At(l, m) < i

\* "Rule 1: If Priority(A) > Priority(B), A runs before B"
RunsByPriority ==
    algorithm = "MLFQ" /\ Busy # {} =>
        \A i \in Active : jobs[At(Top, FirstActive(Top))].priority <= jobs[i].priority
=============================================================================
