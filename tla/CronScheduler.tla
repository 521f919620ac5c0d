---------------------------- MODULE CronScheduler ----------------------------
(***************************************************************************)
(* The cron scheduler of mini-job-system (cron_scheduler.c).  A time is a  *)
(* number of seconds; the calendar is cut down to seconds, minutes and     *)
(* hours of SecondsPer and MinutesPer units.  A field of an expression is  *)
(* {} for "*", or the set of its values, which the text lists in order.    *)
(***************************************************************************)
EXTENDS Integers, Sequences, SequencesExt, FiniteSetsExt

CONSTANTS Ids, MaxJobs,
          SecondsPer, MinutesPer,   \* 60 and 60 in the code
          Specs,                    \* expressions: [second, minute], sets of values
          MaxTime                   \* bound of the clock

VARIABLES now,
          jobs,    \* jobs[0 .. job_count), here from 1
          since,   \* time from which each job's firings are owed
          runs,    \* callbacks of each job since then
          ticked   \* time of the last cron_tick

vars == <<now, jobs, since, runs, ticked>>

Never == -1
MaxIterations == 2 * SecondsPer * MinutesPer

-----------------------------------------------------------------------------
(* cron_next_fire_time walks a broken-down time [h, m, s] forward.         *)

Broken(t) == [h |-> t \div (SecondsPer * MinutesPer),
              m |-> (t \div SecondsPer) % MinutesPer, s |-> t % SecondsPer]
MkTime(tm) == (tm.h * MinutesPer + tm.m) * SecondsPer + tm.s

FieldMatches(field, v) == field = {} \/ v \in field
Matches(expr, tm) == FieldMatches(expr.second, tm.s) /\ FieldMatches(expr.minute, tm.m)

\* cron_field_next is the next value of the field, or none and the walk carries
\* on at cron_field_first in the next minute.
FieldNext(field, v) == IF field = {} THEN {v + 1} ELSE {x \in field : x > v}
Wrap(tm) ==
    LET a == IF tm.s >= SecondsPer THEN [tm EXCEPT !.s = 0, !.m = @ + 1] ELSE tm
    IN  IF a.m >= MinutesPer THEN [a EXCEPT !.m = 0, !.h = @ + 1] ELSE a
AdvanceNoCarry(expr, tm) ==
    LET nexts == FieldNext(expr.second, tm.s)
    IN  Wrap(IF nexts = {} THEN [tm EXCEPT !.s = Min(expr.second)] ELSE [tm EXCEPT !.s = Min(nexts)])
Advance(expr, tm) ==
    LET nexts == FieldNext(expr.second, tm.s)
    IN  Wrap(IF nexts = {} THEN [tm EXCEPT !.s = Min(expr.second), !.m = @ + 1]
             ELSE [tm EXCEPT !.s = Min(nexts)])

RECURSIVE Walk(_, _, _)
Walk(expr, tm, iterations) ==
    IF iterations = 0 THEN Never
    ELSE IF Matches(expr, tm) THEN MkTime(tm)
    ELSE Walk(expr, Advance(expr, tm), iterations - 1)
NextFireTime(expr, from) == Walk(expr, Broken(from + 1), MaxIterations)

-----------------------------------------------------------------------------

Init ==
    /\ now = 0 /\ jobs = <<>> /\ ticked = 0
    /\ since = [id \in Ids |-> 0] /\ runs = [id \in Ids |-> 0]

Find(js, id) == SelectInSeq(js, LAMBDA j : j.id = id)
\* The last job takes the place of the removed one.
Removed(js, id) ==
    LET i == Find(js, id)
    IN  [k \in 1 .. Len(js) - 1 |-> IF k = i THEN Last(js) ELSE js[k]]
Forget(id) == since' = [since EXCEPT ![id] = 0] /\ runs' = [runs EXCEPT ![id] = 0]
OwedFromNow(id) == since' = [since EXCEPT ![id] = now] /\ runs' = [runs EXCEPT ![id] = 0]

Register(id, expr, catch_up) ==
    /\ Len(jobs) < MaxJobs /\ Find(jobs, id) = 0
    /\ jobs' = Append(jobs, [id |-> id, expr |-> expr, catch_up |-> catch_up, active |-> TRUE,
                             next_fire |-> NextFireTime(expr, now)])
    /\ OwedFromNow(id) /\ UNCHANGED <<now, ticked>>

\* cron_register_job of a known id only removes the job, like cron_unregister_job.
RegisterAgain(id) ==
    /\ Len(jobs) < MaxJobs /\ Find(jobs, id) # 0
    /\ jobs' = Removed(jobs, id) /\ Forget(id) /\ UNCHANGED <<now, ticked>>
Unregister(id) ==
    /\ Find(jobs, id) # 0
    /\ jobs' = Removed(jobs, id) /\ Forget(id) /\ UNCHANGED <<now, ticked>>

\* Waking a job up forgets the firings it missed.
ActivateJob(id, active) ==
    LET i == Find(jobs, id)
    IN  /\ i # 0
        /\ jobs' = [jobs EXCEPT ![i].active = active,
                                ![i].next_fire = IF active THEN NextFireTime(jobs[i].expr, now) ELSE @]
        /\ OwedFromNow(id) /\ UNCHANGED <<now, ticked>>

-----------------------------------------------------------------------------
(* cron_tick                                                               *)

\* The firings after t up to now that catch-up makes good.
RECURSIVE Missed(_, _)
Missed(expr, t) ==
    LET next == NextFireTime(expr, t)
    IN  IF next = Never \/ next > now THEN 0 ELSE 1 + Missed(expr, next)
Callbacks(j) == IF j.catch_up THEN 1 + Missed(j.expr, j.next_fire) ELSE 1

Rescheduled(j) ==
    LET next == NextFireTime(j.expr, now)
    IN  [j EXCEPT !.next_fire = next, !.active = (next # Never)]

\* The loop at index i.
RECURSIVE Scan(_, _, _)
Scan(js, i, ran) ==
    IF i > Len(js) THEN [jobs |-> js, runs |-> ran]
    ELSE LET j == js[i]
         IN  IF ~j.active \/ now < j.next_fire THEN Scan(js, i + 1, ran)
             ELSE Scan([js EXCEPT ![i] = Rescheduled(@)], i + 1, [ran EXCEPT ![j.id] = @ + Callbacks(j)])

CronTick ==
    LET done == Scan(jobs, 1, runs)
    IN  jobs' = done.jobs /\ runs' = done.runs /\ ticked' = now /\ UNCHANGED <<now, since>>

Tick == now < MaxTime /\ now' = now + 1 /\ UNCHANGED <<jobs, since, runs, ticked>>

Next ==
    \/ \E id \in Ids : \/ \E expr \in Specs, c \in BOOLEAN : Register(id, expr, c)
                       \/ RegisterAgain(id) \/ Unregister(id)
                       \/ \E a \in BOOLEAN : ActivateJob(id, a)
    \/ CronTick \/ Tick

Spec == Init /\ [][Next]_vars

-----------------------------------------------------------------------------
(* Properties                                                              *)

\* Type invariant.
TypeOK ==
    /\ Len(jobs) <= MaxJobs /\ ticked \in 0 .. now
    /\ \A i \in DOMAIN jobs : jobs[i].id \in Ids /\ jobs[i].next_fire \in Nat \cup {Never}

\* The times after a and up to b at which expr fires.
Firings(expr, a, b) == {t \in a + 1 .. b : Matches(expr, Broken(t))}

\* Every job waits for the first matching time after its last firing, and a job
\* that catches up has run once for every matching time up to the last tick,
\* however far the ticks lay apart; the others at most once per matching time.
FiresOnSchedule ==
    \A i \in DOMAIN jobs : jobs[i].active =>
        LET j == jobs[i]
            from == IF since[j.id] > ticked THEN since[j.id] ELSE ticked
            owed == Cardinality(Firings(j.expr, since[j.id], ticked))
        IN  /\ Firings(j.expr, from, j.next_fire) = {j.next_fire}
            /\ IF j.catch_up THEN runs[j.id] = owed ELSE runs[j.id] <= owed
=============================================================================
