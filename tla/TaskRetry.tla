------------------------------ MODULE TaskRetry ------------------------------
(***************************************************************************)
(* Retries with exponential backoff and dead letters in mini-job-system    *)
(* (task_retry.c).  The caller drives the loop: it triggers a retry, the   *)
(* task runs, and the caller reports the result of that run.               *)
(***************************************************************************)
EXTENDS Integers, Sequences, FiniteSets, SequencesExt

CONSTANTS Jobs, Capacity, DeadLetterMax,
          MaxRetries,   \* arguments max_retries of tr_register
          Bases,        \* arguments base_delay_ms of tr_register
          MaxDelay,     \* TR_MAX_DELAY_MS
          MaxJitter,    \* TR_MAX_JITTER_MS
          Word,         \* 2^64 in the code: where uint64_t wraps
          Second,       \* milliseconds in a second
          MaxTime       \* bound of the clock

VARIABLES now,
          entries,       \* the table, by job id: the registered jobs' records
          dead_letters,  \* job ids, oldest first
          runs,          \* runs of the task since it was registered
          unreported,    \* jobs whose run has not been reported
          buried         \* jobs that gave up, whose callback is still due

vars == <<now, entries, dead_letters, runs, unreported, buried>>

Registered == DOMAIN entries

Init ==
    /\ now = 0 /\ entries = <<>> /\ dead_letters = <<>>
    /\ runs = [j \in Jobs |-> 0] /\ unreported = {} /\ buried = {}

\* tr_calc_delay: the doubling stops at the cap; adding the jitter is unsigned.
Backoff[n \in Nat, b \in Nat] ==
    IF n = 0 THEN b
    ELSE IF 2 * Backoff[n - 1, b] > MaxDelay THEN MaxDelay ELSE 2 * Backoff[n - 1, b]
Clamp(d) == IF d < 1 THEN 1 ELSE IF d > MaxDelay THEN MaxDelay ELSE d
CalcDelay(n, b, jitter) == Clamp((Backoff[n, b] + jitter) % Word)

\* A full table refuses to register a known job again; next_retry_at survives
\* the registration of a known job.
Register(j, m, b) ==
    /\ Cardinality(Registered) < Capacity
    /\ j \notin unreported \cup buried
    /\ entries' = [x \in Registered \cup {j} |->
                     IF x = j THEN [max_retries |-> m, base |-> b, retry_count |-> 0,
                                    delay |-> b, exhausted |-> FALSE,
                                    next_retry_at |-> IF j \in Registered
                                                      THEN entries[j].next_retry_at ELSE 0]
                     ELSE entries[x]]
    /\ runs' = [runs EXCEPT ![j] = 0]
    /\ UNCHANGED <<now, dead_letters, unreported, buried>>

CanRetry(j) == ~entries[j].exhausted /\ entries[j].next_retry_at <= now

TriggerRetry(j) ==
    /\ j \in Registered \ unreported /\ CanRetry(j)
    /\ runs' = [runs EXCEPT ![j] = @ + 1]
    /\ unreported' = unreported \cup {j}
    /\ UNCHANGED <<now, entries, dead_letters, buried>>

\* tr_report_result: success, or an error outside retry_on_codes.
ReportDone(j) ==
    /\ j \in unreported
    /\ entries' = [entries EXCEPT ![j].exhausted = TRUE]
    /\ unreported' = unreported \ {j}
    /\ UNCHANGED <<now, dead_letters, runs, buried>>

GivesUpLate(e) == e.retry_count > e.max_retries
GivesUp(e) == e.retry_count >= e.max_retries

ReportGiveUp(j) ==
    /\ j \in unreported /\ GivesUp(entries[j])
    /\ entries' = [entries EXCEPT ![j].exhausted = TRUE]
    /\ dead_letters' = IF Len(dead_letters) < DeadLetterMax THEN Append(dead_letters, j)
                       ELSE dead_letters
    /\ unreported' = unreported \ {j} /\ buried' = buried \cup {j}
    /\ UNCHANGED <<now, runs>>

ReportRetry(j) ==
    LET n == entries[j].retry_count + 1
    IN  /\ j \in unreported /\ ~GivesUp(entries[j])
        /\ \E jitter \in 1 - MaxJitter .. MaxJitter - 1 :
             LET delay == CalcDelay(n, entries[j].base, jitter)
                 wait == IF delay < Second THEN 1 ELSE delay \div Second
             IN  entries' = [entries EXCEPT ![j].retry_count = n, ![j].delay = delay,
                                            ![j].next_retry_at = now + wait]
        /\ unreported' = unreported \ {j}
        /\ UNCHANGED <<now, dead_letters, runs, buried>>

\* tr_process_dead_letters: one callback per letter, then the list is empty.
ProcessDeadLetters ==
    /\ buried' = buried \ ToSet(dead_letters)
    /\ dead_letters' = <<>>
    /\ UNCHANGED <<now, entries, runs, unreported>>

Tick == now < MaxTime /\ now' = now + 1
        /\ UNCHANGED <<entries, dead_letters, runs, unreported, buried>>

Next ==
    \/ \E j \in Jobs : \/ \E m \in MaxRetries, b \in Bases : Register(j, m, b)
                       \/ TriggerRetry(j) \/ ReportDone(j) \/ ReportGiveUp(j) \/ ReportRetry(j)
    \/ ProcessDeadLetters \/ Tick

Spec == Init /\ [][Next]_vars

-----------------------------------------------------------------------------
(* Properties                                                              *)

\* Type invariant.
TypeOK ==
    /\ Registered \subseteq Jobs /\ Cardinality(Registered) <= Capacity
    /\ Len(dead_letters) <= DeadLetterMax
    /\ unreported \subseteq Registered /\ buried \subseteq Registered

\* A job that gave up ran 1 + max_retries times, a job that may go on ran less
\* often, and its letter waits for tr_process_dead_letters exactly once: letters
\* of jobs that are not registered again before their callback cannot be dropped.
GivesUpInTime ==
    /\ \A j \in Registered : LET e == entries[j]
                             IN  /\ runs[j] <= 1 + e.max_retries
                                 /\ j \in buried => runs[j] = 1 + e.max_retries
                                 /\ ~e.exhausted => runs[j] <= e.retry_count + 1
    /\ IsInjective(dead_letters) /\ ToSet(dead_letters) = buried

\* "delay = base * 2^retry_count, capped at 1 hour", "uniform random +/- 50ms".
BackoffNear ==
    \A j \in Registered : LET e == entries[j]
                              ideal == Backoff[e.retry_count, e.base]
                          IN  e.delay - ideal < MaxJitter /\ ideal - e.delay < MaxJitter
=============================================================================
