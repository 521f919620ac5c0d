---------------------------- MODULE Coordinator ----------------------------
(***************************************************************************)
(* mini-job-system/src/job_coordinator.c: one thread, Main, submits jobs,  *)
(* ticks, drains and stops; the pool's workers run the submitted ones.     *)
(* Whoever runs a job goes through jc_execute_wrapper, which counts the    *)
(* result without a lock (a load and a store) and frees the wrapper.       *)
(*                                                                         *)
(* The subsystems appear by what they promise: the pool is a bounded FIFO  *)
(* queue (WorkerPool), the delayed queue a set of timers (TimerSet), cron  *)
(* a set of jobs that are due again and again, the priority scheduler a    *)
(* set it picks from; a breaker and a limiter admit or refuse.  Every job  *)
(* has an id of its own.  Nothing enters the retry system the coordinator  *)
(* creates, so that the tr_process_dead_letters of jc_tick finds nothing.  *)
(***************************************************************************)
EXTENDS Naturals, Sequences, FiniteSets, SequencesExt

CONSTANTS Main, Workers,
          Wrappers,     \* one per job, of any of the four kinds
          Jobs,         \* jobs for jc_submit_job and its guarded variants
          Delayed,      \* jobs for jc_schedule_delayed
          Ranked,       \* jobs for jc_submit_priority
          Crons,        \* jobs for jc_schedule_cron
          QueueSize, Results, MaxFires,  \* bound: firings of cron jobs
          None

VARIABLES state,        \* jc->state
          queue,        \* the pool's queue of wrappers
          stopping,     \* wp_shutdown was called
          timers, ranked, crons,   \* wrappers in the three schedulers
          heap,         \* heap[w]: "none", "live" or "freed"
          pc, cur, reg, \* per thread: its place, its wrapper, the value it loaded
          result,       \* the result of the job a thread runs
          stats,        \* stats.total_*, by result
          phase,        \* where Main is: between calls, in jc_tick or in jc_drain
          due,          \* cron wrappers the current cron_tick still has to run
          accepted,     \* history: jobs jc_submit_job returned 0 for
          runs, counted,\* history: runs of each wrapper, and results counted since the last reset
          raced,        \* history: that reset came between an increment's load and its store
          misused,      \* history: wrappers used after they were freed
          fires

schedulers == <<timers, ranked, crons>>
threads == <<pc, cur, reg, result>>
history == <<accepted, runs, counted, raced, misused, fires>>
vars == <<state, queue, stopping, schedulers, heap, threads, stats, phase, due, history>>

Threads == Workers \cup {Main}
Counters == Results \cap {"SUCCESS", "FAILED", "RETRY", "REJECTED", "SKIPPED"}

Init ==
    /\ state = "IDLE" /\ queue = <<>> /\ stopping = FALSE
    /\ timers = {} /\ ranked = {} /\ crons = {}
    /\ heap = [w \in Wrappers |-> "none"]
    /\ pc = [t \in Threads |-> "idle"] /\ cur = [t \in Threads |-> None]
    /\ reg = [t \in Threads |-> 0] /\ result = [t \in Threads |-> None]
    /\ stats = [r \in Counters |-> 0]
    /\ phase = "idle" /\ due = {}
    /\ accepted = {} /\ runs = [w \in Wrappers |-> 0] /\ counted = [r \in Counters |-> 0]
    /\ raced = FALSE /\ misused = {} /\ fires = 0

Between == phase = "idle" /\ pc[Main] = "idle"
Alive == phase # "crashed"
Used(w) == IF heap[w] = "freed" THEN misused \cup {w} ELSE misused
----------------------------------------------------------------------------
(* jc_execute_wrapper, by any thread.                                      *)

\* The job function returns.  A wrapper that was freed may still hold what it held.
Execute(t, w) ==
    /\ misused' = Used(w)
    /\ cur' = [cur EXCEPT ![t] = w]
    /\ runs' = [runs EXCEPT ![w] = @ + 1]
    /\ \E r \in Results :
        /\ result' = [result EXCEPT ![t] = r]
        /\ pc' = [pc EXCEPT ![t] = IF r \in Counters THEN "load" ELSE "free"]

Load(t) ==
    /\ pc[t] = "load" /\ Alive
    /\ reg' = [reg EXCEPT ![t] = stats[result[t]]]
    /\ counted' = [counted EXCEPT ![result[t]] = @ + 1]
    /\ pc' = [pc EXCEPT ![t] = "store"]
    /\ UNCHANGED <<state, queue, stopping, schedulers, heap, cur, result, stats, phase, due,
                   accepted, runs, raced, misused, fires>>

\* Mutant: the loaded value is counted twice.
StoreTwice(t) ==
    /\ pc[t] = "store" /\ Alive
    /\ stats' = [stats EXCEPT ![result[t]] = reg[t] + 2]
    /\ pc' = [pc EXCEPT ![t] = "free"]
    /\ UNCHANGED <<state, queue, stopping, schedulers, heap, cur, reg, result, phase, due, history>>

Store(t) ==
    /\ pc[t] = "store" /\ Alive
    /\ stats' = [stats EXCEPT ![result[t]] = reg[t] + 1]
    /\ pc' = [pc EXCEPT ![t] = "free"]
    /\ UNCHANGED <<state, queue, stopping, schedulers, heap, cur, reg, result, phase, due, history>>

\* on_complete is told, and the wrapper freed.
Free(t) ==
    /\ pc[t] = "free" /\ Alive
    /\ heap' = [heap EXCEPT ![cur[t]] = "freed"]
    /\ misused' = Used(cur[t])
    /\ pc' = [pc EXCEPT ![t] = "idle"] /\ cur' = [cur EXCEPT ![t] = None]
    /\ reg' = [reg EXCEPT ![t] = 0] /\ result' = [result EXCEPT ![t] = None]
    /\ UNCHANGED <<state, queue, stopping, schedulers, stats, phase, due, accepted, runs, counted, raced, fires>>

\* Once freed memory was used, the process may die.
Crash ==
    /\ misused # {} /\ Alive
    /\ phase' = "crashed"
    /\ UNCHANGED <<state, queue, stopping, schedulers, heap, threads, stats, due, history>>

\* Mutant: the worker pops the task and does not run it.
TakeStuck(t) ==
    /\ t \in Workers /\ pc[t] = "idle" /\ queue # <<>> /\ ~stopping /\ Alive
    /\ queue' = Tail(queue)
    /\ UNCHANGED <<state, stopping, schedulers, heap, threads, stats, phase, due, history>>

\* A worker of the pool takes the oldest task; it leaves once it is told to stop.
Take(t) ==
    /\ t \in Workers /\ pc[t] = "idle" /\ queue # <<>> /\ ~stopping /\ Alive
    /\ Execute(t, Head(queue))
    /\ queue' = Tail(queue)
    /\ UNCHANGED <<state, stopping, schedulers, heap, reg, stats, phase, due, accepted, counted, raced, fires>>
----------------------------------------------------------------------------
(* Submission.                                                             *)

Enqueue(w) ==
    /\ heap' = [heap EXCEPT ![w] = "live"]
    /\ queue' = Append(queue, w)
    /\ accepted' = accepted \cup {w}

SubmitJob(w) ==
    /\ Between /\ w \in Jobs /\ heap[w] = "none"
    /\ state = "RUNNING" /\ Len(queue) < QueueSize
    /\ Enqueue(w)
    /\ UNCHANGED <<state, stopping, schedulers, threads, stats, phase, due, runs, counted, raced, misused, fires>>

\* Refused by the breaker or by the limiter, whatever the state.  Main is the
\* thread that counts, with a load and a store.
Refuse ==
    /\ Between /\ "REJECTED" \in Counters
    /\ counted["REJECTED"] < Cardinality(Jobs)    \* bound
    /\ reg' = [reg EXCEPT ![Main] = stats["REJECTED"]]
    /\ counted' = [counted EXCEPT !["REJECTED"] = @ + 1]
    /\ phase' = "refusing"
    /\ UNCHANGED <<state, queue, stopping, schedulers, heap, pc, cur, result, stats, due, accepted, runs, raced, misused, fires>>

Refused ==
    /\ phase = "refusing"
    /\ stats' = [stats EXCEPT !["REJECTED"] = reg[Main] + 1]
    /\ reg' = [reg EXCEPT ![Main] = 0]
    /\ phase' = "idle"
    /\ UNCHANGED <<state, queue, stopping, schedulers, heap, pc, cur, result, due, history>>

\* jc_submit_dag: the ready nodes with a function, as long as they are accepted.
SubmitDag(ready) ==
    /\ Between /\ ready # <<>> /\ \A w \in ToSet(ready) : w \in Jobs /\ heap[w] = "none"
    /\ LET room == IF state = "RUNNING" THEN QueueSize - Len(queue) ELSE 0
           taken == SubSeq(ready, 1, IF Len(ready) < room THEN Len(ready) ELSE room)
       IN /\ heap' = [w \in Wrappers |-> IF w \in ToSet(taken) THEN "live" ELSE heap[w]]
          /\ queue' = queue \o taken
          /\ accepted' = accepted \cup ToSet(taken)
    /\ UNCHANGED <<state, stopping, schedulers, threads, stats, phase, due, runs, counted, raced, misused, fires>>

\* Scheduling does not look at the state.  When the scheduler is full or does not
\* understand the cron expression the call fails, and nobody frees the wrapper.
Schedule(w) ==
    /\ Between /\ w \in Delayed \cup Ranked \cup Crons /\ heap[w] = "none"
    /\ heap' = [heap EXCEPT ![w] = "live"]
    /\ \/ /\ timers' = IF w \in Delayed THEN timers \cup {w} ELSE timers
          /\ ranked' = IF w \in Ranked THEN ranked \cup {w} ELSE ranked
          /\ crons' = IF w \in Crons THEN crons \cup {w} ELSE crons
       \/ UNCHANGED schedulers
    /\ UNCHANGED <<state, queue, stopping, threads, stats, phase, due, history>>
----------------------------------------------------------------------------
(* jc_tick.                                                                *)

\* Any cron jobs may be due.
TickStart ==
    /\ Between /\ state = "RUNNING"
    /\ phase' = "cron"
    /\ \E d \in SUBSET crons : /\ fires + Cardinality(d) <= MaxFires /\ due' = d
                               /\ fires' = fires + Cardinality(d)
    /\ UNCHANGED <<state, queue, stopping, schedulers, heap, threads, stats, accepted, runs, counted, raced, misused>>

\* The wrapper stays registered, also after jc_execute_wrapper freed it; a job that
\* catches up is called again at once.
TickCron ==
    /\ phase = "cron" /\ pc[Main] = "idle"
    /\ \/ /\ due = {} /\ phase' = "delayed"
          /\ UNCHANGED <<threads, due, runs, misused, fires>>
       \/ \E w \in due : /\ Execute(Main, w)
                         /\ \/ due' = due \ {w} /\ UNCHANGED fires
                            \/ fires < MaxFires /\ fires' = fires + 1 /\ UNCHANGED due
                         /\ UNCHANGED <<reg, phase>>
    /\ UNCHANGED <<state, queue, stopping, schedulers, heap, stats, accepted, counted, raced>>

\* Timers that are due run; when the rest are not, the loop ends.
TickDelayed ==
    /\ phase = "delayed" /\ pc[Main] = "idle"
    /\ \/ /\ phase' = "priority" /\ UNCHANGED <<threads, timers, runs, misused>>
       \/ \E w \in timers : /\ Execute(Main, w) /\ timers' = timers \ {w}
                            /\ UNCHANGED <<reg, phase>>
    /\ UNCHANGED <<state, queue, stopping, ranked, crons, heap, stats, due, accepted, counted, raced, fires>>

\* At most one job of the priority scheduler per tick.
TickPriority ==
    /\ phase = "priority" /\ pc[Main] = "idle"
    /\ phase' = "idle"
    /\ \/ ranked = {} /\ UNCHANGED <<threads, ranked, runs, misused>>
       \/ \E w \in ranked : /\ Execute(Main, w) /\ ranked' = ranked \ {w}
                            /\ UNCHANGED reg
    /\ UNCHANGED <<state, queue, stopping, timers, crons, heap, stats, due, accepted, counted, raced, fires>>
----------------------------------------------------------------------------
(* Life cycle.                                                             *)

\* jc_start looks at nothing: it also starts a coordinator whose pool was shut down.
Start ==
    /\ Between
    /\ state' = "RUNNING"
    /\ UNCHANGED <<queue, stopping, schedulers, heap, threads, stats, phase, due, history>>

Stop ==
    /\ Between
    /\ state' = "STOPPED" /\ stopping' = TRUE
    /\ UNCHANGED <<queue, schedulers, heap, threads, stats, phase, due, history>>

\* jc_tick returns at once while draining; the loop ends when the pool has no
\* pending task, or by its timeout.
DrainStart ==
    /\ Between
    /\ state' = "DRAINING" /\ phase' = "draining"
    /\ UNCHANGED <<queue, stopping, schedulers, heap, threads, stats, due, history>>

DrainEnd ==
    /\ phase = "draining"
    /\ state' = "STOPPED" /\ phase' = "idle"
    /\ UNCHANGED <<queue, stopping, schedulers, heap, threads, stats, due, history>>

\* Without a lock: a worker that has loaded a counter stores the old one's successor.
ResetStats ==
    /\ Between
    /\ stats' = [r \in Counters |-> 0] /\ counted' = stats'
    /\ raced' = \E t \in Workers : pc[t] = "store"
    /\ UNCHANGED <<state, queue, stopping, schedulers, heap, threads, phase, due, accepted, runs, misused, fires>>

WorkerStep(t) == Take(t) \/ (t \in Workers /\ (Load(t) \/ Store(t) \/ Free(t)))
MainExecutes == Load(Main) \/ Store(Main) \/ Free(Main)
Calls == \/ \E w \in Wrappers : SubmitJob(w) \/ Schedule(w)
         \/ \E ready \in {s \in SeqOf(Jobs, 2) : IsInjective(s)} : SubmitDag(ready)
         \/ Refuse \/ Start \/ Stop \/ DrainStart \/ ResetStats
Tick == TickStart \/ TickCron \/ TickDelayed \/ TickPriority
MainStep == MainExecutes \/ Refused \/ Tick \/ DrainEnd

Next == Calls \/ MainStep \/ Crash \/ \E t \in Workers : WorkerStep(t)

\* A timer that comes due while jc_tick looks at the delayed queue.
TickRunsTimer == TickDelayed /\ phase' = phase
----------------------------------------------------------------------------
Waiting == ToSet(queue) \cup timers \cup ranked

\* jc_execute_wrapper frees what it runs.  Until a cron job fires for the second
\* time, no order of submissions, starts, ticks, drains and workers uses freed
\* memory: every wrapper runs at most once, one that waits is live and has not run,
\* one that a thread has is live and no other thread's; and nothing but that second
\* firing, whose wrapper the first one freed (job_coordinator.c:184, 320), ever uses
\* it.  The counters, incremented without a lock, may miss results but never show
\* more than came since the last reset, unless a worker was between its load and its
\* store then.
WrappersOnce ==
    /\ misused \subseteq Crons
    /\ misused = {} =>
        /\ \A w \in Wrappers : runs[w] <= 1
        /\ \A w \in Waiting : heap[w] = "live" /\ runs[w] = 0
        /\ \A t \in Threads : cur[t] # None => heap[cur[t]] = "live"
        /\ \A t, u \in Threads : t # u /\ cur[t] # None => cur[t] # cur[u]
    /\ ~raced => \A r \in Counters : stats[r] <= counted[r]

\* A job that jc_submit_job accepted runs, also while the coordinator drains,
\* unless the pool is stopped first; a delayed or ranked job runs unless the
\* coordinator leaves RUNNING first (jc_drain does not wait for those).  Only the
\* death of the process after a cron job's second firing prevents it.
JobsRun ==
    /\ \A w \in Jobs : w \in accepted ~> (runs[w] > 0 \/ stopping \/ phase = "crashed")
    /\ \A w \in Delayed \cup Ranked :
        (w \in Waiting /\ state = "RUNNING") ~> (runs[w] > 0 \/ state # "RUNNING" \/ phase = "crashed")
============================================================================
