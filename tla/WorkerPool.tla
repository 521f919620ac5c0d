----------------------------- MODULE WorkerPool -----------------------------
(***************************************************************************)
(* The task path of mini-job-system's thread pool (worker_pool.c): the     *)
(* bounded task queue, the per-type concurrency limits with their lazy     *)
(* registration, and the run of a task.  Only q_push, q_pop and the        *)
(* concurrency counters are under the queue's mutex; every access outside  *)
(* it is a step of its own.  How workers find their slot, and what the     *)
(* shutdown calls wait for, is module WorkerSlots.                         *)
(***************************************************************************)
EXTENDS Integers, Sequences, FiniteSets

CONSTANTS Workers,      \* the threads of the pool
          Main,         \* the thread that configures and stops it
          Capacity,     \* queue.capacity
          Tasks,        \* the submissions clients make, each at most once
          Types,        \* job types
          NoType,       \* job_type == NULL
          TypeOf,       \* the job type of each task
          Limits,       \* arguments of wp_set_concurrency_limit
          MaxTypes,     \* WP_MAX_JOB_TYPES
          None,         \* no task, no index (-1)
          LateLimits    \* are limits also set after the first submission?

Threads == Workers \cup {Main}
Entries == 0 .. MaxTypes - 1

ASSUME PoolAssumption ==
    /\ Main \notin Workers
    /\ IsFiniteSet(Workers)
    /\ Capacity \in Nat \ {0} /\ MaxTypes \in Nat \ {0}
    /\ NoType \notin Types
    /\ TypeOf \in [Tasks -> Types \cup {NoType}]
    /\ Limits \subseteq Nat
    /\ None \notin Int /\ None \notin Tasks
    /\ LateLimits \in BOOLEAN

VARIABLES
    pc,         \* where each thread is
    queue,      \* the FIFO content of the task ring
    task,       \* the task a worker took from the queue
    ci,         \* a worker's concurrency index
    want,       \* the type a thread looks up
    reg,        \* the index a thread registers or found
    job_type_names, job_type_count, max_concurrent, current,
    newmax,     \* argument of the limit call in progress
    stopping,   \* !running || shutting_down
    accepted,   \* history: the tasks q_push took
    done,       \* history: the tasks that ran
    limit       \* history: the limit a completed call has set

taskVars  == <<queue, task, accepted, done>>
tableVars == <<job_type_names, job_type_count, max_concurrent>>
callVars  == <<newmax, limit>>
vars == <<pc, taskVars, ci, want, reg, tableVars, current, callVars, stopping>>

Init ==
    /\ pc = [p \in Threads |-> IF p = Main THEN "serving" ELSE "loop"]
    /\ queue = <<>> /\ accepted = {} /\ done = {}
    /\ task = [w \in Workers |-> None]
    /\ ci = [w \in Workers |-> None]
    /\ want = [p \in Threads |-> NoType]
    /\ reg = [p \in Threads |-> 0]
    /\ job_type_names = [e \in Entries |-> NoType]
    /\ job_type_count = 0
    /\ max_concurrent = [e \in Entries |-> 0]
    /\ current = [e \in Entries |-> 0]
    /\ newmax = 0
    /\ limit = [y \in Types |-> 0]
    /\ stopping = FALSE

Goto(p, from, to) == pc[p] = from /\ pc' = [pc EXCEPT ![p] = to]

-----------------------------------------------------------------------------
(* The loop of worker_thread and q_pop.                                    *)

LoopForever(w) ==
    /\ Goto(w, "loop", "pop")
    /\ UNCHANGED <<taskVars, ci, want, reg, tableVars, current, callVars, stopping>>
Loop(w) ==
    /\ Goto(w, "loop", IF stopping THEN "exit" ELSE "pop")
    /\ UNCHANGED <<taskVars, ci, want, reg, tableVars, current, callVars, stopping>>

RestUnpopped == queue
Rest == Tail(queue)

\* A worker that found the queue empty waits for a signal or its timeout.
QPop(w) ==
    /\ pc[w] \in {"pop", "wait"} /\ queue # <<>>
    /\ pc' = [pc EXCEPT ![w] = "lookup"]
    /\ task' = [task EXCEPT ![w] = Head(queue)]
    /\ want' = [want EXCEPT ![w] = TypeOf[Head(queue)]]
    /\ ci' = [ci EXCEPT ![w] = None]
    /\ queue' = Rest
    /\ UNCHANGED <<accepted, done, reg, tableVars, current, callVars, stopping>>

QPopWaits(w) ==
    /\ Goto(w, "pop", "wait") /\ queue = <<>>
    /\ UNCHANGED <<taskVars, ci, want, reg, tableVars, current, callVars, stopping>>

QPopTimeout(w) ==
    /\ Goto(w, "wait", "loop")
    /\ UNCHANGED <<taskVars, ci, want, reg, tableVars, current, callVars, stopping>>

-----------------------------------------------------------------------------
(* find_concurrency_index, run by workers and clients without the lock.    *)

Matches(y) == {e \in Entries : e < job_type_count /\ job_type_names[e] = y}

\* The thread has its index e: a worker goes on to acquire, a client to set.
Found(p, e) ==
    /\ reg' = [reg EXCEPT ![p] = e]
    /\ \/ p = Main /\ pc' = [pc EXCEPT ![p] = "setmax"] /\ UNCHANGED ci
       \/ /\ p # Main
          /\ pc' = [pc EXCEPT ![p] = "acquire"]
          /\ ci' = [ci EXCEPT ![p] = e]

\* No type, or no room in the table: the worker runs the task unlimited, the
\* client's call fails.
NotFound(p) ==
    /\ \/ want[p] = NoType
       \/ Matches(want[p]) = {} /\ job_type_count >= MaxTypes
    /\ Goto(p, "lookup", IF p = Main THEN "serving" ELSE "run")
    /\ UNCHANGED <<ci, reg>>

FirstMatch(p) ==
    \E e \in Matches(want[p]) :
        /\ \A f \in Matches(want[p]) : e <= f
        /\ Found(p, e)

Lookup(p) ==
    /\ pc[p] = "lookup"
    /\ \/ NotFound(p)
       \/ want[p] # NoType /\ FirstMatch(p)
       \/ /\ want[p] # NoType /\ Matches(want[p]) = {} /\ job_type_count < MaxTypes
          /\ Goto(p, "lookup", "load")
          /\ UNCHANGED <<ci, reg>>
    /\ UNCHANGED <<taskVars, want, tableVars, current, callVars, stopping>>

\* i = pool->job_type_count++ is a load and a store.
RegLoad(p) ==
    /\ Goto(p, "load", "store")
    /\ reg' = [reg EXCEPT ![p] = job_type_count]
    /\ UNCHANGED <<taskVars, ci, want, tableVars, current, callVars, stopping>>

RegStore(p) ==
    /\ Goto(p, "store", "fill")
    /\ job_type_count' = reg[p] + 1
    /\ UNCHANGED <<taskVars, ci, want, reg, job_type_names, max_concurrent, current,
                   callVars, stopping>>

\* f[e] := v, where an index past the end of the table is written elsewhere.
Put(f, e, v) == [x \in Entries |-> IF x = e THEN v ELSE f[x]]

RegFill(p) ==
    /\ pc[p] = "fill"
    /\ Found(p, reg[p])
    /\ job_type_names' = Put(job_type_names, reg[p], want[p])
    /\ max_concurrent' = Put(max_concurrent, reg[p], 0)
    /\ current' = Put(current, reg[p], 0)
    /\ UNCHANGED <<taskVars, want, job_type_count, callVars, stopping>>

-----------------------------------------------------------------------------
(* The concurrency slot, the task and its acknowledgement, the release.    *)

HasRoomOffByOne(e) == max_concurrent[e] = 0 \/ current[e] <= max_concurrent[e]
HasRoom(e) == max_concurrent[e] = 0 \/ current[e] < max_concurrent[e]

Acquire(w) ==
    /\ ci[w] \in Entries /\ HasRoom(ci[w])
    /\ Goto(w, "acquire", "run")
    /\ current' = [current EXCEPT ![ci[w]] = @ + 1]
    /\ UNCHANGED <<taskVars, ci, want, reg, tableVars, callVars, stopping>>

Run(w) ==
    /\ Goto(w, "run", IF ci[w] = None THEN "loop" ELSE "release")
    /\ done' = done \cup {task[w]}
    /\ task' = [task EXCEPT ![w] = None]
    /\ UNCHANGED <<queue, accepted, ci, want, reg, tableVars, current, callVars, stopping>>

ReturnedNothing(w) == current
Returned(w) == [current EXCEPT ![ci[w]] = @ - 1]

Release(w) ==
    /\ Goto(w, "release", "loop")
    /\ current' = Returned(w)
    /\ ci' = [ci EXCEPT ![w] = None]
    /\ UNCHANGED <<taskVars, want, reg, tableVars, callVars, stopping>>

WorkerStep(w) ==
    \/ Loop(w) \/ QPop(w) \/ QPopWaits(w) \/ QPopTimeout(w)
    \/ Lookup(w) \/ RegLoad(w) \/ RegStore(w) \/ RegFill(w)
    \/ Acquire(w) \/ Run(w) \/ Release(w)

-----------------------------------------------------------------------------
(* The client's calls.                                                     *)

\* wp_submit is one critical section, from any thread; wp_submit_batch is a
\* sequence of them.  On a full queue it returns -1 and changes nothing.
Submit(t) ==
    /\ LateLimits \/ pc[Main] = "serving"
    /\ t \notin accepted
    /\ Len(queue) < Capacity
    /\ queue' = Append(queue, t)
    /\ accepted' = accepted \cup {t}
    /\ UNCHANGED <<pc, task, done, ci, want, reg, tableVars, current, callVars, stopping>>

\* wp_set_concurrency_limit: look the type up, register it if it is new, store
\* the limit, all without the lock.
SetLimit(y, m) ==
    /\ LateLimits \/ accepted = {}
    /\ Goto(Main, "serving", "lookup")
    /\ want' = [want EXCEPT ![Main] = y]
    /\ newmax' = m
    /\ UNCHANGED <<taskVars, ci, reg, tableVars, current, limit, stopping>>

SetMax ==
    /\ Goto(Main, "setmax", "serving")
    /\ max_concurrent' = Put(max_concurrent, reg[Main], newmax)
    /\ limit' = [limit EXCEPT ![want[Main]] = newmax]
    /\ UNCHANGED <<taskVars, ci, want, reg, job_type_names, job_type_count, current,
                   newmax, stopping>>

MainStep == SetMax \/ Lookup(Main) \/ RegLoad(Main) \/ RegStore(Main) \/ RegFill(Main)

\* wp_shutdown and wp_shutdown_graceful both end the loop of every worker.
Shutdown ==
    /\ pc[Main] = "serving" /\ ~stopping
    /\ stopping' = TRUE
    /\ UNCHANGED <<pc, taskVars, ci, want, reg, tableVars, current, callVars>>

Next ==
    \/ \E w \in Workers : WorkerStep(w)
    \/ \E t \in Tasks : Submit(t)
    \/ \E y \in Types, m \in Limits : SetLimit(y, m)
    \/ MainStep
    \/ Shutdown

Spec == Init /\ [][Next]_vars

\* Every thread keeps running and every task returns.
FairSpec == Spec /\ WF_vars(MainStep) /\ \A w \in Workers : WF_vars(WorkerStep(w))

-----------------------------------------------------------------------------
(* Properties                                                              *)

WorkerPCs == {"loop", "pop", "wait", "lookup", "load", "store", "fill",
              "acquire", "run", "release", "exit"}
MainPCs == {"serving", "lookup", "load", "store", "fill", "setmax"}

\* Type invariant: what each thread's locals and the shared tables of
\* worker_pool.c may hold, including an index one past the end of the table.
TypeOK ==
    /\ pc \in [Threads -> WorkerPCs \cup MainPCs]
    /\ \A w \in Workers : pc[w] \in WorkerPCs
    /\ pc[Main] \in MainPCs
    /\ queue \in Seq(Tasks) /\ accepted \subseteq Tasks /\ done \subseteq Tasks
    /\ task \in [Workers -> Tasks \cup {None}]
    /\ ci \in [Workers -> Nat \cup {None}]
    /\ want \in [Threads -> Types \cup {NoType}]
    /\ reg \in [Threads -> Nat]
    /\ job_type_names \in [Entries -> Types \cup {NoType}]
    /\ job_type_count \in Nat
    /\ max_concurrent \in [Entries -> Nat]
    /\ current \in [Entries -> Int]
    /\ newmax \in Nat /\ limit \in [Types -> Nat]
    /\ stopping \in BOOLEAN

Queued == {queue[i] : i \in DOMAIN queue}
Holding == {w \in Workers : pc[w] \in {"lookup", "load", "store", "fill", "acquire", "run"}}

\* A task that q_push accepted is at every moment in exactly one place: once in
\* the queue, in the hands of one worker between q_pop and its run, or run.
\* No interleaving of the workers runs it twice or loses it.
EachTaskOnce ==
    /\ \A i, j \in DOMAIN queue : queue[i] = queue[j] => i = j
    /\ \A v, w \in Holding : task[v] = task[w] => v = w
    /\ \A w \in Holding : task[w] \in accepted \ (Queued \cup done)
    /\ Queued \cap done = {}
    /\ accepted = Queued \cup done \cup {task[w] : w \in Holding}

RunningOf(y) == {w \in Workers : pc[w] = "run" /\ want[w] = y}

\* A limit that was set before the first submission is never exceeded: at most
\* that many tasks of the type run at the same time, however workers interleave
\* their look-ups, registrations of other types, acquisitions and releases.
LimitRespected ==
    \A y \in Types : limit[y] > 0 => Cardinality(RunningOf(y)) <= limit[y]

\* wp_submit hands every accepted task to a worker that runs it, unless the
\* pool is shut down first: a worker waiting for a slot of a limited type, or
\* for a signal it missed, does not wait for ever.
AcceptedTasksRun == \A t \in Tasks : t \in accepted ~> (t \in done \/ stopping)

\* Once the pool is told to stop every worker leaves its loop, so the joins of
\* worker_pool_destroy return.
WorkersStop == stopping ~> \A w \in Workers : pc[w] = "exit"
=============================================================================
