----------------------------- MODULE WorkerSlots -----------------------------
(***************************************************************************)
(* Start-up and shutdown of mini-job-system's thread pool (worker_pool.c). *)
(* worker_pool_create fills the slots and starts the threads while the     *)
(* threads already look for a slot of their own, and the shutdown calls    *)
(* read the slots the workers keep writing, all without a lock.  What a    *)
(* worker does between q_pop and marking itself busy is module WorkerPool; *)
(* here it holds a task or it does not.                                    *)
(***************************************************************************)
EXTENDS Integers, FiniteSets

CONSTANTS MaxWorkers,   \* pool->max_workers
          Main,         \* the thread that creates and destroys the pool
          None,         \* worker_id == -1
          Win32Builds   \* the builds checked: _WIN32 branches (TRUE), pthread ones (FALSE)

Slots == 0 .. MaxWorkers - 1
Threads == Slots \cup {Main}

ASSUME SlotsAssumption ==
    MaxWorkers \in Nat \ {0} /\ Main \notin Int /\ None \notin Int /\ Win32Builds \subseteq BOOLEAN

VARIABLES
    win32,          \* which branches this build compiled; never changes
    pc,             \* where each thread is
    next,           \* loop index of worker_pool_create
    worker_count,
    state,          \* workers[i].state
    scan,           \* loop index of a starting worker
    worker_id,      \* the slot a worker writes to
    stopping,       \* !running || shutting_down
    graceful        \* history: how wp_shutdown_graceful ended

vars == <<win32, pc, next, worker_count, state, scan, worker_id, stopping, graceful>>
createVars == <<win32, next, worker_count>>
claimVars == <<scan, worker_id>>

\* The pool is calloc'ed and WP_WORKER_ALIVE is 0: a slot the loop has not
\* reached yet reads ALIVE.
Init ==
    /\ win32 \in Win32Builds
    /\ pc = [p \in Threads |-> IF p = Main THEN "slot" ELSE "none"]
    /\ next = 0 /\ worker_count = 0
    /\ state = [i \in Slots |-> "ALIVE"]
    /\ scan = [w \in Slots |-> 0]
    /\ worker_id = [w \in Slots |-> None]
    /\ stopping = FALSE
    /\ graceful = "no"

Goto(p, from, to) == pc[p] = from /\ pc' = [pc EXCEPT ![p] = to]

-----------------------------------------------------------------------------
(* One iteration of worker_pool_create.  POSIX marks the slot ALIVE and    *)
(* then creates the thread; Win32 creates it and then marks the slot.      *)

AfterSlotThread == "thread"
AfterSlot == IF win32 THEN "thread" ELSE "alive"
EndIteration == IF next + 1 < MaxWorkers THEN "slot" ELSE "serving"

CreateSlot ==
    /\ Goto(Main, "slot", AfterSlot)
    /\ state' = [state EXCEPT ![next] = "EXIT"]
    /\ UNCHANGED <<createVars, claimVars, stopping, graceful>>

CreateAlive ==
    /\ Goto(Main, "alive", IF win32 THEN EndIteration ELSE "thread")
    /\ state' = [state EXCEPT ![next] = "ALIVE"]
    /\ worker_count' = worker_count + 1
    /\ next' = IF win32 THEN next + 1 ELSE next
    /\ UNCHANGED <<win32, claimVars, stopping, graceful>>

CreateThread ==
    /\ pc[Main] = "thread"
    /\ pc' = [pc EXCEPT ![next] = "scan",
                        ![Main] = IF win32 THEN "alive" ELSE EndIteration]
    /\ next' = IF win32 THEN next ELSE next + 1
    /\ UNCHANGED <<win32, worker_count, state, claimVars, stopping, graceful>>

\* No thread: Win32 leaves the slot EXIT and does not count it; POSIX, which ignores
\* what pthread_create returns, has marked and counted it.  The loop goes on.
CreateThreadFails ==
    /\ Goto(Main, "thread", EndIteration)
    /\ next' = next + 1
    /\ UNCHANGED <<win32, worker_count, state, claimVars, stopping, graceful>>

CreateStep == CreateSlot \/ CreateAlive \/ CreateThread \/ CreateThreadFails

-----------------------------------------------------------------------------
(* worker_thread: claim the first slot that reads ALIVE, then loop.        *)

Scan(w) ==
    /\ pc[w] = "scan"
    /\ \/ /\ scan[w] \in Slots /\ state[scan[w]] # "ALIVE"
          /\ scan' = [scan EXCEPT ![w] = @ + 1]
          /\ UNCHANGED pc
       \/ /\ scan[w] \in Slots /\ state[scan[w]] = "ALIVE"
          /\ Goto(w, "scan", "claim") /\ UNCHANGED scan
       \/ /\ scan[w] \notin Slots
          /\ Goto(w, "scan", "loop") /\ UNCHANGED scan
    /\ UNCHANGED <<createVars, state, worker_id, stopping, graceful>>

Claim(w) ==
    /\ Goto(w, "claim", "loop")
    /\ worker_id' = [worker_id EXCEPT ![w] = scan[w]]
    /\ state' = [state EXCEPT ![scan[w]] = "IDLE"]
    /\ UNCHANGED <<createVars, scan, stopping, graceful>>

\* workers[worker_id].state = s; with index -1 the write lands elsewhere.
SetStateKeepsBusy(w, s) ==
    state' = [i \in Slots |-> IF i = worker_id[w] /\ state[i] # "BUSY" THEN s ELSE state[i]]
SetState(w, s) ==
    state' = [i \in Slots |-> IF i = worker_id[w] THEN s ELSE state[i]]

Loop(w) ==
    /\ ~stopping
    /\ Goto(w, "loop", "pop")
    /\ SetState(w, "IDLE")
    /\ UNCHANGED <<createVars, claimVars, stopping, graceful>>

LeaveNever(w) == stopping /\ pc[w] = "loop" /\ UNCHANGED vars
Leave(w) ==
    /\ stopping
    /\ Goto(w, "loop", "exit")
    /\ SetState(w, "EXIT")
    /\ UNCHANGED <<createVars, claimVars, stopping, graceful>>

QPop(w) ==
    /\ Goto(w, "pop", "taken") \/ Goto(w, "pop", "loop")
    /\ UNCHANGED <<createVars, state, claimVars, stopping, graceful>>

Mark(w) ==
    /\ Goto(w, "taken", "run")
    /\ SetState(w, "BUSY")
    /\ UNCHANGED <<createVars, claimVars, stopping, graceful>>

Run(w) ==
    /\ Goto(w, "run", "loop")
    /\ UNCHANGED <<createVars, state, claimVars, stopping, graceful>>

WorkerStep(w) ==
    \/ Scan(w) \/ Claim(w) \/ Loop(w) \/ Leave(w) \/ QPop(w) \/ Mark(w) \/ Run(w)

-----------------------------------------------------------------------------
(* The owner's calls.                                                      *)

Shutdown ==
    /\ pc[Main] = "serving"
    /\ stopping' = TRUE
    /\ UNCHANGED <<pc, createVars, state, claimVars, graceful>>

ShutdownGraceful ==
    /\ Goto(Main, "serving", "graceful")
    /\ stopping' = TRUE
    /\ UNCHANGED <<createVars, state, claimVars, graceful>>

\* wp_busy_workers looks at the first worker_count slots.
BusyWorkers == {i \in Slots : i < worker_count /\ state[i] = "BUSY"}

\* The polling loop ends when no slot reads BUSY or when its time is up.
GracefulReturns ==
    /\ Goto(Main, "graceful", "serving")
    /\ graceful' = IF BusyWorkers = {} THEN "drained" ELSE "timeout"
    /\ UNCHANGED <<createVars, state, claimVars, stopping>>

\* worker_pool_destroy: wp_shutdown, then wait for the first worker_count threads.
Destroy ==
    /\ Goto(Main, "serving", "join")
    /\ stopping' = TRUE
    /\ UNCHANGED <<createVars, state, claimVars, graceful>>

\* The threads are joined in order.  Win32 skips a handle that is NULL; pthread_join is
\* given whatever the slot of a thread that never existed holds, and may return or crash.
Gone(w) == pc[w] \in {"none", "exit"}
JoinNobody(w) == ~win32 /\ w < worker_count /\ pc[w] = "none" /\ \A v \in Slots : v < w => Gone(v)
Join ==
    /\ \/ /\ \A w \in Slots : w < worker_count => Gone(w)
          /\ Goto(Main, "join", "done")
       \/ /\ \E w \in Slots : JoinNobody(w)
          /\ Goto(Main, "join", "crashed")
    /\ UNCHANGED <<createVars, state, claimVars, stopping, graceful>>

Next ==
    \/ CreateStep
    \/ \E w \in Slots : WorkerStep(w)
    \/ Shutdown \/ ShutdownGraceful \/ GracefulReturns
    \/ Destroy \/ Join

Spec == Init /\ [][Next]_vars

\* Threads keep running and tasks return.
FairSpec ==
    /\ Spec
    /\ WF_vars(CreateStep) /\ WF_vars(GracefulReturns) /\ WF_vars(Join)
    /\ \A w \in Slots : WF_vars(WorkerStep(w))

-----------------------------------------------------------------------------
(* Properties                                                              *)

\* Type invariant of the slots, the threads' locals and the flags.
TypeOK ==
    /\ pc \in [Threads -> {"slot", "alive", "thread", "serving", "graceful", "join",
                           "done", "crashed", "none", "scan", "claim", "loop", "pop", "taken",
                           "run", "exit"}]
    /\ next \in 0 .. MaxWorkers /\ worker_count \in 0 .. MaxWorkers
    /\ state \in [Slots -> {"ALIVE", "IDLE", "BUSY", "EXIT"}]
    /\ scan \in [Slots -> 0 .. MaxWorkers]
    /\ worker_id \in [Slots -> Slots \cup {None}]
    /\ stopping \in BOOLEAN /\ win32 \in BOOLEAN
    /\ graceful \in {"no", "drained", "timeout"}

\* In the pthread build a worker never enters its loop with worker_id == -1:
\* although two threads may claim the same slot, there is always an ALIVE slot
\* left for the next one.  (The Win32 build has no such order.)
SlotOwned ==
    ~win32 => \A w \in Slots : pc[w] \in {"loop", "pop", "taken", "run", "exit"} => worker_id[w] \in Slots

\* A slot reads BUSY only while a worker that writes to it is running a task or
\* has not yet gone through its loop head again, so wp_busy_workers never counts
\* a worker that waits or has left, and graceful shutdown never waits for nobody.
NoPhantomBusy ==
    \A i \in Slots : state[i] = "BUSY" =>
        \E w \in Slots : worker_id[w] = i /\ pc[w] \in {"run", "loop"}

\* worker_pool_destroy returns: every thread it joins leaves its loop.  Only a thread
\* pthread_create did not make may crash it.
DestroyReturns == pc[Main] = "join" ~> pc[Main] = "done" \/ (~win32 /\ \E w \in Slots : pc[w] = "none")

\* worker_pool_destroy frees the pool when no worker uses it any more: always in the
\* pthread build, and in the Win32 build if every CreateThread succeeded.  Otherwise
\* worker_count is less than the number of slots, and the threads of the last slots
\* are not waited for (worker_pool.c:291).
AllJoined == pc[Main] = "done" /\ (win32 => worker_count = MaxWorkers) => \A w \in Slots : Gone(w)

\* "Wait for running tasks, then shutdown": when wp_shutdown_graceful has returned
\* without running into its timeout, no worker holds or runs a task any more.
GracefulWaits ==
    graceful = "drained" => \A w \in Slots : pc[w] \notin {"taken", "run"}
=============================================================================
