--------------------------- MODULE MCCoordinator ---------------------------
(* The concurrent parts of mini-job-system: the slots of the thread pool,  *)
(* which this module extends; the coordinator in two instances, one with   *)
(* refusals and a race between Main and a worker, one with all the         *)
(* schedulers; and a progress record.  They share no state: the one that   *)
(* active names moves.                                                     *)
EXTENDS WorkerSlots, Sequences, FiniteSetTheorems, TLAPS

CONSTANT Workers

ASSUME CoordinatorAssumption == Main \notin Workers /\ None \notin 1 .. 5

VARIABLES active,
          \* Coordinator
          jc_state, queue, jc_stopping, timers, ranked, crons, heap, jc_pc, cur, reg, result, stats, phase, due,
          accepted, runs, counted, raced, misused, fires,
          \* JobProgress
          jp, now

A == INSTANCE CoordinatorProofs WITH
        Wrappers <- 1 .. 5, Jobs <- {1, 2}, Delayed <- {}, Ranked <- {}, Crons <- {}, QueueSize <- 1,
        Results <- {"SUCCESS", "REJECTED"}, MaxFires <- 0,
        state <- jc_state, pc <- jc_pc, stopping <- jc_stopping
B == INSTANCE CoordinatorProofs WITH
        Wrappers <- 1 .. 5, Jobs <- {1}, Delayed <- {3}, Ranked <- {4}, Crons <- {5}, QueueSize <- 1,
        Results <- {"SUCCESS", "TIMEOUT"}, MaxFires <- 2,
        state <- jc_state, pc <- jc_pc, stopping <- jc_stopping
P == INSTANCE JobProgress WITH
        Orderly <- TRUE, Totals <- {0, 2}, Steps <- 0 .. 3, MaxLog <- 2, MaxTime <- 2

jcVars == <<jc_state, queue, jc_stopping, timers, ranked, crons, heap, jc_pc, cur, reg, result, stats, phase, due,
            accepted, runs, counted, raced, misused, fires>>
jpVars == <<jp, now>>
allVars == <<active, vars, jcVars, jpVars>>

CoordinatorInit ==
    /\ \/ active \in {"slots", "submit", "progress"} /\ A!Init
       \/ active = "schedule" /\ B!Init
    /\ P!Init
    /\ Init /\ (win32 => active = "slots")

OnlySlots == active = "slots" /\ UNCHANGED <<active, jcVars, jpVars>>
OnlyA == active = "submit" /\ UNCHANGED <<active, vars, jpVars>>
OnlyB == active = "schedule" /\ UNCHANGED <<active, vars, jpVars>>
OnlyProgress == active = "progress" /\ UNCHANGED <<active, vars, jcVars>>

CoordinatorNext ==
    \/ OnlySlots /\ Next
    \/ OnlyA /\ A!Next
    \/ OnlyB /\ B!Next
    \/ OnlyProgress /\ P!Next

\* Every thread runs and its tasks return, the owner keeps ticking while it runs
\* the coordinator, and timers come due.
Fairness ==
    /\ WF_allVars(OnlySlots /\ CreateStep) /\ WF_allVars(OnlySlots /\ GracefulReturns) /\ WF_allVars(OnlySlots /\ Join)
    /\ \A w \in Slots : WF_allVars(OnlySlots /\ WorkerStep(w))
    /\ WF_allVars(OnlyA /\ A!MainStep) /\ WF_allVars(OnlyB /\ B!MainStep)
    /\ SF_allVars(OnlyA /\ A!TickStart) /\ SF_allVars(OnlyB /\ B!TickStart)
    /\ SF_allVars(OnlyB /\ B!TickRunsTimer)
    /\ \A t \in Workers : WF_allVars(OnlyA /\ A!WorkerStep(t)) /\ WF_allVars(OnlyB /\ B!WorkerStep(t))

CoordinatorSpec == CoordinatorInit /\ [][CoordinatorNext]_allVars /\ Fairness

\* The pool is freed after its last worker left; wrappers are used once, up to a cron
\* job's second firing, and counted at most once; and a progress record and its log
\* stay within their bounds.
CoordinatorSound ==
    /\ active = "slots" => TypeOK /\ AllJoined
    /\ active = "submit" => A!WrappersOnce
    /\ active = "schedule" => B!WrappersOnce
    /\ active = "progress" => P!ProgressSound

\* What the coordinator accepts runs.
JobsRun == (active = "submit" => A!JobsRun) /\ (active = "schedule" => B!JobsRun)
----------------------------------------------------------------------------
(* The slots, for every number of workers and both builds: types, that no  *)
(* slot reads BUSY for nobody, and that in the pthread build no worker     *)
(* runs without a slot.                                                    *)

MainPCs == {"slot", "alive", "thread", "serving", "graceful", "join", "done", "crashed"}
LoopPCs == {"loop", "pop", "taken", "run", "exit"}
WorkerPCs == {"none", "scan", "claim"} \cup LoopPCs

\* Threads below this index exist.
Created == IF win32 /\ pc[Main] = "alive" THEN next + 1 ELSE next

\* Slots whose worker_count++ has happened.
Counted == IF ~win32 /\ pc[Main] = "thread" THEN next + 1 ELSE next

\* How far worker_pool_create is.
CreateInv ==
    /\ pc[Main] \in MainPCs
    /\ pc[Main] \in {"slot", "alive", "thread"} => next < MaxWorkers
    /\ worker_count <= Counted
    /\ \A w \in Slots : pc[w] \in WorkerPCs
    /\ \A w \in Slots : w >= Created => pc[w] = "none"
    /\ \A w \in Slots : pc[w] = "claim" => scan[w] \in Slots

TypeInv == TypeOK /\ CreateInv

\* In the pthread build a slot is ALIVE before its thread exists, so a starting
\* worker stays below the slots already filled; every slot that is taken there
\* is some other worker's.
FilledFirst == pc[Main] = "thread" => state[next] = "ALIVE"
ScanBehind ==
    \A w \in Slots : pc[w] \in {"scan", "claim"} =>
        scan[w] < next /\ \A i \in Slots : i < scan[w] => state[i] # "ALIVE"
Unclaimed ==
    \A w \in Slots : /\ pc[w] \in {"none", "scan", "claim"} => worker_id[w] = None
                     /\ pc[w] = "none" => scan[w] = 0
Claimed == \A w \in Slots : pc[w] \in LoopPCs => worker_id[w] \in Slots /\ worker_id[w] < next
TakenIsOwned ==
    \A i \in Slots : i < next /\ state[i] # "ALIVE" => \E w \in Slots : worker_id[w] = i

StartInv == ~win32 => FilledFirst /\ ScanBehind /\ Unclaimed /\ Claimed /\ TakenIsOwned
SlotsInv == TypeInv /\ StartInv

-----------------------------------------------------------------------------
(* Type correctness                                                        *)

\* Main's identity is not a slot index.
LEMMA MainIsNoSlot == Main \notin Slots /\ None \notin Slots /\ Slots \subseteq Nat
  BY SlotsAssumption DEF Slots

\* The state worker_pool_create starts from is type correct.
LEMMA TypeInit == Init => TypeInv
  <1> SUFFICES ASSUME Init PROVE TypeInv
    OBVIOUS
  <1> USE SlotsAssumption, MainIsNoSlot DEF Init, Threads
  <1>0. stopping \in BOOLEAN
    OBVIOUS
  <1>1. TypeOK
    BY <1>0 DEF TypeOK
  <1>2. CreateInv
    BY DEF CreateInv, MainPCs, WorkerPCs, Created, Counted
  <1> QED
    BY <1>1, <1>2 DEF TypeInv

\* Writing a worker's state touches its own slot only.
LEMMA SetStateType ==
    ASSUME TypeOK, NEW w \in Slots, NEW s \in {"ALIVE", "IDLE", "BUSY", "EXIT"},
           SetState(w, s)
    PROVE  /\ state' \in [Slots -> {"ALIVE", "IDLE", "BUSY", "EXIT"}]
           /\ \A i \in Slots : state'[i] = IF i = worker_id[w] THEN s ELSE state[i]
  BY DEF SetState, TypeOK

\* An iteration of worker_pool_create keeps the types and the creation order.
LEMMA TypeCreate == ASSUME TypeInv, CreateStep PROVE TypeInv'
  <1> USE SlotsAssumption, MainIsNoSlot DEF TypeInv, TypeOK, CreateInv, Created, Counted, MainPCs,
          LoopPCs, WorkerPCs, Threads, Goto, AfterSlot, EndIteration, createVars, claimVars
  <1>1. CASE CreateSlot
    BY <1>1 DEF CreateSlot
  <1>2. CASE CreateAlive
    <2>1. /\ next \in Slots /\ next + 1 \in 0 .. MaxWorkers /\ worker_count + 1 \in 0 .. MaxWorkers
          /\ pc[Main] = "alive" /\ state' = [state EXCEPT ![next] = "ALIVE"]
          /\ worker_count <= next /\ worker_count' = worker_count + 1
          /\ UNCHANGED <<win32, scan, worker_id, stopping, graceful>>
      BY <1>2 DEF CreateAlive, Slots
    <2>2. CASE win32
      BY <1>2, <2>1, <2>2 DEF CreateAlive
    <2>3. CASE ~win32
      BY <1>2, <2>1, <2>3 DEF CreateAlive
    <2> QED
      BY <2>2, <2>3
  <1>3. CASE CreateThread
    <2>1. /\ next \in Slots /\ next + 1 \in 0 .. MaxWorkers /\ next \in Threads /\ next # Main
          /\ UNCHANGED <<win32, worker_count, state, scan, worker_id, stopping, graceful>>
      BY <1>3 DEF CreateThread, Slots
    <2>2. CASE win32
      <3>1. /\ pc' \in [Threads -> MainPCs \cup WorkerPCs]
            /\ next' = next /\ pc'[Main] = "alive" /\ pc'[next] = "scan"
            /\ \A w \in Slots : w # next => pc'[w] = pc[w]
        BY <1>3, <2>1, <2>2 DEF CreateThread
      <3>2. pc[Main] = "thread"
        BY <1>3 DEF CreateThread
      <3>3. TypeOK'
        BY <2>1, <3>1
      <3>4. CreateInv'
        BY <2>1, <2>2, <3>1, <3>2
      <3> QED
        BY <3>3, <3>4
    <2>3. CASE ~win32
      <3>1. /\ pc' \in [Threads -> MainPCs \cup WorkerPCs]
            /\ next' = next + 1 /\ pc'[Main] = EndIteration /\ pc'[next] = "scan"
            /\ \A w \in Slots : w # next => pc'[w] = pc[w]
        BY <1>3, <2>1, <2>3 DEF CreateThread
      <3>2. pc[Main] = "thread"
        BY <1>3 DEF CreateThread
      <3>3. TypeOK'
        BY <2>1, <3>1
      <3>4. CreateInv'
        BY <2>1, <2>3, <3>1, <3>2
      <3> QED
        BY <3>3, <3>4
    <2> QED
      BY <2>2, <2>3
  <1>4. CASE CreateThreadFails
    BY <1>4 DEF CreateThreadFails
  <1> QED
    BY <1>1, <1>2, <1>3, <1>4 DEF CreateStep

\* A worker's step keeps the types.
LEMMA TypeWorker == ASSUME TypeInv, NEW w \in Slots, WorkerStep(w) PROVE TypeInv'
  <1> USE SlotsAssumption, MainIsNoSlot DEF TypeInv, TypeOK, CreateInv, Created, Counted, MainPCs,
          LoopPCs, WorkerPCs, Threads, Goto, createVars, claimVars
  <1>1. CASE Scan(w)
    <2>1. \A n : n \in Slots => n + 1 \in 0 .. MaxWorkers
      BY DEF Slots
    <2>2. w \in Threads /\ w # Main /\ w \in Nat /\ w < Created
          /\ UNCHANGED <<createVars, state, worker_id, stopping, graceful>>
      BY <1>1 DEF Scan
    <2>3. CASE scan[w] \in Slots /\ scan' = [scan EXCEPT ![w] = @ + 1] /\ UNCHANGED pc
      BY <1>1, <2>1, <2>2, <2>3 DEF Scan
    <2>4. CASE scan[w] \in Slots /\ pc' = [pc EXCEPT ![w] = "claim"] /\ UNCHANGED scan
      BY <2>2, <2>4
    <2>5. CASE pc' = [pc EXCEPT ![w] = "loop"] /\ UNCHANGED scan
      BY <2>2, <2>5
    <2> QED
      BY <1>1, <2>3, <2>4, <2>5 DEF Scan
  <1>2. CASE Claim(w)
    BY <1>2 DEF Claim
  <1>3. CASE Loop(w)
    BY <1>3, SetStateType DEF Loop
  <1>4. CASE Leave(w)
    BY <1>4, SetStateType DEF Leave
  <1>5. CASE QPop(w)
    BY <1>5 DEF QPop
  <1>6. CASE Mark(w)
    BY <1>6, SetStateType DEF Mark
  <1>7. CASE Run(w)
    BY <1>7 DEF Run
  <1> QED
    BY <1>1, <1>2, <1>3, <1>4, <1>5, <1>6, <1>7 DEF WorkerStep

\* Every step keeps the types.
LEMMA TypeNext == TypeInv /\ [Next]_vars => TypeInv'
  <1> SUFFICES ASSUME TypeInv, [Next]_vars PROVE TypeInv'
    OBVIOUS
  <1> USE SlotsAssumption, MainIsNoSlot DEF TypeInv, TypeOK, CreateInv, Created, Counted, MainPCs,
          LoopPCs, WorkerPCs, Threads, Goto, createVars, claimVars
  <1>1. CASE Shutdown \/ ShutdownGraceful \/ GracefulReturns
    BY <1>1 DEF Shutdown, ShutdownGraceful, GracefulReturns
  <1>2. CASE Destroy
    BY <1>2 DEF Destroy
  <1>4. CASE Join
    <2>1. ASSUME NEW q \in {"done", "crashed"}, Goto(Main, "join", q),
                 UNCHANGED <<createVars, state, claimVars, stopping, graceful>>
          PROVE  TypeInv'
      BY <2>1
    <2> QED
      BY <1>4, <2>1 DEF Join
  <1>3. CASE UNCHANGED vars
    BY <1>3 DEF vars
  <1> QED
    BY <1>1, <1>2, <1>3, <1>4, TypeCreate, TypeWorker DEF Next

\* The slots, the loop indices of creation and of every starting worker, and
\* the counter stay in range in both builds.
THEOREM SlotTypes == Spec => []TypeOK
  <1>1. TypeInv => TypeOK
    BY DEF TypeInv
  <1> QED
    BY <1>1, TypeInit, TypeNext, PTL DEF Spec

-----------------------------------------------------------------------------
(* A slot reads BUSY only for a worker that runs a task or just ran one.   *)

\* A worker that writes its slot takes the BUSY away itself, and a thread that
\* is created had no slot before: the witness of every other slot stays.
LEMMA PhantomNext == TypeInv /\ NoPhantomBusy /\ [Next]_vars => NoPhantomBusy'
  <1> SUFFICES ASSUME TypeInv, NoPhantomBusy, [Next]_vars,
                      NEW i \in Slots, state'[i] = "BUSY"
               PROVE  \E w \in Slots : worker_id'[w] = i /\ pc'[w] \in {"run", "loop"}
    BY DEF NoPhantomBusy
  <1> USE MainIsNoSlot DEF TypeInv, TypeOK, Threads, Goto, createVars, claimVars
  <1>1. CASE state[i] # "BUSY"
    <2>1. PICK w \in Slots : Mark(w) /\ i = worker_id[w]
      <3>1. ASSUME NEW w \in Slots, WorkerStep(w) PROVE Mark(w) /\ i = worker_id[w]
        BY <1>1, <3>1, SetStateType DEF WorkerStep, Scan, Claim, Loop, Leave, QPop, Run, Mark
      <3>2. CASE CreateStep
        BY <1>1, <3>2 DEF CreateStep, CreateSlot, CreateAlive, CreateThread, CreateThreadFails
      <3>3. CASE Shutdown \/ ShutdownGraceful \/ GracefulReturns \/ Destroy \/ Join \/ UNCHANGED vars
        BY <1>1, <3>3 DEF Shutdown, ShutdownGraceful, GracefulReturns, Destroy, Join, vars
      <3> QED
        BY <3>1, <3>2, <3>3 DEF Next
    <2> QED
      BY <2>1 DEF Mark
  <1>2. CASE state[i] = "BUSY"
    <2>1. PICK u \in Slots : worker_id[u] = i /\ pc[u] \in {"run", "loop"}
      BY <1>2 DEF NoPhantomBusy
    <2>2. ASSUME NEW w \in Slots, WorkerStep(w)
          PROVE  worker_id'[u] = i /\ pc'[u] \in {"run", "loop"}
      <3>1. CASE Scan(w) \/ Claim(w) \/ QPop(w) \/ Run(w)
        BY <2>1, <3>1 DEF Scan, Claim, QPop, Run
      <3>2. CASE Loop(w) \/ Leave(w)
        BY <2>1, <3>2, SetStateType DEF Loop, Leave
      <3>3. CASE Mark(w)
        BY <2>1, <3>3 DEF Mark
      <3> QED
        BY <2>2, <3>1, <3>2, <3>3 DEF WorkerStep
    <2>3. CASE CreateThread
      <3>1. next \in Slots /\ pc[next] = "none"
        <4>1. pc[Main] = "thread" /\ next < MaxWorkers /\ next \in Nat /\ Created = next
          BY <2>3, SlotsAssumption DEF CreateThread, CreateInv, Created
        <4> QED
          BY <4>1, SlotsAssumption DEF CreateInv, Slots
      <3> QED
        BY <2>1, <2>3, <3>1 DEF CreateThread
    <2>4. CASE CreateSlot \/ CreateAlive \/ CreateThreadFails
      BY <2>1, <2>4 DEF CreateSlot, CreateAlive, CreateThreadFails
    <2>5. CASE Shutdown \/ ShutdownGraceful \/ GracefulReturns \/ Destroy \/ Join \/ UNCHANGED vars
      BY <2>1, <2>5 DEF Shutdown, ShutdownGraceful, GracefulReturns, Destroy, Join, vars
    <2> QED
      BY <2>1, <2>2, <2>3, <2>4, <2>5 DEF Next, CreateStep
  <1> QED
    BY <1>1, <1>2

\* wp_busy_workers never counts a slot nobody is responsible for, in either
\* build and although two workers may share a slot.
THEOREM NoSlotBusyForNobody == Spec => []NoPhantomBusy
  <1>1. Init => NoPhantomBusy
    BY DEF Init, NoPhantomBusy
  <1> QED
    BY <1>1, TypeInit, TypeNext, PhantomNext, PTL DEF Spec

-----------------------------------------------------------------------------
(* In the pthread build every worker that runs has a slot.                 *)

\* As many slots as workers cannot all be owned while one worker owns none.
LEMMA FreeSlot ==
    ASSUME NEW S, IsFiniteSet(S), NEW w \in S, NEW own
    PROVE  \E i \in S : \A u \in S \ {w} : own[u] # i
  <1> SUFFICES ASSUME \A i \in S : \E u \in S \ {w} : own[u] = i
               PROVE  FALSE
    OBVIOUS
  <1> DEFINE T == S \ {w}
             f == [i \in S |-> CHOOSE u \in T : own[u] = i]
  <1>1. f \in [S -> T] /\ \A i \in S : own[f[i]] = i
    OBVIOUS
  <1>2. IsFiniteSet(T) /\ Cardinality(T) = Cardinality(S) - 1 /\ Cardinality(S) \in Nat
    BY FS_RemoveElement, FS_CardinalityType
  <1>3. \E x, y \in S : x # y /\ f[x] = f[y]
    <2> HIDE DEF T, f
    <2> QED
      BY <1>1, <1>2, FS_PigeonHole
  <1> QED
    BY <1>1, <1>3

\* Before the pool exists there is nothing to own.
LEMMA StartInit == Init => StartInv
  BY MainIsNoSlot DEF Init, StartInv, FilledFirst, ScanBehind, Unclaimed, Claimed, TakenIsOwned, LoopPCs, Threads

\* Creating a slot and its thread: the new thread starts at slot 0 and finds its
\* own slot ALIVE, the slots below are as they were.
LEMMA StartCreate == ASSUME SlotsInv, CreateStep, ~win32 PROVE StartInv'
  <1> USE SlotsAssumption, MainIsNoSlot DEF SlotsInv, TypeInv, TypeOK, CreateInv, Created, StartInv, LoopPCs,
          Threads, Goto, AfterSlot, EndIteration, createVars, claimVars
  <1>1. next \in Slots /\ next \in Threads /\ next # Main /\ win32' = win32
    BY DEF Slots, CreateStep, CreateSlot, CreateAlive, CreateThread, CreateThreadFails
  <1> USE DEF FilledFirst, ScanBehind, Unclaimed, Claimed, TakenIsOwned
  <1>2. CASE CreateSlot
    BY <1>1, <1>2 DEF CreateSlot
  <1>3. CASE CreateAlive
    BY <1>1, <1>3 DEF CreateAlive
  <1>4. CASE CreateThread
    <2>1. /\ pc[next] = "none" /\ pc'[next] = "scan" /\ pc'[Main] \in {"slot", "serving"}
          /\ \A w \in Slots : w # next => pc'[w] = pc[w]
          /\ next' = next + 1 /\ state[next] = "ALIVE"
          /\ UNCHANGED <<state, scan, worker_id>>
      BY <1>1, <1>4 DEF CreateThread
    <2> HIDE DEF CreateInv, TypeOK
    <2>2. next \in Nat /\ \A w \in Slots : scan[w] \in Nat /\ w \in Nat
      BY DEF TypeOK
    <2>3. FilledFirst' /\ Unclaimed'
      BY <1>1, <2>1
    <2>4. ScanBehind'
      BY <1>1, <2>1, <2>2
    <2>5. Claimed'
      <3> SUFFICES ASSUME NEW w \in Slots, pc'[w] \in LoopPCs
                   PROVE  worker_id[w] \in Slots /\ worker_id[w] < next + 1
        BY <2>1
      <3>1. w # next /\ pc[w] \in LoopPCs
        BY <2>1
      <3>2. worker_id[w] \in Slots /\ worker_id[w] < next
        BY <3>1
      <3>3. worker_id[w] \in Nat
        BY <3>2
      <3> QED
        BY <2>2, <3>2, <3>3
    <2>6. TakenIsOwned'
      BY <1>1, <2>1, <2>2
    <2> QED
      BY <2>3, <2>4, <2>5, <2>6
  <1>5. CASE CreateThreadFails
    <2>1. /\ pc'[Main] \in {"slot", "serving"} /\ \A w \in Slots : pc'[w] = pc[w]
          /\ next' = next + 1 /\ UNCHANGED <<state, scan, worker_id>>
      BY <1>5 DEF CreateThreadFails
    <2> HIDE DEF CreateInv, TypeOK
    <2>2. next \in Nat /\ \A w \in Slots : scan[w] \in Nat /\ w \in Nat
      BY DEF TypeOK
    <2>3. state[next] = "ALIVE"
      BY <1>5 DEF CreateThreadFails
    <2>4. FilledFirst' /\ Unclaimed'
      BY <2>1
    <2>5. ScanBehind'
      BY <2>1, <2>2
    <2>6. Claimed'
      <3> SUFFICES ASSUME NEW w \in Slots, pc[w] \in LoopPCs
                   PROVE  worker_id[w] \in Slots /\ worker_id[w] < next + 1
        BY <2>1
      <3>1. worker_id[w] \in Slots /\ worker_id[w] < next /\ worker_id[w] \in Nat
        OBVIOUS
      <3> QED
        BY <2>2, <3>1
    <2>7. TakenIsOwned'
      BY <1>1, <2>1, <2>2, <2>3
    <2> QED
      BY <2>4, <2>5, <2>6, <2>7
  <1> QED
    BY <1>2, <1>3, <1>4, <1>5 DEF CreateStep

\* A worker that has claimed its slot writes no other and never writes ALIVE.
LEMMA StartLoop ==
    ASSUME SlotsInv, ~win32, NEW w \in Slots, NEW q \in LoopPCs, pc[w] \in LoopPCs,
           pc' = [pc EXCEPT ![w] = q], UNCHANGED <<createVars, claimVars>>,
           \A i \in Slots : state'[i] = state[i] \/ (i = worker_id[w] /\ state'[i] # "ALIVE")
    PROVE  StartInv'
  <1> USE MainIsNoSlot DEF SlotsInv, TypeInv, TypeOK, CreateInv, Threads, createVars, claimVars
  <1>1. /\ pc'[w] \in LoopPCs /\ \A u \in Slots : u # w => pc'[u] = pc[u]
        /\ pc'[Main] = pc[Main] /\ next' = next /\ win32' = win32 /\ scan' = scan /\ worker_id' = worker_id
    OBVIOUS
  <1>2. FilledFirst'
    <2> SUFFICES ASSUME pc[Main] = "thread" PROVE state'[next] = "ALIVE"
      BY <1>1 DEF FilledFirst
    <2>1. next \in Slots /\ next # worker_id[w]
      BY SlotsAssumption DEF StartInv, Claimed, Slots
    <2> QED
      BY <2>1 DEF StartInv, FilledFirst
  <1>3. ScanBehind' /\ Unclaimed' /\ Claimed'
    BY <1>1 DEF StartInv, ScanBehind, Unclaimed, Claimed, LoopPCs
  <1>4. TakenIsOwned'
    BY <1>1 DEF StartInv, TakenIsOwned
  <1> QED
    BY <1>2, <1>3, <1>4 DEF StartInv

\* A starting worker always has the next slot filled already: otherwise all slots
\* below would be owned by the other workers.
LEMMA ScanStaysBehind ==
    ASSUME SlotsInv, ~win32, NEW w \in Slots, pc[w] = "scan",
           scan[w] \in Slots, state[scan[w]] # "ALIVE"
    PROVE  scan[w] + 1 < next
  <1> USE MainIsNoSlot DEF SlotsInv, TypeInv, TypeOK, StartInv
  <1> SUFFICES ASSUME scan[w] + 1 >= next PROVE FALSE
    OBVIOUS
  <1>1. scan[w] < next /\ scan[w] \in Nat /\ next \in Nat /\ w < next /\ w \in Nat
    BY DEF ScanBehind, CreateInv, Created
  <1>2. w \in 0 .. next - 1 /\ \A i \in 0 .. next - 1 : i \in Slots
    BY <1>1, SlotsAssumption DEF Slots
  <1>3. ASSUME NEW i \in 0 .. next - 1
        PROVE  \E u \in (0 .. next - 1) \ {w} : worker_id[u] = i
    <2>1. i \in Slots /\ i < next /\ state[i] # "ALIVE"
      BY <1>1, <1>2 DEF ScanBehind
    <2>2. PICK u \in Slots : worker_id[u] = i
      BY <2>1 DEF TakenIsOwned
    <2>3. u # w /\ pc[u] # "none"
      BY <2>1, <2>2 DEF Unclaimed
    <2>4. u < next /\ u \in Nat
      BY <2>3 DEF CreateInv, Created
    <2> QED
      BY <2>2, <2>3, <2>4, <1>1
  <1>4. IsFiniteSet(0 .. next - 1)
    BY <1>1, FS_Interval
  <1> DEFINE S == 0 .. next - 1
  <1>5. \E i \in S : \A u \in S \ {w} : worker_id[u] # i
    <2>1. w \in S /\ IsFiniteSet(S)
      BY <1>2, <1>4
    <2> HIDE MainIsNoSlot DEF S, SlotsInv, TypeInv, TypeOK, StartInv
    <2> QED
      BY <2>1, FreeSlot
  <1> QED
    BY <1>3, <1>5

\* A worker's step keeps every running worker's slot.
LEMMA StartWorker == ASSUME SlotsInv, NEW w \in Slots, WorkerStep(w), ~win32 PROVE StartInv'
  <1> USE MainIsNoSlot DEF SlotsInv, TypeInv, TypeOK, Threads, Goto, createVars, claimVars
  <1>1. w \in Threads /\ w # Main /\ UNCHANGED <<win32, next>> /\ next \in Nat
    BY DEF WorkerStep, Scan, Claim, Loop, Leave, QPop, Mark, Run
  <1>2. CASE Scan(w) /\ scan[w] \in Slots /\ state[scan[w]] # "ALIVE"
    <2>1. /\ pc[w] = "scan" /\ pc' = pc
          /\ scan' = [scan EXCEPT ![w] = @ + 1] /\ UNCHANGED <<state, worker_id>>
      BY <1>1, <1>2 DEF Scan
    <2>2. scan[w] + 1 < next /\ scan[w] \in Nat
      BY <1>2, <2>1, ScanStaysBehind
    <2>3. FilledFirst' /\ Unclaimed' /\ Claimed' /\ TakenIsOwned'
      BY <1>1, <2>1 DEF StartInv, FilledFirst, Unclaimed, Claimed, TakenIsOwned
    <2>4. ScanBehind'
      BY <1>1, <1>2, <2>1, <2>2 DEF StartInv, ScanBehind
    <2> QED
      BY <1>1, <2>3, <2>4 DEF StartInv
  <1>3. CASE Scan(w) /\ ~(scan[w] \in Slots /\ state[scan[w]] # "ALIVE")
    <2>1. pc[w] = "scan" /\ scan[w] \in Nat /\ scan[w] < next
      BY <1>3 DEF Scan, StartInv, ScanBehind
    <2>2. scan[w] \in Slots
      BY <2>1, SlotsAssumption DEF Slots
    <2>3. pc' = [pc EXCEPT ![w] = "claim"] /\ UNCHANGED <<state, scan, worker_id>>
      BY <1>3, <2>2 DEF Scan
    <2> QED
      BY <1>1, <2>1, <2>3 DEF StartInv, FilledFirst, ScanBehind, Unclaimed, Claimed, TakenIsOwned, LoopPCs
  <1>4. CASE Claim(w)
    <2>1. /\ pc[w] = "claim" /\ scan[w] \in Slots /\ scan[w] < next /\ scan' = scan
          /\ pc' = [pc EXCEPT ![w] = "loop"] /\ worker_id' = [worker_id EXCEPT ![w] = scan[w]]
          /\ state' = [state EXCEPT ![scan[w]] = "IDLE"]
      BY <1>4 DEF Claim, CreateInv, StartInv, ScanBehind
    <2>2. FilledFirst' /\ ScanBehind'
      BY <1>1, <2>1 DEF StartInv, FilledFirst, ScanBehind, CreateInv
    <2>3. Unclaimed' /\ Claimed'
      BY <1>1, <2>1 DEF StartInv, Unclaimed, Claimed, LoopPCs
    <2>4. TakenIsOwned'
      <3>1. worker_id[w] = None
        BY <2>1 DEF StartInv, Unclaimed
      <3> QED
        BY <1>1, <2>1, <3>1 DEF StartInv, TakenIsOwned
    <2> QED
      BY <2>2, <2>3, <2>4 DEF StartInv
  <1>5. CASE Loop(w) \/ Leave(w) \/ Mark(w)
    <2>1. PICK q \in LoopPCs : pc' = [pc EXCEPT ![w] = q]
      BY <1>5 DEF Loop, Leave, Mark, LoopPCs
    <2>2. pc[w] \in LoopPCs /\ UNCHANGED <<createVars, claimVars>>
      BY <1>5 DEF Loop, Leave, Mark, LoopPCs
    <2>3. \A i \in Slots : state'[i] = state[i] \/ (i = worker_id[w] /\ state'[i] # "ALIVE")
      BY <1>5, SetStateType DEF Loop, Leave, Mark
    <2> QED
      BY <2>1, <2>2, <2>3, StartLoop
  <1>6. CASE QPop(w) \/ Run(w)
    <2>1. PICK q \in LoopPCs : pc' = [pc EXCEPT ![w] = q]
      BY <1>6 DEF QPop, Run, LoopPCs
    <2>2. pc[w] \in LoopPCs /\ UNCHANGED <<createVars, claimVars>> /\ state' = state
      BY <1>6 DEF QPop, Run, LoopPCs
    <2> QED
      BY <2>1, <2>2, StartLoop
  <1> QED
    BY <1>2, <1>3, <1>4, <1>5, <1>6 DEF WorkerStep

\* Every step keeps the claimed slots claimed.
LEMMA StartNext == SlotsInv /\ [Next]_vars => SlotsInv'
  <1> SUFFICES ASSUME SlotsInv, [Next]_vars PROVE StartInv'
    BY TypeNext DEF SlotsInv
  <1>1. CASE win32
    BY <1>1 DEF StartInv, Next, CreateStep, CreateSlot, CreateAlive, CreateThread, CreateThreadFails,
       WorkerStep, Scan, Claim, Loop, Leave, QPop, Mark, Run, Shutdown, ShutdownGraceful,
       GracefulReturns, Destroy, Join, vars, createVars
  <1>2. CASE Shutdown \/ ShutdownGraceful \/ GracefulReturns \/ Destroy \/ Join \/ UNCHANGED vars
    BY <1>2, MainIsNoSlot DEF SlotsInv, TypeInv, TypeOK, StartInv, FilledFirst, ScanBehind, Unclaimed,
       Claimed, TakenIsOwned, Threads, Goto, Shutdown, ShutdownGraceful,
       GracefulReturns, Destroy, Join, vars, createVars, claimVars
  <1> QED
    BY <1>1, <1>2, StartCreate, StartWorker DEF Next

\* In the pthread build no worker enters its loop with worker_id == -1, for any
\* number of workers and any interleaving of their start with the creation.
THEOREM EveryWorkerHasSlot == Spec => []SlotOwned
  <1>1. SlotsInv => SlotOwned
    BY DEF SlotsInv, StartInv, Claimed, SlotOwned, LoopPCs
  <1> QED
    BY <1>1, TypeInit, StartInit, StartNext, PTL DEF Spec, SlotsInv

----------------------------------------------------------------------------
(* worker_pool_destroy waits for the first worker_count threads; in the    *)
(* pthread build those are all.                                            *)

JoinInv ==
    /\ pc[Main] \in {"serving", "graceful", "join", "done", "crashed"} => next = MaxWorkers
    /\ ~win32 => worker_count = Counted
    /\ pc[Main] = "done" => \A w \in Slots : w < worker_count => Gone(w)

LEMMA JoinInit == Init => JoinInv
  BY SlotsAssumption, MainIsNoSlot DEF Init, JoinInv, Counted, Threads

LEMMA JoinNext == ASSUME TypeInv, JoinInv, [Next]_vars PROVE JoinInv'
  <1> USE SlotsAssumption, MainIsNoSlot DEF TypeInv, TypeOK, CreateInv, Counted, Threads, Goto, createVars, claimVars
  <1>1. CASE CreateStep
    <2>1. next \in Nat /\ next < MaxWorkers /\ pc[Main] \in {"slot", "alive", "thread"} /\ pc'[Main] # "done"
      BY <1>1 DEF CreateStep, CreateSlot, CreateAlive, CreateThread, CreateThreadFails, AfterSlot, EndIteration, Slots
    <2>2. CASE CreateSlot
      BY <2>1, <2>2 DEF CreateSlot, AfterSlot, JoinInv
    <2>3. CASE CreateAlive
      BY <2>1, <2>3 DEF CreateAlive, EndIteration, JoinInv
    <2>4. CASE CreateThread
      <3>1. /\ pc'[Main] = (IF win32 THEN "alive" ELSE EndIteration) /\ pc[Main] = "thread" /\ UNCHANGED <<win32, worker_count>>
            /\ next' = IF win32 THEN next ELSE next + 1
        <4>1. next # Main /\ Main \in Threads
          BY <2>1
        <4> QED
          BY <2>4, <4>1 DEF CreateThread
      <3> QED
        BY <2>1, <3>1 DEF EndIteration, JoinInv
    <2>5. CASE CreateThreadFails
      BY <2>1, <2>5 DEF CreateThreadFails, EndIteration, JoinInv
    <2> QED
      BY <1>1, <2>2, <2>3, <2>4, <2>5 DEF CreateStep
  <1>2. ASSUME NEW w \in Slots, WorkerStep(w) PROVE JoinInv'
    <2>1. /\ pc'[Main] = pc[Main] /\ UNCHANGED <<win32, next, worker_count>>
          /\ ~Gone(w) /\ \A v \in Slots : v # w => pc'[v] = pc[v]
      BY <1>2 DEF WorkerStep, Scan, Claim, Loop, Leave, QPop, Mark, Run, Gone
    <2> QED
      BY <2>1 DEF JoinInv, Gone
  <1>3. CASE Shutdown \/ ShutdownGraceful \/ GracefulReturns \/ Destroy
    BY <1>3 DEF Shutdown, ShutdownGraceful, GracefulReturns, Destroy, JoinInv
  <1>4. CASE Join
    BY <1>4 DEF Join, JoinInv, Gone
  <1>5. CASE UNCHANGED vars
    BY <1>5 DEF vars, JoinInv, Gone
  <1> QED
    BY <1>1, <1>2, <1>3, <1>4, <1>5 DEF Next

LEMMA JoinHolds == ASSUME TypeInv, JoinInv PROVE AllJoined
  <1> SUFFICES ASSUME pc[Main] = "done", win32 => worker_count = MaxWorkers, NEW w \in Slots PROVE Gone(w)
    BY DEF AllJoined
  <1>1. worker_count = MaxWorkers /\ w < MaxWorkers
    BY SlotsAssumption DEF JoinInv, Counted, Slots
  <1> QED
    BY <1>1 DEF JoinInv

----------------------------------------------------------------------------
(* CoordinatorSound from the invariants of the parts, for every set of     *)
(* workers and every number of slots.                                      *)

ComposedInv ==
    /\ active = "slots" => TypeInv /\ JoinInv
    /\ active = "submit" => A!CoordinatorInv
    /\ active = "schedule" => B!CoordinatorInv
    /\ active = "progress" => P!ProgressInv

LEMMA Kinds == A!KindsAssumption /\ B!KindsAssumption /\ P!ProgressAssumption
  BY CoordinatorAssumption DEF A!KindsAssumption, B!KindsAssumption, P!ProgressAssumption

LEMMA ComposedInit == ASSUME CoordinatorInit PROVE ComposedInv
  <1>1. Init /\ P!Init /\ (active = "submit" => A!Init) /\ (active = "schedule" => B!Init)
    BY DEF CoordinatorInit
  <1>2. TypeInv /\ JoinInv
    BY <1>1, TypeInit, JoinInit
  <1>3. active = "submit" => A!CoordinatorInv
    BY <1>1, Kinds, A!InvInit
  <1>4. active = "schedule" => B!CoordinatorInv
    BY <1>1, Kinds, B!InvInit
  <1>5. P!ProgressInv
    BY <1>1, Kinds, P!ProgressInit
  <1> QED
    BY <1>2, <1>3, <1>4, <1>5 DEF ComposedInv

LEMMA ComposedNext == ASSUME ComposedInv, [CoordinatorNext]_allVars PROVE ComposedInv'
  <1>1. CASE OnlySlots /\ Next
    <2>1. active = "slots" /\ active' = active /\ Next
      BY <1>1 DEF OnlySlots
    <2> QED
      BY <2>1, TypeNext, JoinNext DEF ComposedInv
  <1>2. CASE OnlyA /\ A!Next
    <2>1. active = "submit" /\ active' = active /\ A!Next
      BY <1>2 DEF OnlyA
    <2> QED
      BY <2>1, Kinds, A!InvNext DEF ComposedInv
  <1>3. CASE OnlyB /\ B!Next
    <2>1. active = "schedule" /\ active' = active /\ B!Next
      BY <1>3 DEF OnlyB
    <2> QED
      BY <2>1, Kinds, B!InvNext DEF ComposedInv
  <1>4. CASE OnlyProgress /\ P!Next
    <2>1. active = "progress" /\ active' = active /\ P!Next
      BY <1>4 DEF OnlyProgress
    <2> QED
      BY <2>1, Kinds, P!ProgressStep DEF ComposedInv
  <1>5. CASE UNCHANGED allVars
    <2>1. active' = active /\ UNCHANGED vars /\ UNCHANGED A!vars /\ UNCHANGED B!vars /\ UNCHANGED P!vars
      BY <1>5 DEF allVars, jcVars, jpVars, A!vars, A!schedulers, A!threads, A!history,
                  B!vars, B!schedulers, B!threads, B!history, P!vars
    <2> QED
      BY <2>1, Kinds, TypeNext, JoinNext, A!InvNext, B!InvNext, P!ProgressStutter DEF ComposedInv
  <1> QED
    BY <1>1, <1>2, <1>3, <1>4, <1>5 DEF CoordinatorNext

\* Whatever the pool's and the coordinator's workers are: worker_pool_destroy frees
\* the pool after the last worker left, unless a CreateThread of Win32 failed; up to
\* the second firing of a cron job no wrapper runs twice or is used once freed; the
\* counters show no result too many unless a reset raced with an increment; and a
\* progress record stays within its bounds.
THEOREM CoordinatorIsSound == CoordinatorSpec => []CoordinatorSound
  <1>1. ComposedInv => CoordinatorSound
    BY Kinds, JoinHolds, A!InvOnce, B!InvOnce, P!ProgressHolds DEF ComposedInv, CoordinatorSound, TypeInv
  <1> QED
    BY <1>1, ComposedInit, ComposedNext, PTL DEF CoordinatorSpec
============================================================================
