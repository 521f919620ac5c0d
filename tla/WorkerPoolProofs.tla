-------------------------- MODULE WorkerPoolProofs --------------------------
(***************************************************************************)
(* Proofs about WorkerPool for every number of workers, tasks, types and   *)
(* every capacity: type correctness, and that every accepted task is in    *)
(* exactly one place.                                                      *)
(***************************************************************************)
EXTENDS WorkerPool, FiniteSetTheorems, TLAPS

\* A worker that left q_pop with a task, and has not run it, has one.
HasTask == \A w \in Holding : task[w] \in Tasks

\* A worker's index is unset until its look-up ends, and inside the table from
\* the moment it has acquired a slot.
IndexOK ==
    \A w \in Workers :
        /\ pc[w] \in {"lookup", "load", "store", "fill"} => ci[w] = None
        /\ pc[w] = "run" => ci[w] \in Entries \cup {None}
        /\ pc[w] = "release" => ci[w] \in Entries

TypeInv == TypeOK /\ HasTask /\ IndexOK

-----------------------------------------------------------------------------
(* Type correctness                                                        *)

\* The table update of the registration keeps an array an array over Entries.
LEMMA PutType ==
    ASSUME NEW S, NEW f \in [Entries -> S], NEW e, NEW v \in S
    PROVE  /\ Put(f, e, v) \in [Entries -> S]
           /\ \A x \in Entries : Put(f, e, v)[x] = IF x = e THEN v ELSE f[x]
  BY DEF Put

\* The initial state of worker_pool_create is type correct.
LEMMA TypeInit == Init => TypeInv
  <1> SUFFICES ASSUME Init PROVE TypeInv
    OBVIOUS
  <1> USE PoolAssumption DEF Init, Threads
  <1>1. /\ pc \in [Threads -> WorkerPCs \cup MainPCs] /\ pc[Main] \in MainPCs
        /\ \A w \in Workers : pc[w] = "loop" /\ pc[w] \in WorkerPCs
    BY DEF WorkerPCs, MainPCs
  <1>2. queue \in Seq(Tasks) /\ accepted \subseteq Tasks /\ done \subseteq Tasks
    OBVIOUS
  <1>3. stopping \in BOOLEAN
    OBVIOUS
  <1>4. HasTask /\ IndexOK
    BY <1>1 DEF HasTask, IndexOK, Holding
  <1> QED
    BY <1>1, <1>2, <1>3, <1>4 DEF TypeInv, TypeOK

\* find_concurrency_index keeps the types, whichever thread runs it.
LEMMA TypeRegister ==
    ASSUME TypeInv, NEW p \in Threads,
           Lookup(p) \/ RegLoad(p) \/ RegStore(p) \/ RegFill(p)
    PROVE  TypeInv'
  <1> USE PoolAssumption DEF TypeInv, TypeOK, HasTask, IndexOK, Holding, Threads, WorkerPCs, MainPCs, Goto
  <1>1. CASE Lookup(p)
    <2>1. /\ pc[p] = "lookup" /\ task' = task
          /\ UNCHANGED <<taskVars, want, tableVars, current, callVars, stopping>>
      BY <1>1 DEF Lookup, taskVars
    <2>2. CASE NotFound(p)
      BY <2>1, <2>2 DEF NotFound, taskVars, tableVars, callVars
    <2>3. CASE FirstMatch(p)
      <3>1. PICK e \in Entries : Found(p, e)
        BY <2>3 DEF FirstMatch, Matches
      <3>2. e \in Nat
        BY DEF Entries
      <3>3. CASE p = Main
        BY <2>1, <3>1, <3>2, <3>3 DEF Found, taskVars, tableVars, callVars
      <3>4. CASE p # Main
        <4>1. /\ p \in Workers
              /\ pc' = [pc EXCEPT ![p] = "acquire"]
              /\ reg' = [reg EXCEPT ![p] = e] /\ ci' = [ci EXCEPT ![p] = e]
          BY <3>1, <3>2, <3>4 DEF Found
        <4>2. HasTask'
          BY <2>1, <4>1
        <4> QED
          BY <2>1, <3>2, <3>4, <4>1, <4>2 DEF taskVars, tableVars, callVars
      <3> QED
        BY <3>3, <3>4
    <2>4. CASE Goto(p, "lookup", "load") /\ UNCHANGED <<ci, reg>>
      BY <2>1, <2>4 DEF taskVars, tableVars, callVars
    <2> QED
      BY <1>1, <2>2, <2>3, <2>4 DEF Lookup
  <1>2. CASE RegLoad(p)
    BY <1>2 DEF RegLoad, taskVars, tableVars, callVars
  <1>3. CASE RegStore(p)
    BY <1>3 DEF RegStore, taskVars, callVars
  <1>4. CASE RegFill(p)
    <2>1. /\ job_type_names' \in [Entries -> Types \cup {NoType}]
          /\ max_concurrent' \in [Entries -> Nat]
          /\ current' \in [Entries -> Int]
      BY <1>4 DEF RegFill, Put
    <2>2. CASE p = Main
      BY <1>4, <2>1, <2>2 DEF RegFill, Found, taskVars, callVars
    <2>3. CASE p # Main
      <3>1. /\ p \in Workers /\ reg[p] \in Nat /\ pc' = [pc EXCEPT ![p] = "acquire"]
            /\ reg' = [reg EXCEPT ![p] = reg[p]] /\ ci' = [ci EXCEPT ![p] = reg[p]]
            /\ UNCHANGED <<taskVars, want, job_type_count, callVars, stopping>>
        BY <1>4, <2>3 DEF RegFill, Found
      <3>2. HasTask' /\ IndexOK'
        BY <1>4, <3>1 DEF RegFill, taskVars
      <3> QED
        BY <2>1, <3>1, <3>2 DEF taskVars, callVars
    <2> QED
      BY <2>2, <2>3
  <1> QED
    BY <1>1, <1>2, <1>3, <1>4

\* Every step of the pool keeps the types.
LEMMA TypeNext == TypeInv /\ [Next]_vars => TypeInv'
  <1> SUFFICES ASSUME TypeInv, [Next]_vars PROVE TypeInv'
    OBVIOUS
  <1> USE PoolAssumption DEF TypeInv, TypeOK, HasTask, IndexOK, Holding, Threads, WorkerPCs, MainPCs, Goto
  <1>1. ASSUME NEW w \in Workers, Loop(w) PROVE TypeInv'
    BY <1>1 DEF Loop, taskVars, tableVars, callVars
  <1>2. ASSUME NEW w \in Workers, QPop(w) PROVE TypeInv'
    <2>1. Head(queue) \in Tasks /\ Tail(queue) \in Seq(Tasks)
      BY <1>2 DEF QPop
    <2> QED
      BY <1>2, <2>1 DEF QPop, Rest, tableVars, callVars
  <1>3. ASSUME NEW w \in Workers, QPopWaits(w) \/ QPopTimeout(w) PROVE TypeInv'
    BY <1>3 DEF QPopWaits, QPopTimeout, taskVars, tableVars, callVars
  <1>4. ASSUME NEW w \in Workers, Acquire(w) PROVE TypeInv'
    BY <1>4 DEF Acquire, taskVars, tableVars, callVars
  <1>5. ASSUME NEW w \in Workers, Run(w) PROVE TypeInv'
    <2>1. task[w] \in Tasks /\ w # Main
      BY <1>5 DEF Run
    <2> QED
      BY <1>5, <2>1 DEF Run, tableVars, callVars
  <1>6. ASSUME NEW w \in Workers, Release(w) PROVE TypeInv'
    <2>1. ci[w] \in Entries
      BY <1>6 DEF Release
    <2>2. current' \in [Entries -> Int] /\ w # Main
      BY <1>6, <2>1 DEF Release, Returned
    <2> QED
      BY <1>6, <2>2 DEF Release, taskVars, tableVars, callVars
  <1>7. ASSUME NEW t \in Tasks, Submit(t) PROVE TypeInv'
    BY <1>7 DEF Submit, tableVars, callVars
  <1>8. ASSUME NEW y \in Types, NEW m \in Limits, SetLimit(y, m) PROVE TypeInv'
    BY <1>8 DEF SetLimit, taskVars, tableVars
  <1>9. CASE SetMax
    <2>1. max_concurrent' \in [Entries -> Nat]
      BY <1>9 DEF SetMax, Put
    <2> QED
      BY <1>9, <2>1 DEF SetMax, taskVars
  <1>10. CASE Shutdown
    BY <1>10 DEF Shutdown, taskVars, tableVars, callVars
  <1>11. CASE UNCHANGED vars
    BY <1>11 DEF vars, taskVars, tableVars, callVars
  <1> QED
    BY <1>1, <1>2, <1>3, <1>4, <1>5, <1>6, <1>7, <1>8, <1>9, <1>10, <1>11, TypeRegister
       DEF Next, WorkerStep, MainStep

\* The locals of every thread and the shared tables keep their types whatever
\* the threads' interleaving.
THEOREM TypeCorrect == Spec => []TypeOK
  <1>1. TypeInv => TypeOK
    BY DEF TypeInv
  <1> QED
    BY TypeInit, TypeNext, <1>1, PTL DEF Spec

-----------------------------------------------------------------------------
(* Every accepted task is queued, held or done, exactly once               *)

\* q_pop splits the queue into its head and the rest, without repetition.
LEMMA PopSplits ==
    ASSUME TypeOK, EachTaskOnce, queue # <<>>, queue' = Tail(queue)
    PROVE  /\ Head(queue) \in Queued /\ Head(queue) \notin Queued'
           /\ Queued = Queued' \cup {Head(queue)}
           /\ \A i, j \in DOMAIN queue' : queue'[i] = queue'[j] => i = j
  <1>1. /\ queue \in Seq(Tasks) /\ Len(queue) \in Nat /\ Len(queue) > 0
        /\ DOMAIN queue = 1 .. Len(queue) /\ Head(queue) = queue[1]
    BY DEF TypeOK
  <1>2. /\ queue' \in Seq(Tasks) /\ DOMAIN queue' = 1 .. (Len(queue) - 1)
        /\ \A i \in DOMAIN queue' : queue'[i] = queue[i + 1]
    BY <1>1
  <1>3. \A i, j \in DOMAIN queue : queue[i] = queue[j] => i = j
    BY DEF EachTaskOnce
  <1>4. \A i \in DOMAIN queue : i = 1 \/ (i - 1 \in DOMAIN queue' /\ queue[i] = queue'[i - 1])
    BY <1>1, <1>2
  <1>5. Head(queue) \in Queued
    BY <1>1 DEF Queued
  <1>6. \A i \in DOMAIN queue' : i + 1 \in DOMAIN queue /\ i + 1 # 1
    BY <1>1, <1>2
  <1>7. Head(queue) \notin Queued'
    BY <1>1, <1>2, <1>3, <1>6 DEF Queued
  <1>8. Queued = Queued' \cup {Head(queue)}
    BY <1>1, <1>2, <1>4, <1>6 DEF Queued
  <1>9. \A i, j \in DOMAIN queue' : queue'[i] = queue'[j] => i = j
    BY <1>1, <1>2, <1>3, <1>6
  <1> QED
    BY <1>5, <1>7, <1>8, <1>9

\* q_push adds its task to the queue.
LEMMA PushAdds ==
    ASSUME TypeOK, NEW t \in Tasks, queue' = Append(queue, t)
    PROVE  /\ Queued' = Queued \cup {t}
           /\ t \notin Queued /\ (\A i, j \in DOMAIN queue : queue[i] = queue[j] => i = j)
              => \A i, j \in DOMAIN queue' : queue'[i] = queue'[j] => i = j
  <1>1. /\ queue \in Seq(Tasks) /\ Len(queue) \in Nat /\ DOMAIN queue = 1 .. Len(queue)
    BY DEF TypeOK
  <1>2. /\ DOMAIN queue' = 1 .. (Len(queue) + 1) /\ queue'[Len(queue) + 1] = t
        /\ \A i \in DOMAIN queue : queue'[i] = queue[i]
    BY <1>1
  <1> QED
    BY <1>1, <1>2 DEF Queued

\* A step that leaves the queue, the workers' tasks and the set of workers that
\* hold one alone moves no task.
LEMMA OnceFrame ==
    ASSUME EachTaskOnce, UNCHANGED taskVars, Holding' = Holding
    PROVE  EachTaskOnce'
  BY DEF EachTaskOnce, Queued, taskVars

\* The steps of a look-up, of the loop and of the release keep Holding.
LEMMA HoldingFrame ==
    ASSUME TypeInv, NEW p \in Threads, NEW l, pc' = [pc EXCEPT ![p] = l],
           p \in Workers => (l \in {"lookup", "load", "store", "fill", "acquire", "run"}
                               <=> p \in Holding)
    PROVE  Holding' = Holding
  BY DEF TypeInv, TypeOK, Holding, Threads

\* Each step moves at most one task from one place to the next.
LEMMA OnceNext == TypeInv /\ EachTaskOnce /\ [Next]_vars => EachTaskOnce'
  <1> SUFFICES ASSUME TypeInv, EachTaskOnce, [Next]_vars PROVE EachTaskOnce'
    OBVIOUS
  <1>1. ASSUME NEW w \in Workers, QPop(w) PROVE EachTaskOnce'
    <2>1. /\ Holding' = Holding \cup {w} /\ w \notin Holding
          /\ task'[w] = Head(queue) /\ \A v \in Holding : task'[v] = task[v]
          /\ accepted' = accepted /\ done' = done
      BY <1>1, PoolAssumption DEF QPop, Holding, TypeInv, TypeOK, Threads
    <2>2. queue # <<>> /\ queue' = Tail(queue)
      BY <1>1 DEF QPop, Rest
    <2>3. Head(queue) \in accepted \ done
      BY <2>2, PopSplits DEF EachTaskOnce, TypeInv
    <2> QED
      BY <2>1, <2>2, <2>3, PopSplits DEF EachTaskOnce, TypeInv
  <1>2. ASSUME NEW w \in Workers, Run(w) PROVE EachTaskOnce'
    <2>1. /\ Holding' = Holding \ {w} /\ w \in Holding
          /\ \A v \in Holding' : task'[v] = task[v]
          /\ queue' = queue /\ accepted' = accepted /\ done' = done \cup {task[w]}
      BY <1>2, PoolAssumption DEF Run, Goto, Holding, TypeInv, TypeOK, Threads
    <2>2. Queued' = Queued /\ DOMAIN queue' = DOMAIN queue
      BY <2>1 DEF Queued
    <2> QED
      BY <2>1, <2>2 DEF EachTaskOnce
  <1>3. ASSUME NEW t \in Tasks, Submit(t) PROVE EachTaskOnce'
    <2>1. /\ Holding' = Holding /\ task' = task /\ done' = done
          /\ queue' = Append(queue, t) /\ t \notin accepted /\ accepted' = accepted \cup {t}
      BY <1>3 DEF Submit, Holding
    <2> QED
      BY <2>1, PushAdds DEF EachTaskOnce, TypeInv
  <1>4. ASSUME NEW w \in Workers, Loop(w) \/ QPopWaits(w) \/ QPopTimeout(w) \/ Release(w)
        PROVE EachTaskOnce'
    <2>1. Holding' = Holding
      BY <1>4, HoldingFrame DEF Loop, QPopWaits, QPopTimeout, Release, Goto, Holding, Threads
    <2> QED
      BY <1>4, <2>1, OnceFrame DEF Loop, QPopWaits, QPopTimeout, Release
  <1>5. ASSUME NEW p \in Threads, Lookup(p) \/ RegLoad(p) \/ RegStore(p) \/ RegFill(p)
        PROVE EachTaskOnce'
    <2> DEFINE H == {"lookup", "load", "store", "fill", "acquire", "run"}
    <2>1. pc[p] \in H /\ \E l : pc' = [pc EXCEPT ![p] = l] /\ (p # Main => l \in H)
      <3>1. CASE NotFound(p)
        BY <3>1 DEF NotFound, Goto
      <3>2. CASE \E e : Found(p, e)
        BY <1>5, <3>2 DEF Found, Lookup, RegLoad, RegStore, RegFill, Goto
      <3>3. CASE Goto(p, "lookup", "load") \/ RegLoad(p) \/ RegStore(p)
        BY <3>3 DEF Goto, RegLoad, RegStore
      <3> QED
        BY <1>5, <3>1, <3>2, <3>3 DEF Lookup, FirstMatch, RegFill
    <2>2. p # Main <=> p \in Workers
      BY PoolAssumption DEF Threads
    <2>3. Holding' = Holding
      BY <2>1, <2>2, HoldingFrame DEF Holding
    <2> QED
      BY <1>5, <2>3, OnceFrame DEF Lookup, RegLoad, RegStore, RegFill
  <1>6. ASSUME NEW w \in Workers, Acquire(w) PROVE EachTaskOnce'
    <2>1. Holding' = Holding
      BY <1>6, HoldingFrame DEF Acquire, Goto, Holding, Threads
    <2> QED
      BY <1>6, <2>1, OnceFrame DEF Acquire
  <1>7. ASSUME SetMax \/ (\E y \in Types, m \in Limits : SetLimit(y, m)) PROVE EachTaskOnce'
    <2>1. Holding' = Holding
      BY <1>7, HoldingFrame, PoolAssumption DEF SetMax, SetLimit, Goto, Holding, Threads
    <2> QED
      BY <1>7, <2>1, OnceFrame DEF SetMax, SetLimit
  <1>8. CASE Shutdown
    BY <1>8, OnceFrame DEF Shutdown, Holding
  <1>9. CASE UNCHANGED vars
    BY <1>9, OnceFrame DEF vars, Holding
  <1> QED
    BY <1>1, <1>2, <1>3, <1>4, <1>5, <1>6, <1>7, <1>8, <1>9
       DEF Next, WorkerStep, MainStep, Threads

\* No interleaving of the workers loses a task that wp_submit accepted or runs it twice.
THEOREM TasksRunOnce == Spec => []EachTaskOnce
  <1>1. Init => EachTaskOnce
    <2> SUFFICES ASSUME Init PROVE EachTaskOnce
      OBVIOUS
    <2>1. DOMAIN queue = {} /\ Queued = {}
      BY DEF Init, Queued
    <2>2. \A w \in Workers : pc[w] = "loop"
      BY PoolAssumption DEF Init, Threads
    <2>3. Holding = {}
      BY <2>2 DEF Holding
    <2> QED
      BY <2>1, <2>3 DEF Init, EachTaskOnce
  <1> QED
    BY TypeInit, TypeNext, OnceNext, <1>1, PTL DEF Spec

-----------------------------------------------------------------------------
(* A limit set before the first submission is never exceeded               *)

\* Workers holding a concurrency slot of an entry.
Users(e) == {w \in Workers : pc[w] \in {"run", "release"} /\ ci[w] = e}

\* The entry find_concurrency_index returns for a type.
FirstOf(y, e) ==
    /\ e < job_type_count /\ job_type_names[e] = y
    /\ \A f \in Entries : f < e => job_type_names[f] # y

\* Entry e enforces the limit of type y: every look-up ends there, no
\* registration under way will overwrite it, and its counter counts its users.
Enforces(y, e) ==
    /\ FirstOf(y, e)
    /\ max_concurrent[e] = limit[y]
    /\ \A p \in Threads : pc[p] \in {"store", "fill"} => e < reg[p]
    /\ \A p \in Threads : pc[p] \in {"load", "store", "fill"} => want[p] # y
    /\ \A w \in Workers : pc[w] \in {"acquire", "run"} /\ want[w] = y => ci[w] = e
    /\ current[e] = Cardinality(Users(e))
    /\ current[e] <= max_concurrent[e]

\* Before the first submission only Main touches the table, one entry at a time.
MainRegisters ==
    /\ pc[Main] # "serving" => want[Main] \in Types
    /\ pc[Main] \in {"load", "store"} => Matches(want[Main]) = {} /\ job_type_count < MaxTypes
    /\ pc[Main] = "store" => reg[Main] = job_type_count
    /\ pc[Main] = "fill" => /\ job_type_count = reg[Main] + 1 /\ reg[Main] \in Entries
                            /\ \A f \in Entries : f < reg[Main] => job_type_names[f] # want[Main]
    /\ pc[Main] = "setmax" => reg[Main] \in Entries /\ FirstOf(want[Main], reg[Main])

Unsubmitted ==
    accepted = {} =>
        /\ \A w \in Workers : pc[w] \in {"loop", "pop", "wait", "exit"}
        /\ queue = <<>>
        /\ \A e \in Entries : current[e] = 0

LimitInv ==
    /\ accepted # {} => pc[Main] = "serving"
    /\ Unsubmitted
    /\ MainRegisters
    /\ \A y \in Types : limit[y] > 0 => \E e \in Entries : Enforces(y, e)

\* The users of an entry are workers, so they can be counted.
LEMMA UsersFinite == \A e : IsFiniteSet(Users(e)) /\ Cardinality(Users(e)) \in Nat
  BY PoolAssumption, FS_Subset, FS_CardinalityType DEF Users

\* A step of one thread keeps an entry's enforcement when it leaves the entry
\* alone, neither enters nor leaves its users, and does not go astray itself.
LEMMA EnforcesFrame ==
    ASSUME TypeInv, NEW y \in Types, NEW e \in Entries, Enforces(y, e),
           NEW p \in Threads, NEW l, pc' = [pc EXCEPT ![p] = l],
           \A q \in Threads : q # p => reg'[q] = reg[q] /\ want'[q] = want[q],
           \A v \in Workers : v # p => ci'[v] = ci[v],
           FirstOf(y, e)', max_concurrent'[e] = max_concurrent[e],
           limit'[y] = limit[y], current'[e] = current[e],
           l \in {"store", "fill"} => e < reg'[p],
           l \in {"load", "store", "fill"} => want'[p] # y,
           p \in Workers =>
               /\ l \in {"acquire", "run"} /\ want'[p] = y => ci'[p] = e
               /\ (l \in {"run", "release"} /\ ci'[p] = e) <=> p \in Users(e)
    PROVE  Enforces(y, e)'
  <1>1. pc'[p] = l /\ \A q \in Threads : q # p => pc'[q] = pc[q]
    BY DEF TypeInv, TypeOK
  <1>2. Users(e)' = Users(e)
    BY <1>1 DEF Users, Threads
  <1>3. Cardinality(Users(e)') = Cardinality(Users(e))
    BY <1>2
  <1>4. \A q \in Threads : /\ pc'[q] \in {"store", "fill"} => e < reg'[q]
                           /\ pc'[q] \in {"load", "store", "fill"} => want'[q] # y
    BY <1>1 DEF Enforces
  <1>5. \A v \in Workers : pc'[v] \in {"acquire", "run"} /\ want'[v] = y => ci'[v] = e
    BY <1>1 DEF Enforces, Threads
  <1> QED
    BY <1>3, <1>4, <1>5 DEF Enforces

\* Looking a type up and registering it, by any thread.
LEMMA EnforcesRegister ==
    ASSUME TypeInv, NEW y \in Types, NEW e \in Entries, Enforces(y, e),
           NEW p \in Threads, Lookup(p) \/ RegLoad(p) \/ RegStore(p) \/ RegFill(p)
    PROVE  Enforces(y, e)'
  <1>1. p # Main <=> p \in Workers
    BY PoolAssumption DEF Threads
  <1>2. e \in Nat /\ e \in Matches(y)
    BY DEF Enforces, FirstOf, Matches, Entries
  <1>3. limit' = limit /\ want' = want
    BY DEF Lookup, RegLoad, RegStore, RegFill, callVars
  <1>4. p \in Workers => p \notin Users(e)
    BY DEF Users, Lookup, RegLoad, RegStore, RegFill, Goto
  <1>5. CASE Lookup(p)
    <2>1. UNCHANGED <<tableVars, current>>
      BY <1>5 DEF Lookup
    <2>2. FirstOf(y, e)' /\ max_concurrent' = max_concurrent
      BY <2>1 DEF Enforces, FirstOf, tableVars
    <2>3. CASE NotFound(p)
      <3>1. want[p] # y
        BY <1>2, <2>3, PoolAssumption DEF NotFound
      <3>2. p \in Workers => ci[p] = None
        BY <1>5 DEF Lookup, TypeInv, IndexOK
      <3>3. None # e
        BY <1>2, PoolAssumption
      <3>4. CASE p = Main
        BY <1>1, <1>3, <2>1, <2>2, <2>3, <3>4, EnforcesFrame DEF NotFound, Goto
      <3>5. CASE p # Main
        BY <1>1, <1>3, <1>4, <2>1, <2>2, <2>3, <3>1, <3>2, <3>3, <3>5, EnforcesFrame DEF NotFound, Goto
      <3> QED
        BY <3>4, <3>5
    <2>4. CASE want[p] # NoType /\ FirstMatch(p)
      <3>1. PICK d \in Matches(want[p]) : (\A f \in Matches(want[p]) : d <= f) /\ Found(p, d)
        BY <2>4 DEF FirstMatch
      <3>2. want[p] = y => d = e
        BY <1>2, <3>1 DEF Matches, Enforces, FirstOf, Entries
      <3>3. CASE p = Main
        BY <1>1, <1>3, <2>1, <2>2, <3>1, <3>3, EnforcesFrame DEF Found, TypeInv, TypeOK, Threads
      <3>4. CASE p # Main
        <4>1. /\ pc' = [pc EXCEPT ![p] = "acquire"] /\ ci'[p] = d
              /\ \A v \in Workers : v # p => ci'[v] = ci[v]
              /\ \A q \in Threads : q # p => reg'[q] = reg[q]
          BY <1>1, <3>1, <3>4 DEF Found, TypeInv, TypeOK
        <4> QED
          BY <1>1, <1>3, <1>4, <2>1, <2>2, <3>2, <4>1, EnforcesFrame
      <3> QED
        BY <3>3, <3>4
    <2>5. CASE Matches(want[p]) = {} /\ Goto(p, "lookup", "load") /\ UNCHANGED <<ci, reg>>
      <3>1. want[p] # y
        BY <1>2, <2>5
      <3> QED
        BY <1>3, <1>4, <2>1, <2>2, <2>5, <3>1, EnforcesFrame DEF Goto
    <2> QED
      BY <1>5, <2>3, <2>4, <2>5 DEF Lookup
  <1>6. CASE RegLoad(p)
    <2>1. /\ pc[p] = "load" /\ pc' = [pc EXCEPT ![p] = "store"] /\ reg'[p] = job_type_count
          /\ \A q \in Threads : q # p => reg'[q] = reg[q]
          /\ UNCHANGED <<ci, tableVars, current>>
      BY <1>6 DEF RegLoad, Goto, TypeInv, TypeOK
    <2>2. FirstOf(y, e)' /\ max_concurrent' = max_concurrent
      BY <2>1 DEF Enforces, FirstOf, tableVars
    <2>3. e < reg'[p] /\ want[p] # y
      BY <2>1 DEF Enforces, FirstOf
    <2> QED
      BY <1>3, <1>4, <2>1, <2>2, <2>3, EnforcesFrame
  <1>7. CASE RegStore(p)
    <2>1. /\ pc[p] = "store" /\ pc' = [pc EXCEPT ![p] = "fill"] /\ job_type_count' = reg[p] + 1
          /\ UNCHANGED <<ci, reg, job_type_names, max_concurrent, current>>
      BY <1>7 DEF RegStore, Goto
    <2>2. e < reg[p] /\ want[p] # y /\ reg[p] \in Nat
      BY <2>1 DEF Enforces, TypeInv, TypeOK
    <2>3. FirstOf(y, e)'
      BY <1>2, <2>1, <2>2 DEF Enforces, FirstOf
    <2> QED
      BY <1>3, <1>4, <2>1, <2>2, <2>3, EnforcesFrame
  <1>8. CASE RegFill(p)
    <2>1. pc[p] = "fill" /\ Found(p, reg[p]) /\ job_type_count' = job_type_count
      BY <1>8 DEF RegFill
    <2>2. e < reg[p] /\ want[p] # y /\ reg[p] \in Nat
      BY <2>1 DEF Enforces, TypeInv, TypeOK
    <2>3. \A f \in Entries : f <= e => /\ job_type_names'[f] = job_type_names[f]
                                      /\ max_concurrent'[f] = max_concurrent[f]
                                      /\ current'[f] = current[f]
      BY <1>2, <1>8, <2>2 DEF RegFill, Put, Entries
    <2>4. FirstOf(y, e)'
      BY <1>2, <2>1, <2>3 DEF Enforces, FirstOf, Entries
    <2>5. max_concurrent'[e] = max_concurrent[e] /\ current'[e] = current[e]
      BY <1>2, <2>3
    <2>6. \A q \in Threads : q # p => reg'[q] = reg[q] /\ want'[q] = want[q]
      BY <1>3, <2>1 DEF Found, TypeInv, TypeOK
    <2>7. \A v \in Workers : v # p => ci'[v] = ci[v]
      BY <2>1 DEF Found, TypeInv, TypeOK
    <2>8. PICK l \in {"setmax", "acquire"} : pc' = [pc EXCEPT ![p] = l]
      BY <2>1 DEF Found
    <2>9. p \in Workers => l = "acquire" /\ want'[p] # y
      BY <1>1, <1>3, <2>1, <2>2, <2>8 DEF Found, TypeInv, TypeOK
    <2> QED
      BY <1>3, <1>4, <2>4, <2>5, <2>6, <2>7, <2>8, <2>9, EnforcesFrame
  <1> QED
    BY <1>5, <1>6, <1>7, <1>8

\* Acquiring, running and releasing, and the loop around them.
LEMMA EnforcesWorker ==
    ASSUME TypeInv, NEW y \in Types, limit[y] > 0, NEW e \in Entries, Enforces(y, e),
           NEW w \in Workers, WorkerStep(w)
    PROVE  Enforces(y, e)'
  <1>1. w \in Threads /\ None # e /\ e \in Nat
    BY PoolAssumption DEF Threads, Entries
  <1>2. CASE Lookup(w) \/ RegLoad(w) \/ RegStore(w) \/ RegFill(w)
    BY <1>1, <1>2, EnforcesRegister
  <1> SUFFICES ASSUME Loop(w) \/ QPop(w) \/ QPopWaits(w) \/ QPopTimeout(w)
                      \/ Acquire(w) \/ Run(w) \/ Release(w)
               PROVE  Enforces(y, e)'
    BY <1>2 DEF WorkerStep
  <1>3. FirstOf(y, e)' /\ max_concurrent' = max_concurrent /\ limit' = limit /\ reg' = reg
    BY DEF Enforces, FirstOf, Loop, QPop, QPopWaits, QPopTimeout, Acquire, Run, Release, tableVars, callVars
  <1>4. CASE Loop(w) \/ QPopWaits(w) \/ QPopTimeout(w)
    <2>1. w \notin Users(e) /\ UNCHANGED <<ci, want, current>>
      BY <1>4 DEF Users, Loop, QPopWaits, QPopTimeout, Goto
    <2>2. PICK l \in {"exit", "pop", "wait", "loop"} : pc' = [pc EXCEPT ![w] = l]
      BY <1>4 DEF Loop, QPopWaits, QPopTimeout, Goto
    <2> QED
      BY <1>1, <1>3, <2>1, <2>2, EnforcesFrame
  <1>5. CASE QPop(w)
    <2>1. /\ w \notin Users(e) /\ current' = current /\ pc' = [pc EXCEPT ![w] = "lookup"]
          /\ \A q \in Threads : q # w => want'[q] = want[q]
          /\ \A v \in Workers : v # w => ci'[v] = ci[v]
      BY <1>5 DEF Users, QPop, TypeInv, TypeOK
    <2> QED
      BY <1>1, <1>3, <2>1, EnforcesFrame
  <1>6. CASE Run(w)
    <2>1. pc[w] = "run" /\ UNCHANGED <<ci, want, current>>
      BY <1>6 DEF Run, Goto
    <2>2. CASE ci[w] = None
      <3>1. w \notin Users(e) /\ pc' = [pc EXCEPT ![w] = "loop"]
        BY <1>1, <1>6, <2>2 DEF Users, Run, Goto
      <3> QED
        BY <1>1, <1>3, <2>1, <3>1, EnforcesFrame
    <2>3. CASE ci[w] # None
      <3>1. pc' = [pc EXCEPT ![w] = "release"] /\ (w \in Users(e) <=> ci[w] = e)
        BY <1>6, <2>1, <2>3 DEF Users, Run, Goto
      <3> QED
        BY <1>1, <1>3, <2>1, <3>1, EnforcesFrame
    <2> QED
      BY <2>2, <2>3
  <1>7. CASE Acquire(w) /\ ci[w] # e
    <2>1. /\ pc[w] = "acquire" /\ pc' = [pc EXCEPT ![w] = "run"] /\ UNCHANGED <<ci, want>>
          /\ current'[e] = current[e] /\ w \notin Users(e) /\ want[w] # y
      BY <1>7 DEF Acquire, Goto, Users, Enforces, TypeInv, TypeOK
    <2> QED
      BY <1>1, <1>3, <1>7, <2>1, EnforcesFrame
  <1>10. CASE Release(w) /\ ci[w] # e
    <2>1. /\ pc' = [pc EXCEPT ![w] = "loop"] /\ want' = want /\ w \notin Users(e)
          /\ \A v \in Workers : v # w => ci'[v] = ci[v]
          /\ current'[e] = current[e]
      BY <1>10 DEF Release, Goto, Users, Returned, TypeInv, TypeOK
    <2> QED
      BY <1>1, <1>3, <2>1, EnforcesFrame
  <1>8. CASE Acquire(w) /\ ci[w] = e
    <2>1. /\ pc[w] = "acquire" /\ pc' = [pc EXCEPT ![w] = "run"] /\ UNCHANGED <<ci, want>>
          /\ current'[e] = current[e] + 1 /\ HasRoom(e)
      BY <1>8 DEF Acquire, Goto, TypeInv, TypeOK
    <2>2. Users(e)' = Users(e) \cup {w} /\ w \notin Users(e)
      BY <1>1, <1>8, <2>1 DEF Users, TypeInv, TypeOK, Threads
    <2>3. Cardinality(Users(e)') = Cardinality(Users(e)) + 1
      BY <2>2, UsersFinite, FS_AddElement
    <2>4. current[e] < max_concurrent[e] /\ current[e] \in Int /\ max_concurrent[e] \in Int
      BY <2>1 DEF Enforces, HasRoom, TypeInv, TypeOK
    <2> QED
      BY <1>1, <1>3, <1>8, <2>1, <2>3, <2>4 DEF Enforces, TypeInv, TypeOK, Threads
  <1>9. CASE Release(w) /\ ci[w] = e
    <2>1. /\ pc[w] = "release" /\ pc' = [pc EXCEPT ![w] = "loop"] /\ want' = want
          /\ ci' = [ci EXCEPT ![w] = None] /\ current'[e] = current[e] - 1
      BY <1>9 DEF Release, Goto, Returned, TypeInv, TypeOK
    <2>2. Users(e)' = Users(e) \ {w} /\ w \in Users(e)
      BY <1>1, <1>9, <2>1 DEF Users, TypeInv, TypeOK, Threads
    <2>3. Cardinality(Users(e)') = Cardinality(Users(e)) - 1
      BY <2>2, UsersFinite, FS_RemoveElement
    <2>4. current[e] \in Int /\ max_concurrent[e] \in Int
      BY DEF TypeInv, TypeOK
    <2> QED
      BY <1>1, <1>3, <1>9, <2>1, <2>3, <2>4 DEF Enforces, TypeInv, TypeOK, Threads
  <1> QED
    BY <1>4, <1>5, <1>6, <1>7, <1>8, <1>9, <1>10

\* A worker's step: before the first submission there is nothing to take, so no
\* worker reads or writes the table.
LEMMA LimitWorker ==
    ASSUME TypeInv, LimitInv, NEW w \in Workers, WorkerStep(w)
    PROVE  LimitInv'
  <1>1. w # Main /\ w \in Threads
    BY PoolAssumption DEF Threads
  <1>2. accepted' = accepted /\ limit' = limit /\ pc'[Main] = pc[Main]
    BY <1>1 DEF WorkerStep, Loop, QPop, QPopWaits, QPopTimeout, Lookup, RegLoad, RegStore, RegFill, Acquire,
       Run, Release, NotFound, FirstMatch, Found, Goto, taskVars, callVars, TypeInv, TypeOK, Threads
  <1>3. \A y \in Types : limit'[y] > 0 => \E e \in Entries : Enforces(y, e)'
    BY <1>2, EnforcesWorker DEF LimitInv
  <1>4. CASE accepted # {}
    BY <1>2, <1>3, <1>4 DEF LimitInv, Unsubmitted, MainRegisters
  <1>5. CASE accepted = {}
    <2>1. pc[w] \in {"loop", "pop", "wait", "exit"} /\ queue = <<>>
      BY <1>5 DEF LimitInv, Unsubmitted
    <2>2. Loop(w) \/ QPopWaits(w) \/ QPopTimeout(w)
      BY <2>1 DEF WorkerStep, Loop, QPop, QPopWaits, QPopTimeout, Lookup, RegLoad, RegStore, RegFill, Acquire,
         Run, Release, Goto
    <2>3. /\ UNCHANGED <<taskVars, want, reg, tableVars, current>>
          /\ \A v \in Workers : pc'[v] = pc[v] \/ pc'[v] \in {"loop", "pop", "wait", "exit"}
      <3>1. PICK l \in {"loop", "pop", "wait", "exit"} : pc' = [pc EXCEPT ![w] = l]
        BY <2>2 DEF Loop, QPopWaits, QPopTimeout, Goto
      <3> QED
        BY <1>1, <2>2, <3>1 DEF Loop, QPopWaits, QPopTimeout, TypeInv, TypeOK, Threads
    <2>4. Unsubmitted'
      BY <1>5, <2>3 DEF LimitInv, Unsubmitted, taskVars
    <2>5. MainRegisters'
      BY <1>2, <2>3 DEF LimitInv, MainRegisters, Matches, FirstOf, tableVars
    <2> QED
      BY <1>2, <1>3, <1>5, <2>4, <2>5 DEF LimitInv
  <1> QED
    BY <1>4, <1>5

\* Main's look-up and registration, which only happen before the first submission.
LEMMA LimitMain ==
    ASSUME TypeInv, LimitInv, Lookup(Main) \/ RegLoad(Main) \/ RegStore(Main) \/ RegFill(Main)
    PROVE  LimitInv'
  <1>1. Main \in Threads /\ Main \notin Workers /\ pc[Main] # "serving"
    BY PoolAssumption DEF Threads, Lookup, RegLoad, RegStore, RegFill, Goto
  <1>2. accepted = {} /\ accepted' = {} /\ queue' = queue /\ limit' = limit /\ want' = want
    BY <1>1 DEF LimitInv, Lookup, RegLoad, RegStore, RegFill, taskVars, callVars
  <1>3. \A y \in Types : limit'[y] > 0 => \E e \in Entries : Enforces(y, e)'
    BY <1>1, <1>2, EnforcesRegister DEF LimitInv
  <1>4. \A w \in Workers : pc'[w] = pc[w]
    BY <1>1 DEF Lookup, RegLoad, RegStore, RegFill, NotFound, FirstMatch, Found, Goto, TypeInv, TypeOK, Threads
  <1>5. \A e \in Entries : current'[e] = current[e] \/ current'[e] = 0
    BY DEF Lookup, RegLoad, RegStore, RegFill, Put, TypeInv, TypeOK
  <1>6. Unsubmitted'
    BY <1>2, <1>4, <1>5 DEF LimitInv, Unsubmitted
  <1>7. MainRegisters'
    <2>1. want[Main] \in Types
      BY <1>1 DEF LimitInv, MainRegisters
    <2>2. CASE Lookup(Main)
      <3>1. UNCHANGED tableVars
        BY <2>2 DEF Lookup
      <3>2. CASE NotFound(Main)
        BY <1>1, <2>1, <1>2, <3>2 DEF NotFound, Goto, MainRegisters, TypeInv, TypeOK
      <3>3. CASE FirstMatch(Main)
        <4>1. PICK e \in Matches(want[Main]) : (\A f \in Matches(want[Main]) : e <= f) /\ Found(Main, e)
          BY <3>3 DEF FirstMatch
        <4>2. e \in Entries /\ FirstOf(want[Main], e)
          BY <4>1 DEF Matches, FirstOf, Entries, TypeInv, TypeOK
        <4>3. reg'[Main] = e /\ pc'[Main] = "setmax"
          BY <1>1, <4>1 DEF Found, TypeInv, TypeOK
        <4> QED
          BY <1>2, <2>1, <3>1, <4>2, <4>3 DEF MainRegisters, FirstOf, tableVars
      <3>4. CASE /\ Matches(want[Main]) = {} /\ job_type_count < MaxTypes
                 /\ Goto(Main, "lookup", "load") /\ UNCHANGED <<ci, reg>>
        BY <1>1, <1>2, <2>1, <3>1, <3>4 DEF MainRegisters, Matches, Goto, tableVars, TypeInv, TypeOK
      <3> QED
        BY <2>2, <3>2, <3>3, <3>4 DEF Lookup
    <2>3. CASE RegLoad(Main)
      <3>1. /\ pc[Main] = "load" /\ pc'[Main] = "store" /\ reg'[Main] = job_type_count /\ UNCHANGED tableVars
        BY <1>1, <2>3 DEF RegLoad, Goto, TypeInv, TypeOK
      <3> QED
        BY <1>2, <2>1, <3>1 DEF LimitInv, MainRegisters, Matches, tableVars
    <2>4. CASE RegStore(Main)
      <3>1. /\ pc[Main] = "store" /\ pc'[Main] = "fill" /\ reg' = reg /\ job_type_count' = reg[Main] + 1
            /\ job_type_names' = job_type_names
        BY <1>1, <2>4 DEF RegStore, Goto, TypeInv, TypeOK
      <3>2. reg[Main] = job_type_count /\ reg[Main] \in Entries
        BY <3>1, PoolAssumption DEF LimitInv, MainRegisters, TypeInv, TypeOK, Entries
      <3>3. \A f \in Entries : f < reg[Main] => job_type_names[f] # want[Main]
        BY <3>1, <3>2 DEF LimitInv, MainRegisters, Matches
      <3> QED
        BY <1>2, <2>1, <3>1, <3>2, <3>3 DEF MainRegisters
    <2>5. CASE RegFill(Main)
      <3>1. /\ pc[Main] = "fill" /\ pc'[Main] = "setmax" /\ reg'[Main] = reg[Main] /\ job_type_count' = job_type_count
            /\ \A f \in Entries : job_type_names'[f] = IF f = reg[Main] THEN want[Main] ELSE job_type_names[f]
        BY <1>1, <2>5 DEF RegFill, Found, Put, TypeInv, TypeOK
      <3>2. reg[Main] \in Entries /\ reg[Main] \in Nat /\ job_type_count = reg[Main] + 1
        BY <3>1 DEF LimitInv, MainRegisters, Entries
      <3>3. FirstOf(want[Main], reg[Main])'
        BY <1>2, <3>1, <3>2 DEF LimitInv, MainRegisters, FirstOf, Entries
      <3> QED
        BY <1>2, <2>1, <3>1, <3>2, <3>3 DEF MainRegisters
    <2> QED
      BY <2>2, <2>3, <2>4, <2>5
  <1> QED
    BY <1>2, <1>3, <1>6, <1>7 DEF LimitInv

\* The end of wp_set_concurrency_limit: the entry Main found enforces the new limit.
LEMMA LimitSetMax == ASSUME TypeInv, LimitInv, SetMax PROVE LimitInv'
  <1>1. /\ Main \in Threads /\ Main \notin Workers /\ pc[Main] = "setmax"
        /\ pc'[Main] = "serving" /\ \A w \in Workers : pc'[w] = pc[w]
        /\ UNCHANGED <<taskVars, ci, want, reg, job_type_names, job_type_count, current>>
    BY PoolAssumption DEF SetMax, Goto, Threads, TypeInv, TypeOK
  <1>2. accepted = {} /\ accepted' = {} /\ \A w \in Workers : pc[w] \in {"loop", "pop", "wait", "exit"}
    BY <1>1 DEF LimitInv, Unsubmitted, taskVars
  <1>3. /\ want[Main] \in Types /\ reg[Main] \in Entries /\ FirstOf(want[Main], reg[Main])
    BY <1>1 DEF LimitInv, MainRegisters
  <1>4. /\ \A e \in Entries : max_concurrent'[e] = IF e = reg[Main] THEN newmax ELSE max_concurrent[e]
        /\ \A y \in Types : limit'[y] = IF y = want[Main] THEN newmax ELSE limit[y]
    BY <1>3 DEF SetMax, Put, TypeInv, TypeOK
  <1>5. Unsubmitted' /\ MainRegisters'
    BY <1>1, <1>2 DEF LimitInv, Unsubmitted, MainRegisters, taskVars
  <1>6. ASSUME NEW y \in Types, limit'[y] > 0 PROVE \E e \in Entries : Enforces(y, e)'
    <2>1. \A p \in Threads : pc'[p] \notin {"load", "store", "fill"}
      BY <1>1, <1>2 DEF Threads
    <2>2. \A w \in Workers : pc'[w] \notin {"acquire", "run", "release"}
      BY <1>1, <1>2
    <2>3. \A e \in Entries : Users(e)' = {} /\ current'[e] = 0
      BY <1>1, <1>2, <2>2 DEF Users, LimitInv, Unsubmitted
    <2>4. \A e \in Entries : Cardinality(Users(e)') = 0 /\ current'[e] = 0
      BY <2>3, FS_EmptySet
    <2>5. newmax \in Nat /\ \A e \in Entries : max_concurrent[e] \in Nat
      BY DEF TypeInv, TypeOK
    <2>6. CASE y = want[Main]
      <3>1. FirstOf(y, reg[Main])'
        BY <1>1, <1>3, <2>6 DEF FirstOf
      <3>2. Enforces(y, reg[Main])'
        BY <1>1, <1>3, <1>4, <2>1, <2>2, <2>4, <2>5, <2>6, <3>1 DEF Enforces
      <3> QED
        BY <1>1, <1>3, <3>2
    <2>7. CASE y # want[Main]
      <3>1. PICK e \in Entries : Enforces(y, e)
        BY <1>4, <1>6, <2>7 DEF LimitInv
      <3>2. e # reg[Main] /\ FirstOf(y, e)'
        BY <1>1, <1>3, <2>7, <3>1 DEF Enforces, FirstOf
      <3> QED
        BY <1>4, <2>1, <2>2, <2>4, <2>5, <2>7, <3>1, <3>2 DEF Enforces
    <2> QED
      BY <2>6, <2>7
  <1> QED
    BY <1>2, <1>5, <1>6 DEF LimitInv

\* A call that moves no thread and leaves the table alone.
LEMMA LimitFrame ==
    ASSUME LimitInv, accepted' # {} => pc[Main] = "serving", accepted' = {} => UNCHANGED <<accepted, queue>>,
           UNCHANGED <<pc, ci, want, reg, job_type_names, job_type_count, max_concurrent, current, limit>>
    PROVE  LimitInv'
  <1>1. Unsubmitted'
    BY DEF LimitInv, Unsubmitted
  <1>2. MainRegisters'
    BY DEF LimitInv, MainRegisters, Matches, FirstOf
  <1>3. ASSUME NEW y \in Types, NEW e \in Entries, Enforces(y, e) PROVE Enforces(y, e)'
    <2>1. FirstOf(y, e)' /\ Users(e)' = Users(e)
      BY <1>3 DEF Enforces, FirstOf, Users
    <2> QED
      BY <1>3, <2>1 DEF Enforces
  <1> QED
    BY <1>1, <1>2, <1>3 DEF LimitInv

\* The client's other calls.  That limits are set before the first submission is
\* what ~LateLimits says of the program that uses the pool.
LEMMA LimitNext == ASSUME ~LateLimits PROVE TypeInv /\ LimitInv /\ [Next]_vars => LimitInv'
  <1> SUFFICES ASSUME TypeInv, LimitInv, [Next]_vars PROVE LimitInv'
    OBVIOUS
  <1>1. Main \in Threads /\ Main \notin Workers
    BY PoolAssumption DEF Threads
  <1>2. ASSUME NEW t \in Tasks, Submit(t) PROVE LimitInv'
    <2>1. /\ pc[Main] = "serving" /\ accepted' # {}
          /\ UNCHANGED <<pc, ci, want, reg, job_type_names, job_type_count, max_concurrent, current, limit>>
      BY <1>2 DEF Submit, tableVars, callVars
    <2> QED
      BY <2>1, LimitFrame
  <1>3. ASSUME NEW y \in Types, NEW m \in Limits, SetLimit(y, m) PROVE LimitInv'
    <2>1. /\ pc[Main] = "serving" /\ pc'[Main] = "lookup" /\ want'[Main] = y
          /\ accepted = {} /\ pc' = [pc EXCEPT ![Main] = "lookup"]
          /\ \A p \in Threads : p # Main => pc'[p] = pc[p] /\ want'[p] = want[p]
          /\ UNCHANGED <<queue, accepted, ci, reg, job_type_names, job_type_count, max_concurrent, current, limit>>
      BY <1>1, <1>3 DEF SetLimit, Goto, taskVars, tableVars, TypeInv, TypeOK
    <2>2. Unsubmitted' /\ MainRegisters'
      BY <1>1, <2>1 DEF LimitInv, Unsubmitted, MainRegisters, Threads
    <2>3. ASSUME NEW z \in Types, NEW e \in Entries, Enforces(z, e) PROVE Enforces(z, e)'
      <3>1. FirstOf(z, e)'
        BY <2>1, <2>3 DEF Enforces, FirstOf
      <3> QED
        BY <1>1, <2>1, <2>3, <3>1, EnforcesFrame
    <2> QED
      BY <2>1, <2>2, <2>3 DEF LimitInv
  <1>4. CASE Shutdown
    BY <1>4, LimitFrame DEF Shutdown, taskVars, tableVars, callVars, LimitInv
  <1>5. CASE UNCHANGED vars
    BY <1>5, LimitFrame DEF vars, taskVars, tableVars, callVars, LimitInv
  <1> QED
    BY <1>2, <1>3, <1>4, <1>5, LimitWorker, LimitMain, LimitSetMax DEF Next, MainStep

\* With limits set before the first submission, at most limit[y] tasks of type y
\* run at the same time, although workers look types up and register them
\* without the lock: for any number of workers, types, tasks and limits.
THEOREM LimitsHold == ASSUME ~LateLimits PROVE Spec => []LimitRespected
  <1>1. Init => LimitInv
    <2> SUFFICES ASSUME Init PROVE LimitInv
      OBVIOUS
    <2>1. pc[Main] = "serving" /\ \A w \in Workers : pc[w] = "loop"
      BY PoolAssumption DEF Init, Threads
    <2> QED
      BY <2>1 DEF Init, LimitInv, Unsubmitted, MainRegisters
  <1>2. TypeInv /\ LimitInv => LimitRespected
    <2> SUFFICES ASSUME TypeInv, LimitInv, NEW y \in Types, limit[y] > 0
                 PROVE  Cardinality(RunningOf(y)) <= limit[y]
      BY DEF LimitRespected
    <2>1. PICK e \in Entries : Enforces(y, e)
      BY DEF LimitInv
    <2>2. RunningOf(y) \subseteq Users(e)
      BY <2>1 DEF RunningOf, Users, Enforces
    <2>3. Cardinality(RunningOf(y)) <= Cardinality(Users(e)) /\ Cardinality(RunningOf(y)) \in Nat
      BY <2>2, UsersFinite, FS_Subset, FS_CardinalityType
    <2> QED
      BY <2>1, <2>3, UsersFinite DEF Enforces, TypeInv, TypeOK
  <1> QED
    BY <1>1, <1>2, TypeInit, TypeNext, LimitNext, PTL DEF Spec
=============================================================================
