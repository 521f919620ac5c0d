------------------------- MODULE CoordinatorProofs -------------------------
(***************************************************************************)
(* Proofs about Coordinator for every number of workers and jobs: nothing  *)
(* but a cron job's second firing uses a wrapper that was freed, until     *)
(* then none runs twice, and the statistics never show a result too many   *)
(* unless a reset raced with an increment.                                 *)
(***************************************************************************)
EXTENDS Coordinator, SequenceTheorems, TLAPS

\* A wrapper belongs to one of the four kinds of jobs.
KindsAssumption ==
    /\ Jobs \subseteq Wrappers /\ Delayed \subseteq Wrappers /\ Ranked \subseteq Wrappers /\ Crons \subseteq Wrappers
    /\ Jobs \cap Delayed = {} /\ Jobs \cap Ranked = {} /\ Jobs \cap Crons = {}
    /\ Delayed \cap Ranked = {} /\ Delayed \cap Crons = {} /\ Ranked \cap Crons = {}
    /\ Main \notin Workers /\ None \notin Wrappers /\ QueueSize \in Nat

CoordinatorTypes ==
    /\ queue \in Seq(Jobs) /\ Len(queue) <= QueueSize
    /\ timers \subseteq Delayed /\ ranked \subseteq Ranked /\ crons \subseteq Crons /\ due \subseteq crons
    /\ heap \in [Wrappers -> {"none", "live", "freed"}]
    /\ pc \in [Threads -> {"idle", "load", "store", "free"}]
    /\ cur \in [Threads -> Wrappers \cup {None}]
    /\ reg \in [Threads -> Nat] /\ result \in [Threads -> Results \cup {None}]
    /\ stats \in [Counters -> Nat] /\ counted \in [Counters -> Nat]
    /\ runs \in [Wrappers -> Nat]
    /\ misused \subseteq Crons

\* A thread has a wrapper exactly while it is in jc_execute_wrapper; the pool's
\* workers have those of jc_submit_job.
HoldsOne ==
    /\ \A t \in Threads : pc[t] = "idle" <=> cur[t] = None
    /\ \A t \in Workers : cur[t] \in Jobs \cup {None}
    /\ \A t, u \in Threads : t # u /\ cur[t] # None => cur[t] # cur[u]

\* A wrapper that waits, or that no call has used yet, has not run and is with nobody.
Untouched ==
    /\ \A i, j \in DOMAIN queue : queue[i] = queue[j] => i = j
    /\ \A w \in Waiting : heap[w] = "live"
    /\ \A w \in crons : heap[w] # "none"
    /\ \A w \in Wrappers : w \in Waiting \/ heap[w] = "none" =>
           runs[w] = 0 /\ \A t \in Threads : cur[t] # w
    /\ \A w \in Wrappers \ Crons : runs[w] <= 1

\* Only a cron job's wrapper is used once freed: one that has run was freed or Main has it.
UsedOnce ==
    /\ \A t \in Threads : cur[t] # None => heap[cur[t]] = "live" \/ cur[t] \in misused
    /\ \A w \in Crons : w \in misused \/ (runs[w] <= 1 /\ (runs[w] > 0 => heap[w] = "freed" \/ cur[Main] = w))

\* The statistics lag behind: every increment under way has been counted, unless a
\* reset came in between.
CountsLag ==
    /\ ~raced => \A r \in Counters : stats[r] <= counted[r]
    /\ \A t \in Threads : pc[t] \in {"load", "store"} => result[t] \in Counters
    /\ ~raced => \A t \in Threads : pc[t] = "store" => reg[t] < counted[result[t]]
    /\ phase = "refusing" => "REJECTED" \in Counters /\ pc[Main] = "idle"
    /\ ~raced /\ phase = "refusing" => reg[Main] < counted["REJECTED"]

CoordinatorInv == CoordinatorTypes /\ HoldsOne /\ Untouched /\ UsedOnce /\ CountsLag

----------------------------------------------------------------------------
(* Steps of jc_execute_wrapper                                             *)

\* A thread that starts a wrapper nobody has takes it over: one that waited no
\* longer waits, and a cron job's only ever runs in Main.
LEMMA ExecuteKeeps ==
    ASSUME KindsAssumption, CoordinatorInv, CoordinatorTypes',
           NEW t \in Threads, pc[t] = "idle",
           NEW w \in Wrappers, Execute(t, w),
           t \in Workers => w \in Jobs,
           \A u \in Threads : cur[u] # w,
           w \notin Crons => runs[w] = 0 /\ heap[w] = "live",
           w \notin Waiting', heap[w] # "none",
           Waiting' \subseteq Waiting,
           \A i, j \in DOMAIN queue' : queue'[i] = queue'[j] => i = j,
           phase = "refusing" => t # Main, phase' = "refusing" => phase = "refusing",
           UNCHANGED <<crons, heap, reg, stats, counted, raced>>
    PROVE  CoordinatorInv'
  <1> USE DEF CoordinatorInv, CoordinatorTypes
  <1>0. w # None /\ Main \in Threads
    BY DEF KindsAssumption, Threads
  <1>1. /\ cur'[t] = w /\ \A u \in Threads : u # t => cur'[u] = cur[u]
        /\ pc'[t] \in {"load", "free"} /\ \A u \in Threads : u # t => pc'[u] = pc[u]
        /\ \A u \in Threads : u # t => result'[u] = result[u]
        /\ pc'[t] = "load" => result'[t] \in Counters
    BY DEF Execute
  <1>2. /\ runs'[w] = runs[w] + 1 /\ \A v \in Wrappers : v # w => runs'[v] = runs[v]
    BY DEF Execute
  <1>9. misused' = IF heap[w] = "freed" THEN misused \cup {w} ELSE misused
    BY DEF Execute, Used
  <1>10. heap[w] = "live" \/ heap[w] = "freed"
    OBVIOUS
  <1> HIDE DEF CoordinatorTypes
  <1>3. HoldsOne'
    <2>1. \A u \in Threads : pc'[u] = "idle" <=> cur'[u] = None
      BY <1>0, <1>1 DEF HoldsOne
    <2>2. \A u \in Workers : cur'[u] \in Jobs \cup {None}
      BY <1>1 DEF HoldsOne, Threads
    <2>3. \A u, v \in Threads : u # v /\ cur'[u] # None => cur'[u] # cur'[v]
      BY <1>1 DEF HoldsOne
    <2> QED
      BY <2>1, <2>2, <2>3 DEF HoldsOne
  <1>4. \A v \in Wrappers : v \in Waiting' \/ heap'[v] = "none" =>
            runs'[v] = 0 /\ \A u \in Threads : cur'[u] # v
    BY <1>1, <1>2 DEF Untouched
  <1>5. \A v \in Wrappers \ Crons : runs'[v] <= 1
    <2> SUFFICES ASSUME NEW v \in Wrappers, v \notin Crons PROVE runs'[v] <= 1
      OBVIOUS
    <2>1. CASE v = w
      BY <1>2, <2>1
    <2>2. CASE v # w
      BY <1>2, <2>2 DEF Untouched
    <2> QED
      BY <2>1, <2>2
  <1>6. (\A v \in Waiting' : heap'[v] = "live") /\ (\A v \in crons' : heap'[v] # "none")
    BY DEF Untouched
  <1>7. Untouched'
    BY <1>4, <1>5, <1>6 DEF Untouched
  <1> USE DEF CoordinatorTypes
  <1>8. CountsLag'
    <2>1. ~raced' => \A r \in Counters : stats'[r] <= counted'[r]
      BY DEF CountsLag
    <2>2. \A u \in Threads : pc'[u] \in {"load", "store"} => result'[u] \in Counters
      BY <1>1 DEF CountsLag
    <2>3. ~raced' => \A u \in Threads : pc'[u] = "store" => reg'[u] < counted'[result'[u]]
      BY <1>1 DEF CountsLag
    <2>4. /\ phase' = "refusing" => "REJECTED" \in Counters /\ pc'[Main] = "idle"
          /\ ~raced' /\ phase' = "refusing" => reg'[Main] < counted'["REJECTED"]
      BY <1>0, <1>1 DEF CountsLag
    <2> QED
      BY <2>1, <2>2, <2>3, <2>4 DEF CountsLag
  <1> HIDE DEF CoordinatorTypes
  <1>11. UsedOnce'
    <2>1. \A u \in Threads : cur'[u] # None => heap'[cur'[u]] = "live" \/ cur'[u] \in misused'
      BY <1>1, <1>9, <1>10 DEF UsedOnce
    <2>2. ASSUME NEW v \in Crons
          PROVE  v \in misused' \/ (runs'[v] <= 1 /\ (runs'[v] > 0 => heap'[v] = "freed" \/ cur'[Main] = v))
      <3>1. v \in Wrappers /\ runs[v] \in Nat
        BY DEF KindsAssumption, CoordinatorTypes
      <3>2. CASE v = w
        <4>1. t = Main /\ cur[Main] = None
          BY <1>0, <3>2 DEF Threads, KindsAssumption, HoldsOne
        <4>2. CASE heap[w] = "freed" \/ w \in misused
          BY <1>9, <3>2, <4>2
        <4>3. CASE heap[w] = "live" /\ w \notin misused
          <5>1. runs[w] = 0
            BY <1>0, <3>1, <3>2, <4>1, <4>3 DEF UsedOnce
          <5> QED
            BY <1>1, <1>2, <3>2, <4>1, <5>1
        <4> QED
          BY <1>10, <4>2, <4>3
      <3>3. CASE v # w
        <4>1. runs'[v] = runs[v] /\ heap'[v] = heap[v]
          BY <1>2, <3>1, <3>3
        <4>2. cur[Main] = v => cur'[Main] = v
          <5>1. CASE t = Main
            BY <3>1, <5>1 DEF HoldsOne, KindsAssumption
          <5>2. CASE t # Main
            BY <1>0, <1>1, <5>2
          <5> QED
            BY <5>1, <5>2
        <4> QED
          BY <1>9, <4>1, <4>2 DEF UsedOnce
      <3> QED
        BY <3>2, <3>3
    <2> QED
      BY <2>1, <2>2 DEF UsedOnce
  <1> QED
    BY <1>3, <1>7, <1>8, <1>11

\* The types of a thread's locals after it starts a wrapper.
LEMMA ExecuteTypes ==
    ASSUME CoordinatorTypes, NEW t \in Threads, NEW w \in Wrappers, Execute(t, w)
    PROVE  /\ pc' \in [Threads -> {"idle", "load", "store", "free"}]
           /\ cur' \in [Threads -> Wrappers \cup {None}]
           /\ result' \in [Threads -> Results \cup {None}]
           /\ runs' \in [Wrappers -> Nat]
           /\ misused' \subseteq misused \cup {w}
           /\ heap[w] # "freed" => misused' = misused
  <1>1. PICK r \in Results : /\ result' = [result EXCEPT ![t] = r]
                            /\ pc' = [pc EXCEPT ![t] = IF r \in Counters THEN "load" ELSE "free"]
    BY DEF Execute
  <1> QED
    BY <1>1 DEF Execute, Used, CoordinatorTypes

\* Counting a result and freeing the wrapper.
LEMMA CountKeeps ==
    ASSUME KindsAssumption, CoordinatorInv, NEW t \in Threads, Load(t) \/ Store(t) \/ Free(t)
    PROVE  CoordinatorInv'
  <1> USE DEF CoordinatorInv, CoordinatorTypes
  <1>0. Main \in Threads
    BY DEF Threads
  <1>1. CASE Load(t)
    <2>1. pc[t] = "load" /\ result[t] \in Counters
      BY <1>1 DEF Load, CountsLag
    <2>2. CoordinatorTypes'
      BY <1>1, <2>1 DEF Load, schedulers
    <2>3. HoldsOne'
      BY <1>1, <2>1 DEF Load, HoldsOne
    <2>4. Untouched'
      BY <1>1 DEF Load, Untouched, Waiting, schedulers
    <2>5. /\ \A u \in Threads : u # t => reg'[u] = reg[u] /\ pc'[u] = pc[u]
          /\ reg'[t] = stats[result[t]] /\ pc'[t] = "store" /\ UNCHANGED <<result, stats, phase, raced>>
          /\ counted'[result[t]] = counted[result[t]] + 1
          /\ \A r \in Counters : counted'[r] \in Nat /\ counted'[r] >= counted[r]
      BY <1>1, <2>1 DEF Load
    <2>6. ~raced' => \A r \in Counters : stats'[r] <= counted'[r]
      BY <2>5 DEF CountsLag
    <2>7. ~raced' => \A u \in Threads : pc'[u] = "store" => reg'[u] < counted'[result'[u]]
      <3> SUFFICES ASSUME ~raced, NEW u \in Threads, pc'[u] = "store" PROVE reg'[u] < counted'[result[u]]
        BY <2>5
      <3>1. CASE u = t
        BY <2>1, <2>5, <3>1 DEF CountsLag
      <3>2. CASE u # t
        BY <2>5, <3>2 DEF CountsLag
      <3> QED
        BY <3>1, <3>2
    <2>8. /\ phase' = "refusing" => "REJECTED" \in Counters /\ pc'[Main] = "idle"
          /\ ~raced' /\ phase' = "refusing" => reg'[Main] < counted'["REJECTED"]
      BY <1>0, <2>1, <2>5 DEF CountsLag
    <2>9. UsedOnce'
      BY <1>1 DEF Load, UsedOnce
    <2> QED
      BY <2>2, <2>3, <2>4, <2>1, <2>5, <2>6, <2>7, <2>8, <2>9 DEF CountsLag
  <1>2. CASE Store(t)
    <2>1. pc[t] = "store" /\ result[t] \in Counters /\ (~raced => reg[t] < counted[result[t]])
      BY <1>2 DEF Store, CountsLag
    <2>2. CoordinatorTypes'
      BY <1>2, <2>1 DEF Store, schedulers, history
    <2>3. HoldsOne'
      BY <1>2, <2>1 DEF Store, HoldsOne
    <2>4. Untouched'
      BY <1>2 DEF Store, Untouched, Waiting, schedulers, history
    <2>5. CountsLag'
      BY <1>0, <1>2, <2>1 DEF Store, CountsLag, history
    <2>6. UsedOnce'
      BY <1>2 DEF Store, UsedOnce, history
    <2> QED
      BY <2>2, <2>3, <2>4, <2>5, <2>6
  <1>3. CASE Free(t)
    <2>1. pc[t] = "free" /\ cur[t] \in Wrappers /\ cur[t] \notin Waiting
      BY <1>3 DEF Free, HoldsOne, Untouched
    <2>6. misused' = misused
      <3>1. cur[t] # None
        BY <2>1 DEF KindsAssumption
      <3> QED
        BY <1>3, <3>1 DEF Free, Used, UsedOnce
    <2>2. CoordinatorTypes'
      BY <1>3, <2>1, <2>6 DEF Free, schedulers
    <2>3. HoldsOne'
      BY <1>3, <2>1 DEF Free, HoldsOne, Threads
    <2>4. Untouched'
      <3>1. /\ heap'[cur[t]] = "freed" /\ \A v \in Wrappers : v # cur[t] => heap'[v] = heap[v]
            /\ \A u \in Threads : cur'[u] = cur[u] \/ cur'[u] = None
            /\ UNCHANGED <<queue, timers, ranked, crons, runs>> /\ Waiting' = Waiting
        BY <1>3, <2>1 DEF Free, Waiting, schedulers
      <3>2. Waiting \subseteq Wrappers /\ crons \subseteq Wrappers
        BY DEF Waiting, KindsAssumption, ToSet
      <3> QED
        BY <2>1, <3>1, <3>2 DEF Untouched, KindsAssumption
    <2>5. CountsLag'
      BY <1>0, <1>3, <2>1 DEF Free, CountsLag
    <2>7. UsedOnce'
      <3>1. /\ heap'[cur[t]] = "freed" /\ \A v \in Wrappers : v # cur[t] => heap'[v] = heap[v]
            /\ cur'[t] = None /\ \A u \in Threads : u # t => cur'[u] = cur[u]
            /\ UNCHANGED runs
        BY <1>3, <2>1 DEF Free
      <3>2. \A u \in Threads : cur'[u] # None => heap'[cur'[u]] = "live" \/ cur'[u] \in misused'
        <4>1. \A u \in Threads : u # t /\ cur[u] # None => cur[u] \in Wrappers /\ cur[u] # cur[t]
          BY DEF HoldsOne
        <4>2. \A u \in Threads : cur[u] # None => heap[cur[u]] = "live" \/ cur[u] \in misused
          BY DEF UsedOnce
        <4> HIDE DEF CoordinatorInv, CoordinatorTypes
        <4> QED
          BY <2>6, <3>1, <4>1, <4>2
      <3>3. \A v \in Crons : v \in Wrappers /\ (cur[Main] = v => cur'[Main] = v \/ heap'[v] = "freed")
        BY <1>0, <3>1 DEF KindsAssumption
      <3>4. \A v \in Crons : heap[v] = "freed" => heap'[v] = "freed"
        BY <3>1, <3>3
      <3> QED
        BY <2>6, <3>1, <3>2, <3>3, <3>4 DEF UsedOnce
    <2> QED
      BY <2>2, <2>3, <2>4, <2>5, <2>7
  <1> QED
    BY <1>1, <1>2, <1>3

----------------------------------------------------------------------------
(* The pool's queue as a sequence without repetition                       *)

NoRepeat(s) == \A i, j \in DOMAIN s : s[i] = s[j] => i = j

\* Taking the oldest task.
LEMMA TakeOldest ==
    ASSUME NEW S, NEW s \in Seq(S), NoRepeat(s), s # <<>>
    PROVE  /\ Head(s) \in S /\ Head(s) \in ToSet(s) /\ Head(s) \notin ToSet(Tail(s))
           /\ Tail(s) \in Seq(S) /\ Len(Tail(s)) = Len(s) - 1
           /\ ToSet(Tail(s)) \subseteq ToSet(s) /\ NoRepeat(Tail(s))
  <1>1. /\ Len(s) \in Nat \ {0} /\ DOMAIN s = 1 .. Len(s) /\ Head(s) = s[1] /\ Head(s) \in S
        /\ Tail(s) \in Seq(S) /\ Len(Tail(s)) = Len(s) - 1
        /\ DOMAIN Tail(s) = 1 .. Len(s) - 1
        /\ \A i \in 1 .. Len(s) - 1 : Tail(s)[i] = s[i + 1]
    BY HeadTailProperties, EmptySeq, LenProperties
  <1>2. NoRepeat(Tail(s))
    <2> SUFFICES ASSUME NEW i \in 1 .. Len(s) - 1, NEW j \in 1 .. Len(s) - 1, Tail(s)[i] = Tail(s)[j]
                 PROVE  i = j
      BY <1>1 DEF NoRepeat
    <2>1. i + 1 \in DOMAIN s /\ j + 1 \in DOMAIN s /\ s[i + 1] = s[j + 1]
      BY <1>1
    <2>2. i + 1 = j + 1
      BY <2>1 DEF NoRepeat
    <2> QED
      BY <2>2
  <1>3. Head(s) \in ToSet(s)
    BY <1>1 DEF ToSet
  <1>4. \A i \in 1 .. Len(s) - 1 : i + 1 \in DOMAIN s /\ i + 1 # 1
    BY <1>1
  <1>5. ToSet(Tail(s)) \subseteq ToSet(s)
    BY <1>1, <1>4 DEF ToSet
  <1>6. Head(s) \notin ToSet(Tail(s))
    BY <1>1, <1>4 DEF ToSet, NoRepeat
  <1> QED
    BY <1>1, <1>2, <1>3, <1>5, <1>6

\* Adding tasks that are not in the queue.
LEMMA AddTasks ==
    ASSUME NEW S, NEW s \in Seq(S), NEW t \in Seq(S), NoRepeat(s), NoRepeat(t),
           ToSet(s) \cap ToSet(t) = {}
    PROVE  /\ s \o t \in Seq(S) /\ Len(s \o t) = Len(s) + Len(t)
           /\ ToSet(s \o t) = ToSet(s) \cup ToSet(t) /\ NoRepeat(s \o t)
  <1> DEFINE q == s \o t
  <1>1. /\ Len(s) \in Nat /\ Len(t) \in Nat /\ DOMAIN s = 1 .. Len(s) /\ DOMAIN t = 1 .. Len(t)
        /\ q \in Seq(S) /\ Len(q) = Len(s) + Len(t) /\ DOMAIN q = 1 .. Len(s) + Len(t)
        /\ \A i \in 1 .. Len(s) + Len(t) : q[i] = IF i <= Len(s) THEN s[i] ELSE t[i - Len(s)]
    BY ConcatProperties, LenProperties
  <1> HIDE DEF q
  <1>2. \A i \in DOMAIN q : \/ i \in DOMAIN s /\ q[i] = s[i] /\ q[i] \in ToSet(s)
                            \/ i - Len(s) \in DOMAIN t /\ q[i] = t[i - Len(s)] /\ q[i] \in ToSet(t)
    BY <1>1 DEF ToSet
  <1>3. ToSet(q) \subseteq ToSet(s) \cup ToSet(t)
    BY <1>2 DEF ToSet
  <1>4. \A i \in DOMAIN s : i \in DOMAIN q /\ q[i] = s[i]
    BY <1>1
  <1>5. \A i \in DOMAIN t : i + Len(s) \in DOMAIN q /\ q[i + Len(s)] = t[i]
    BY <1>1
  <1>6. ToSet(s) \subseteq ToSet(q) /\ ToSet(t) \subseteq ToSet(q)
    BY <1>4, <1>5 DEF ToSet
  <1>7. NoRepeat(q)
    <2> SUFFICES ASSUME NEW i \in DOMAIN q, NEW j \in DOMAIN q, q[i] = q[j] PROVE i = j
      BY DEF NoRepeat
    <2>1. CASE i \in DOMAIN s /\ j \in DOMAIN s
      BY <1>4, <2>1 DEF NoRepeat
    <2>2. CASE i - Len(s) \in DOMAIN t /\ j - Len(s) \in DOMAIN t
      <3>0. t[i - Len(s)] = q[i] /\ t[j - Len(s)] = q[j]
        BY <1>1, <2>2
      <3>1. i - Len(s) = j - Len(s)
        BY <2>2, <3>0 DEF NoRepeat
      <3> QED
        BY <1>1, <3>1
    <2> QED
      BY <1>2, <2>1, <2>2
  <1> QED
    BY <1>1, <1>3, <1>6, <1>7 DEF q

\* A prefix of a sequence without repetition has none.
LEMMA Prefix ==
    ASSUME NEW S, NEW s \in Seq(S), NoRepeat(s), NEW n \in 0 .. Len(s)
    PROVE  /\ SubSeq(s, 1, n) \in Seq(S) /\ Len(SubSeq(s, 1, n)) = n
           /\ ToSet(SubSeq(s, 1, n)) \subseteq ToSet(s) /\ NoRepeat(SubSeq(s, 1, n))
  <1>1. Len(s) \in Nat /\ DOMAIN s = 1 .. Len(s) /\ \A i \in 1 .. Len(s) : s[i] \in S
    BY LenProperties, ElementOfSeq
  <1>2. /\ SubSeq(s, 1, n) \in Seq(S) /\ Len(SubSeq(s, 1, n)) = n
        /\ \A i \in 1 .. n : SubSeq(s, 1, n)[i] = s[i]
    BY <1>1, SubSeqProperties
  <1>3. DOMAIN SubSeq(s, 1, n) = 1 .. n
    BY <1>2, LenProperties
  <1> QED
    BY <1>1, <1>2, <1>3 DEF ToSet, NoRepeat

----------------------------------------------------------------------------
(* Main's calls and the pool's workers                                     *)

\* A step that starts, counts and frees nothing.
LEMMA QuietKeeps ==
    ASSUME CoordinatorInv, UNCHANGED <<queue, schedulers, heap, threads, stats, counted, runs, raced, misused>>,
           due' \subseteq crons, phase' = "refusing" => phase = "refusing"
    PROVE  CoordinatorInv'
  <1>1. CoordinatorTypes'
    BY DEF CoordinatorInv, CoordinatorTypes, schedulers, threads
  <1>2. HoldsOne' /\ Untouched' /\ UsedOnce'
    BY DEF CoordinatorInv, HoldsOne, Untouched, UsedOnce, Waiting, schedulers, threads
  <1>3. CountsLag'
    BY DEF CoordinatorInv, CountsLag, threads
  <1> QED
    BY <1>1, <1>2, <1>3 DEF CoordinatorInv

\* Every wrapper that waits is a wrapper.
LEMMA WaitingWrappers ==
    ASSUME KindsAssumption, CoordinatorInv
    PROVE  Waiting \subseteq Wrappers /\ ToSet(queue) \subseteq Jobs
  <1>1. ToSet(queue) \subseteq Jobs
    BY DEF CoordinatorInv, CoordinatorTypes, ToSet
  <1> QED
    BY <1>1 DEF CoordinatorInv, CoordinatorTypes, Waiting, KindsAssumption

\* Wrappers that were unused become live and wait, in the queue or a scheduler.
LEMMA NewKeeps ==
    ASSUME KindsAssumption, CoordinatorInv, NEW N \in SUBSET Wrappers,
           \A w \in N : heap[w] = "none", CoordinatorTypes',
           \A i, j \in DOMAIN queue' : queue'[i] = queue'[j] => i = j,
           Waiting' \subseteq Waiting \cup N, crons' \subseteq crons \cup N,
           \A w \in Wrappers : heap'[w] = IF w \in N THEN "live" ELSE heap[w],
           UNCHANGED <<threads, stats, counted, phase, runs, raced, misused>>
    PROVE  CoordinatorInv'
  <1>0. Waiting \subseteq Wrappers /\ crons \subseteq Wrappers
    BY WaitingWrappers DEF CoordinatorInv, CoordinatorTypes, KindsAssumption
  <1>1. HoldsOne'
    BY DEF CoordinatorInv, HoldsOne, threads
  <1>2. Untouched'
    BY <1>0 DEF CoordinatorInv, Untouched, threads
  <1>3. CountsLag'
    BY DEF CoordinatorInv, CountsLag, threads
  <1>4. UsedOnce'
    <2>1. \A t \in Threads : cur[t] # None => cur[t] \in Wrappers /\ heap[cur[t]] # "none"
      BY DEF CoordinatorInv, CoordinatorTypes, Untouched
    <2>2. \A w \in Crons : w \in Wrappers /\ (heap[w] = "none" => runs[w] = 0)
      BY DEF CoordinatorInv, Untouched, KindsAssumption
    <2>3. \A w \in Wrappers : heap[w] # "none" => heap'[w] = heap[w]
      OBVIOUS
    <2> QED
      BY <2>1, <2>2, <2>3 DEF CoordinatorInv, UsedOnce, threads
  <1> QED
    BY <1>1, <1>2, <1>3, <1>4 DEF CoordinatorInv

\* jc_submit_job, jc_submit_dag and the scheduling calls.
LEMMA CallsKeep == ASSUME KindsAssumption, CoordinatorInv, Calls PROVE CoordinatorInv'
  <1>0. CoordinatorTypes /\ NoRepeat(queue) /\ Main \in Threads
    BY DEF CoordinatorInv, Untouched, NoRepeat, Threads
  <1>1. ASSUME NEW w \in Wrappers, SubmitJob(w) PROVE CoordinatorInv'
    <2>1. /\ w \in Jobs /\ heap[w] = "none" /\ queue' = Append(queue, w) /\ Len(queue) < QueueSize
          /\ heap' = [heap EXCEPT ![w] = "live"]
          /\ UNCHANGED <<timers, ranked, crons, threads, stats, phase, due, runs, counted, raced, misused>>
      BY <1>1 DEF SubmitJob, Enqueue, schedulers
    <2>2. w \notin ToSet(queue)
      BY <2>1 DEF CoordinatorInv, Untouched, Waiting
    <2>3. /\ queue' = queue \o <<w>> /\ <<w>> \in Seq(Jobs) /\ NoRepeat(<<w>>) /\ ToSet(<<w>>) = {w} /\ Len(<<w>>) = 1
      BY <1>0, <2>1, AppendIsConcat DEF CoordinatorTypes, NoRepeat, ToSet
    <2>4. /\ queue' \in Seq(Jobs) /\ Len(queue') = Len(queue) + 1 /\ ToSet(queue') = ToSet(queue) \cup {w}
          /\ NoRepeat(queue')
      <3>1. queue \in Seq(Jobs) /\ NoRepeat(queue) /\ ToSet(queue) \cap ToSet(<<w>>) = {}
        BY <1>0, <2>2, <2>3 DEF CoordinatorTypes
      <3>2. /\ queue \o <<w>> \in Seq(Jobs) /\ Len(queue \o <<w>>) = Len(queue) + Len(<<w>>)
            /\ ToSet(queue \o <<w>>) = ToSet(queue) \cup ToSet(<<w>>) /\ NoRepeat(queue \o <<w>>)
        BY ONLY <2>3, <3>1, AddTasks
      <3> QED
        BY ONLY <2>3, <3>2
    <2>5. CoordinatorTypes'
      BY <1>0, <2>1, <2>4, LenProperties DEF CoordinatorTypes, KindsAssumption, threads
    <2>6. Waiting' \subseteq Waiting \cup {w}
      BY <2>1, <2>4 DEF Waiting
    <2>7. \A v \in Wrappers : heap'[v] = IF v \in {w} THEN "live" ELSE heap[v]
      BY <1>0, <2>1 DEF CoordinatorTypes
    <2> QED
      BY <2>1, <2>4, <2>5, <2>6, <2>7, NewKeeps DEF NoRepeat
  <1>2. ASSUME NEW w \in Wrappers, Schedule(w) PROVE CoordinatorInv'
    <2>1. /\ heap[w] = "none" /\ heap' = [heap EXCEPT ![w] = "live"] /\ crons \subseteq crons'
          /\ UNCHANGED <<queue, threads, stats, phase, due, runs, counted, raced, misused>>
      BY <1>2 DEF Schedule, history, schedulers
    <2>2. timers' \subseteq timers \cup {w} /\ ranked' \subseteq ranked \cup {w} /\ crons' \subseteq crons \cup {w}
      BY <1>2 DEF Schedule, schedulers
    <2>3. timers' \subseteq Delayed /\ ranked' \subseteq Ranked /\ crons' \subseteq Crons
      BY <1>0, <1>2 DEF Schedule, schedulers, CoordinatorTypes
    <2>4. CoordinatorTypes'
      BY <1>0, <2>1, <2>3 DEF CoordinatorTypes, threads
    <2>5. Waiting' \subseteq Waiting \cup {w}
      BY <2>1, <2>2 DEF Waiting
    <2>6. \A v \in Wrappers : heap'[v] = IF v \in {w} THEN "live" ELSE heap[v]
      BY <1>0, <2>1 DEF CoordinatorTypes
    <2> QED
      BY <1>0, <2>1, <2>2, <2>4, <2>5, <2>6, NewKeeps DEF NoRepeat
  <1>3. ASSUME NEW ready \in {s \in SeqOf(Jobs, 2) : IsInjective(s)}, SubmitDag(ready) PROVE CoordinatorInv'
    <2>1. ready \in Seq(Jobs) /\ NoRepeat(ready) /\ Len(ready) \in Nat
      <3>1. PICK m \in 0 .. 2 : ready \in [1 .. m -> Jobs]
        BY DEF SeqOf
      <3>2. ready \in Seq(Jobs)
        BY <3>1
      <3> QED
        BY <3>2, LenProperties DEF IsInjective, NoRepeat
    <2> DEFINE room == IF state = "RUNNING" THEN QueueSize - Len(queue) ELSE 0
               n == IF Len(ready) < room THEN Len(ready) ELSE room
               taken == SubSeq(ready, 1, n)
    <2>2. /\ \A w \in ToSet(ready) : heap[w] = "none"
          /\ heap' = [w \in Wrappers |-> IF w \in ToSet(taken) THEN "live" ELSE heap[w]]
          /\ queue' = queue \o taken
          /\ UNCHANGED <<timers, ranked, crons, threads, stats, phase, due, runs, counted, raced, misused>>
      BY <1>3 DEF SubmitDag, schedulers
    <2>3. Len(queue) \in Nat /\ QueueSize \in Nat /\ Len(queue) <= QueueSize
      BY <1>0, LenProperties DEF CoordinatorTypes, KindsAssumption
    <2>4. n \in 0 .. Len(ready) /\ n <= QueueSize - Len(queue)
      BY <2>1, <2>3
    <2> HIDE DEF n
    <2>5. taken \in Seq(Jobs) /\ Len(taken) = n /\ ToSet(taken) \subseteq ToSet(ready) /\ NoRepeat(taken)
      BY <2>1, <2>4, Prefix
    <2> HIDE DEF taken
    <2>6. ToSet(queue) \cap ToSet(taken) = {}
      BY <2>2, <2>5 DEF CoordinatorInv, Untouched, Waiting
    <2>7. /\ queue' \in Seq(Jobs) /\ Len(queue') = Len(queue) + n
          /\ ToSet(queue') = ToSet(queue) \cup ToSet(taken) /\ NoRepeat(queue')
      <3>1. queue \in Seq(Jobs) /\ NoRepeat(queue)
        BY <1>0 DEF CoordinatorTypes
      <3>2. /\ queue \o taken \in Seq(Jobs) /\ Len(queue \o taken) = Len(queue) + Len(taken)
            /\ ToSet(queue \o taken) = ToSet(queue) \cup ToSet(taken) /\ NoRepeat(queue \o taken)
        BY ONLY <2>5, <2>6, <3>1, AddTasks
      <3> QED
        BY ONLY <2>2, <2>5, <3>2
    <2>8. CoordinatorTypes'
      BY <1>0, <2>2, <2>3, <2>4, <2>7 DEF CoordinatorTypes, threads
    <2>9. ToSet(taken) \subseteq Wrappers
      BY <2>5 DEF ToSet, KindsAssumption
    <2>10. Waiting' \subseteq Waiting \cup ToSet(taken)
      BY <2>2, <2>7 DEF Waiting
    <2> QED
      BY <2>2, <2>5, <2>7, <2>8, <2>9, <2>10, NewKeeps DEF NoRepeat
  <1>4. CASE Refuse
    <2>1. /\ phase = "idle" /\ pc[Main] = "idle" /\ "REJECTED" \in Counters /\ phase' = "refusing"
          /\ reg' = [reg EXCEPT ![Main] = stats["REJECTED"]]
          /\ counted' = [counted EXCEPT !["REJECTED"] = @ + 1]
          /\ UNCHANGED <<queue, timers, ranked, crons, heap, pc, cur, result, stats, due, runs, raced, misused>>
      BY <1>4 DEF Refuse, Between, schedulers
    <2>2. CoordinatorTypes'
      BY <1>0, <2>1 DEF CoordinatorTypes
    <2>3. HoldsOne' /\ Untouched' /\ UsedOnce'
      BY <2>1 DEF CoordinatorInv, HoldsOne, Untouched, UsedOnce, Waiting
    <2>4. /\ reg'[Main] = stats["REJECTED"] /\ \A u \in Threads : u # Main => reg'[u] = reg[u]
          /\ \A r \in Counters : counted'[r] \in Nat /\ counted'[r] >= counted[r] /\ counted[r] \in Nat /\ stats[r] \in Nat
          /\ counted'["REJECTED"] = counted["REJECTED"] + 1 /\ \A u \in Threads : reg[u] \in Nat
      BY <1>0, <2>1 DEF CoordinatorTypes
    <2>5. CountsLag'
      BY <1>0, <2>1, <2>4 DEF CoordinatorInv, CountsLag
    <2> QED
      BY <2>2, <2>3, <2>5 DEF CoordinatorInv
  <1>5. CASE Start \/ Stop \/ DrainStart
    BY <1>0, <1>5, QuietKeeps DEF Start, Stop, DrainStart, Between, history, CoordinatorTypes
  <1>6. CASE ResetStats
    <2>1. /\ UNCHANGED <<queue, schedulers, heap, threads, phase, due, runs, misused>> /\ phase = "idle" /\ pc[Main] = "idle"
          /\ stats' = [r \in Counters |-> 0] /\ counted' = [r \in Counters |-> 0]
      BY <1>6 DEF ResetStats, Between
    <2>2. ~raced' => \A t \in Threads : pc[t] # "store"
      BY <1>6, <2>1 DEF ResetStats, Threads
    <2>3. CoordinatorTypes'
      BY <1>0, <2>1 DEF CoordinatorTypes, schedulers, threads
    <2>4. HoldsOne' /\ Untouched' /\ UsedOnce'
      BY <2>1 DEF CoordinatorInv, HoldsOne, Untouched, UsedOnce, Waiting, schedulers, threads
    <2>5. CountsLag'
      BY <2>1, <2>2 DEF CoordinatorInv, CountsLag, threads
    <2> QED
      BY <2>3, <2>4, <2>5 DEF CoordinatorInv
  <1> QED
    BY <1>1, <1>2, <1>3, <1>4, <1>5, <1>6 DEF Calls

\* A worker takes the oldest task, or counts and frees the one it ran.
LEMMA WorkerKeeps ==
    ASSUME KindsAssumption, CoordinatorInv, NEW t \in Workers, WorkerStep(t)
    PROVE  CoordinatorInv'
  <1>0. t \in Threads /\ CoordinatorTypes /\ t # Main
    BY DEF Threads, CoordinatorInv, KindsAssumption
  <1>1. CASE Take(t)
    <2>1. /\ pc[t] = "idle" /\ queue # <<>> /\ Execute(t, Head(queue)) /\ queue' = Tail(queue)
          /\ UNCHANGED <<timers, ranked, crons, heap, reg, stats, phase, due, counted, raced>>
      BY <1>1 DEF Take, schedulers
    <2> DEFINE w == Head(queue)
    <2>2. queue \in Seq(Jobs) /\ NoRepeat(queue) /\ Len(queue) \in Nat /\ Len(queue) <= QueueSize /\ QueueSize \in Nat
      BY <1>0, LenProperties DEF CoordinatorInv, CoordinatorTypes, Untouched, NoRepeat, KindsAssumption
    <2>3. /\ w \in Jobs /\ w \in ToSet(queue) /\ w \notin ToSet(Tail(queue))
          /\ Tail(queue) \in Seq(Jobs) /\ Len(Tail(queue)) = Len(queue) - 1
          /\ ToSet(Tail(queue)) \subseteq ToSet(queue) /\ NoRepeat(Tail(queue))
      BY ONLY <2>1, <2>2, TakeOldest
    <2>4. Execute(t, w)
      BY <2>1
    <2> HIDE DEF w
    <2>5. w \in Wrappers /\ w \notin timers /\ w \notin ranked /\ w \notin Crons /\ w \in Waiting
      BY <1>0, <2>3 DEF CoordinatorTypes, KindsAssumption, Waiting
    <2>6. /\ pc' \in [Threads -> {"idle", "load", "store", "free"}]
          /\ cur' \in [Threads -> Wrappers \cup {None}]
          /\ result' \in [Threads -> Results \cup {None}] /\ runs' \in [Wrappers -> Nat]
          /\ heap[w] # "freed" => misused' = misused
      BY <1>0, <2>4, <2>5, ExecuteTypes
    <2>8. heap[w] = "live" /\ runs[w] = 0 /\ \A u \in Threads : cur[u] # w
      BY <2>5 DEF CoordinatorInv, Untouched
    <2>7. CoordinatorTypes'
      BY <1>0, <2>1, <2>2, <2>3, <2>6, <2>8 DEF CoordinatorTypes
    <2>9. Waiting' \subseteq Waiting /\ w \notin Waiting'
      BY <2>1, <2>3, <2>5 DEF Waiting
    <2>10. \A i, j \in DOMAIN queue' : queue'[i] = queue'[j] => i = j
      BY <2>1, <2>3 DEF NoRepeat
    <2> QED
      BY <1>0, <2>1, <2>3, <2>4, <2>5, <2>7, <2>8, <2>9, <2>10, ExecuteKeeps
  <1>2. CASE Load(t) \/ Store(t) \/ Free(t)
    BY <1>0, <1>2, CountKeeps
  <1> QED
    BY <1>1, <1>2 DEF WorkerStep

\* Main runs a job of one of the schedulers: the job leaves it, unless it is cron's.
LEMMA MainRuns ==
    ASSUME KindsAssumption, CoordinatorInv, NEW w \in Wrappers, Execute(Main, w), pc[Main] = "idle",
           phase # "refusing", phase' # "refusing",
           w \in timers \cup ranked \cup crons,
           timers' \subseteq timers \ {w}, ranked' \subseteq ranked \ {w}, due' \subseteq crons,
           UNCHANGED <<queue, crons, heap, reg, stats, counted, raced>>
    PROVE  CoordinatorInv'
  <1>0. Main \in Threads /\ CoordinatorTypes /\ Main \notin Workers
    BY DEF Threads, CoordinatorInv, KindsAssumption
  <1>1. /\ pc' \in [Threads -> {"idle", "load", "store", "free"}]
        /\ cur' \in [Threads -> Wrappers \cup {None}]
        /\ result' \in [Threads -> Results \cup {None}] /\ runs' \in [Wrappers -> Nat]
        /\ misused' \subseteq misused \cup {w} /\ (heap[w] # "freed" => misused' = misused)
    BY <1>0, ExecuteTypes
  <1>7. w \notin Crons => runs[w] = 0 /\ heap[w] = "live"
    BY <1>0 DEF CoordinatorInv, CoordinatorTypes, Untouched, Waiting
  <1>2. CoordinatorTypes'
    BY <1>0, <1>1, <1>7 DEF CoordinatorTypes
  <1>3. w \notin Jobs /\ w \notin ToSet(queue) /\ w # None
    BY <1>0, WaitingWrappers DEF CoordinatorTypes, KindsAssumption
  <1>4. cur[Main] = None /\ \A u \in Workers : cur[u] \in Jobs \cup {None}
    BY <1>0 DEF CoordinatorInv, HoldsOne
  <1>5. \A u \in Threads : cur[u] # w
    BY <1>3, <1>4 DEF Threads
  <1>6. Waiting' \subseteq Waiting /\ w \notin Waiting'
    BY <1>3 DEF Waiting
  <1>8. heap[w] # "none"
    BY DEF CoordinatorInv, Untouched, Waiting
  <1>9. \A i, j \in DOMAIN queue' : queue'[i] = queue'[j] => i = j
    BY DEF CoordinatorInv, Untouched
  <1> QED
    BY <1>0, <1>2, <1>5, <1>6, <1>7, <1>8, <1>9, ExecuteKeeps

\* jc_tick, jc_drain and the counting of a refusal.
LEMMA MainKeeps == ASSUME KindsAssumption, CoordinatorInv, MainStep PROVE CoordinatorInv'
  <1>0. /\ Main \in Threads /\ CoordinatorTypes /\ crons \subseteq Wrappers /\ timers \subseteq Wrappers /\ ranked \subseteq Wrappers
        /\ timers \cap ranked = {} /\ timers \cap crons = {} /\ ranked \cap crons = {} /\ due \subseteq crons
        /\ stats \in [Counters -> Nat]
    BY DEF Threads, CoordinatorInv, CoordinatorTypes, KindsAssumption, CountsLag
  <1>1. CASE MainExecutes
    BY <1>0, <1>1, CountKeeps DEF MainExecutes
  <1>2. CASE Refused
    <2>1. /\ phase = "refusing" /\ phase' = "idle"
          /\ stats' = [stats EXCEPT !["REJECTED"] = reg[Main] + 1] /\ reg' = [reg EXCEPT ![Main] = 0]
          /\ UNCHANGED <<queue, timers, ranked, crons, heap, pc, cur, result, due, runs, counted, raced, misused>>
      BY <1>2 DEF Refused, schedulers, history
    <2>2. "REJECTED" \in Counters /\ pc[Main] = "idle" /\ (~raced => reg[Main] < counted["REJECTED"])
      BY <2>1 DEF CoordinatorInv, CountsLag
    <2>3. CoordinatorTypes'
      BY <1>0, <2>1, <2>2 DEF CoordinatorTypes
    <2>4. HoldsOne' /\ Untouched' /\ UsedOnce'
      BY <2>1 DEF CoordinatorInv, HoldsOne, Untouched, UsedOnce, Waiting
    <2>5. CountsLag'
      BY <1>0, <2>1, <2>2 DEF CoordinatorInv, CoordinatorTypes, CountsLag
    <2> QED
      BY <2>3, <2>4, <2>5 DEF CoordinatorInv
  <1>3. CASE TickStart
    <2>1. /\ due' \subseteq crons /\ phase' = "cron"
          /\ UNCHANGED <<queue, schedulers, heap, threads, stats, counted, runs, raced, misused>>
      BY <1>3 DEF TickStart
    <2> QED
      BY <1>0, <2>1, QuietKeeps
  <1>4. CASE TickCron
    <2>1. phase = "cron" /\ pc[Main] = "idle" /\ UNCHANGED <<queue, schedulers, heap, stats, counted, raced>>
      BY <1>4 DEF TickCron
    <2>2. CASE phase' = "delayed" /\ UNCHANGED <<threads, due, runs, misused>>
      BY <1>0, <2>1, <2>2, QuietKeeps
    <2>3. CASE \E w \in due : Execute(Main, w) /\ due' \subseteq due /\ UNCHANGED <<reg, phase>>
      <3>1. PICK w \in due : Execute(Main, w) /\ due' \subseteq due /\ UNCHANGED <<reg, phase>>
        BY <2>3
      <3> QED
        BY <1>0, <2>1, <3>1, MainRuns DEF schedulers
    <2> QED
      BY <1>4, <2>2, <2>3 DEF TickCron
  <1>5. CASE TickDelayed
    <2>1. phase = "delayed" /\ pc[Main] = "idle" /\ UNCHANGED <<queue, ranked, crons, heap, stats, due, counted, raced>>
      BY <1>5 DEF TickDelayed
    <2>2. CASE phase' = "priority" /\ UNCHANGED <<threads, timers, runs, misused>>
      BY <1>0, <2>1, <2>2, QuietKeeps DEF schedulers
    <2>3. CASE \E w \in timers : Execute(Main, w) /\ timers' = timers \ {w} /\ UNCHANGED <<reg, phase>>
      <3>1. PICK w \in timers : Execute(Main, w) /\ timers' = timers \ {w} /\ UNCHANGED <<reg, phase>>
        BY <2>3
      <3> QED
        BY <1>0, <2>1, <3>1, MainRuns
    <2> QED
      BY <1>5, <2>2, <2>3 DEF TickDelayed
  <1>6. CASE TickPriority
    <2>1. /\ phase = "priority" /\ phase' = "idle" /\ pc[Main] = "idle"
          /\ UNCHANGED <<queue, timers, crons, heap, stats, due, counted, raced>>
      BY <1>6 DEF TickPriority
    <2>2. CASE UNCHANGED <<threads, ranked, runs, misused>>
      BY <1>0, <2>1, <2>2, QuietKeeps DEF schedulers
    <2>3. CASE \E w \in ranked : Execute(Main, w) /\ ranked' = ranked \ {w} /\ UNCHANGED reg
      <3>1. PICK w \in ranked : Execute(Main, w) /\ ranked' = ranked \ {w} /\ UNCHANGED reg
        BY <2>3
      <3> QED
        BY <1>0, <2>1, <3>1, MainRuns
    <2> QED
      BY <1>6, <2>2, <2>3 DEF TickPriority
  <1>7. CASE DrainEnd
    <2>1. phase' = "idle" /\ UNCHANGED <<queue, schedulers, heap, threads, stats, due, counted, runs, raced, misused>>
      BY <1>7 DEF DrainEnd, history
    <2> QED
      BY <1>0, <2>1, QuietKeeps
  <1> QED
    BY <1>1, <1>2, <1>3, <1>4, <1>5, <1>6, <1>7 DEF MainStep, Tick

----------------------------------------------------------------------------
(* The specification                                                       *)

LEMMA InvInit == ASSUME KindsAssumption, Init PROVE CoordinatorInv
  <1>1. queue = <<>> /\ ToSet(queue) = {} /\ Len(queue) = 0 /\ queue \in Seq(Jobs) /\ DOMAIN queue = {}
    BY EmptySeq DEF Init, ToSet
  <1>2. CoordinatorTypes
    BY <1>1 DEF Init, CoordinatorTypes, KindsAssumption
  <1>3. HoldsOne /\ UsedOnce /\ CountsLag
    BY DEF Init, HoldsOne, UsedOnce, CountsLag, Threads, KindsAssumption
  <1>4. Untouched
    BY <1>1 DEF Init, Untouched, Waiting, KindsAssumption
  <1> QED
    BY <1>2, <1>3, <1>4 DEF CoordinatorInv

LEMMA InvNext == ASSUME KindsAssumption, CoordinatorInv, [Next]_vars PROVE CoordinatorInv'
  <1>1. CASE Calls
    BY <1>1, CallsKeep
  <1>2. CASE MainStep
    BY <1>2, MainKeeps
  <1>3. CASE \E t \in Workers : WorkerStep(t)
    BY <1>3, WorkerKeeps
  <1>4. CASE UNCHANGED vars
    BY <1>4, QuietKeeps DEF vars, history, CoordinatorInv, CoordinatorTypes
  <1>5. CASE Crash
    BY <1>5, QuietKeeps DEF Crash, history, CoordinatorInv, CoordinatorTypes
  <1> QED
    BY <1>1, <1>2, <1>3, <1>4, <1>5 DEF Next

\* What the invariant says of a wrapper.
LEMMA InvOnce == ASSUME KindsAssumption, CoordinatorInv PROVE WrappersOnce
  <1>1. misused \subseteq Crons
    BY DEF CoordinatorInv, CoordinatorTypes
  <1>2. ~raced => \A r \in Counters : stats[r] <= counted[r]
    BY DEF CoordinatorInv, CountsLag
  <1>3. \A w \in Waiting : heap[w] = "live" /\ runs[w] = 0
    BY WaitingWrappers DEF CoordinatorInv, Untouched
  <1>4. \A t, u \in Threads : t # u /\ cur[t] # None => cur[t] # cur[u]
    BY DEF CoordinatorInv, HoldsOne
  <1>5. ASSUME misused = {}
        PROVE  /\ \A w \in Wrappers : runs[w] <= 1
               /\ \A t \in Threads : cur[t] # None => heap[cur[t]] = "live"
    BY <1>5 DEF CoordinatorInv, Untouched, UsedOnce
  <1> QED
    BY <1>1, <1>2, <1>3, <1>4, <1>5 DEF WrappersOnce

\* jc_execute_wrapper frees what it runs: whatever the numbers of workers and
\* of jobs of the four kinds, and in whatever order Main submits, starts, ticks,
\* drains and stops, nothing but a cron job that fires again uses a wrapper that
\* was freed.  Until one does, every wrapper, a cron job's too, runs at most once,
\* is live while it waits or runs, and is with one thread; and the counters of
\* jc_stats_t, which workers and Main increment without a lock, never show more
\* results than came since a reset that found no increment half done.
THEOREM WrappersUsedOnce ==
    ASSUME KindsAssumption PROVE Init /\ [][Next]_vars => []WrappersOnce
  <1>1. Init => CoordinatorInv
    BY InvInit
  <1>2. CoordinatorInv /\ [Next]_vars => CoordinatorInv'
    BY InvNext
  <1>3. CoordinatorInv => WrappersOnce
    BY InvOnce
  <1> QED
    BY <1>1, <1>2, <1>3, PTL
============================================================================
