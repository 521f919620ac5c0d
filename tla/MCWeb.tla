------------------------------- MODULE MCWeb -------------------------------
(* The web server with peers that stay ("quiet") and with peers, clocks    *)
(* and owners that do not ("open").                                        *)
EXTENDS Integers, Sequences, TLAPS

CONSTANTS Workers, Loners, None

ASSUME NoneAssumption == None \notin 1 .. 3

VARIABLES active, connections, conn_count, queue, queue_front, queue_rear, queue_size,
          running, not_empty, not_full, g_server_running, mpc, i, read_fds, ready,
          wpc, item, resp, sock, peer, sent, got, answers, submitted, taken

Guests == {1, 2, 3}
QuietScript == << <<<<1, 1, "part">>, <<1, 1, "head">>>>, <<<<2, 1, "head">>>>, <<<<3, 1, "head">>>> >>
OpenScript == << <<<<1, 1, "head">>, <<1, 2, "bad">>>>, <<<<2, 1, "head">>>> >>
\* In "quiet", more clients than connections and one request each.
Q == INSTANCE WebServer WITH
    Clients <- Guests, Closers <- {}, ConnCapacity <- 2, QueueCapacity <- 1, Quitters <- {},
    Script <- QuietScript
\* In "open", client 1 keeps its connection for a second request, a malformed
\* one, and client 2 asks for its connection to be closed.
O == INSTANCE WebServer WITH
    Workers <- Loners, Clients <- {1, 2}, Closers <- {2}, ConnCapacity <- 2, QueueCapacity <- 2, Quitters <- {2},
    Script <- OpenScript

\* A client that sends its second request once it has the answer to the first.
K == INSTANCE WebServer WITH
    Workers <- Loners, Clients <- {1}, Closers <- {}, Quitters <- {}, ConnCapacity <- 1, QueueCapacity <- 1,
    Script <- << <<<<1, 1, "head">>, <<1, 2, "head">>>> >>

Init ==
    \/ active = "quiet" /\ Q!Init
    \/ active = "open" /\ O!Init

Next ==
    \/ active = "quiet" /\ Q!Next /\ UNCHANGED active
    \/ active = "open" /\ O!Next /\ UNCHANGED active

vars == <<active, connections, conn_count, queue, queue_front, queue_rear, queue_size,
          running, not_empty, not_full, g_server_running, mpc, i, read_fds, ready,
          wpc, item, resp, sock, peer, sent, got, answers, submitted, taken>>

\* Every thread runs; clients connect and send what they have to say.
Fairness ==
    /\ WF_vars(active = "quiet" /\ Q!LoopStep /\ UNCHANGED active)
    /\ WF_vars(active = "open" /\ O!LoopStep /\ UNCHANGED active)
    /\ \A w \in Workers : WF_vars(active = "quiet" /\ Q!WorkerStep(w) /\ UNCHANGED active)
    /\ \A w \in Loners : WF_vars(active = "open" /\ O!WorkerStep(w) /\ UNCHANGED active)
    /\ \A c \in Guests : WF_vars(active = "quiet" /\ (Q!Connect(c) \/ Q!SendSegment(c)) /\ UNCHANGED active)

Spec == Init /\ [][Next]_vars /\ Fairness
KeepSpec == active = "keep" /\ K!Init /\ [][K!Next /\ UNCHANGED active]_vars

\* The thread pool's ring gives items out once, in order.
RingIsFifo == IF active = "quiet" THEN Q!TypeOK /\ Q!RingIsFifo ELSE O!TypeOK /\ O!RingIsFifo

\* Among peers that stay, every request is answered exactly once, to its sender.
AllAnswered == \A c \in Guests : <>[](active = "quiet" => Q!Answered(c))
QuietAnswers == active = "quiet" => Q!AnswersOwnRequests

\* server_stop and a failing select() end in a destroyed server.
ServerStops == Q!ServerStops

\* A connection serves several requests, each with its own answer.
KeepAliveAnswers == K!AnswersOwnRequests
----------------------------------------------------------------------------
(* The ring of both servers.                                               *)

LEMMA ShortSequences ==
    ASSUME NEW T, NEW x \in T, NEW y \in T PROVE <<x>> \in Seq(T) /\ <<x, y>> \in Seq(T)
  OBVIOUS

LEMMA QuietConstants == Q!ServerConstants
  <1>1. \A n \in Nat : Q!IsFiniteSet(1 .. n) /\ Q!Cardinality(1 .. n) = n
    BY Q!FS_Interval
  <1>2. Guests = 1 .. 3
    BY DEF Guests
  <1>3. Q!IsFiniteSet(Guests) /\ Q!Cardinality(Guests) <= 2 + 1 /\ None \notin Guests
    <2>1. Q!IsFiniteSet(1 .. 3) /\ Q!Cardinality(1 .. 3) = 3
      BY <1>1
    <2>2. Q!IsFiniteSet(Guests) /\ Q!Cardinality(Guests) = 3
      BY <1>2, <2>1, Zenon
    <2>3. None \notin Guests
      BY NoneAssumption DEF Guests
    <2> QED
      BY <2>2, <2>3
  <1>4. ASSUME NEW c \in Guests PROVE QuietScript[c] \in Seq(Q!Segments)
    <2>1. \/ QuietScript[c] = <<<<1, 1, "part">>, <<1, 1, "head">>>>
          \/ QuietScript[c] = <<<<2, 1, "head">>>>
          \/ QuietScript[c] = <<<<3, 1, "head">>>>
      BY DEF Guests, QuietScript
    <2>2. QuietScript[c] \in Seq({<<1, 1, "part">>, <<1, 1, "head">>, <<2, 1, "head">>, <<3, 1, "head">>})
      BY <2>1, ShortSequences
    <2> QED
      BY <2>2, Q!ScriptSegments
  <1> QED
    BY <1>3, <1>4 DEF Q!ServerConstants

LEMMA OpenConstants == O!ServerConstants
  <1>1. \A n \in Nat : O!IsFiniteSet(1 .. n) /\ O!Cardinality(1 .. n) = n
    BY O!FS_Interval
  <1>2. {1, 2} = 1 .. 2
    OBVIOUS
  <1>3. O!IsFiniteSet({1, 2}) /\ O!Cardinality({1, 2}) <= 2 + 1 /\ None \notin {1, 2}
    <2>1. O!IsFiniteSet(1 .. 2) /\ O!Cardinality(1 .. 2) = 2
      BY <1>1
    <2>2. O!IsFiniteSet({1, 2}) /\ O!Cardinality({1, 2}) = 2
      BY <1>2, <2>1, Zenon
    <2>3. None \notin {1, 2}
      BY NoneAssumption
    <2> QED
      BY <2>2, <2>3
  <1>4. ASSUME NEW c \in {1, 2} PROVE OpenScript[c] \in Seq(O!Segments)
    <2>1. \/ OpenScript[c] = <<<<1, 1, "head">>, <<1, 2, "bad">>>>
          \/ OpenScript[c] = <<<<2, 1, "head">>>>
      BY DEF OpenScript
    <2>2. OpenScript[c] \in Seq({<<1, 1, "head">>, <<1, 2, "bad">>, <<2, 1, "head">>})
      BY <2>1, ShortSequences
    <2> QED
      BY <2>2, O!ScriptSegments
  <1> QED
    BY <1>3, <1>4 DEF O!ServerConstants

\* The invariant of the server that runs.
ActiveInv == (active = "quiet" /\ Q!ServerInv) \/ (active = "open" /\ O!ServerInv)

\* thread_pool_submit and worker_thread: the items are taken once each, in the
\* order they were submitted, whatever the set of threads.
THEOREM WebRingIsFifo == Spec => []RingIsFifo
  <1>1. Init => ActiveInv
    BY QuietConstants, OpenConstants, Q!ServerInit, O!ServerInit DEF Init, ActiveInv
  <1>2. ActiveInv /\ [Next]_vars => ActiveInv'
    <2> SUFFICES ASSUME ActiveInv, [Next]_vars PROVE ActiveInv'
      OBVIOUS
    <2>1. CASE active = "quiet" /\ Q!ServerInv
      <3>1. [Q!Next]_Q!vars /\ active' = active
        BY <2>1 DEF Next, vars, Q!vars, Q!table, Q!ring, Q!sync, Q!loop, Q!peers, Q!history
      <3> QED
        BY <2>1, <3>1, QuietConstants, Q!ServerNext DEF ActiveInv
    <2>2. CASE active = "open" /\ O!ServerInv
      <3>1. [O!Next]_O!vars /\ active' = active
        BY <2>2 DEF Next, vars, O!vars, O!table, O!ring, O!sync, O!loop, O!peers, O!history
      <3> QED
        BY <2>2, <3>1, OpenConstants, O!ServerNext DEF ActiveInv
    <2> QED
      BY <2>1, <2>2 DEF ActiveInv
  <1>3. ActiveInv => RingIsFifo
    BY QuietConstants, OpenConstants, Q!ServerHolds, O!ServerHolds DEF ActiveInv, RingIsFifo
  <1> QED
    BY <1>1, <1>2, <1>3, PTL DEF Spec
============================================================================
