----------------------------- MODULE WebServer -----------------------------
(***************************************************************************)
(* mini-web-server/src/server.c: the select() loop of one acceptor thread, *)
(* the array of connections it keeps, and the thread pool that answers.    *)
(*                                                                         *)
(* The critical sections of the pool's mutex are atomic.  Its condition    *)
(* variables are sets of waiting threads; a signal wakes one, if any.  The *)
(* connections are shared without a lock: a WorkItem points at a slot of   *)
(* the array, and the loop moves, frees and reuses slots meanwhile, so     *)
(* each use of a slot is a step of its own.                                *)
(*                                                                         *)
(* Bytes are segments <<client, n, kind>> of a client's n-th request:      *)
(* "part" (some headers), "head" (the rest of them, with the blank line)   *)
(* or "bad" (as "head", after a malformed request line).  A response is    *)
(* the request it answers; bodies are left out.  The sockets and the peers *)
(* are the environment.                                                    *)
(***************************************************************************)
EXTENDS Integers, Sequences, FiniteSets, FiniteSetsExt, SequencesExt, FiniteSetTheorems, SequenceTheorems,
        WellFoundedInduction, TLAPS

CONSTANTS
    Workers,        \* the threads of the pool
    Clients,        \* peers (positive numbers); each connects at most once
    Script,         \* Script[c]: the segments c sends, in order
    Closers,        \* clients whose requests say "Connection: close"
    ConnCapacity,   \* conn_capacity
    QueueCapacity,  \* queue_capacity
    Quitters,       \* clients that may hang up, or be idle for longer than keepalive_timeout
    None

VARIABLES
    connections, conn_count,                     \* the array; entries past conn_count keep old contents
    queue, queue_front, queue_rear, queue_size,  \* the ring of work items
    running, not_empty, not_full,                \* pool->running; the waiting threads
    g_server_running,
    mpc, i, read_fds, ready,                     \* the loop: its place, index, fd_set and ready count
    wpc, item, resp,                             \* a worker's place, slot and serialized response
    sock,                                        \* sock[fd]: the peer of an open descriptor, or None
    peer, sent, got,                             \* a peer's state, its segments sent and those received
    answers,                                     \* the responses each client has received
    submitted, taken                             \* history: items given to the pool and taken from it

table == <<connections, conn_count>>
ring == <<queue, queue_front, queue_rear, queue_size>>
sync == <<running, not_empty, not_full>>
loop == <<i, read_fds, ready>>
peers == <<peer, sent>>
history == <<submitted, taken>>
vars == <<table, ring, sync, g_server_running, mpc, loop, wpc, item, resp, sock, peers, got,
          answers, history>>

Slots == 0 .. ConnCapacity - 1
\* Descriptors of connections; one more than fit, for the one refused with 503.
Fds == 1 .. ConnCapacity + 1
Listen == 0
Segments == UNION {ToSet(Script[c]) : c \in Clients}
Request == {<<s[1], s[2]>> : s \in Segments}
\* Not the request of anybody: what http_request_init leaves (the router
\* answers it with 404), and the loop's own responses.
Nobody(code) == <<0, code>>
Empty == Nobody(404)
Unavailable == Nobody(503)
BadRequest == Nobody(400)

Connection == [fd : Fds \cup {-1, 0}, closed : BOOLEAN, keep_alive : BOOLEAN,
               recv_buf : Seq(Segments), recv_len : Nat, request : Request \cup {Empty}]
Zeroed == [fd |-> 0, closed |-> FALSE, keep_alive |-> FALSE,
           recv_buf |-> <<>>, recv_len |-> 0, request |-> Empty]
Fresh(fd) == [Zeroed EXCEPT !.fd = fd, !.keep_alive = TRUE]

Live(s) == connections[s].fd >= 0 /\ ~connections[s].closed
Unread(c) == SubSeq(Script[c], got[c] + 1, sent[c])
\* recv() of an open descriptor would not block: there are bytes or end of file.
Readable(fd) == LET c == sock[fd] IN c # None /\ (Unread(c) # <<>> \/ peer[c] = "gone")
CloseSocket(fd) == sock' = IF fd \in Fds THEN [sock EXCEPT ![fd] = None] ELSE sock
Answer(fd, r) ==
    answers' = IF fd \in Fds /\ sock[fd] # None
               THEN [answers EXCEPT ![sock[fd]] = Append(@, r)] ELSE answers

Init ==
    /\ connections = [s \in Slots |-> Zeroed] /\ conn_count = 0
    /\ queue = [n \in 0 .. QueueCapacity - 1 |-> None]
    /\ queue_front = 0 /\ queue_rear = 0 /\ queue_size = 0
    /\ running = TRUE /\ not_empty = {} /\ not_full = FALSE
    /\ g_server_running = TRUE
    /\ mpc = "loop" /\ i = 0 /\ read_fds = {} /\ ready = 0
    /\ wpc = [w \in Workers |-> "pop"] /\ item = [w \in Workers |-> None]
    /\ resp = [w \in Workers |-> None]
    /\ sock = [fd \in Fds |-> None]
    /\ peer = [c \in Clients |-> "new"] /\ sent = [c \in Clients |-> 0]
    /\ got = [c \in Clients |-> 0] /\ answers = [c \in Clients |-> <<>>]
    /\ submitted = 0 /\ taken = 0
----------------------------------------------------------------------------
(* Peers and the owner of the server.                                      *)

Connect(c) ==
    /\ peer[c] = "new" /\ g_server_running
    /\ peer' = [peer EXCEPT ![c] = "connecting"]
    /\ UNCHANGED <<table, ring, sync, g_server_running, mpc, loop, wpc, item, resp, sock, sent, got,
                   answers, history>>

\* A client does not send a request before the previous one was answered.
SendSegment(c) ==
    /\ peer[c] = "open" /\ sent[c] < Len(Script[c])
    /\ \E fd \in Fds : sock[fd] = c
    /\ Len(answers[c]) >= Script[c][sent[c] + 1][2] - 1
    /\ sent' = [sent EXCEPT ![c] = @ + 1]
    /\ UNCHANGED <<table, ring, sync, g_server_running, mpc, loop, wpc, item, resp, sock, peer, got,
                   answers, history>>

HangUp(c) ==
    /\ c \in Quitters /\ peer[c] = "open"
    /\ peer' = [peer EXCEPT ![c] = "gone"]
    /\ UNCHANGED <<table, ring, sync, g_server_running, mpc, loop, wpc, item, resp, sock, sent, got,
                   answers, history>>

ServerStop ==
    /\ g_server_running
    /\ g_server_running' = FALSE
    /\ UNCHANGED <<table, ring, sync, mpc, loop, wpc, item, resp, sock, peers, got, answers, history>>
----------------------------------------------------------------------------
(* The event loop.                                                         *)

BuildFdSet ==
    /\ mpc = "loop" /\ g_server_running
    /\ read_fds' = {Listen} \cup {connections[s].fd : s \in {s \in 0 .. conn_count - 1 : Live(s)}}
    /\ mpc' = "select"
    /\ UNCHANGED <<table, ring, sync, g_server_running, i, ready, wpc, item, resp, sock, peers, got,
                   answers, history>>

\* select() returns what is ready, or nothing after a second.
Select ==
    /\ mpc = "select" /\ \A fd \in read_fds \ {Listen} : sock[fd] # None
    /\ read_fds' = {fd \in read_fds \ {Listen} : Readable(fd)}
                   \cup {Listen : c \in {c \in Clients : peer[c] = "connecting"}}
    /\ ready' = Cardinality(read_fds')
    /\ i' = conn_count - 1
    /\ mpc' = "reap"
    /\ UNCHANGED <<table, ring, sync, g_server_running, wpc, item, resp, sock, peers, got,
                   answers, history>>

\* A worker closed a descriptor of the set: select() fails with EBADF, and the loop returns -1.
SelectFails ==
    /\ mpc = "select" /\ \E fd \in read_fds \ {Listen} : sock[fd] = None
    /\ mpc' = "failed"
    /\ UNCHANGED <<table, ring, sync, g_server_running, loop, wpc, item, resp, sock, peers, got,
                   answers, history>>

\* server_remove_connection, first half: close, free the request and the response.
CloseSlot(s, fd) ==
    /\ CloseSocket(fd)
    /\ connections' = [connections EXCEPT ![s].fd = -1, ![s].request = Empty]

Moved(s) == IF s < conn_count - 1 THEN [connections EXCEPT ![s] = connections[conn_count - 1]]
            ELSE connections

\* server_reap_idle_connections, from the last slot down; which connections
\* have been idle for longer than the timeout is the clock's choice.
ReapIdle ==
    /\ mpc = "reap"
    /\ \E s \in 0 .. i : Live(s) /\ sock[connections[s].fd] \in Quitters \cup {None} /\ CloseSlot(s, connections[s].fd) /\ i' = s
    /\ mpc' = "reap_move"
    /\ UNCHANGED <<conn_count, ring, sync, g_server_running, read_fds, ready, wpc, item, resp, peers,
                   got, answers, history>>

\* server_remove_connection, second half: the last connection takes the slot.
Move(here, next, n) ==
    /\ mpc = here
    /\ connections' = Moved(i) /\ conn_count' = conn_count - 1
    /\ mpc' = next /\ i' = n
    /\ UNCHANGED <<ring, sync, g_server_running, read_fds, ready, wpc, item, resp, sock, peers, got,
                   answers, history>>
ReapMove == Move("reap_move", "reap", i - 1)
ScanMove == Move("scan_move", "scan", i)

\* accept() gives the lowest free descriptor.
FreeFd == Min({fd \in Fds : sock[fd] = None})

Accept ==
    /\ mpc = "reap" /\ Listen \in read_fds
    /\ \E c \in Clients :
        /\ peer[c] = "connecting"
        /\ IF conn_count < ConnCapacity
           THEN /\ connections' = [connections EXCEPT ![conn_count] = Fresh(FreeFd)]
                /\ conn_count' = conn_count + 1
                /\ sock' = [sock EXCEPT ![FreeFd] = c]
                /\ peer' = [peer EXCEPT ![c] = "open"]
                /\ UNCHANGED answers
           ELSE /\ peer' = [peer EXCEPT ![c] = "gone"]
                /\ answers' = [answers EXCEPT ![c] = Append(@, Unavailable)]
                /\ UNCHANGED <<table, sock>>
    /\ ready' = ready - 1
    /\ mpc' = "scan" /\ i' = 0
    /\ UNCHANGED <<ring, sync, g_server_running, read_fds, wpc, item, resp, sent, got, history>>

NoAccept ==
    /\ mpc = "reap" /\ Listen \notin read_fds
    /\ mpc' = "scan" /\ i' = 0
    /\ UNCHANGED <<table, ring, sync, g_server_running, read_fds, ready, wpc, item, resp, sock, peers, got,
                   answers, history>>

\* The slots from i on that the scan would read.
Pending == {s \in i .. conn_count - 1 : ready > 0 /\ Live(s) /\ connections[s].fd \in read_fds}

Recv ==
    /\ mpc = "scan" /\ Pending # {}
    /\ LET s == Min(Pending)
           fd == connections[s].fd
           c == sock[fd]
       IN /\ i' = s /\ ready' = ready - 1
          /\ IF c # None /\ Unread(c) # <<>>
             THEN LET text == SubSeq(connections[s].recv_buf, 1, connections[s].recv_len) \o Unread(c)
                  IN /\ connections' = [connections EXCEPT ![s].recv_buf = text, ![s].recv_len = Len(text)]
                     /\ got' = [got EXCEPT ![c] = sent[c]]
                     /\ mpc' = "parse"
                     /\ UNCHANGED sock
             ELSE /\ CloseSlot(s, fd)
                  /\ mpc' = "scan_move"
                  /\ UNCHANGED got
    /\ UNCHANGED <<conn_count, ring, sync, g_server_running, read_fds, wpc, item, resp, peers,
                   answers, history>>

ScanDone ==
    /\ mpc = "scan" /\ Pending = {}
    /\ mpc' = "loop" /\ i' = 0 /\ read_fds' = {} /\ ready' = 0
    /\ UNCHANGED <<table, ring, sync, g_server_running, wpc, item, resp, sock, peers, got,
                   answers, history>>

\* parse_http_request works on the text from the start of the buffer to its NUL.
HeaderEnd(text) == SelectInSeq(text, LAMBDA s : s[3] # "part")
Incomplete(text) == HeaderEnd(text) = 0
Malformed(text) == ~Incomplete(text) /\ text[HeaderEnd(text)][3] = "bad"
Parsed(text) == LET s == text[HeaderEnd(text)] IN <<s[1], s[2]>>

Parse ==
    /\ mpc = "parse"
    /\ LET conn == connections[i]
       IN \/ /\ Incomplete(conn.recv_buf)
             /\ mpc' = "scan" /\ i' = i + 1
             /\ UNCHANGED <<table, sock, answers>>
          \/ /\ Malformed(conn.recv_buf)
             /\ Answer(conn.fd, BadRequest)
             /\ CloseSlot(i, conn.fd)
             /\ mpc' = "scan_move"
             /\ UNCHANGED <<conn_count, i>>
          \/ /\ ~Incomplete(conn.recv_buf) /\ ~Malformed(conn.recv_buf)
             /\ LET request == Parsed(conn.recv_buf)
                IN connections' = [connections EXCEPT
                     ![i].request = request,
                     ![i].keep_alive = @ /\ request[1] \notin Closers]
             /\ mpc' = "submit"
             /\ UNCHANGED <<conn_count, i, sock, answers>>
    /\ UNCHANGED <<ring, sync, g_server_running, read_fds, ready, wpc, item, resp, peers, got, history>>
----------------------------------------------------------------------------
(* The pool.                                                               *)

Signalled(waiting) == IF waiting = {} THEN {{}} ELSE {waiting \ {w} : w \in waiting}

\* thread_pool_submit, called by the loop for slot i; it waits while not_full is TRUE.
SubmitWaits ==
    /\ mpc = "submit" /\ ~not_full /\ queue_size >= QueueCapacity /\ running
    /\ not_full' = TRUE
    /\ UNCHANGED <<table, ring, running, not_empty, g_server_running, mpc, loop, wpc, item, resp, sock, peers,
                   got, answers, history>>

NextCell(n) == (n + 1) % QueueCapacity

\* Mutants: no wait while the ring is full; no signal to the workers.
SubmitOverwrites ==
    /\ mpc = "submit" /\ ~not_full
    /\ queue' = [queue EXCEPT ![queue_rear] = [conn |-> i, n |-> submitted + 1]]
    /\ queue_rear' = NextCell(queue_rear) /\ queue_size' = queue_size + 1
    /\ not_empty' \in Signalled(not_empty)
    /\ mpc' = "scan" /\ i' = i + 1
    /\ submitted' = submitted + 1
    /\ UNCHANGED <<table, queue_front, running, not_full, g_server_running, read_fds, ready, wpc, item,
                   resp, sock, peers, got, answers, taken>>

SubmitSilent ==
    /\ mpc = "submit" /\ ~not_full /\ queue_size < QueueCapacity
    /\ queue' = [queue EXCEPT ![queue_rear] = [conn |-> i, n |-> submitted + 1]]
    /\ queue_rear' = NextCell(queue_rear) /\ queue_size' = queue_size + 1
    /\ not_empty' = not_empty
    /\ mpc' = "scan" /\ i' = i + 1
    /\ submitted' = submitted + 1
    /\ UNCHANGED <<table, queue_front, running, not_full, g_server_running, read_fds, ready, wpc, item,
                   resp, sock, peers, got, answers, taken>>

Submit ==
    /\ mpc = "submit" /\ ~not_full /\ queue_size < QueueCapacity
    /\ queue' = [queue EXCEPT ![queue_rear] = [conn |-> i, n |-> submitted + 1]]
    /\ queue_rear' = NextCell(queue_rear) /\ queue_size' = queue_size + 1
    /\ not_empty' \in Signalled(not_empty)
    /\ mpc' = "scan" /\ i' = i + 1
    /\ submitted' = submitted + 1
    /\ UNCHANGED <<table, queue_front, running, not_full, g_server_running, read_fds, ready, wpc, item,
                   resp, sock, peers, got, answers, taken>>

\* A worker is in pthread_cond_wait while it is in not_empty.
Goto(w, here, next) == wpc[w] = here /\ w \notin not_empty /\ wpc' = [wpc EXCEPT ![w] = next]
Again(w, here) == Goto(w, here, "pop") /\ item' = [item EXCEPT ![w] = None]

PopWaits(w) ==
    /\ Goto(w, "pop", "pop") /\ queue_size = 0 /\ running
    /\ not_empty' = not_empty \cup {w}
    /\ UNCHANGED <<table, ring, running, not_full, g_server_running, mpc, loop, item, resp, sock, peers,
                   got, answers, history>>

\* Mutant: the front of the ring stays.
PopStays(w) ==
    /\ Goto(w, "pop", "check") /\ queue_size > 0
    /\ item' = [item EXCEPT ![w] = queue[queue_front].conn]
    /\ taken' = taken + 1
    /\ queue_front' = queue_front /\ queue_size' = queue_size - 1
    /\ not_full' = FALSE
    /\ UNCHANGED <<table, queue, queue_rear, running, not_empty, g_server_running, mpc, loop, resp, sock,
                   peers, got, answers, submitted>>

Pop(w) ==
    /\ Goto(w, "pop", "check") /\ queue_size > 0
    /\ item' = [item EXCEPT ![w] = queue[queue_front].conn]
    /\ taken' = taken + 1
    /\ queue_front' = NextCell(queue_front) /\ queue_size' = queue_size - 1
    /\ not_full' = FALSE
    /\ UNCHANGED <<table, queue, queue_rear, running, not_empty, g_server_running, mpc, loop, resp, sock,
                   peers, got, answers, submitted>>

Exit(w) ==
    /\ Goto(w, "pop", "exited") /\ queue_size = 0 /\ ~running
    /\ UNCHANGED <<table, ring, sync, g_server_running, mpc, loop, item, resp, sock, peers, got,
                   answers, history>>

\* pthread_cond_wait may return without a signal.
SpuriousWake(w) ==
    /\ w \in not_empty
    /\ not_empty' = not_empty \ {w}
    /\ UNCHANGED <<table, ring, running, not_full, g_server_running, mpc, loop, wpc, item, resp, sock,
                   peers, got, answers, history>>

Check(w) ==
    /\ \/ Goto(w, "check", "serve") /\ Live(item[w]) /\ UNCHANGED item
       \/ Again(w, "check") /\ ~Live(item[w])
    /\ UNCHANGED <<table, ring, sync, g_server_running, mpc, loop, resp, sock, peers, got,
                   answers, history>>

\* middleware_chain_execute, router_dispatch and http_serialize_response.
Serve(w) ==
    /\ Goto(w, "serve", "send")
    /\ resp' = [resp EXCEPT ![w] = connections[item[w]].request]
    /\ UNCHANGED <<table, ring, sync, g_server_running, mpc, loop, item, sock, peers, got,
                   answers, history>>

Send(w) ==
    /\ Goto(w, "send", "finish")
    /\ Answer(connections[item[w]].fd, resp[w])
    /\ resp' = [resp EXCEPT ![w] = None]
    /\ UNCHANGED <<table, ring, sync, g_server_running, mpc, loop, item, sock, peers, got, history>>

Keep(w) ==
    /\ Again(w, "finish") /\ connections[item[w]].keep_alive
    /\ connections' = [connections EXCEPT ![item[w]].request = Empty, ![item[w]].recv_len = 0]
    /\ UNCHANGED <<conn_count, ring, sync, g_server_running, mpc, loop, resp, sock, peers, got,
                   answers, history>>

Close(w) ==
    /\ Goto(w, "finish", "mark") /\ ~connections[item[w]].keep_alive
    /\ CloseSocket(connections[item[w]].fd)
    /\ UNCHANGED <<table, ring, sync, g_server_running, mpc, loop, item, resp, peers, got,
                   answers, history>>

Mark(w) ==
    /\ Again(w, "mark")
    /\ connections' = [connections EXCEPT ![item[w]].fd = -1, ![item[w]].closed = TRUE]
    /\ UNCHANGED <<conn_count, ring, sync, g_server_running, mpc, loop, resp, sock, peers, got,
                   answers, history>>

WorkerStep(w) ==
    \/ PopWaits(w) \/ Pop(w) \/ Exit(w) \/ Check(w) \/ Serve(w) \/ Send(w)
    \/ Keep(w) \/ Close(w) \/ Mark(w)
----------------------------------------------------------------------------
(* The end of server_start, and server_destroy.                            *)

\* Mutant: no broadcast to the waiting workers.
PoolDestroySilent ==
    /\ mpc = "failed" \/ (mpc = "loop" /\ ~g_server_running)
    /\ running' = FALSE /\ not_empty' = not_empty /\ not_full' = FALSE
    /\ mpc' = "join"
    /\ UNCHANGED <<table, ring, g_server_running, loop, wpc, item, resp, sock, peers, got,
                   answers, history>>

PoolDestroy ==
    /\ mpc = "failed" \/ (mpc = "loop" /\ ~g_server_running)
    /\ running' = FALSE /\ not_empty' = {} /\ not_full' = FALSE
    /\ mpc' = "join"
    /\ UNCHANGED <<table, ring, g_server_running, loop, wpc, item, resp, sock, peers, got,
                   answers, history>>

PoolJoin ==
    /\ mpc = "join" /\ \A w \in Workers : wpc[w] = "exited"
    /\ mpc' = "returned"
    /\ UNCHANGED <<table, ring, sync, g_server_running, loop, wpc, item, resp, sock, peers, got,
                   answers, history>>

ServerDestroy ==
    /\ mpc = "returned"
    /\ sock' = [fd \in Fds |-> IF \E s \in 0 .. conn_count - 1 : connections[s].fd = fd
                               THEN None ELSE sock[fd]]
    /\ conn_count' = 0
    /\ mpc' = "destroyed"
    /\ UNCHANGED <<connections, ring, sync, g_server_running, loop, wpc, item, resp, peers, got,
                   answers, history>>

LoopStep ==
    \/ BuildFdSet \/ Select \/ SelectFails \/ ReapIdle \/ ReapMove
    \/ Accept \/ NoAccept \/ Recv \/ ScanMove \/ ScanDone \/ Parse
    \/ SubmitWaits \/ Submit
    \/ PoolDestroy \/ PoolJoin \/ ServerDestroy

Next ==
    \/ LoopStep
    \/ \E w \in Workers : WorkerStep(w) \/ SpuriousWake(w)
    \/ \E c \in Clients : Connect(c) \/ SendSegment(c) \/ HangUp(c)
    \/ ServerStop

Spec == Init /\ [][Next]_vars

----------------------------------------------------------------------------
TypeOK ==
    /\ connections \in [Slots -> Connection] /\ conn_count \in 0 .. ConnCapacity
    /\ queue_front \in 0 .. QueueCapacity - 1 /\ queue_rear \in 0 .. QueueCapacity - 1
    /\ queue_size \in 0 .. QueueCapacity
    /\ not_empty \subseteq {w \in Workers : wpc[w] = "pop"} /\ (not_full => mpc = "submit")
    /\ item \in [Workers -> Slots \cup {None}] /\ sock \in [Fds -> Clients \cup {None}]

\* thread_pool_submit and worker_thread: the ring holds exactly the items
\* submitted and not yet taken, oldest first, from queue_front on, and a full
\* ring overwrites nothing.
RingIsFifo ==
    /\ submitted - taken = queue_size
    /\ \A k \in 0 .. queue_size - 1 : queue[(queue_front + k) % QueueCapacity].n = taken + k + 1

\* One connection serves several requests: every answer a client gets is to its
\* own request, in order.
AnswersOwnRequests ==
    \A c \in Clients : \A k \in 1 .. Len(answers[c]) :
        answers[c][k] \notin {Unavailable, BadRequest} => answers[c][k] = <<c, k>>

\* Nobody hangs up: every client that was let in is answered, once for each of
\* its requests, although the loop may block in thread_pool_submit.
Requests(c) == IF Script[c] = <<>> THEN 0 ELSE Last(Script[c])[2]
Answered(c) == ~g_server_running \/ Len(answers[c]) = Requests(c) \/ Unavailable \in ToSet(answers[c])

\* server_stop, and the failure of select(): the pool is joined and the server
\* destroyed, although threads wait in the condition variables.
ServerStops == (~g_server_running \/ mpc = "failed") ~> (mpc = "destroyed")
----------------------------------------------------------------------------
(* Proof that the types and the ring hold, for every number of workers,    *)
(* connections and cells, and whatever the peers send.                     *)

\* There is a descriptor for every client, and the scripts are sequences.
ServerConstants ==
    /\ ConnCapacity \in Nat \ {0} /\ QueueCapacity \in Nat \ {0}
    /\ IsFiniteSet(Clients) /\ Cardinality(Clients) <= ConnCapacity + 1 /\ None \notin Clients
    /\ \A c \in Clients : Script[c] \in Seq(Segments)

WorkItem == [conn : Slots, n : Nat]
Busy == {"check", "serve", "send", "finish", "mark"}

\* The slots in use hold a descriptor or -1, and a buffer is at least as long as its recv_len.
TableInv ==
    /\ connections \in [Slots -> Connection] /\ conn_count \in 0 .. ConnCapacity
    /\ \A s \in Slots : connections[s].recv_len <= Len(connections[s].recv_buf)
    /\ \A s \in 0 .. conn_count - 1 : connections[s].fd \in Fds \cup {-1}

\* The loop's index is a slot in use wherever the loop uses it as one.
LoopInv ==
    /\ not_full => mpc = "submit"
    /\ mpc = "reap" => i \in -1 .. conn_count - 1
    /\ mpc \in {"reap_move", "scan_move", "parse", "submit"} => i \in 0 .. conn_count - 1
    /\ mpc = "scan" => i \in Nat

\* A client has at most one descriptor, and none before it is accepted.
PeerInv ==
    /\ sock \in [Fds -> Clients \cup {None}]
    /\ peer \in [Clients -> {"new", "connecting", "open", "gone"}]
    /\ sent \in [Clients -> Nat] /\ got \in [Clients -> Nat]
    /\ \A c \in Clients : got[c] <= sent[c] /\ sent[c] <= Len(Script[c])
    /\ \A f, g \in Fds : sock[f] # None /\ sock[f] = sock[g] => f = g
    /\ \A c \in Clients : peer[c] \in {"new", "connecting"} => \A fd \in Fds : sock[fd] # c

\* A worker past the pop has a slot, and only an idle one waits.
PoolInv ==
    /\ wpc \in [Workers -> Busy \cup {"pop", "exited"}] /\ item \in [Workers -> Slots \cup {None}]
    /\ \A w \in Workers : wpc[w] \in Busy => item[w] \in Slots
    /\ not_empty \subseteq {w \in Workers : wpc[w] = "pop"}

\* The cells from front to rear hold the items submitted and not yet taken.
RingInv ==
    /\ queue \in [0 .. QueueCapacity - 1 -> WorkItem \cup {None}]
    /\ queue_front \in 0 .. QueueCapacity - 1 /\ queue_rear \in 0 .. QueueCapacity - 1
    /\ queue_size \in 0 .. QueueCapacity /\ submitted \in Nat /\ taken \in Nat
    /\ queue_rear = (queue_front + queue_size) % QueueCapacity
    /\ submitted = taken + queue_size
    /\ \A k \in 0 .. queue_size - 1 :
        LET cell == queue[(queue_front + k) % QueueCapacity] IN cell \in WorkItem /\ cell.n = taken + k + 1

ServerInv == TableInv /\ LoopInv /\ PeerInv /\ PoolInv /\ RingInv

\* What a script is a sequence of are the segments.
LEMMA ScriptSegments ==
    ASSUME NEW c \in Clients, NEW T, Script[c] \in Seq(T) PROVE Script[c] \in Seq(Segments)
  <1> DEFINE s == Script[c]
             n == Len(Script[c])
  <1>1. n \in Nat /\ DOMAIN s = 1 .. n /\ s = [k \in 1 .. n |-> s[k]]
    BY LenProperties
  <1>2. \A k \in 1 .. n : s[k] \in ToSet(s)
    BY <1>1 DEF ToSet
  <1>3. ToSet(s) \subseteq Segments
    BY DEF Segments
  <1> HIDE DEF s, n
  <1>4. \A k \in 1 .. n : s[k] \in Segments
    BY <1>2, <1>3
  <1>5. s \in Seq(Segments)
    BY <1>1, <1>4, SeqDef
  <1> QED
    BY <1>5 DEF s

\* An index that ran past the end of a ring once.
LEMMA ModOnce == ASSUME NEW n \in Nat \ {0}, NEW y \in 0 .. 2 * n - 1
   PROVE y % n = IF y < n THEN y ELSE y - n
  <1>1. y % n \in 0 .. n - 1 /\ y = n * (y \div n) + (y % n) /\ y \div n \in Int
    OBVIOUS
  <1> DEFINE q == y \div n
  <1>3. q \in Int /\ n * q > 0 - n  /\ n * q < 2 * n
    BY <1>1
  <1>4. y = n * q + (y % n)
    BY <1>1
  <1> HIDE DEF q
  <1>5. q = 0 \/ q = 1
    <2>1. ASSUME q <= 0 - 1 PROVE FALSE
      <3>1. n * q <= n * (0 - 1)
        BY <2>1, <1>3
      <3> QED BY <3>1, <1>3
    <2>2. ASSUME q >= 2 PROVE FALSE
      <3>1. n * q >= n * 2
        BY <2>2, <1>3
      <3> QED BY <3>1, <1>3
    <2> QED BY <2>1, <2>2, <1>3
  <1> DEFINE r == y % n
  <1>6. r \in Int /\ 0 <= r /\ r < n /\ y = n * q + r
    BY <1>1, <1>4
  <1> HIDE DEF r
  <1>7. r = IF y < n THEN y ELSE y - n
    <2>1. CASE q = 0
      <3>1. n * q = 0
        BY <2>1
      <3> QED BY <1>6, <3>1
    <2>2. CASE q = 1
      <3>1. n * q = n
        BY <2>2
      <3> QED BY <1>6, <3>1
    <2> QED BY <1>5, <2>1, <2>2
  <1> QED BY <1>7 DEF r

\* A nonempty set of numbers has a least one.
LEMMA MinExists == ASSUME NEW S \in SUBSET Nat, S # {} PROVE Min(S) \in S /\ \A x \in S : Min(S) <= x
  <1>1. \E m \in S : \A x \in S : ~(<<x, m>> \in OpToRel(<, Nat))
    BY NatLessThanWellFounded, WFMin, Zenon
  <1>2. PICK m \in S : \A x \in S : ~(<<x, m>> \in OpToRel(<, Nat))
    BY <1>1
  <1>3. \A x \in S : m <= x
    <2> SUFFICES ASSUME NEW x \in S, ~(m <= x) PROVE FALSE
      OBVIOUS
    <2>1. x \in Nat /\ m \in Nat /\ x < m
      OBVIOUS
    <2>2. <<x, m>> \in OpToRel(<, Nat)
      BY <2>1, Zenon DEF OpToRel
    <2> QED BY <1>2, <2>2
  <1> QED BY <1>2, <1>3 DEF Min

----------------------------------------------------------------------------
(* The ring                                                                *)

\* The cells of a ring from front on are different.
LEMMA CellsDiffer ==
    ASSUME NEW n \in Nat \ {0}, NEW f \in 0 .. n - 1, NEW k \in 0 .. n - 1, NEW j \in 0 .. n - 1,
           (f + k) % n = (f + j) % n
    PROVE  k = j
  <1> DEFINE x == f + k
             y == f + j
  <1>1. x \in 0 .. 2 * n - 1 /\ y \in 0 .. 2 * n - 1 /\ x % n = y % n
    OBVIOUS
  <1> HIDE DEF x, y
  <1>2. x % n = IF x < n THEN x ELSE x - n
    BY <1>1, ModOnce
  <1>3. y % n = IF y < n THEN y ELSE y - n
    BY <1>1, ModOnce
  <1>4. (IF x < n THEN x ELSE x - n) = (IF y < n THEN y ELSE y - n)
    BY <1>1, <1>2, <1>3
  <1>5. x = y
    BY <1>1, <1>4 DEF x, y
  <1> QED
    BY <1>5 DEF x, y

\* One cell further from the front is one cell after the next front.
LEMMA NextFront ==
    ASSUME NEW n \in Nat \ {0}, NEW f \in 0 .. n - 1, NEW k \in 0 .. n - 1
    PROVE  (((f + 1) % n) + k) % n = (f + (k + 1)) % n /\ (f + 1) % n \in 0 .. n - 1
  <1> DEFINE x == f + 1
             g == IF x < n THEN x ELSE x - n
             y == g + k
             z == f + (k + 1)
  <1>1. x \in 0 .. 2 * n - 1 /\ g \in 0 .. n - 1 /\ y \in 0 .. 2 * n - 1 /\ z \in 0 .. 2 * n - 1
    OBVIOUS
  <1>2. (y = z /\ g = x) \/ (y = z - n /\ g = x - n /\ k <= n - 1 /\ x = n)
    OBVIOUS
  <1>3. x % n = g
    <2> HIDE DEF x
    <2> QED
      BY <1>1, ModOnce
  <1> HIDE DEF g, y, z
  <1>4. y % n = IF y < n THEN y ELSE y - n
    BY <1>1, ModOnce
  <1>5. z % n = IF z < n THEN z ELSE z - n
    BY <1>1, ModOnce
  <1>6. y % n = z % n
    BY <1>1, <1>2, <1>4, <1>5 DEF y, z
  <1> QED
    BY <1>1, <1>3, <1>6 DEF y, z

\* thread_pool_submit puts its item into a cell that holds none of the others.
LEMMA SubmitRing ==
    ASSUME ServerConstants, RingInv, i \in Slots, Submit PROVE RingInv'
  <1> DEFINE N == QueueCapacity
             new == [conn |-> i, n |-> submitted + 1]
  <1>1. /\ N \in Nat \ {0} /\ queue_front \in 0 .. N - 1 /\ queue_rear \in 0 .. N - 1 /\ queue_size \in 0 .. N - 1
        /\ submitted \in Nat /\ taken \in Nat /\ submitted = taken + queue_size
        /\ queue \in [0 .. N - 1 -> WorkItem \cup {None}]
        /\ queue_rear = (queue_front + queue_size) % N
    BY DEF ServerConstants, RingInv, Submit
  <1>2. /\ queue' = [queue EXCEPT ![queue_rear] = new] /\ queue_rear' = (queue_rear + 1) % N
        /\ queue_size' = queue_size + 1 /\ submitted' = submitted + 1 /\ UNCHANGED <<queue_front, taken>>
    BY DEF Submit, NextCell
  <1>3. new \in WorkItem /\ new.n = submitted + 1
    BY <1>1 DEF WorkItem
  <1> HIDE DEF new
  <1>4. queue' \in [0 .. N - 1 -> WorkItem \cup {None}]
    BY <1>1, <1>2, <1>3
  <1>5. queue_rear' = (queue_front + (queue_size + 1)) % N /\ queue_rear' \in 0 .. N - 1
    <2> DEFINE x == queue_front + queue_size
               r == queue_rear
    <2>1. x \in 0 .. 2 * N - 1 /\ r = x % N /\ r + 1 \in 0 .. 2 * N - 1 /\ x + 1 \in 0 .. 2 * N - 1
      BY <1>1
    <2>2. r = IF x < N THEN x ELSE x - N
      <3> HIDE DEF x, r
      <3> QED
        BY <1>1, <2>1, ModOnce
    <2> DEFINE y == r + 1
               z == x + 1
    <2>3. (y = z /\ x < N) \/ (y = z - N /\ x >= N /\ z >= N)
      BY <1>1, <2>1, <2>2
    <2>4. y \in 0 .. 2 * N - 1 /\ z \in 0 .. 2 * N - 1
      BY <2>1
    <2> HIDE DEF y, z
    <2>5. y % N = IF y < N THEN y ELSE y - N
      BY <1>1, <2>4, ModOnce
    <2>6. z % N = IF z < N THEN z ELSE z - N
      BY <1>1, <2>4, ModOnce
    <2>7. y % N = z % N /\ y % N \in 0 .. N - 1
      BY <1>1, <2>1, <2>3, <2>4, <2>5, <2>6 DEF y, z
    <2>8. queue_rear' = y % N /\ z = queue_front + (queue_size + 1)
      BY <1>1, <1>2 DEF y, z
    <2> QED
      BY <2>7, <2>8
  <1>6. ASSUME NEW k \in 0 .. queue_size
        PROVE  LET cell == queue'[(queue_front + k) % N] IN cell \in WorkItem /\ cell.n = taken + k + 1
    <2>1. CASE k = queue_size
      BY <1>1, <1>2, <1>3, <2>1
    <2>2. CASE k # queue_size
      <3>1. k \in 0 .. queue_size - 1 /\ k \in 0 .. N - 1
        BY <1>1, <2>2
      <3>2. (queue_front + k) % N # queue_rear
        BY <1>1, <2>2, <3>1, CellsDiffer
      <3>3. (queue_front + k) % N \in 0 .. N - 1
        BY <1>1, <3>1
      <3>4. queue'[(queue_front + k) % N] = queue[(queue_front + k) % N]
        BY <1>1, <1>2, <3>2, <3>3
      <3> QED
        BY <3>1, <3>4 DEF RingInv
    <2> QED
      BY <2>1, <2>2
  <1>7. queue_size' \in 0 .. N /\ submitted' = taken' + queue_size' /\ queue_size' - 1 = queue_size
    BY <1>1, <1>2
  <1> QED
    BY <1>1, <1>2, <1>4, <1>5, <1>6, <1>7 DEF RingInv

\* A worker takes the oldest item.
LEMMA PopRing ==
    ASSUME ServerConstants, RingInv, NEW w \in Workers, Pop(w)
    PROVE  RingInv' /\ queue[queue_front].conn \in Slots
  <1> DEFINE N == QueueCapacity
  <1>1. /\ N \in Nat \ {0} /\ queue_front \in 0 .. N - 1 /\ queue_rear \in 0 .. N - 1 /\ queue_size \in 1 .. N
        /\ submitted \in Nat /\ taken \in Nat /\ submitted = taken + queue_size
        /\ queue_rear = (queue_front + queue_size) % N
    BY DEF ServerConstants, RingInv, Pop
  <1>2. /\ queue_front' = (queue_front + 1) % N /\ queue_size' = queue_size - 1 /\ taken' = taken + 1
        /\ UNCHANGED <<queue, queue_rear, submitted>>
    BY DEF Pop, NextCell
  <1>3. \A k \in 0 .. N - 1 : (queue_front' + k) % N = (queue_front + (k + 1)) % N /\ queue_front' \in 0 .. N - 1
    BY <1>1, <1>2, NextFront
  <1>4. queue_size - 1 \in 0 .. N - 1 /\ queue_size - 1 + 1 = queue_size /\ 0 \in 0 .. N - 1
    BY <1>1
  <1>5. queue_rear' = (queue_front' + queue_size') % N /\ queue_front' \in 0 .. N - 1
    BY <1>1, <1>2, <1>3, <1>4
  <1>6. ASSUME NEW k \in 0 .. queue_size' - 1
        PROVE  LET cell == queue'[(queue_front' + k) % N] IN cell \in WorkItem /\ cell.n = taken' + k + 1
    <2>1. k \in 0 .. N - 1 /\ k + 1 \in 0 .. queue_size - 1 /\ taken + (k + 1) + 1 = taken' + k + 1
      BY <1>1, <1>2
    <2>2. queue'[(queue_front' + k) % N] = queue[(queue_front + (k + 1)) % N]
      BY <1>2, <1>3, <2>1
    <2> QED
      BY <2>1, <2>2 DEF RingInv
  <1>7. RingInv'
    BY <1>1, <1>2, <1>4, <1>5, <1>6 DEF RingInv
  <1>8. queue[queue_front].conn \in Slots
    <2>1. (queue_front + 0) % N = queue_front
      <3> DEFINE x == queue_front + 0
      <3>1. x \in 0 .. 2 * N - 1 /\ x = queue_front
        BY <1>1
      <3> HIDE DEF x
      <3>2. x % N = IF x < N THEN x ELSE x - N
        BY <1>1, <3>1, ModOnce
      <3>3. x % N = queue_front
        BY <1>1, <3>1, <3>2
      <3> QED
        BY <3>3 DEF x
    <2>2. 0 \in 0 .. queue_size - 1
      BY <1>1
    <2> QED
      BY <2>1, <2>2 DEF RingInv, WorkItem
  <1> QED
    BY <1>7, <1>8

\* Nothing else touches the ring.
LEMMA RingNext == ASSUME ServerConstants, ServerInv, [Next]_vars PROVE RingInv'
  <1>1. CASE Submit
    <2>1. i \in Slots
      BY <1>1 DEF Submit, ServerInv, LoopInv, TableInv, Slots, ServerConstants
    <2> QED
      BY <1>1, <2>1, SubmitRing DEF ServerInv
  <1>2. ASSUME NEW w \in Workers, Pop(w) PROVE RingInv'
    BY <1>2, PopRing DEF ServerInv
  <1>3. ASSUME UNCHANGED <<ring, history>> PROVE RingInv'
    BY <1>3 DEF ServerInv, RingInv, ring, history
  <1>4. CASE LoopStep
    BY <1>1, <1>3, <1>4 DEF LoopStep, BuildFdSet, Select, SelectFails, ReapIdle, ReapMove, Move, Accept, NoAccept,
        Recv, ScanMove, ScanDone, Parse, SubmitWaits, PoolDestroy, PoolJoin, ServerDestroy
  <1>5. ASSUME NEW w \in Workers, WorkerStep(w) \/ SpuriousWake(w) PROVE RingInv'
    BY <1>2, <1>3, <1>5 DEF WorkerStep, SpuriousWake, PopWaits, Exit, Check, Serve, Send, Keep, Close, Mark
  <1>6. CASE ServerStop \/ (\E c \in Clients : Connect(c) \/ SendSegment(c) \/ HangUp(c)) \/ UNCHANGED vars
    BY <1>3, <1>6 DEF ServerStop, Connect, SendSegment, HangUp, vars
  <1> QED
    BY <1>4, <1>5, <1>6 DEF Next

----------------------------------------------------------------------------
(* The loop and the table of connections                                   *)

LEMMA LoopNext == ASSUME ServerConstants, ServerInv, [Next]_vars PROVE LoopInv'
  <1>0. conn_count \in Nat /\ LoopInv
    BY DEF ServerInv, TableInv, ServerConstants
  <1>1. CASE LoopStep
    <2>1. CASE Recv
      <3>1. mpc = "scan" /\ Pending # {} /\ i' = Min(Pending) /\ mpc' \in {"parse", "scan_move"}
            /\ UNCHANGED <<conn_count, not_full>>
        BY <2>1 DEF Recv, sync
      <3>2. Pending \in SUBSET Nat /\ Pending \subseteq 0 .. conn_count - 1
        BY <1>0, <3>1 DEF Pending, LoopInv
      <3>3. Min(Pending) \in Pending
        BY <3>1, <3>2, MinExists
      <3> QED
        BY <1>0, <3>1, <3>2, <3>3 DEF LoopInv
    <2>2. CASE ReapIdle
      BY <1>0, <2>2 DEF ReapIdle, LoopInv, sync
    <2>3. CASE ReapMove \/ ScanMove
      BY <1>0, <2>3 DEF ReapMove, ScanMove, Move, LoopInv, sync
    <2>4. CASE Parse
      BY <1>0, <2>4 DEF Parse, LoopInv, sync
    <2>5. CASE Submit \/ SubmitWaits
      BY <1>0, <2>5 DEF Submit, SubmitWaits, LoopInv, table, ring, loop
    <2>6. CASE BuildFdSet \/ Select \/ SelectFails \/ NoAccept \/ ScanDone
      BY <1>0, <2>6 DEF BuildFdSet, Select, SelectFails, NoAccept, ScanDone, LoopInv, sync, table, loop
    <2>7. CASE Accept \/ PoolDestroy \/ PoolJoin \/ ServerDestroy
      BY <1>0, <2>7 DEF Accept, PoolDestroy, PoolJoin, ServerDestroy, LoopInv, sync, loop
    <2> QED
      BY <1>1, <2>1, <2>2, <2>3, <2>4, <2>5, <2>6, <2>7 DEF LoopStep
  <1>2. ASSUME UNCHANGED <<mpc, i, conn_count>>, not_full' => not_full PROVE LoopInv'
    BY <1>0, <1>2 DEF LoopInv
  <1>3. ASSUME NEW w \in Workers, WorkerStep(w) \/ SpuriousWake(w) PROVE LoopInv'
    BY <1>2, <1>3 DEF WorkerStep, SpuriousWake, PopWaits, Pop, Exit, Check, Serve, Send, Keep, Close, Mark,
        sync, table, loop
  <1>4. CASE ServerStop \/ (\E c \in Clients : Connect(c) \/ SendSegment(c) \/ HangUp(c)) \/ UNCHANGED vars
    BY <1>2, <1>4 DEF ServerStop, Connect, SendSegment, HangUp, vars, sync, table, loop
  <1> QED
    BY <1>1, <1>3, <1>4 DEF Next

\* A slot gets new contents.
LEMMA SlotKeeps ==
    ASSUME ServerConstants, TableInv, NEW s \in Slots, NEW x \in Connection,
           x.recv_len <= Len(x.recv_buf), x.fd = connections[s].fd \/ x.fd \in Fds \cup {-1},
           connections' = [connections EXCEPT ![s] = x], conn_count' = conn_count
    PROVE  TableInv'
  <1>1. \A u \in Slots : connections'[u] = IF u = s THEN x ELSE connections[u]
    BY DEF TableInv
  <1>2. \A u \in 0 .. conn_count - 1 : u \in Slots
    BY DEF TableInv, Slots, ServerConstants
  <1>3. connections' \in [Slots -> Connection]
    BY DEF TableInv
  <1>4. \A u \in 0 .. conn_count - 1 : connections'[u].fd \in Fds \cup {-1}
    BY <1>1, <1>2 DEF TableInv
  <1>5. \A u \in Slots : connections'[u].recv_len <= Len(connections'[u].recv_buf)
    BY <1>1 DEF TableInv
  <1> QED
    BY <1>3, <1>4, <1>5 DEF TableInv

\* The last connection takes the slot of a removed one.
LEMMA MoveKeeps ==
    ASSUME ServerConstants, TableInv, i \in 0 .. conn_count - 1, connections' = Moved(i), conn_count' = conn_count - 1
    PROVE  TableInv'
  <1>1. i \in Slots /\ conn_count - 1 \in Slots /\ conn_count - 1 \in 0 .. conn_count - 1 /\ conn_count' \in 0 .. ConnCapacity
        /\ \A u \in 0 .. conn_count' - 1 : u \in 0 .. conn_count - 1 /\ u \in Slots
    BY DEF TableInv, Slots, ServerConstants
  <1>2. \A u \in Slots : connections'[u] = connections[u] \/ (u = i /\ connections'[u] = connections[conn_count - 1])
    BY <1>1 DEF Moved, TableInv
  <1>3. connections' \in [Slots -> Connection]
    BY <1>1 DEF Moved, TableInv
  <1>4. \A u \in 0 .. conn_count' - 1 : connections'[u].fd \in Fds \cup {-1}
    BY <1>1, <1>2 DEF TableInv
  <1>5. \A u \in Slots : connections'[u].recv_len <= Len(connections'[u].recv_buf)
    BY <1>1, <1>2 DEF TableInv
  <1> QED
    BY <1>1, <1>3, <1>4, <1>5 DEF TableInv

\* What the loop parses is a request of the text.
LEMMA ParsedRequest ==
    ASSUME NEW text \in Seq(Segments), ~Incomplete(text) PROVE Parsed(text) \in Request
  <1> DEFINE I == {k \in 1 .. Len(text) : text[k][3] # "part"}
  <1>1. HeaderEnd(text) = IF I # {} THEN Min(I) ELSE 0
    BY DEF HeaderEnd, SelectInSeq
  <1>2. I # {} /\ I \in SUBSET Nat
    BY <1>1, LenProperties DEF Incomplete
  <1>3. HeaderEnd(text) \in I
    <2> HIDE DEF I
    <2> QED
      BY <1>1, <1>2, MinExists
  <1>4. text[HeaderEnd(text)] \in Segments
    BY <1>3, ElementOfSeq
  <1> QED
    BY <1>4 DEF Parsed, Request

\* server_remove_connection closes a slot.
LEMMA CloseKeeps ==
    ASSUME ServerConstants, TableInv, NEW s \in Slots, NEW fd, CloseSlot(s, fd), conn_count' = conn_count
    PROVE  TableInv'
  <1> DEFINE x == [connections[s] EXCEPT !.fd = -1, !.request = Empty]
  <1>1. connections[s] \in Connection /\ connections[s].recv_len <= Len(connections[s].recv_buf)
    BY DEF TableInv
  <1>2. x \in Connection /\ x.fd = -1 /\ x.recv_len = connections[s].recv_len /\ x.recv_buf = connections[s].recv_buf
    BY <1>1 DEF Connection
  <1>3. connections' = [connections EXCEPT ![s] = x]
    BY DEF CloseSlot, TableInv
  <1> HIDE DEF x
  <1> QED
    BY <1>1, <1>2, <1>3, SlotKeeps

\* accept() always finds a descriptor: one per client is enough.
LEMMA DescriptorLeft ==
    ASSUME ServerConstants, PeerInv, NEW c \in Clients, peer[c] = "connecting"
    PROVE  FreeFd \in Fds /\ sock[FreeFd] = None
  <1> DEFINE F == {fd \in Fds : sock[fd] = None}
  <1>1. F # {}
    <2> SUFFICES ASSUME F = {} PROVE FALSE
      OBVIOUS
    <2> DEFINE T == Clients \ {c}
    <2>1. sock \in [Fds -> T] /\ \A f, g \in Fds : sock[f] = sock[g] => f = g
      BY DEF PeerInv
    <2>2. IsFiniteSet(T) /\ Cardinality(T) = Cardinality(Clients) - 1 /\ Cardinality(Clients) \in Nat
      BY FS_RemoveElement, FS_CardinalityType DEF ServerConstants
    <2>3. IsFiniteSet(Fds) /\ Cardinality(Fds) = ConnCapacity + 1 /\ ConnCapacity \in Nat
      BY FS_Interval DEF Fds, ServerConstants
    <2>4. Cardinality(T) < Cardinality(Fds)
      BY <2>2, <2>3 DEF ServerConstants
    <2> HIDE DEF T, F
    <2>5. \E f, g \in Fds : f # g /\ sock[f] = sock[g]
      BY <2>1, <2>2, <2>3, <2>4, FS_PigeonHole
    <2> QED
      BY <2>1, <2>5
  <1>2. F \in SUBSET Nat
    BY DEF Fds, ServerConstants
  <1>3. Min(F) \in F
    <2> HIDE DEF F
    <2> QED
      BY <1>1, <1>2, MinExists
  <1> QED
    BY <1>3 DEF FreeFd

\* What a client has sent and the server has not read is a part of its script.
LEMMA UnreadText ==
    ASSUME ServerConstants, PeerInv, NEW c \in Clients PROVE Unread(c) \in Seq(Segments)
  <1>1. Script[c] \in Seq(Segments) /\ got[c] + 1 \in 1 .. Len(Script[c]) + 1 /\ sent[c] \in 0 .. Len(Script[c])
        /\ Len(Script[c]) \in Nat
    BY LenProperties DEF ServerConstants, PeerInv
  <1> DEFINE a == got[c] + 1
             b == sent[c]
  <1>2. a \in Nat \ {0} /\ b \in Nat /\ \A k \in a .. b : Script[c][k] \in Segments
    BY <1>1, ElementOfSeq
  <1>3. SubSeq(Script[c], a, b) \in Seq(Segments)
    <2> HIDE DEF a, b
    <2> QED
      BY <1>2, SubSeqProperties
  <1> QED
    BY <1>3 DEF Unread

LEMMA RecvTable == ASSUME ServerConstants, ServerInv, Recv PROVE TableInv'
  <1>0. TableInv /\ PeerInv /\ mpc = "scan" /\ i \in Nat /\ Pending # {} /\ conn_count' = conn_count
    BY DEF ServerInv, LoopInv, Recv
  <1>1. Pending \in SUBSET Nat /\ Pending \subseteq 0 .. conn_count - 1 /\ Pending \subseteq Slots
        /\ \A s \in Pending : connections[s].fd >= 0
    BY <1>0 DEF Pending, TableInv, Slots, ServerConstants, Live
  <1>2. Min(Pending) \in Pending
    BY <1>0, <1>1, MinExists
  <1> DEFINE s == Min(Pending)
             fd == connections[s].fd
             c == sock[fd]
             text == SubSeq(connections[s].recv_buf, 1, connections[s].recv_len) \o Unread(c)
  <1>3. s \in Slots /\ fd \in Fds /\ connections[s] \in Connection
    <2>1. s \in Slots /\ s \in 0 .. conn_count - 1 /\ fd >= 0
      BY <1>1, <1>2
    <2>2. fd \in Fds \cup {-1} /\ connections[s] \in Connection
      BY <1>0, <2>1 DEF TableInv
    <2> QED
      BY <2>1, <2>2
  <1>4. CASE c # None /\ Unread(c) # <<>>
    <2>1. connections' = [connections EXCEPT ![s].recv_buf = text, ![s].recv_len = Len(text)]
      BY <1>4 DEF Recv
    <2>2. c \in Clients
      BY <1>0, <1>3, <1>4 DEF PeerInv
    <2>3. Unread(c) \in Seq(Segments)
      BY <1>0, <2>2, UnreadText
    <2>4. SubSeq(connections[s].recv_buf, 1, connections[s].recv_len) \in Seq(Segments)
      <3> DEFINE buf == connections[s].recv_buf
                 n == connections[s].recv_len
      <3>1. buf \in Seq(Segments) /\ n \in Nat /\ n <= Len(buf) /\ Len(buf) \in Nat
        BY <1>0, <1>3, LenProperties DEF Connection, TableInv
      <3>2. \A k \in 1 .. n : buf[k] \in Segments
        BY <3>1, ElementOfSeq
      <3> HIDE DEF buf, n
      <3>3. SubSeq(buf, 1, n) \in Seq(Segments)
        BY <3>1, <3>2, SubSeqProperties
      <3> QED
        BY <3>3 DEF buf, n
    <2>5. text \in Seq(Segments) /\ Len(text) \in Nat
      BY <2>3, <2>4, ConcatProperties, LenProperties
    <2> HIDE DEF text
    <2> DEFINE x == [connections[s] EXCEPT !.recv_buf = text, !.recv_len = Len(text)]
    <2>6. x \in Connection /\ x.recv_len = Len(text) /\ x.recv_buf = text /\ x.fd = connections[s].fd
      BY <1>3, <2>5 DEF Connection
    <2> HIDE DEF s
    <2>7. connections' = [connections EXCEPT ![s] = x]
      BY <1>0, <1>3, <2>1 DEF TableInv
    <2>8. x.recv_len <= Len(x.recv_buf)
      BY <2>5, <2>6
    <2> HIDE DEF x
    <2> QED
      BY <1>0, <1>3, <2>6, <2>7, <2>8, SlotKeeps
  <1>5. CASE ~(c # None /\ Unread(c) # <<>>)
    <2>1. CloseSlot(s, fd)
      BY <1>5 DEF Recv
    <2> QED
      BY <1>0, <1>3, <2>1, CloseKeeps
  <1> QED
    BY <1>4, <1>5

LEMMA ParseTable == ASSUME ServerConstants, ServerInv, Parse PROVE TableInv'
  <1>0. TableInv /\ i \in 0 .. conn_count - 1 /\ i \in Slots
    BY DEF ServerInv, LoopInv, Parse, TableInv, Slots, ServerConstants
  <1> DEFINE text == connections[i].recv_buf
  <1>1. connections[i] \in Connection /\ text \in Seq(Segments)
    BY <1>0 DEF TableInv, Connection
  <1>2. CASE UNCHANGED table
    BY <1>0, <1>2 DEF TableInv, table
  <1>3. CASE CloseSlot(i, connections[i].fd) /\ conn_count' = conn_count
    BY <1>0, <1>3, CloseKeeps
  <1>4. CASE ~Incomplete(text) /\ conn_count' = conn_count
             /\ connections' = [connections EXCEPT ![i].request = Parsed(text),
                                                   ![i].keep_alive = @ /\ Parsed(text)[1] \notin Closers]
    <2>1. Parsed(text) \in Request
      BY <1>1, <1>4, ParsedRequest
    <2> DEFINE k == connections[i].keep_alive /\ Parsed(text)[1] \notin Closers
               x == [connections[i] EXCEPT !.request = Parsed(text), !.keep_alive = k]
    <2>2. k \in BOOLEAN
      OBVIOUS
    <2>3. connections' = [connections EXCEPT ![i] = x]
      BY <1>0, <1>4 DEF TableInv
    <2> HIDE DEF k
    <2>4. x \in Connection /\ x.fd = connections[i].fd /\ x.recv_len = connections[i].recv_len /\ x.recv_buf = text
      BY <1>1, <2>1, <2>2 DEF Connection
    <2>5. connections[i].recv_len <= Len(text)
      BY <1>0 DEF TableInv
    <2> HIDE DEF x
    <2> QED
      BY <1>0, <1>4, <2>3, <2>4, <2>5, SlotKeeps
  <1> QED
    BY <1>2, <1>3, <1>4 DEF Parse
\* A new connection goes into the first slot past the used ones.
LEMMA AcceptTable == ASSUME ServerConstants, ServerInv, Accept PROVE TableInv'
  <1>0. TableInv /\ PeerInv
    BY DEF ServerInv
  <1>1. PICK c \in Clients :
        /\ peer[c] = "connecting"
        /\ \/ /\ conn_count < ConnCapacity
              /\ connections' = [connections EXCEPT ![conn_count] = Fresh(FreeFd)] /\ conn_count' = conn_count + 1
           \/ UNCHANGED table
    BY DEF Accept
  <1>2. FreeFd \in Fds
    BY <1>0, <1>1, DescriptorLeft
  <1> DEFINE d == FreeFd
             x == Fresh(d)
  <1>3. x.fd \in Fds /\ x.recv_len = 0 /\ x.recv_buf = <<>> /\ x \in Connection
    <2> HIDE DEF d
    <2>1. <<>> \in Seq(Segments)
      BY EmptySeq
    <2>2. Zeroed \in Connection /\ Zeroed.recv_len = 0 /\ Zeroed.recv_buf = <<>>
      BY <2>1 DEF Zeroed, Connection
    <2>3. d \in Fds
      BY <1>2 DEF d
    <2>4. x.recv_len = Zeroed.recv_len /\ x.recv_buf = Zeroed.recv_buf /\ x.fd = d /\ x \in Connection
      BY <2>2, <2>3 DEF Fresh, Connection
    <2> QED
      BY <2>2, <2>3, <2>4
  <1>4. 0 <= Len(<<>>)
    OBVIOUS
  <1> HIDE DEF x
  <1>5. CASE conn_count < ConnCapacity /\ connections' = [connections EXCEPT ![conn_count] = x] /\ conn_count' = conn_count + 1
    <2>1. conn_count \in Slots /\ conn_count' \in 0 .. ConnCapacity
          /\ \A u \in 0 .. conn_count' - 1 : u \in Slots /\ (u = conn_count \/ u \in 0 .. conn_count - 1)
      BY <1>0, <1>5 DEF TableInv, Slots, ServerConstants
    <2>2. \A u \in Slots : connections'[u] = IF u = conn_count THEN x ELSE connections[u]
      BY <1>0, <1>5 DEF TableInv
    <2>3. connections' \in [Slots -> Connection]
      BY <1>0, <1>3, <1>5, <2>1 DEF TableInv
    <2>4. \A u \in 0 .. conn_count' - 1 : connections'[u].fd \in Fds \cup {-1}
      BY <1>0, <1>3, <2>1, <2>2 DEF TableInv
    <2>5. \A u \in Slots : connections'[u].recv_len <= Len(connections'[u].recv_buf)
      BY <1>0, <1>3, <1>4, <2>2 DEF TableInv
    <2> QED
      BY <2>1, <2>3, <2>4, <2>5 DEF TableInv
  <1>6. CASE UNCHANGED table
    BY <1>0, <1>6 DEF TableInv, table
  <1> QED
    BY <1>1, <1>5, <1>6 DEF x

\* A worker empties or marks the slot it answered for.
LEMMA FinishTable ==
    ASSUME ServerConstants, ServerInv, NEW w \in Workers, Keep(w) \/ Mark(w) PROVE TableInv'
  <1>0. TableInv /\ item[w] \in Slots /\ conn_count' = conn_count
    BY DEF ServerInv, PoolInv, Busy, Keep, Mark, Again, Goto
  <1> DEFINE s == item[w]
             con == connections[s]
  <1>1. con \in Connection /\ con.recv_len <= Len(con.recv_buf) /\ con.recv_buf \in Seq(Segments) /\ Len(con.recv_buf) \in Nat
    BY <1>0, LenProperties DEF TableInv, Connection
  <1>2. CASE Keep(w)
    <2> DEFINE x == [con EXCEPT !.request = Empty, !.recv_len = 0]
    <2>1. x \in Connection /\ x.fd = con.fd /\ x.recv_len = 0 /\ x.recv_buf = con.recv_buf
      <3> HIDE DEF con
      <3> QED
        BY <1>1 DEF Connection
    <2>2. x.recv_len <= Len(x.recv_buf)
      BY <1>1, <2>1
    <2>3. connections' = [connections EXCEPT ![s] = x]
      BY <1>0, <1>2 DEF Keep, TableInv
    <2> HIDE DEF x, s
    <2> QED
      BY <1>0, <2>1, <2>2, <2>3, SlotKeeps DEF s
  <1>3. CASE Mark(w)
    <2> DEFINE x == [con EXCEPT !.fd = -1, !.closed = TRUE]
    <2>1. x \in Connection /\ x.fd = -1 /\ x.recv_len <= Len(x.recv_buf)
      BY <1>1 DEF Connection
    <2>2. connections' = [connections EXCEPT ![s] = x]
      BY <1>0, <1>3 DEF Mark, TableInv
    <2> HIDE DEF x, s
    <2> QED
      BY <1>0, <2>1, <2>2, SlotKeeps DEF s
  <1> QED
    BY <1>2, <1>3

LEMMA TableNext == ASSUME ServerConstants, ServerInv, [Next]_vars PROVE TableInv'
  <1>0. TableInv /\ LoopInv
    BY DEF ServerInv
  <1>1. ASSUME UNCHANGED table PROVE TableInv'
    BY <1>0, <1>1 DEF TableInv, table
  <1>2. CASE LoopStep
    <2>1. CASE ReapIdle
      <3>1. PICK s \in 0 .. i : CloseSlot(s, connections[s].fd)
        BY <2>1 DEF ReapIdle
      <3>2. s \in Slots /\ conn_count' = conn_count
        BY <1>0, <2>1 DEF ReapIdle, LoopInv, TableInv, Slots, ServerConstants
      <3> QED
        BY <1>0, <3>1, <3>2, CloseKeeps
    <2>2. CASE ReapMove \/ ScanMove
      <3>1. i \in 0 .. conn_count - 1 /\ connections' = Moved(i) /\ conn_count' = conn_count - 1
        BY <1>0, <2>2 DEF ReapMove, ScanMove, Move, LoopInv
      <3> QED
        BY <1>0, <3>1, MoveKeeps
    <2>3. CASE ServerDestroy
      BY <1>0, <2>3 DEF ServerDestroy, TableInv, ServerConstants
    <2>4. CASE BuildFdSet \/ Select \/ SelectFails \/ NoAccept \/ ScanDone \/ SubmitWaits \/ Submit
               \/ PoolDestroy \/ PoolJoin
      BY <1>1, <2>4 DEF BuildFdSet, Select, SelectFails, NoAccept, ScanDone, SubmitWaits, Submit, PoolDestroy, PoolJoin
    <2> QED
      BY <1>2, <2>1, <2>2, <2>3, <2>4, AcceptTable, RecvTable, ParseTable DEF LoopStep
  <1>3. ASSUME NEW w \in Workers, WorkerStep(w) \/ SpuriousWake(w) PROVE TableInv'
    BY <1>1, <1>3, FinishTable DEF WorkerStep, SpuriousWake, PopWaits, Pop, Exit, Check, Serve, Send, Close
  <1>4. CASE ServerStop \/ (\E c \in Clients : Connect(c) \/ SendSegment(c) \/ HangUp(c)) \/ UNCHANGED vars
    BY <1>1, <1>4 DEF ServerStop, Connect, SendSegment, HangUp, vars
  <1> QED
    BY <1>2, <1>3, <1>4 DEF Next

----------------------------------------------------------------------------
(* The descriptors and the workers                                         *)

\* Descriptors are closed, and nothing else about the peers changes.
LEMMA CloseDescriptors ==
    ASSUME ServerConstants, PeerInv, sock' \in [Fds -> Clients \cup {None}], \A fd \in Fds : sock'[fd] \in {sock[fd], None},
           UNCHANGED <<peers, got>>
    PROVE  PeerInv'
  <1>1. \A f, g \in Fds : sock'[f] # None /\ sock'[f] = sock'[g] => f = g
    BY DEF PeerInv
  <1>2. \A c \in Clients : peer[c] \in {"new", "connecting"} => \A fd \in Fds : sock'[fd] # c
    BY DEF PeerInv, ServerConstants
  <1> QED
    BY <1>1, <1>2 DEF PeerInv, peers

LEMMA PeerNext == ASSUME ServerConstants, ServerInv, [Next]_vars PROVE PeerInv'
  <1>0. PeerInv
    BY DEF ServerInv
  <1>1. ASSUME UNCHANGED <<sock, peers, got>> PROVE PeerInv'
    BY <1>0, <1>1 DEF PeerInv, peers
  <1>2. ASSUME NEW fd, CloseSocket(fd), UNCHANGED <<peers, got>> PROVE PeerInv'
    <2>1. sock' \in [Fds -> Clients \cup {None}] /\ \A f \in Fds : sock'[f] \in {sock[f], None}
      BY <1>0, <1>2 DEF CloseSocket, PeerInv
    <2> QED
      BY <1>0, <1>2, <2>1, CloseDescriptors
  <1>3. CASE LoopStep
    <2>1. CASE Accept
      <3>1. PICK c \in Clients :
            /\ peer[c] = "connecting"
            /\ \/ sock' = [sock EXCEPT ![FreeFd] = c] /\ peer' = [peer EXCEPT ![c] = "open"]
               \/ sock' = sock /\ peer' = [peer EXCEPT ![c] = "gone"]
        BY <2>1 DEF Accept
      <3>2. FreeFd \in Fds /\ sock[FreeFd] = None /\ UNCHANGED <<sent, got>>
        BY <1>0, <2>1, <3>1, DescriptorLeft DEF Accept
      <3>3. \A fd \in Fds : sock[fd] # c
        BY <1>0, <3>1 DEF PeerInv
      <3>4. CASE sock' = sock /\ peer' = [peer EXCEPT ![c] = "gone"]
        BY <1>0, <3>2, <3>4 DEF PeerInv
      <3>5. CASE sock' = [sock EXCEPT ![FreeFd] = c] /\ peer' = [peer EXCEPT ![c] = "open"]
        <4>1. \A fd \in Fds : sock'[fd] = IF fd = FreeFd THEN c ELSE sock[fd]
          BY <1>0, <3>5 DEF PeerInv
        <4>2. \A d \in Clients : peer'[d] = IF d = c THEN "open" ELSE peer[d]
          BY <1>0, <3>5 DEF PeerInv
        <4>3. sock' \in [Fds -> Clients \cup {None}] /\ peer' \in [Clients -> {"new", "connecting", "open", "gone"}]
          BY <1>0, <3>5 DEF PeerInv
        <4>4. \A f, g \in Fds : sock'[f] # None /\ sock'[f] = sock'[g] => f = g
          BY <1>0, <3>3, <4>1 DEF PeerInv
        <4>5. \A d \in Clients : peer'[d] \in {"new", "connecting"} => \A fd \in Fds : sock'[fd] # d
          BY <1>0, <4>1, <4>2 DEF PeerInv
        <4> QED
          BY <1>0, <3>2, <4>3, <4>4, <4>5 DEF PeerInv
      <3> QED
        BY <3>1, <3>4, <3>5
    <2>2. CASE Recv
      <3> DEFINE s == Min(Pending)
                 c == sock[connections[s].fd]
      <3>1. \/ got' = [got EXCEPT ![c] = sent[c]] /\ UNCHANGED <<sock, peers>>
            \/ CloseSocket(connections[s].fd) /\ UNCHANGED <<peers, got>>
        BY <2>2 DEF Recv, CloseSlot
      <3>2. CASE got' = [got EXCEPT ![c] = sent[c]] /\ UNCHANGED <<sock, peers>>
        <4> HIDE DEF c
        <4>1. \A d \in Clients : got'[d] = got[d] \/ got'[d] = sent[d]
          BY <1>0, <3>2 DEF PeerInv
        <4>2. got' \in [Clients -> Nat]
          BY <1>0, <3>2, <4>1 DEF PeerInv
        <4>3. \A d \in Clients : got'[d] <= sent[d] /\ sent[d] <= Len(Script[d])
          BY <1>0, <4>1 DEF PeerInv
        <4> QED
          BY <1>0, <3>2, <4>2, <4>3 DEF PeerInv, peers
      <3> QED
        BY <1>2, <3>1, <3>2
    <2>3. CASE Parse
      BY <1>1, <1>2, <2>3 DEF Parse, CloseSlot
    <2>4. CASE ReapIdle
      BY <1>2, <2>4 DEF ReapIdle, CloseSlot
    <2>5. CASE ServerDestroy
      <3>1. sock' \in [Fds -> Clients \cup {None}] /\ \A fd \in Fds : sock'[fd] \in {sock[fd], None}
        BY <1>0, <2>5 DEF ServerDestroy, PeerInv
      <3> QED
        BY <1>0, <2>5, <3>1, CloseDescriptors DEF ServerDestroy
    <2> QED
      BY <1>1, <1>3, <2>1, <2>2, <2>3, <2>4, <2>5 DEF LoopStep, BuildFdSet, Select, SelectFails, ReapMove, Move, NoAccept,
          ScanMove, ScanDone, SubmitWaits, Submit, PoolDestroy, PoolJoin
  <1>4. ASSUME NEW w \in Workers, WorkerStep(w) \/ SpuriousWake(w) PROVE PeerInv'
    <2>1. CASE Close(w)
      BY <1>2, <2>1 DEF Close
    <2> QED
      BY <1>1, <1>4, <2>1 DEF WorkerStep, SpuriousWake, PopWaits, Pop, Exit, Check, Serve, Send, Keep, Mark
  <1>5. ASSUME NEW c \in Clients, Connect(c) \/ SendSegment(c) \/ HangUp(c) PROVE PeerInv'
    <2>1. CASE Connect(c)
      BY <1>0, <2>1 DEF PeerInv, Connect
    <2>2. CASE HangUp(c)
      BY <1>0, <2>2 DEF PeerInv, HangUp
    <2>3. CASE SendSegment(c)
      <3>1. Len(Script[c]) \in Nat
        BY LenProperties DEF ServerConstants
      <3> QED
        BY <1>0, <2>3, <3>1 DEF PeerInv, SendSegment
    <2> QED
      BY <1>5, <2>1, <2>2, <2>3
  <1>6. CASE ServerStop \/ UNCHANGED vars
    BY <1>1, <1>6 DEF ServerStop, vars
  <1> QED
    BY <1>3, <1>4, <1>5, <1>6 DEF Next
LEMMA PoolNext == ASSUME ServerConstants, ServerInv, [Next]_vars PROVE PoolInv'
  <1>0. PoolInv /\ RingInv
    BY DEF ServerInv
  <1>1. ASSUME UNCHANGED <<wpc, item>>, not_empty' \subseteq not_empty PROVE PoolInv'
    BY <1>0, <1>1 DEF PoolInv
  <1>2. CASE LoopStep
    <2>1. CASE Submit
      <3>1. not_empty' \subseteq not_empty /\ UNCHANGED <<wpc, item>>
        BY <2>1 DEF Submit, Signalled
      <3> QED
        BY <1>1, <3>1
    <2>2. CASE PoolDestroy
      BY <1>1, <2>2 DEF PoolDestroy
    <2> QED
      BY <1>1, <1>2, <2>1, <2>2 DEF LoopStep, BuildFdSet, Select, SelectFails, ReapIdle, ReapMove, Move, Accept, NoAccept,
          Recv, ScanMove, ScanDone, Parse, SubmitWaits, PoolJoin, ServerDestroy, sync
  <1>3. ASSUME NEW w \in Workers, WorkerStep(w) \/ SpuriousWake(w) PROVE PoolInv'
    <2>1. CASE Pop(w)
      <3>1. queue[queue_front].conn \in Slots
        BY <1>0, <2>1, PopRing
      <3>2. /\ wpc' = [wpc EXCEPT ![w] = "check"] /\ item' = [item EXCEPT ![w] = queue[queue_front].conn]
            /\ w \notin not_empty /\ not_empty' = not_empty
        BY <2>1 DEF Pop, Goto
      <3> QED
        BY <1>0, <3>1, <3>2 DEF PoolInv, Busy
    <2>2. CASE PopWaits(w) \/ Exit(w)
      BY <1>0, <2>2 DEF PoolInv, PopWaits, Exit, Goto, Busy, sync
    <2>3. CASE Check(w) \/ Serve(w) \/ Send(w) \/ Keep(w) \/ Close(w) \/ Mark(w)
      <3>1. UNCHANGED not_empty /\ w \notin not_empty /\ wpc[w] \in Busy
        BY <2>3 DEF Check, Serve, Send, Keep, Close, Mark, Goto, Again, Busy, sync
      <3>2. \/ (\E next \in Busy : wpc' = [wpc EXCEPT ![w] = next]) /\ item' = item
            \/ wpc' = [wpc EXCEPT ![w] = "pop"] /\ item' = [item EXCEPT ![w] = None]
        BY <2>3 DEF Check, Serve, Send, Keep, Close, Mark, Goto, Again, Busy
      <3> QED
        BY <1>0, <3>1, <3>2 DEF PoolInv, Busy
    <2>4. CASE SpuriousWake(w)
      BY <1>1, <2>4 DEF SpuriousWake
    <2> QED
      BY <1>3, <2>1, <2>2, <2>3, <2>4 DEF WorkerStep
  <1>4. CASE ServerStop \/ (\E c \in Clients : Connect(c) \/ SendSegment(c) \/ HangUp(c)) \/ UNCHANGED vars
    BY <1>1, <1>4 DEF ServerStop, Connect, SendSegment, HangUp, vars, sync
  <1> QED
    BY <1>2, <1>3, <1>4 DEF Next

----------------------------------------------------------------------------
(* The server                                                              *)

LEMMA ServerInit == ASSUME ServerConstants, Init PROVE ServerInv
  <1>1. TableInv
    <2>1. <<>> \in Seq(Segments) /\ 0 <= Len(<<>>)
      BY EmptySeq
    <2>2. Zeroed \in Connection /\ Zeroed.recv_len = 0 /\ Zeroed.recv_buf = <<>>
      BY <2>1 DEF Zeroed, Connection
    <2> QED
      BY <2>1, <2>2 DEF Init, TableInv, ServerConstants
  <1>2. LoopInv
    BY DEF Init, LoopInv
  <1>3. PeerInv
    <2>1. \A c \in Clients : Len(Script[c]) \in Nat
      BY LenProperties DEF ServerConstants
    <2> QED
      BY <2>1 DEF Init, PeerInv, ServerConstants
  <1>4. PoolInv
    BY DEF Init, PoolInv, Busy
  <1>5. RingInv
    <2> DEFINE x == 0 + 0
    <2>1. x \in 0 .. 2 * QueueCapacity - 1 /\ x = 0 /\ QueueCapacity \in Nat \ {0}
      BY DEF ServerConstants
    <2> HIDE DEF x
    <2>2. x % QueueCapacity = IF x < QueueCapacity THEN x ELSE x - QueueCapacity
      BY <2>1, ModOnce
    <2>3. x % QueueCapacity = 0
      BY <2>1, <2>2
    <2>4. (0 + 0) % QueueCapacity = 0
      BY <2>3 DEF x
    <2> QED
      BY <2>1, <2>4 DEF Init, RingInv
  <1> QED
    BY <1>1, <1>2, <1>3, <1>4, <1>5 DEF ServerInv

LEMMA ServerNext == ASSUME ServerConstants, ServerInv, [Next]_vars PROVE ServerInv'
  BY TableNext, LoopNext, PeerNext, PoolNext, RingNext DEF ServerInv

LEMMA ServerHolds == ASSUME ServerConstants, ServerInv PROVE TypeOK /\ RingIsFifo
  <1>1. TypeOK
    BY DEF ServerInv, TableInv, LoopInv, PeerInv, PoolInv, RingInv, TypeOK
  <1>2. RingIsFifo
    <2>1. submitted - taken = queue_size
      BY DEF ServerInv, RingInv
    <2>2. \A k \in 0 .. queue_size - 1 : queue[(queue_front + k) % QueueCapacity].n = taken + k + 1
      BY DEF ServerInv, RingInv
    <2> QED
      BY <2>1, <2>2 DEF RingIsFifo
  <1> QED
    BY <1>1, <1>2

\* Whatever the peers send and however the threads interleave, the array keeps
\* its type although workers and loop share it without a lock, a worker in
\* pthread_cond_wait is an idle one, the ring never overflows, and
\* thread_pool_submit and worker_thread keep it a first-in first-out queue.
THEOREM RingStaysFifo == ASSUME ServerConstants PROVE Spec => [](TypeOK /\ RingIsFifo)
  <1>1. Init => ServerInv
    BY ServerInit
  <1>2. ServerInv /\ [Next]_vars => ServerInv'
    BY ServerNext
  <1>3. ServerInv => TypeOK /\ RingIsFifo
    BY ServerHolds
  <1> QED
    BY <1>1, <1>2, <1>3, PTL DEF Spec
============================================================================
