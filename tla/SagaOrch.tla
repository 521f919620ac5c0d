------------------------------ MODULE SagaOrch ------------------------------
(* Sagas run by an orchestrator, and the choreography bus                   *)
(* (mini-business-arch/src/saga_orch.c).  The code is sequential: what      *)
(* varies is what the callbacks of a saga's steps and of the services       *)
(* return or publish.  call is the function that waits for a callback.      *)
EXTENDS Naturals, Integers, Sequences

CONSTANTS StepCount,      \* steps of every saga
          Compensable,    \* the steps that have a compensate function
          MaxRetries,     \* max_retries of every step
          MaxSagas,       \* bound: sagas enqueued
          Services,       \* services an event can be addressed to
          LogCapacity,    \* the first allocation of the event log
          MaxEvents       \* bound: events published

VARIABLES sagas,          \* SagaOrchestrator.active_sagas
          call,           \* the function in progress
          effects,        \* history: what the callbacks of each saga did
          bus,            \* ChoreographyBus: services, log, capacity
          cursor,         \* dispatch_pending: event i, service j; moved: ev points to a freed log
          published,      \* history: the events published
          delivered,      \* history: <<service index, event>>, the events handlers were given
          misread         \* history: a handler was given memory that holds no event

sagaVars == <<sagas, call, effects>>
busVars == <<bus, cursor, published, delivered, misread>>
vars == <<sagaVars, busVars>>

Steps == 0 .. StepCount - 1
Idle == [fn |-> "none", k |-> 0, i |-> 0, tick |-> FALSE]
NewSaga == [status |-> "RUNNING", current |-> 0,
            step |-> [i \in Steps |-> "PENDING"], retries |-> [i \in Steps |-> 0]]
IsTerminal(s) == s.status \in {"COMPLETED", "COMPENSATED", "FAILED"}
CanRetry(s, i) == s.retries[i] < MaxRetries

Init ==
    /\ sagas = << >> /\ call = Idle /\ effects = << >>
    /\ bus = [services |-> << >>, log |-> << >>, capacity |-> LogCapacity]
    /\ cursor = [on |-> FALSE, i |-> 1, j |-> 1, moved |-> FALSE]
    /\ published = << >> /\ delivered = << >> /\ misread = FALSE

-----------------------------------------------------------------------------
(* Sagas *)

Enqueue ==
    /\ call = Idle /\ Len(sagas) < MaxSagas
    /\ sagas' = Append(sagas, NewSaga) /\ effects' = Append(effects, << >>)
    /\ UNCHANGED <<call, busVars>>

\* The caller's saga_orch_execute, which saga_orch_resume calls for a RUNNING saga.
Resume(k) ==
    /\ call = Idle /\ sagas[k].status = "RUNNING"
    /\ call' = [fn |-> "execute", k |-> k, i |-> sagas[k].current, tick |-> FALSE]
    /\ UNCHANGED <<sagas, effects, busVars>>
\* One step at the caller's request.
ExecuteStep(k) ==
    /\ call = Idle /\ sagas[k].status = "RUNNING" /\ sagas[k].current < StepCount
    /\ call' = [fn |-> "step", k |-> k, i |-> sagas[k].current, tick |-> FALSE]
    /\ UNCHANGED <<sagas, effects, busVars>>
Cancel(k) ==
    /\ call = Idle /\ ~IsTerminal(sagas[k])
    /\ sagas' = [sagas EXCEPT ![k].status = "COMPENSATING"]
    /\ call' = [fn |-> "compensate", k |-> k, tick |-> FALSE,
                i |-> IF sagas[k].current >= StepCount THEN StepCount - 1 ELSE sagas[k].current]
    /\ UNCHANGED <<effects, busVars>>

\* saga_orchestrator_tick executes the sagas that are not terminal, in order.
Tick == call = Idle /\ call' = [Idle EXCEPT !.fn = "tick", !.k = 1] /\ UNCHANGED <<sagas, effects, busVars>>
TickNext ==
    /\ call.fn = "tick"
    /\ call' = IF call.k > Len(sagas) THEN Idle
               ELSE IF IsTerminal(sagas[call.k]) THEN [call EXCEPT !.k = @ + 1]
               ELSE [fn |-> "execute", k |-> call.k, i |-> sagas[call.k].current, tick |-> TRUE]
    /\ UNCHANGED <<sagas, effects, busVars>>
Returned == IF call.tick THEN [Idle EXCEPT !.fn = "tick", !.k = call.k + 1] ELSE Idle

\* A step's execute function returns; a failed one is called again while it may be retried.
StepReturns(ok) ==
    LET k == call.k  i == call.i IN
    /\ call.fn \in {"execute", "step"} /\ i < StepCount
    /\ \/ /\ ok
          /\ sagas' = [sagas EXCEPT ![k].step[i] = "COMPLETED", ![k].current = i + 1]
          /\ effects' = [effects EXCEPT ![k] = Append(@, <<"do", i>>)]
          /\ call' = IF call.fn = "step" THEN Returned ELSE [call EXCEPT !.i = i + 1]
       \/ /\ ~ok /\ CanRetry(sagas[k], i)
          /\ sagas' = [sagas EXCEPT ![k].step[i] = "EXECUTING", ![k].retries[i] = @ + 1]
          /\ UNCHANGED <<effects, call>>
       \/ /\ ~ok /\ ~CanRetry(sagas[k], i)
          /\ sagas' = [sagas EXCEPT ![k].step[i] = "FAILED",
                                    ![k].status = IF call.fn = "step" THEN "FAILED" ELSE "COMPENSATING"]
          /\ call' = IF call.fn = "step" THEN Returned ELSE [call EXCEPT !.fn = "compensate"]
          /\ UNCHANGED effects
    /\ UNCHANGED busVars
AllDone ==
    /\ call.fn = "execute" /\ call.i >= StepCount
    /\ sagas' = [sagas EXCEPT ![call.k].status = "COMPLETED"]
    /\ call' = Returned
    /\ UNCHANGED <<effects, busVars>>

\* Mutant: the step that failed is compensated as well.
MustCompensateFailed(s, i) == s.step[i] \in {"COMPLETED", "FAILED"} /\ i \in Compensable
\* The walk back: a completed step that can be compensated is; the others are skipped.
MustCompensate(s, i) == s.step[i] = "COMPLETED" /\ i \in Compensable
SkipBack ==
    /\ call.fn = "compensate" /\ call.i >= 0 /\ ~MustCompensate(sagas[call.k], call.i)
    /\ call' = [call EXCEPT !.i = @ - 1]
    /\ UNCHANGED <<sagas, effects, busVars>>
\* A failed compensation stays COMPENSATING: the retry of the loop (i++) finds it not COMPLETED.
Compensate(ok) ==
    LET k == call.k  i == call.i IN
    /\ call.fn = "compensate" /\ i >= 0 /\ MustCompensate(sagas[k], i)
    /\ sagas' = [sagas EXCEPT ![k].step[i] = IF ok THEN "COMPENSATED" ELSE "COMPENSATING",
                              ![k].retries[i] = IF ok THEN @ ELSE @ + 1]
    /\ effects' = [effects EXCEPT ![k] = Append(@, <<IF ok THEN "undo" ELSE "failed", i>>)]
    /\ call' = [call EXCEPT !.i = IF ~ok /\ sagas[k].retries[i] + 1 < MaxRetries THEN i ELSE i - 1]
    /\ UNCHANGED busVars
CompensateEnd ==
    /\ call.fn = "compensate" /\ call.i < 0
    /\ sagas' = [sagas EXCEPT ![call.k].status = "COMPENSATED"]
    /\ call' = Returned
    /\ UNCHANGED <<effects, busVars>>

SagaNext ==
    \/ Enqueue \/ Tick \/ TickNext \/ AllDone \/ SkipBack \/ CompensateEnd
    \/ \E k \in DOMAIN sagas : Resume(k) \/ ExecuteStep(k) \/ Cancel(k)
    \/ \E ok \in BOOLEAN : StepReturns(ok) \/ Compensate(ok)

\* saga_orch_compensate undoes what was done.  A saga that reports COMPLETED did
\* every step once, in order, and undid none; one that reports COMPENSATED called,
\* after its last step, the compensation of every compensable step that was done,
\* exactly once and last done first, whatever failures, retries, single steps,
\* resumptions and cancellations came before; and the status of the step tells
\* whether that call succeeded (COMPENSATED) or failed (COMPENSATING).  The status
\* of the saga does not: it is COMPENSATED also after a compensation that failed,
\* where demos/mini-saga-workflow/README.md:353-354 has COMPENSATED for "All
\* compensations completed" and FAILED for "A compensation itself failed"; nothing
\* is claimed of that status then.  The first d effects are steps done.
SagaAtomic ==
    \A k \in DOMAIN sagas : \E d \in 0 .. Len(effects[k]) :
        LET e == effects[k]  undoing == d + 1 .. Len(e)  owed == Compensable \cap (0 .. d - 1) IN
        /\ \A n \in 1 .. d : e[n] = <<"do", n - 1>>
        /\ \A n \in undoing : e[n][1] # "do"
        /\ sagas[k].status = "COMPLETED" => d = StepCount /\ undoing = {}
        /\ sagas[k].status = "COMPENSATED" =>
              /\ {e[n][2] : n \in undoing} = owed
              /\ \A m, n \in undoing : m < n => e[m][2] > e[n][2]
              /\ \A n \in undoing : sagas[k].step[e[n][2]] = IF e[n][1] = "undo" THEN "COMPENSATED" ELSE "COMPENSATING"

-----------------------------------------------------------------------------
(* The bus *)

RegisterService(s) ==
    /\ ~cursor.on /\ Len(bus.services) < 2
    /\ bus' = [bus EXCEPT !.services = Append(@, s)]
    /\ UNCHANGED <<sagaVars, cursor, published, delivered, misread>>
\* The ch_event_* constructors: an event is for a service, those of started and of
\* compensation_needed for none, which no service has as its name.
NoService == ""
Event(s) == [to |-> s, n |-> Len(published) + 1]
\* A full log is reallocated, away from under the event being dispatched.
Log(e) == bus' = [bus EXCEPT !.log = Append(@, e), !.capacity = IF Len(bus.log) >= @ THEN 2 * @ ELSE @]
Publish(s) ==
    /\ ~cursor.on /\ Len(published) < MaxEvents
    /\ Log(Event(s)) /\ published' = Append(published, Event(s))
    /\ UNCHANGED <<sagaVars, cursor, delivered, misread>>
Dispatch == ~cursor.on /\ cursor' = [on |-> TRUE, i |-> 1, j |-> 1, moved |-> FALSE]
            /\ UNCHANGED <<sagaVars, bus, published, delivered, misread>>

AtEvent == cursor.on /\ cursor.i <= Len(bus.log)
NextService == [cursor EXCEPT !.j = @ + 1]
\* The service's handler may publish another event.
HandlerReturns(s) ==
    \/ UNCHANGED <<bus, published>> /\ cursor' = NextService
    \/ /\ Len(published) < MaxEvents /\ Log(Event(s)) /\ published' = Append(published, Event(s))
       /\ cursor' = [NextService EXCEPT !.moved = @ \/ bus'.capacity # bus.capacity]
\* The service's handler gets the event.  Once the log has moved ev points to freed memory: the
\* comparison may go either way, and the handler gets the event or what has come into its place.
Handle(s) ==
    /\ AtEvent /\ cursor.j <= Len(bus.services)
    /\ cursor.moved \/ bus.services[cursor.j] = bus.log[cursor.i].to
    /\ \/ delivered' = Append(delivered, <<cursor.j, bus.log[cursor.i]>>) /\ UNCHANGED misread
       \/ cursor.moved /\ misread' = TRUE /\ UNCHANGED delivered
    /\ HandlerReturns(s)
    /\ UNCHANGED sagaVars
Skip ==
    /\ AtEvent /\ cursor.j <= Len(bus.services)
    /\ cursor.moved \/ bus.services[cursor.j] # bus.log[cursor.i].to
    /\ cursor' = NextService /\ UNCHANGED <<sagaVars, bus, published, delivered, misread>>
NextEvent ==
    /\ AtEvent /\ cursor.j > Len(bus.services)
    /\ cursor' = [cursor EXCEPT !.i = @ + 1, !.j = 1, !.moved = FALSE]
    /\ UNCHANGED <<sagaVars, bus, published, delivered, misread>>
Clear ==
    /\ cursor.on /\ cursor.i > Len(bus.log)
    /\ bus' = [bus EXCEPT !.log = << >>] /\ cursor' = [cursor EXCEPT !.on = FALSE, !.i = 1]
    /\ UNCHANGED <<sagaVars, published, delivered, misread>>

BusNext ==
    \/ \E s \in Services : RegisterService(s)
    \/ \E s \in Services \cup {NoService} : Publish(s) \/ Handle(s)
    \/ Dispatch \/ Skip \/ NextEvent \/ Clear

Spec == Init /\ [][SagaNext \/ BusNext]_vars

\* choreography_bus_dispatch_pending delivers the log in order: each service gets
\* the events it is given in the order they were published, each at most once,
\* also when a handler publishes during the dispatch; the log holds exactly the
\* events not yet dispatched; and as long as it never outgrew its first
\* allocation, handlers get events only, and only those addressed to them.  When
\* a handler's event makes the log grow, the services after it can be given freed
\* memory (misread) or an event for another (saga_orch.c:231, 240-245).
BusInOrder ==
    /\ \A m, n \in DOMAIN delivered :
          m < n /\ delivered[m][1] = delivered[n][1] => delivered[m][2].n < delivered[n][2].n
    /\ \E m \in 0 .. Len(published) : bus.log = SubSeq(published, m + 1, Len(published))
    /\ bus.capacity = LogCapacity =>
          ~misread /\ \A n \in DOMAIN delivered : bus.services[delivered[n][1]] = delivered[n][2].to
=============================================================================
