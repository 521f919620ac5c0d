------------------------------ MODULE Workflow ------------------------------
(* The workflow engine with its timers, and the approval workflow           *)
(* (mini-business-arch/src/workflow_engine.c): one instance of a            *)
(* definition, the approval_request_* calls and the timers of the instance. *)
EXTENDS Integers, Sequences, SequencesExt

CONSTANTS Extra,        \* <<from, event, to, guarded>> transitions added to the approval workflow's
          Parallel,     \* [from, targets, join] of a fork added too
          TimerEvents,  \* the event of each timer
          Interval,     \* interval_ms of the repeating timers; the others never repeat
          Repeating,    \* the timers that repeat
          MaxTime, MaxRevisions, MaxSteps  \* bounds: clock, revision_count, calls

VARIABLES inst,     \* WorkflowInstance: current, previous, completed
          req,      \* ApprovalRequestData: state, revisions
          timers,   \* WorkflowTimer of the instance: at, triggered
          now, last,      \* the clock; history: what last touched the request or the instance, its result
          fired, ran, sent  \* history: when each timer fired; the actions run; calls made

vars == <<inst, req, timers, now, last, fired, ran, sent>>

T(from, event, to) == [from |-> from, event |-> event, to |-> to, guarded |-> FALSE]
\* workflow_add_fork: an edge to the join state and one per branch, the branches with one event.
Fork(f) == << T(f.from, "__FORK__", f.join) >> \o
           [i \in DOMAIN f.targets |-> T(f.from, "__FORK_BRANCH__", f.targets[i])]
\* workflow_add_transition; workflow_add_join and workflow_add_timer add single edges too.
Own(t) == [T(t[1], t[2], t[3]) EXCEPT !.guarded = t[4]]
\* workflow_create_approval_workflow, extended by the caller.
Transitions ==
    << T("draft", "submit", "pending_approval"), T("pending_approval", "approve", "approved"),
       T("pending_approval", "reject", "rejected"), T("pending_approval", "request_revision", "revision_requested"),
       T("revision_requested", "resubmit", "pending_approval") >>
    \o Fork(Parallel) \o [i \in DOMAIN Extra |-> Own(Extra[i])]
Finals == {"approved", "rejected"}

Init ==
    /\ inst = [current |-> "draft", previous |-> "", completed |-> FALSE]
    /\ req = [state |-> "draft", revisions |-> 0]
    /\ timers = [t \in DOMAIN TimerEvents |-> [at |-> t, triggered |-> FALSE]]
    /\ now = 0 /\ last = [by |-> "none", rc |-> 0]
    /\ fired = [t \in DOMAIN TimerEvents |-> << >>] /\ ran = << >> /\ sent = 0

-----------------------------------------------------------------------------
\* workflow_find_transition: the first one of the state with the event.
Matching(s, e) == {i \in DOMAIN Transitions : Transitions[i].from = s /\ Transitions[i].event = e}
First(S) == CHOOSE i \in S : \A j \in S : i <= j

\* What workflow_instance_send_event does with an event: the results it may have,
\* with the instance and the actions run (the guard is the caller's code).
Sent(w, e) ==
    LET found == Matching(w.current, e)
        t == Transitions[First(found)]
        moved == [rc |-> 0, ran |-> << <<"exit", w.current>>, <<"entry", t.to>> >>,
                  inst |-> [current |-> t.to, previous |-> w.current, completed |-> t.to \in Finals]]
        refused(rc) == [rc |-> rc, ran |-> << >>, inst |-> w]
    IN  IF w.completed THEN {refused(-1)}
        ELSE IF found = {} THEN {refused(-2)}
        ELSE {moved} \cup (IF t.guarded THEN {refused(-3)} ELSE {})

\* The approval_request_* calls write the request first and send the event then.
Target == [submit |-> "pending_approval", approve |-> "approved", reject |-> "rejected",
           request_revision |-> "revision_requested", resubmit |-> "pending_approval"]
Request(e) ==
    /\ sent < MaxSteps /\ sent' = sent + 1
    /\ e = "request_revision" => req.revisions < MaxRevisions
    /\ req' = [state |-> Target[e], revisions |-> IF e = "request_revision" THEN req.revisions + 1 ELSE req.revisions]
    /\ \E r \in Sent(inst, e) :
          /\ inst' = r.inst /\ ran' = ran \o r.ran /\ last' = [by |-> "request", rc |-> r.rc]
    /\ UNCHANGED <<timers, now, fired>>
\* An event of the caller's own.
Send(e) ==
    /\ sent < MaxSteps /\ sent' = sent + 1
    /\ \E r \in Sent(inst, e) :
          /\ inst' = r.inst /\ ran' = ran \o r.ran
          /\ last' = IF r.rc = 0 THEN [by |-> "event", rc |-> 0] ELSE last
    /\ UNCHANGED <<req, timers, now, fired>>

Due(t) == ~timers[t].triggered /\ now >= timers[t].at
TickTimers ==
    LET due == SetToSortSeq({t \in DOMAIN timers : Due(t)}, <)
        step(states, n) == UNION {{[inst |-> r.inst, ran |-> s.ran \o r.ran] : r \in Sent(s.inst, TimerEvents[due[n]])} : s \in states}
        out == FoldLeftDomain(step, {[inst |-> inst, ran |-> ran]}, due)
    IN  /\ due # << >> /\ sent < MaxSteps /\ sent' = sent + 1
        /\ \E s \in out :
              /\ inst' = s.inst /\ ran' = s.ran
              /\ last' = IF s.ran = ran THEN last ELSE [by |-> "timer", rc |-> 0]
        /\ timers' = [t \in DOMAIN timers |-> IF ~Due(t) THEN timers[t]
                                              ELSE IF t \in Repeating THEN [at |-> now + Interval, triggered |-> FALSE]
                                              ELSE [timers[t] EXCEPT !.triggered = TRUE]]
        /\ fired' = [t \in DOMAIN fired |-> IF Due(t) THEN Append(fired[t], now) ELSE fired[t]]
        /\ UNCHANGED <<req, now>>

Clock == now < MaxTime /\ now' = now + 1 /\ UNCHANGED <<inst, req, timers, last, fired, ran, sent>>

Next ==
    \/ \E e \in DOMAIN Target : Request(e)
    \/ \E e \in {"__FORK__", "__FORK_BRANCH__"} \cup {Extra[i][2] : i \in DOMAIN Extra} : Send(e)
    \/ TickTimers \/ Clock

\* A workflow instance moves along its definition whatever calls and timers come:
\* as long as it took no fork, every state but the first is entered before it is left,
\* each once per visit and along a transition of the definition; a final state is never
\* left; a timer that does not repeat fires once and a repeating one never twice within
\* its interval; and the request's own state is the instance's as long as the request
\* was not refused and no other event or timer moved the instance since.
\* Nothing is claimed of forks and joins: the engine keeps one state, so a fork takes
\* one branch and a join waits for none.
Parallels == {Parallel.join} \cup Range(Parallel.targets)
WorkflowSound ==
    /\ (\A n \in DOMAIN ran : ran[n][2] \notin Parallels) =>
          \A n \in DOMAIN ran : n % 2 = 1 =>
             /\ ran[n] = <<"exit", IF n = 1 THEN "draft" ELSE ran[n - 1][2]>> /\ ran[n + 1][1] = "entry"
             /\ \E i \in DOMAIN Transitions : Transitions[i].from = ran[n][2] /\ Transitions[i].to = ran[n + 1][2]
    /\ \A n \in DOMAIN ran : ran[n][1] = "exit" => ran[n][2] \notin Finals
    /\ inst.current = IF ran = << >> THEN "draft" ELSE ran[Len(ran)][2]
    /\ inst.completed <=> inst.current \in Finals
    /\ \A t \in DOMAIN fired : \A n \in 2 .. Len(fired[t]) :
          t \in Repeating /\ fired[t][n] >= fired[t][n - 1] + Interval
    /\ last.by \in {"none", "request"} /\ last.rc = 0 => req.state = inst.current
=============================================================================
