----------------------------- MODULE Resilience -----------------------------
(* The resilience patterns (mini-business-arch/src/business_patterns.c):    *)
(* the policy that puts a bulkhead, a circuit breaker, a token bucket and   *)
(* a backoff in front of a call, the idempotency keys, and the health       *)
(* checker.  The call of a policy may use the policy again: calls is the    *)
(* stack of resilience_execute's in progress.                               *)
EXTENDS Integers, Sequences, SequencesExt, FiniteSets

CONSTANTS MaxConcurrent, FailureThreshold, HalfOpenMax, Timeout, Burst, MaxRetries,  \* the policy's settings
          MaxDepth, MaxCalls, MaxTime,   \* bounds: nesting, calls admitted, clock
          Keys, Clients, MaxKeys, TTL,   \* idempotency keys
          Mean0, Variance0, Phi, MaxChecks,  \* health: first estimates, phi_threshold (scaled); bound: checks
          None

VARIABLES cb, bh, tb, eb,    \* CircuitBreaker, Bulkhead, TokenBucket, ExponentialBackoff
          calls,             \* history: per execution in progress, how often its function was called; nested?
          now,
          entries, client, started,  \* idempotency entries; what each client does; history: <<key, time>>
          target, silent     \* a HealthCheckTarget; history: checks since its last heartbeat

policyVars == <<cb, bh, tb, eb, calls>>
ikVars == <<entries, client, started>>
healthVars == <<target, silent>>
vars == <<policyVars, now, ikVars, healthVars>>

Init ==
    /\ cb = [state |-> "CLOSED", failures |-> 0, probes |-> 0, wins |-> 0, since |-> 0]
    /\ bh = [current |-> 0, admitted |-> 0, completed |-> 0, failed |-> 0]
    /\ tb = [tokens |-> Burst, last |-> 0] /\ eb = 0 /\ calls = << >> /\ now = 0
    /\ entries = << >> /\ client = [c \in Clients |-> None] /\ started = << >>
    /\ target = [mean |-> Mean0, variance |-> Variance0, beat |-> 0, missed |-> 0, suspicious |-> FALSE, available |-> TRUE]
    /\ silent = 0

Clock == now < MaxTime /\ now' = now + 1 /\ UNCHANGED <<policyVars, ikVars, healthVars>>

-----------------------------------------------------------------------------
(* The policy.  The functions of its parts take and return their records. *)

\* cb_allow_request: the breaker after it, and whether it allows the request.
Allow(b) ==
    CASE b.state = "CLOSED" -> [cb |-> b, ok |-> TRUE]
      [] b.state = "OPEN" ->
            IF now - b.since >= Timeout
            THEN [cb |-> [b EXCEPT !.state = "HALF_OPEN", !.probes = 0, !.wins = 0, !.since = now], ok |-> TRUE]
            ELSE [cb |-> b, ok |-> FALSE]
      [] b.state = "HALF_OPEN" ->
            IF b.probes < HalfOpenMax THEN [cb |-> [b EXCEPT !.probes = @ + 1], ok |-> TRUE] ELSE [cb |-> b, ok |-> FALSE]
RecordSuccess(b) ==
    CASE b.state = "CLOSED" -> [b EXCEPT !.failures = 0]
      [] b.state = "HALF_OPEN" ->
            IF b.wins + 1 < HalfOpenMax THEN [b EXCEPT !.wins = @ + 1]
            ELSE [b EXCEPT !.wins = @ + 1, !.state = "CLOSED", !.failures = 0, !.since = now]
      [] b.state = "OPEN" -> b
RecordFailure(b) ==
    CASE b.state = "CLOSED" ->
            IF b.failures + 1 < FailureThreshold THEN [b EXCEPT !.failures = @ + 1]
            ELSE [b EXCEPT !.failures = @ + 1, !.state = "OPEN", !.since = now]
      [] b.state = "HALF_OPEN" -> [b EXCEPT !.state = "OPEN", !.since = now]
      [] b.state = "OPEN" -> b

\* Mutant: a failed call keeps its slot.
ReleaseOnSuccess(b, ok) ==
    [b EXCEPT !.current = IF ok THEN @ - 1 ELSE @,
              !.completed = IF ok THEN @ + 1 ELSE @, !.failed = IF ok THEN @ ELSE @ + 1]
Release(b, ok) ==
    [b EXCEPT !.current = IF @ > 0 THEN @ - 1 ELSE @,
              !.completed = IF ok THEN @ + 1 ELSE @, !.failed = IF ok THEN @ ELSE @ + 1]
Refilled == [tokens |-> IF tb.tokens + (now - tb.last) > Burst THEN Burst ELSE tb.tokens + (now - tb.last), last |-> now]

Called == IF calls = << >> THEN calls ELSE [calls EXCEPT ![Len(calls)].nested = TRUE]
\* resilience_execute up to the call.  Each refusal gives back what was taken
\* before; a rate-limited request is recorded as a success of the breaker.
Execute ==
    LET allow == Allow(cb)
        in == [bh EXCEPT !.current = @ + 1, !.admitted = @ + 1] IN
    /\ Len(calls) < MaxDepth /\ bh.admitted < MaxCalls
    /\ \/ bh.current >= MaxConcurrent /\ UNCHANGED <<cb, bh, tb, eb, calls>>
       \/ /\ bh.current < MaxConcurrent /\ ~allow.ok
          /\ cb' = allow.cb /\ bh' = Release(in, TRUE) /\ UNCHANGED <<tb, eb, calls>>
       \/ /\ bh.current < MaxConcurrent /\ allow.ok /\ Refilled.tokens < 1
          /\ tb' = Refilled /\ cb' = RecordSuccess(allow.cb) /\ bh' = Release(in, TRUE) /\ UNCHANGED <<eb, calls>>
       \/ /\ bh.current < MaxConcurrent /\ allow.ok /\ Refilled.tokens >= 1
          /\ tb' = [Refilled EXCEPT !.tokens = @ - 1] /\ cb' = allow.cb /\ bh' = in
          /\ eb' = 0 /\ calls' = Append(Called, [tries |-> 1, nested |-> FALSE])
    /\ UNCHANGED <<now, ikVars, healthVars>>

\* The function of the innermost execution returns: well, badly, or badly and late.
Finish(b, ok) == cb' = b /\ bh' = Release(bh, ok) /\ eb' = 0 /\ calls' = Front(calls)
CallReturns(how) ==
    /\ calls # << >>
    /\ \/ how = "ok" /\ Finish(RecordSuccess(cb), TRUE)
       \/ how = "late" /\ Finish(RecordFailure(cb), FALSE)
       \/ /\ how = "failed" /\ eb + 1 < MaxRetries
          /\ eb' = eb + 1 /\ calls' = [calls EXCEPT ![Len(calls)].tries = @ + 1] /\ UNCHANGED <<cb, bh>>
       \/ how = "failed" /\ eb + 1 >= MaxRetries /\ Finish(RecordFailure(cb), FALSE)
    /\ UNCHANGED <<tb, now, ikVars, healthVars>>

PolicyNext == Execute \/ Clock \/ \E how \in {"ok", "late", "failed"} : CallReturns(how)

\* resilience_execute returns on many paths: on every one of them the bulkhead gets
\* its slot back (the slots taken are the executions in progress, and what was
\* admitted is finished or in progress), no execution calls its function more than
\* max_retries times (unless the function uses the policy itself, which resets the
\* shared backoff), and the breaker's counters stay below the limits that move it.
PolicyBalanced ==
    /\ bh.current = Len(calls) /\ bh.current <= MaxConcurrent
    /\ bh.admitted = bh.completed + bh.failed + bh.current
    /\ \A i \in DOMAIN calls : ~calls[i].nested => calls[i].tries <= MaxRetries
    /\ cb.state = "CLOSED" => cb.failures < FailureThreshold
    /\ cb.state = "HALF_OPEN" => cb.wins < HalfOpenMax /\ cb.probes <= HalfOpenMax

-----------------------------------------------------------------------------
(* Idempotency keys *)

Index(k) == SelectInSeq(entries, LAMBDA e : e.key = k)
Expired(e) == now - e.created > TTL
Doing(c, key, step) == client' = [client EXCEPT ![c] = IF step = None THEN None ELSE [key |-> key, step |-> step]]

\* ik_store_check: an expired entry is removed; a new or expired key may be claimed.
Check(c, k) ==
    LET i == Index(k) IN
    /\ client[c] = None
    /\ \/ i = 0 /\ Doing(c, k, "claim") /\ UNCHANGED entries
       \/ i > 0 /\ Expired(entries[i]) /\ entries' = RemoveAt(entries, i) /\ Doing(c, k, "claim")
       \/ i > 0 /\ ~Expired(entries[i]) /\ UNCHANGED <<entries, client>>
    /\ UNCHANGED <<policyVars, now, started, healthVars>>
\* ik_store_mark_processing: refused when the store is full or the key is there.
MarkProcessing(c) ==
    LET k == client[c].key IN
    /\ client[c] # None /\ client[c].step = "claim"
    /\ IF Len(entries) >= MaxKeys \/ Index(k) > 0
       THEN Doing(c, k, None) /\ UNCHANGED <<entries, started>>
       ELSE /\ entries' = Append(entries, [key |-> k, status |-> "PROCESSING", created |-> now])
            /\ Doing(c, k, "work") /\ started' = Append(started, <<k, now>>)
    /\ UNCHANGED <<policyVars, now, healthVars>>
\* ik_store_mark_completed: whoever's entry holds the key by now is completed.
MarkCompleted(c) ==
    LET k == client[c].key IN
    /\ client[c] # None /\ client[c].step = "work"
    /\ entries' = IF Index(k) > 0 THEN [entries EXCEPT ![Index(k)].status = "COMPLETED"] ELSE entries
    /\ Doing(c, k, None)
    /\ UNCHANGED <<policyVars, now, started, healthVars>>
\* ik_store_evict_expired: at says from where the entries that stay are moved up.
EvictExpired ==
    LET live == {i \in DOMAIN entries : ~Expired(entries[i])} IN
    /\ \E at \in Bijection(1 .. Cardinality(live), live) :
          /\ \A m, n \in DOMAIN at : m < n => at[m] < at[n]
          /\ entries' = [n \in DOMAIN at |-> entries[at[n]]]
    /\ UNCHANGED <<policyVars, now, client, started, healthVars>>

IkNext ==
    \/ Clock \/ EvictExpired
    \/ \E c \in Clients : MarkProcessing(c) \/ MarkCompleted(c) \/ \E k \in Keys : Check(c, k)

\* "Exactly-once request deduplication": clients that check, claim and complete in
\* any interleaving, with slow ones, expiries and a full store, start the work of
\* a key again only after more than the time to live; and a key has one entry.
StartedOnce ==
    /\ \A m, n \in DOMAIN started : m < n /\ started[m][1] = started[n][1] => started[n][2] - started[m][2] > TTL
    /\ \A m, n \in DOMAIN entries : entries[m].key = entries[n].key => m = n

-----------------------------------------------------------------------------
(* The health checker, with ema_alpha 1/2 and integer estimates *)

Square(x) == x * x
\* hc_compute_phi > phi_threshold: the distance to the mean, early or late, in variances.
HighPhi(t) == t.beat > 0 /\ Square((now - t.beat) - t.mean) > Phi * (IF t.variance < 1 THEN 1 ELSE t.variance)
Heartbeat ==
    LET interval == now - target.beat IN
    /\ now > 0
    /\ target' = [target EXCEPT !.mean = IF target.beat > 0 THEN (interval + @) \div 2 ELSE @,
                                !.variance = IF target.beat > 0 THEN (Square(interval - target.mean) + @) \div 2 ELSE @,
                                !.beat = now, !.missed = 0, !.suspicious = FALSE, !.available = TRUE]
    /\ silent' = 0
    /\ UNCHANGED <<policyVars, now, ikVars>>
IsAvailable ==
    /\ silent < MaxChecks /\ silent' = silent + 1
    /\ target' = IF HighPhi(target)
                 THEN [target EXCEPT !.missed = @ + 1, !.suspicious = TRUE, !.available = @ /\ target.missed + 1 <= 3]
                 ELSE [target EXCEPT !.missed = 0, !.suspicious = FALSE, !.available = TRUE]
    /\ UNCHANGED <<policyVars, now, ikVars>>

HealthNext == Clock \/ Heartbeat \/ IsAvailable

Spec == Init /\ [][PolicyNext \/ IkNext \/ HealthNext]_vars

\* The health checker gives a target up only after more than three checks in a row
\* found it suspicious, all of them after its last heartbeat, and takes it back
\* with the next heartbeat or good check.
HealthSound == /\ ~target.available => silent > 3 /\ target.suspicious /\ target.missed > 3
               /\ target.missed <= silent
=============================================================================
