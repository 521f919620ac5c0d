------------------------------ MODULE Gateway ------------------------------
(***************************************************************************)
(* mini-business-infra/src/gateway_routing.c: routes by prefix and         *)
(* priority, a fixed window of tokens for each route and client, upstreams *)
(* chosen by weight, requests forwarded with retries.  A path is a         *)
(* sequence, of which the code compares the shorter length.                *)
(***************************************************************************)
EXTENDS Integers, Sequences, SequencesExt, FiniteSets

CONSTANTS
    Rules,          \* the rules that may be added: [method, path, svc, prio, enabled, auth, limit]
    Requests,       \* the requests made, and what the request callback may turn one into: [method, path, ip]
    Slot,           \* Slot[ip]: the hash of the address % 1024
    Rewritten,      \* the statuses the response callback may put in place of 200
    Services, Hosts, Weight, \* the upstreams of a service, and their weights
    Policies,       \* [max, on_5xx, on_timeout]: gw_retry_policy_t
    MaxRules, MaxTime, MaxPicks, \* bounds: GW_MAX_RULES, time, selections in a row
    None

VARIABLES
    routes, known,  \* routes in order of addition; the services that have a place for upstreams
    upstreams,      \* upstreams[s]: hosts in order of addition
    buckets,        \* buckets[<<path, slot>>]: [tokens, max, reset]
    call,           \* the request in gw_forward_with_retry: [req, idempotent, policy, attempt], or None
    current,        \* current_weights, by position
    now,
    granted, cap,   \* history: requests let through since the bucket was filled; what it was filled with
    answers,        \* history: the statuses of the call's attempts
    chosen          \* history: how often each position was selected since the upstreams changed, or None

gate == <<routes, known, upstreams, buckets, call, granted, cap, answers>>
smooth == <<current, chosen>>

Init ==
    /\ routes = <<>> /\ known = {} /\ upstreams = [s \in Services |-> <<>>]
    /\ buckets = [x \in {} |-> 0] /\ granted = [x \in {} |-> 0] /\ cap = [x \in {} |-> 0]
    /\ call = None /\ answers = <<>> /\ now = 0
    /\ current = [i \in 1 .. Cardinality(Hosts) |-> 0] /\ chosen = [i \in 1 .. Cardinality(Hosts) |-> 0]
----------------------------------------------------------------------------
(* Routes and upstreams.                                                   *)

Least(a, b) == IF a < b THEN a ELSE b
Matches(p, q) == SubSeq(p, 1, Least(Len(p), Len(q))) = SubSeq(q, 1, Least(Len(p), Len(q)))
MethodFits(m, r) == m = "any" \/ r.method = "any" \/ r.method = m

\* gw_route_find: the first rule of the highest priority above -1; 0 if none.
Fitting(m, p) == {i \in DOMAIN routes : /\ routes[i].enabled /\ MethodFits(m, routes[i])
                                        /\ Matches(routes[i].path, p) /\ routes[i].prio > -1}
RouteFind(m, p) ==
    IF Fitting(m, p) = {} THEN 0
    ELSE CHOOSE i \in Fitting(m, p) : \A j \in Fitting(m, p) : routes[j].prio < routes[i].prio \/ (routes[j].prio = routes[i].prio /\ i <= j)

SameRule(r, q) == r.path = q.path /\ r.method = q.method
RouteAdd(r) ==
    /\ call = None /\ Len(routes) < MaxRules
    /\ routes' = Append(routes, r) /\ known' = known \cup {r.svc}
    /\ UNCHANGED <<upstreams, buckets, call, granted, cap, answers, now, smooth>>
RouteUpdate(r) ==
    LET i == SelectInSeq(routes, LAMBDA q : SameRule(q, r)) IN
    /\ call = None /\ i # 0
    /\ routes' = [routes EXCEPT ![i] = r]
    /\ UNCHANGED <<known, upstreams, buckets, call, granted, cap, answers, now, smooth>>
RouteRemove(m, p) ==
    LET i == SelectInSeq(routes, LAMBDA q : q.method \in {m, "any"} /\ q.path = p) IN
    /\ call = None /\ i # 0
    /\ routes' = RemoveAt(routes, i)
    /\ UNCHANGED <<known, upstreams, buckets, call, granted, cap, answers, now, smooth>>

\* The weights of gw_upstream_select_swrr stay where they are when the upstreams change.
UpstreamAdd(s, h) ==
    /\ call = None /\ s \in known /\ h \notin Range(upstreams[s])
    /\ upstreams' = [upstreams EXCEPT ![s] = Append(@, h)]
    /\ chosen' = IF \A i \in DOMAIN current : current[i] = 0 THEN [i \in DOMAIN current |-> 0] ELSE None
    /\ UNCHANGED <<routes, known, buckets, call, granted, cap, answers, now, current>>
UpstreamRemove(s, h) ==
    /\ call = None /\ h \in Range(upstreams[s])
    /\ upstreams' = [upstreams EXCEPT ![s] = SelectSeq(@, LAMBDA x : x # h)]
    /\ chosen' = IF \A i \in DOMAIN current : current[i] = 0 THEN [i \in DOMAIN current |-> 0] ELSE None
    /\ UNCHANGED <<routes, known, buckets, call, granted, cap, answers, now, current>>
----------------------------------------------------------------------------
(* The limiter, with a bucket for each route's path and slot of addresses.  *)

LimitOf(p) == LET i == RouteFind("any", p) IN routes[i].limit
Full(p) == [tokens |-> LimitOf(p), max |-> LimitOf(p), reset |-> now + 1]
\* The array of a path grows up to the slot asked for: the slots below it are made with it.
Made(b) == {<<b[1], t>> : t \in {Slot[ip] : ip \in DOMAIN Slot} \cap (0 .. b[2])} \ DOMAIN buckets
Due(b) == IF b \in DOMAIN buckets THEN now >= buckets[b].reset ELSE FALSE
Filled(b) == IF b \in Made(b) \/ Due(b) THEN [Full(b[1]) EXCEPT !.max = IF Due(b) THEN buckets[b].max ELSE @] ELSE buckets[b]
Allows(b) == LimitOf(b[1]) <= 0 \/ Filled(b).tokens > 0

\* gw_rate_limiter_allow
Account(b) ==
    LET use == IF Filled(b).tokens > 0 THEN 1 ELSE 0
        all == DOMAIN buckets \cup Made(b)
        put(f, mine, new) == [x \in all |-> IF x = b THEN mine ELSE IF x \in Made(b) THEN new ELSE f[x]]
    IN
    IF LimitOf(b[1]) <= 0 THEN UNCHANGED <<buckets, granted, cap>>
    ELSE /\ buckets' = put(buckets, [Filled(b) EXCEPT !.tokens = @ - use], Full(b[1]))
         /\ granted' = put(granted, use + IF b \in Made(b) \/ Due(b) THEN 0 ELSE granted[b], 0)
         /\ cap' = put(cap, IF b \in Made(b) \/ Due(b) THEN LimitOf(b[1]) ELSE cap[b], LimitOf(b[1]))

\* gw_rate_limiter_reset fills every bucket of the path with what it was made with.
LimiterReset(p) ==
    LET mine == {b \in DOMAIN buckets : b[1] = p} IN
    /\ call = None /\ mine # {}
    /\ buckets' = [b \in DOMAIN buckets |-> IF b \in mine THEN [buckets[b] EXCEPT !.tokens = buckets[b].max, !.reset = now + 1] ELSE buckets[b]]
    /\ granted' = [b \in DOMAIN granted |-> IF b \in mine THEN 0 ELSE granted[b]]
    /\ cap' = [b \in DOMAIN cap |-> IF b \in mine THEN buckets[b].max ELSE cap[b]]
    /\ UNCHANGED <<routes, known, upstreams, call, answers, now, smooth>>
----------------------------------------------------------------------------
(* Requests.                                                               *)

Selectable(s) == \E i \in DOMAIN upstreams[s] : Weight[upstreams[s][i]] > 0

\* gw_forward, up to the response callback: what authentication, the limiter and the upstreams say.
Bucket(req, r) == <<r.path, Slot[req.ip]>>
Status(req, ok) ==
    LET i == RouteFind(req.method, req.path)
        r == routes[i]
    IN  IF i = 0 THEN 404
        ELSE IF r.auth /\ ~ok THEN 401
        ELSE IF ~Allows(Bucket(req, r)) THEN 429
        ELSE IF ~Selectable(r.svc) THEN 503 ELSE 200
Limited(req, ok) ==
    LET i == RouteFind(req.method, req.path) IN
    IF i = 0 \/ Status(req, ok) = 401 THEN UNCHANGED <<buckets, granted, cap>> ELSE Account(Bucket(req, routes[i]))

\* gw_forward_with_retry: whether a request may be repeated is settled before the first attempt.
Idempotent(req) == req.method \in {"get", "any"}
Request(req, policy) ==
    /\ call = None
    /\ call' = [req |-> req, idempotent |-> Idempotent(req), policy |-> policy, attempt |-> 0] /\ answers' = <<>>
    /\ UNCHANGED <<routes, known, upstreams, buckets, granted, cap, now, smooth>>

\* Whether it goes on after an attempt that ended with status st.
Again(c, st) ==
    /\ c.attempt < c.policy.max
    /\ c.idempotent \/ c.policy.on_5xx
    /\ IF st \in Rewritten \cup {200} THEN st >= 500 /\ c.policy.on_5xx ELSE c.policy.on_timeout
\* transform_req runs once the limiter has let the request through, transform_resp on success.
Attempt(ok, req, st) ==
    /\ call # None
    /\ LET s == Status(call.req, ok) IN
        /\ s \in {200, 503} \/ req = call.req
        /\ st = s \/ (s = 200 /\ st \in Rewritten)
    /\ Limited(call.req, ok)
    /\ answers' = Append(answers, st)
    /\ call' = IF Again(call, st) THEN [call EXCEPT !.attempt = @ + 1, !.req = req] ELSE None
    /\ UNCHANGED <<routes, known, upstreams, now, smooth>>

Clock == now < MaxTime /\ now' = now + 1 /\ UNCHANGED <<gate, smooth>>

GatewayNext ==
    \/ \E r \in Rules : RouteAdd(r) \/ RouteUpdate(r) \/ RouteRemove(r.method, r.path) \/ LimiterReset(r.path)
    \/ \E s \in Services, h \in Hosts : UpstreamAdd(s, h) \/ UpstreamRemove(s, h)
    \/ \E req \in Requests, p \in Policies : Request(req, p)
    \/ \E ok \in BOOLEAN, req \in Requests, st \in {200, 401, 404, 429, 503} \cup Rewritten : Attempt(ok, req, st)
    \/ Clock
----------------------------------------------------------------------------
(* Smooth weighted round robin.                                            *)

Total(s) == FoldSeq(LAMBDA h, n : n + Weight[h], 0, upstreams[s])
Raised(s) == [i \in DOMAIN current |-> IF i <= Len(upstreams[s]) THEN current[i] + Weight[upstreams[s][i]] ELSE current[i]]
SelectSwrr(s) ==
    LET up == Raised(s)
        mine == DOMAIN upstreams[s]
        best == CHOOSE i \in mine : \A k \in mine : up[k] < up[i] \/ (up[k] = up[i] /\ i <= k)
    IN
    /\ mine # {}
    /\ IF Total(s) > 0 /\ up[best] > -1
       THEN /\ current' = [up EXCEPT ![best] = @ - Total(s)]
            /\ chosen' = IF chosen = None THEN None ELSE [chosen EXCEPT ![best] = @ + 1]
       ELSE current' = up /\ chosen' = None
    /\ chosen # None => FoldFunction(+, 0, chosen) < MaxPicks
    /\ UNCHANGED <<gate, now>>
SwrrNext ==
    \/ \E s \in Services, h \in Hosts : UpstreamAdd(s, h) \/ UpstreamRemove(s, h)
    \/ \E r \in Rules : RouteAdd(r)
    \/ \E s \in Services : SelectSwrr(s)
----------------------------------------------------------------------------
(* Properties.                                                             *)

\* Between two fillings of a bucket its clients get what the bucket was filled with and no more.
LimitKept == \A b \in DOMAIN buckets : buckets[b].tokens >= 0 /\ granted[b] + buckets[b].tokens = cap[b]

\* A request is answered with success once at most and then no more; one that was not idempotent when
\* it came is repeated only under a policy that asks for it, whatever the callbacks make of it.
AnsweredOnce ==
    /\ \A i \in DOMAIN answers : answers[i] = 200 => i = Len(answers) /\ call = None
    /\ call # None /\ Len(answers) > 0 => call.idempotent \/ call.policy.on_5xx

\* While the upstreams of one service stay and the weights began at zero, after n selections a host
\* of weight w was chosen n * w / total times, less than one selection off.
SharesKept ==
    \A s \in Services :
        (chosen # None /\ \A t \in Services \ {s} : upstreams[t] = <<>>) =>
            LET n == FoldFunction(+, 0, chosen)
            IN  \A i \in DOMAIN upstreams[s] : LET off == n * Weight[upstreams[s][i]] - Total(s) * chosen[i]
                                               IN  off = current[i] /\ -Total(s) < off /\ off < Total(s)
=============================================================================
