------------------------------ MODULE WebParts ------------------------------
(* Three parts of mini-web-server that its handlers use: the session store *)
(* (session.c), the routing trie (router.c) and the middleware chain with  *)
(* its built-in handlers (middleware.c).  A session id is the number of    *)
(* the generator's draw; a path is the sequence of its segments, a pattern *)
(* segment a name, a parameter or the wildcard; cookie texts, log lines    *)
(* and response headers are left out.                                      *)
EXTENDS Naturals, Sequences, FiniteSets, SequencesExt, FiniteSetsExt, TLC

CONSTANTS None, TTL, MaxSessions, MaxIds, VarNames, Values, MaxVars, MaxTime,
          Segments, Params, Wildcard, PathNames, MaxDepth, MaxChildren, MaxParams, Methods, MaxRoutes,
          Builtins, MaxChain, Limit, WindowSec, MaxCalls

\* Segments: the literal pattern segments; MaxIds, MaxTime, MaxRoutes and MaxCalls bound the histories.

VARIABLES sessions, stored, drawn,
          vals,      \* what the handlers last set, by session id (history)
          trie,
          routes,    \* the registrations that succeeded, in order (history)
          chain, limitCount, windowStart,
          passes,    \* when the limiter let a request pass (history)
          trail,     \* the handlers the last request ran (history)
          request, now
sessVars == <<sessions, stored, drawn, vals>>
routeVars == <<trie, routes>>
chainVars == <<chain, limitCount, windowStart, passes, trail, request>>
vars == <<sessVars, routeVars, chainVars, now>>

Var == [key: VarNames, value: Values]
Session == [id: 1..MaxIds, last_access: 0..MaxTime, expires_at: 0..(MaxTime + TTL), active: BOOLEAN,
            vars: UNION {[1..n -> Var] : n \in 0..MaxVars}]
RouteNode(n) == n.method \in Methods \cup {None} /\ n.handler \in 0..MaxRoutes /\ Len(n.children) <= MaxChildren
HttpRequest == [method: {"OPTIONS", "GET"}, bearer: BOOLEAN, length: {"none", "fits", "zero", "large"}]

NewNode == [children |-> << >>, method |-> None, handler |-> 0]
Init ==
    /\ sessions = << >> /\ stored = 0 /\ drawn = 0 /\ vals = << >>
    /\ trie = (<< >> :> NewNode) /\ routes = << >>
    /\ chain = << >> /\ limitCount = 0 /\ windowStart = 0 /\ passes = << >> /\ trail = << >>
    /\ request = [method |-> "GET", bearer |-> FALSE, length |-> "none"]
    /\ now = 0

Clock == now < MaxTime /\ now' = now + 1 /\ UNCHANGED <<sessVars, routeVars, chainVars>>

-----------------------------------------------------------------------------
(* session.c; sessions holds the entries up to the count. *)

NoVars == [k \in VarNames |-> None]
Create ==
    /\ stored < MaxSessions /\ drawn < MaxIds
    /\ drawn' = drawn + 1 /\ stored' = stored + 1
    /\ sessions' = Append(sessions, [id |-> drawn + 1, last_access |-> now, expires_at |-> now + TTL, active |-> TRUE,
                                     vars |-> << >>])
    /\ vals' = Append(vals, NoVars)
    /\ UNCHANGED <<routeVars, chainVars, now>>

\* The lookup retires the expired sessions it passes.
Found(id) == {i \in 1..stored : sessions[i].active /\ sessions[i].expires_at >= now /\ sessions[i].id = id}
Looked(id, s) ==
    [i \in 1..stored |->
        IF sessions[i].active /\ (\A j \in Found(id) : i <= j)
        THEN IF sessions[i].expires_at < now THEN [sessions[i] EXCEPT !.active = FALSE]
             ELSE IF sessions[i].id = id THEN s ELSE sessions[i]
        ELSE sessions[i]]
Get(id) ==
    /\ sessions' = Looked(id, [sessions[CHOOSE i \in 1..stored : sessions[i].id = id] EXCEPT !.last_access = now])
    /\ UNCHANGED <<stored, drawn, vals, routeVars, chainVars, now>>
SessionDestroy(id) ==
    /\ sessions' = Looked(id, [sessions[CHOOSE i \in 1..stored : sessions[i].id = id]
                                EXCEPT !.last_access = now, !.active = FALSE])
    /\ UNCHANGED <<stored, drawn, vals, routeVars, chainVars, now>>

At(s, k) == {i \in DOMAIN s.vars : s.vars[i].key = k}
VarGet(s, k) == IF At(s, k) = {} THEN None ELSE s.vars[Min(At(s, k))].value
VarSet(i, k, v) ==
    LET s == sessions[i] IN
    /\ At(s, k) = {} => Len(s.vars) < MaxVars
    /\ sessions' = [sessions EXCEPT ![i].vars = IF At(s, k) # {} THEN [@ EXCEPT ![Min(At(s, k))].value = v]
                                                ELSE Append(@, [key |-> k, value |-> v])]
    /\ vals' = [vals EXCEPT ![s.id][k] = v]
    /\ UNCHANGED <<stored, drawn, routeVars, chainVars, now>>
\* The last variable moves into the slot of the removed one.
VarRemove(i, k) ==
    LET s == sessions[i] IN
    /\ At(s, k) # {}
    /\ sessions' = [sessions EXCEPT ![i].vars = Front([s.vars EXCEPT ![Min(At(s, k))] = Last(s.vars)])]
    /\ vals' = [vals EXCEPT ![s.id][k] = None]
    /\ UNCHANGED <<stored, drawn, routeVars, chainVars, now>>
Clear(i) ==
    /\ sessions' = [sessions EXCEPT ![i].vars = << >>] /\ vals' = [vals EXCEPT ![sessions[i].id] = NoVars]
    /\ UNCHANGED <<stored, drawn, routeVars, chainVars, now>>

Dead(s) == ~s.active \/ s.expires_at < now
SweepOne(a, i) == IF Dead(a[i]) THEN Front([a EXCEPT ![i] = Last(a)]) ELSE a
Swept ==
    LET turn[k \in 0..stored] == IF k = 0 THEN sessions ELSE SweepOne(turn[k - 1], stored + 1 - k)
    IN  turn[stored]
Cleanup ==
    /\ sessions' = Swept /\ stored' = Len(Swept)
    /\ UNCHANGED <<drawn, vals, routeVars, chainVars, now>>

SessionNext ==
    \/ Create
    \/ \E i \in 1..stored : Get(sessions[i].id) \/ SessionDestroy(sessions[i].id) \/ Clear(i)
    \/ \E i \in 1..stored, k \in VarNames : VarRemove(i, k) \/ \E v \in Values : VarSet(i, k, v)
    \/ Cleanup
    \/ Clock

-----------------------------------------------------------------------------
(* router.c: a node is named by the pattern segments that lead to it. *)

PatternSegments == Segments \cup Params \cup {Wildcard}
SeqsUpTo(S, n) == UNION {[1..k -> S] : k \in 0..n}

\* The walk that adds a pattern creates the nodes it misses, also when a full node stops it further down.
AddWalk(pattern) ==
    LET go[k \in 0..Len(pattern)] ==
            IF k = 0 THEN [t |-> trie, ok |-> TRUE]
            ELSE LET p == go[k - 1]
                     at == SubSeq(pattern, 1, k - 1)
                     kids == p.t[at].children
                 IN  IF ~p.ok \/ Contains(kids, pattern[k]) THEN p
                     ELSE IF Len(kids) >= MaxChildren THEN [p EXCEPT !.ok = FALSE]
                     ELSE [p EXCEPT !.t = [@ EXCEPT ![at].children = Append(kids, pattern[k])]
                                           @@ (Append(at, pattern[k]) :> NewNode)]
    IN  go[Len(pattern)]
RouterAdd(m, pattern) ==
    LET w == AddWalk(pattern) IN
    /\ Len(routes) < MaxRoutes
    /\ trie' = IF w.ok THEN [w.t EXCEPT ![pattern].method = m, ![pattern].handler = Len(routes) + 1] ELSE w.t
    /\ routes' = IF w.ok THEN Append(routes, [method |-> m, pattern |-> pattern]) ELSE routes
    /\ UNCHANGED <<sessVars, chainVars, now>>

MatchNode(seg, name, params) ==
    IF seg \in Params THEN Len(params) < MaxParams ELSE seg = Wildcard \/ seg = name
\* The first child that matches is taken: the search never comes back to another.  A wildcard does not look
\* whether the array of parameters is full: the write past its end (over) is undefined behaviour.
Dispatch(m, path) ==
    LET go[k \in 0..Len(path)] ==
            IF k = 0 THEN [at |-> << >>, params |-> << >>, ok |-> TRUE, over |-> FALSE]
            ELSE LET p == go[k - 1]
                     fits == IF p.ok THEN SelectSeq(trie[p.at].children, LAMBDA s : MatchNode(s, path[k], p.params))
                             ELSE << >>
                 IN  IF fits = << >> THEN [p EXCEPT !.ok = FALSE]
                     ELSE [at |-> Append(p.at, fits[1]), ok |-> TRUE,
                           over |-> p.over \/ (fits[1] = Wildcard /\ Len(p.params) >= MaxParams),
                           params |-> IF fits[1] \in Segments THEN p.params ELSE Append(p.params, path[k])]
        end == go[Len(path)]
        n == trie[end.at]
    IN  IF end.ok /\ n.handler # 0 /\ n.method = m THEN [handler |-> n.handler, params |-> end.params, over |-> end.over]
        ELSE [handler |-> 0, params |-> << >>, over |-> end.over]
RouteNext == \E m \in Methods, pattern \in SeqsUpTo(PatternSegments, MaxDepth) : RouterAdd(m, pattern)

-----------------------------------------------------------------------------
(* middleware.c: the rate limiter's counter and window are global. *)

ChainAdd(b) ==
    /\ Len(chain) < MaxChain /\ chain' = Append(chain, b)
    /\ UNCHANGED <<limitCount, windowStart, passes, trail, request, sessVars, routeVars, now>>
ChainClear ==
    /\ chain # << >> /\ chain' = << >>
    /\ UNCHANGED <<limitCount, windowStart, passes, trail, request, sessVars, routeVars, now>>

\* What one built-in handler answers, with the limiter's state before it.
Result(b, r, st) ==
    CASE b = "cors" -> IF r.method = "OPTIONS" THEN "STOP" ELSE "NEXT"
      [] b = "auth" -> IF r.bearer THEN "NEXT" ELSE "STOP"
      [] b = "rate" -> IF st.count > Limit THEN "STOP" ELSE "NEXT"
      [] b = "body" -> IF r.length \in {"zero", "large"} THEN "ERROR" ELSE "NEXT"
      [] OTHER -> "NEXT"
Counted(st) == IF now - st.start > WindowSec THEN [st EXCEPT !.start = now, !.count = 1] ELSE [st EXCEPT !.count = @ + 1]
RunHandler(r, st, b) ==
    IF st.result # "NEXT" THEN st
    ELSE LET after == IF b = "rate" THEN Counted(st) ELSE st
             res == Result(b, r, after)
         IN  [after EXCEPT !.result = res, !.ran = Append(@, b),
                           !.passed = IF b = "rate" /\ res = "NEXT" THEN Append(@, now) ELSE @]
ChainExecute(r) ==
    LET st0 == [count |-> limitCount, start |-> windowStart, result |-> "NEXT", ran |-> << >>, passed |-> passes]
        end == FoldLeft(LAMBDA st, b : RunHandler(r, st, b), st0, chain)
    IN  /\ chain # << >> /\ Len(end.passed) <= MaxCalls /\ end.count <= Limit + 1
        /\ limitCount' = end.count /\ windowStart' = end.start /\ passes' = end.passed /\ trail' = end.ran
        /\ request' = r
        /\ UNCHANGED <<chain, sessVars, routeVars, now>>
ChainNext == (\E b \in Builtins : ChainAdd(b)) \/ ChainClear \/ (\E r \in HttpRequest : ChainExecute(r)) \/ Clock

-----------------------------------------------------------------------------

\* session.c: a session is stored once and its variables are the ones last set for it, wherever the swaps of
\* removal and clean-up have moved them; the clean-up removes exactly the dead sessions.
StoreSound ==
    /\ stored = Len(sessions) /\ \A i \in DOMAIN sessions : sessions[i] \in Session
    /\ \A i, j \in DOMAIN sessions : sessions[i].id = sessions[j].id => i = j
    /\ \A i \in DOMAIN sessions : \A k \in VarNames :
          VarGet(sessions[i], k) = vals[sessions[i].id][k] /\ Cardinality(At(sessions[i], k)) <= 1
    /\ Range(Swept) = {s \in Range(sessions) : ~Dead(s)} /\ IsInjective(Swept)

Matches(pattern, path) ==
    Len(pattern) = Len(path) /\ \A k \in DOMAIN path : pattern[k] \in Segments => pattern[k] = path[k]
LastFor(pattern) == LET S == {i \in DOMAIN routes : routes[i].pattern = pattern} IN IF S = {} THEN 0 ELSE Max(S)
Captures(pattern, path) == LET ks == SelectSeq([k \in DOMAIN path |-> k], LAMBDA k : pattern[k] \notin Segments)
                           IN  [k \in DOMAIN ks |-> path[ks[k]]]
OneMethod(pattern) == \A r, q \in Range(routes) : r.pattern = pattern /\ q.pattern = pattern => r.method = q.method
\* router.c: a request reaches only a route that matches its path and method, with the segments the pattern
\* captures, at most as many as the array of parameters holds; a pattern registered again for its method has
\* its last handler; and where every pattern is literal, a request finds the route of its path and method.
\* Two things are not claimed.  A pattern registered for two methods: a node keeps the last method only, and
\* the request with the other is not handled, against tests/test_no_server.c:180-194, which expects both.
\* And a dispatch in which a wildcard writes past the parameters: its outcome is undefined.
RouterSound ==
    /\ \A n \in Range(trie) : RouteNode(n)
    /\ \A m \in Methods, path \in SeqsUpTo(PathNames, MaxDepth) :
          LET d == Dispatch(m, path) IN
          ~d.over =>
          /\ d.handler # 0 =>
                LET pattern == routes[d.handler].pattern IN
                /\ Matches(pattern, path) /\ routes[d.handler].method = m
                /\ d.params = Captures(pattern, path) /\ Len(d.params) <= MaxParams
                /\ OneMethod(pattern) => d.handler = LastFor(pattern)
          /\ (\A r \in Range(routes) : Range(r.pattern) \subseteq Segments) /\ OneMethod(path) =>
                (d.handler # 0 <=> \E r \in Range(routes) : r.pattern = path /\ r.method = m)

\* middleware.c: a request runs the handlers of the chain in order up to the first that does not pass it on,
\* so that none runs behind a refused bearer check; and the global limiter lets at most two windows' worth
\* of requests pass in the time of one.
ChainSound ==
    /\ \A k \in DOMAIN trail : k < Len(trail) =>
          /\ trail[k] = "auth" => request.bearer
          /\ trail[k] = "cors" => request.method # "OPTIONS"
          /\ trail[k] = "body" => request.length \notin {"zero", "large"}
    /\ \A i, j \in DOMAIN passes : i <= j /\ passes[j] - passes[i] <= WindowSec => j - i < 2 * Limit
=============================================================================
