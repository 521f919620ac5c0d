------------------------------- MODULE Access -------------------------------
(* What mini-auth-security decides and records: role-based access with     *)
(* cached permissions (rbac_engine.c), the rate limiter with its three     *)
(* algorithms (rate_limiter.c) and the hash-chained audit log              *)
(* (audit_log.c).  A permission mask is the set of its bits.               *)
EXTENDS Integers, Sequences, FiniteSets

CONSTANTS RoleNames, Names, Perms, MaxDepth, MaxParents, MaxRoles,
          Keys,       \* rate limiter keys, each checked with the algorithm it is named for
          Limit, Window,
          Ring,       \* time stamps a sliding window keeps
          MaxAge, MaxEntries, MaxTime, MaxGrants,
          Subjects, MaxEvents, MaxResults

VARIABLES roles, members,           \* role name -> role, user name -> user
          entries, granted, now,    \* the table; grants per key since its entry was made (history)
          records, tampered, altered \* altered: records changed behind the log's back (history)
rbacVars == <<roles, members>>
limiterVars == <<entries, granted, now>>
auditVars == <<records, tampered, altered>>
vars == <<rbacVars, limiterVars, auditVars>>

Init ==
    /\ roles = << >> /\ members = << >>
    /\ entries = << >> /\ granted = [k \in Keys |-> << >>] /\ now = 0
    /\ records = << >> /\ tampered = FALSE /\ altered = {}

----------------------------------------------------------------------------
\* Role-based access.
Added(f, x, v) == [y \in DOMAIN f \cup {x} |-> IF y = x THEN v ELSE f[y]]
RegisterRole(r) ==
    /\ r \notin DOMAIN roles /\ roles' = Added(roles, r, [mask |-> {}, parents |-> << >>])
    /\ UNCHANGED <<members, limiterVars, auditVars>>
\* The caches of users stay as they are.  History: which were filled before a role changed.
RoleChanged == members' = [u \in DOMAIN members |-> [members[u] EXCEPT !.behind = members[u].valid]]
RoleAddParent(r, p) ==
    /\ {r, p} \subseteq DOMAIN roles /\ Len(roles[r].parents) < MaxParents
    /\ roles' = [roles EXCEPT ![r].parents = Append(@, p)] /\ RoleChanged
    /\ UNCHANGED <<limiterVars, auditVars>>
RoleGrantPermission(r, p) ==
    /\ r \in DOMAIN roles /\ roles' = [roles EXCEPT ![r].mask = @ \cup {p}] /\ RoleChanged
    /\ UNCHANGED <<limiterVars, auditVars>>
CreateMember(u) ==
    /\ u \notin DOMAIN members
    /\ members' = Added(members, u, [roles |-> << >>, cache |-> {}, valid |-> FALSE, behind |-> FALSE])
    /\ UNCHANGED <<roles, limiterVars, auditVars>>
AssignRole(u, r) ==
    /\ u \in DOMAIN members /\ r \in DOMAIN roles /\ Len(members[u].roles) < MaxRoles
    /\ members' = [members EXCEPT ![u].roles = Append(@, r), ![u].valid = FALSE, ![u].behind = FALSE]
    /\ UNCHANGED <<roles, limiterVars, auditVars>>

\* The first mention of the role goes, the rest move down.
Without(s, r) ==
    LET i == CHOOSE i \in 1..Len(s) : s[i] = r /\ \A j \in 1..i - 1 : s[j] # r
    IN  SubSeq(s, 1, i - 1) \o SubSeq(s, i + 1, Len(s))
Holds(u, r) == u \in DOMAIN members /\ \E i \in 1..Len(members[u].roles) : members[u].roles[i] = r
RemoveKeepsCache(u, r) ==
    /\ Holds(u, r)
    /\ members' = [members EXCEPT ![u].roles = Without(@, r)]
    /\ UNCHANGED <<roles, limiterVars, auditVars>>
RemoveRole(u, r) ==
    /\ Holds(u, r)
    /\ members' = [members EXCEPT ![u].roles = Without(@, r), ![u].valid = FALSE, ![u].behind = FALSE]
    /\ UNCHANGED <<roles, limiterVars, auditVars>>

\* The permissions of each role and of its parents, up to a depth that ends cycles.
Resolve ==
    LET level[d \in 0..MaxDepth + 1] ==
          IF d = 0 THEN [r \in DOMAIN roles |-> {}]
          ELSE LET below == level[d - 1] IN
               [r \in DOMAIN roles |-> roles[r].mask \cup UNION {below[roles[r].parents[i]] : i \in 1..Len(roles[r].parents)}]
    IN  level[MaxDepth + 1]
Resolved(u) == LET m == Resolve IN UNION {m[members[u].roles[i]] : i \in 1..Len(members[u].roles)}
\* Any check of a permission fills the user's cache.
GetEffectivePermissions(u) ==
    /\ u \in DOMAIN members /\ ~members[u].valid
    /\ members' = [members EXCEPT ![u].cache = Resolved(u), ![u].valid = TRUE]
    /\ UNCHANGED <<roles, limiterVars, auditVars>>

RbacNext ==
    \/ \E r \in RoleNames : RegisterRole(r)
    \/ \E r, p \in RoleNames : RoleAddParent(r, p)
    \/ \E r \in RoleNames, p \in Perms : RoleGrantPermission(r, p)
    \/ \E u \in Names : CreateMember(u) \/ GetEffectivePermissions(u)
    \/ \E u \in Names, r \in RoleNames : AssignRole(u, r) \/ RemoveRole(u, r)

\* The roles a user holds and those at most d parents above one of them.
Parents(r) == {roles[r].parents[i] : i \in 1..Len(roles[r].parents)}
Above(u, d) ==
    LET up[n \in 0..d] == IF n = 0 THEN {members[u].roles[i] : i \in 1..Len(members[u].roles)}
                          ELSE up[n - 1] \cup UNION {Parents(r) : r \in up[n - 1]}
    IN  up[d]
\* rbac_engine.c: the recursion gives exactly the permissions of the roles a user holds and of
\* their ancestors up to the depth limit, through cycles and shared parents; and a cached answer is
\* that too, through assignments and removals, unless a role got a permission or a parent since:
\* that invalidates no cache (the design notes say any role change does), and the answer may then
\* lack permissions but has none too many.
RbacSound ==
    \A u \in DOMAIN members :
      /\ Resolved(u) = UNION {roles[r].mask : r \in Above(u, MaxDepth)}
      /\ members[u].valid => /\ members[u].cache \subseteq Resolved(u)
                             /\ ~members[u].behind => members[u].cache = Resolved(u)

----------------------------------------------------------------------------
\* The rate limiter.  Whole tokens come in whole ticks: Limit is a multiple of Window.
IndexOf(k) == {i \in 1..Len(entries) : entries[i].key = k}
\* A stamp that was not set yet lies before every window.
Unset == 0 - Window - 1
NewEntry(k) == [key |-> k, created |-> now, start |-> now, count |-> 0, head |-> 0,
                times |-> [i \in 0..Ring - 1 |-> Unset], tokens |-> Limit]
Found(k) == IF IndexOf(k) = {} THEN NewEntry(k) ELSE entries[CHOOSE i \in IndexOf(k) : TRUE]
\* The entry as a check leaves it; a refused check changes the window or the refill time only.
CheckFixedWindow(e) ==
    LET w == IF now >= e.start + Window THEN [e EXCEPT !.start = now, !.count = 0] ELSE e
    IN  IF w.count < Limit THEN <<TRUE, [w EXCEPT !.count = @ + 1]>> ELSE <<FALSE, w>>
\* head is where the next stamp goes, but the loop reads the count stamps from head on: until the
\* ring is full, stamps that were not set yet take the place of the oldest ones.
Read(e, i) == e.times[(e.head + e.count - 1 - i) % Ring]
CheckSlidingWindow(e) ==
    LET kept == Cardinality({i \in 0..e.count - 1 : Read(e, i) + Window >= now})
    IN  IF kept >= Limit THEN <<FALSE, e>>
        ELSE <<TRUE, [e EXCEPT !.times[e.head] = now, !.head = (@ + 1) % Ring,
                               !.count = IF @ < Ring THEN @ + 1 ELSE @]>>
CheckTokenBucket(e) ==
    LET refilled == e.tokens + (now - e.start) * (Limit \div Window)
        r == [e EXCEPT !.tokens = IF refilled > Limit THEN Limit ELSE refilled, !.start = now]
    IN  IF r.tokens >= 1 THEN <<TRUE, [r EXCEPT !.tokens = @ - 1]>> ELSE <<FALSE, r>>
Outcome(k, e) ==
    CASE k = "fixed" -> CheckFixedWindow(e) [] k = "sliding" -> CheckSlidingWindow(e) [] k = "bucket" -> CheckTokenBucket(e)
\* A check in a full table is refused without an entry.
CheckLimit(k) ==
    LET out == Outcome(k, Found(k)) IN
    /\ IndexOf(k) # {} \/ Len(entries) < MaxEntries
    /\ Len(granted[k]) < MaxGrants
    /\ entries' = IF IndexOf(k) = {} THEN Append(entries, out[2])
                  ELSE [entries EXCEPT ![CHOOSE i \in IndexOf(k) : TRUE] = out[2]]
    /\ granted' = IF out[1] THEN [granted EXCEPT ![k] = Append(@, now)] ELSE granted
    /\ UNCHANGED <<now, rbacVars, auditVars>>
MovedLast(a, i) == SubSeq([a EXCEPT ![i] = a[Len(a)]], 1, Len(a) - 1)
\* The clean-up looks at when an entry was made, not at when it was used: the last entry moves into its place.
CleanupLimiter ==
    LET Old(e) == now > e.created + MaxAge
        sweep[n \in 0..MaxEntries] ==
          IF n = 0 THEN [a |-> entries, i |-> 1]
          ELSE LET p == sweep[n - 1] IN
               IF p.i > Len(p.a) THEN p
               ELSE IF Old(p.a[p.i]) THEN [p EXCEPT !.a = MovedLast(@, p.i)]
               ELSE [p EXCEPT !.i = @ + 1]
    IN  /\ entries' = sweep[Len(entries)].a
        /\ granted' = [k \in Keys |-> IF \E i \in IndexOf(k) : Old(entries[i]) THEN << >> ELSE granted[k]]
        /\ UNCHANGED <<now, rbacVars, auditVars>>
Clock == now < MaxTime /\ now' = now + 1 /\ UNCHANGED <<entries, granted, rbacVars, auditVars>>
LimiterNext == Clock \/ CleanupLimiter \/ \E k \in Keys : CheckLimit(k)

\* rate_limiter.c: a key has one entry, and no algorithm refuses a request of it unless it granted
\* Limit within the last Window.  Between two clean-ups a bucket grants at most Limit plus what it
\* refills, a fixed window at most twice Limit in a Window, and a sliding window whose ring of
\* stamps is full no request that has Limit others in the Window before it.  (Until the ring is
\* full it does grant more: see Read.)
GrantsSound ==
    /\ \A k \in Keys : Cardinality(IndexOf(k)) <= 1
    /\ \A k \in Keys : IndexOf(k) # {} /\ ~Outcome(k, Found(k))[1] =>
         Cardinality({i \in 1..Len(granted[k]) : granted[k][i] + Window >= now}) >= Limit
    /\ \A k \in Keys \cap {"sliding"}, i \in Ring + 1..Len(granted["sliding"]) :
         granted[k][i] > granted[k][i - Limit] + Window
    /\ \A k \in Keys, t \in 0..MaxTime, d \in 0..MaxTime :
         LET n == Cardinality({i \in 1..Len(granted[k]) : t <= granted[k][i] /\ granted[k][i] <= t + d}) IN
         /\ k = "fixed" /\ d < Window => n <= 2 * Limit
         /\ k = "bucket" => n <= Limit + d * (Limit \div Window)

----------------------------------------------------------------------------
\* The audit log.  A hash stands for what it is taken of: it leaves out the link to the record before.
Content(r) == <<r.id, r.subject, r.time>>
LastHash == IF records = << >> THEN "genesis" ELSE records[Len(records)].hash
LogEvent(s) ==
    LET r == [id |-> Len(records) + 1, subject |-> s, time |-> now] IN
    /\ Len(records) < MaxEvents
    /\ records' = Append(records, [id |-> r.id, subject |-> s, time |-> now, prev |-> LastHash, hash |-> Content(r)])
    /\ UNCHANGED <<tampered, altered, rbacVars, limiterVars>>
\* A record changed in memory by something else than the log.
Alter(i, s) ==
    /\ records[i].subject # s /\ i \notin altered
    /\ records' = [records EXCEPT ![i].subject = s] /\ altered' = altered \cup {i}
    /\ UNCHANGED <<tampered, rbacVars, limiterVars>>
BadHash(i) == records[i].hash # Content(records[i])
BadLink(i) == records[i].prev # (IF i = 1 THEN "genesis" ELSE records[i - 1].hash)
VerifyIntegrity ==
    /\ tampered' = (\E i \in 1..Len(records) : BadHash(i) \/ BadLink(i))
    /\ UNCHANGED <<records, altered, rbacVars, limiterVars>>
\* A query walks the log and stops at the caller's limit.
Query(matches) ==
    LET walk[n \in 0..Len(records)] ==
          IF n = 0 THEN << >>
          ELSE IF Len(walk[n - 1]) < MaxResults /\ n \in matches THEN Append(walk[n - 1], records[n]) ELSE walk[n - 1]
    IN  walk[Len(records)]
BySubject(s) == Query({i \in 1..Len(records) : records[i].subject = s})
ByTimeRange(from, to) == Query({i \in 1..Len(records) : records[i].time \in from..to})
AuditNext ==
    \/ \E s \in Subjects : LogEvent(s) \/ \E i \in 1..Len(records) : Alter(i, s)
    \/ VerifyIntegrity
    \/ Clock

\* audit_log.c: event numbers have no gap and the log is in time order; a check of the whole log
\* reports exactly a log with an altered record, and the first record it stops at is the first
\* that was altered; and a query returns the earliest matches.
AuditSound ==
    /\ \A i \in 1..Len(records) : records[i].id = i /\ (i > 1 => records[i - 1].time <= records[i].time)
    /\ \A i \in altered : (\A j \in altered : i <= j) =>
         BadHash(i) /\ \A j \in 1..i - 1 : ~BadHash(j) /\ ~BadLink(j)
    /\ altered = {} => \A i \in 1..Len(records) : ~BadHash(i) /\ ~BadLink(i)
    /\ tampered => altered # {}
    /\ \A s \in Subjects :
         LET q == BySubject(s)
             hits == {i \in 1..Len(records) : records[i].subject = s}
         IN  Len(q) = (IF Cardinality(hits) > MaxResults THEN MaxResults ELSE Cardinality(hits))
             /\ \A j \in 1..Len(q), i \in hits : i < q[j].id => \E m \in 1..j - 1 : q[m].id = i
    /\ ByTimeRange(0, MaxTime) = SubSeq(records, 1, IF Len(records) > MaxResults THEN MaxResults ELSE Len(records))
=============================================================================
