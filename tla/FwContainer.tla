---------------------------- MODULE FwContainer -----------------------------
(* The dependency-injection container (di_container.c) and the middleware  *)
(* pipeline (middleware.c) of mini-backend-framework.  A service is a name *)
(* with a scope and an ordered list of dependencies; an instance is the    *)
(* number of its factory call; a factory may give nothing.  A middleware   *)
(* node is the number of its allocation.                                   *)
EXTENDS Naturals, Sequences, FiniteSets, SequencesExt, FiniteSetsExt

CONSTANTS Menu, MaxServices, MaxBuilt, MaxRequests, Tags,
          Names, MaxNodes

\* Menu: the services a program may register; MaxBuilt, MaxRequests and MaxNodes bound the histories.

VARIABLES entries, instance, requestInstance, inRequest, tags,
          alive,     \* between di_init and di_destroy
          built,     \* the factory calls that gave an instance (history)
          request,   \* number of the request (history)
          crashed,   \* how a resolution ran into itself, if one did (history)
          nodes, mwHead, mwTail, mwCount, allocated,
          order      \* the pipeline as the calls ask for it (history)
diVars == <<entries, instance, requestInstance, inRequest, tags, alive, built, request, crashed>>
mwVars == <<nodes, mwHead, mwTail, mwCount, allocated, order>>
vars == <<diVars, mwVars>>

DIServiceEntry == [name: {m.name : m \in Menu}, scope: {"SINGLETON", "TRANSIENT", "REQUEST"}, deps: {m.deps : m \in Menu}]
MWNode == [name: Names, prev: 0..MaxNodes, next: 0..MaxNodes]

Init ==
    /\ entries = << >> /\ instance = [i \in 1..MaxServices |-> 0] /\ requestInstance = [i \in 1..MaxServices |-> 0]
    /\ inRequest = FALSE /\ tags = << >> /\ alive = TRUE
    /\ built = << >> /\ request = 0 /\ crashed = "no"
    /\ nodes = << >> /\ mwHead = 0 /\ mwTail = 0 /\ mwCount = 0 /\ allocated = 0 /\ order = << >>

-----------------------------------------------------------------------------
(* di_container.c *)

Running == alive /\ crashed = "no"
Indices == DOMAIN entries
\* The first entry of the name, 0 without one: names are not checked for repetition.
FindEntry(n) == LET S == {i \in Indices : entries[i].name = n} IN IF S = {} THEN 0 ELSE Min(S)

Register(m) ==
    /\ Running /\ Len(entries) < MaxServices
    /\ entries' = Append(entries, m) /\ instance' = [instance EXCEPT ![Len(entries) + 1] = 0]
    /\ tags' = Append(tags, << >>)
    /\ UNCHANGED <<requestInstance, inRequest, alive, built, request, crashed, mwVars>>

\* Depth-first search with three colours: a dependency on a grey entry closes a cycle.
RECURSIVE CycleDfs(_, _)
CycleDfs(p, i) ==
    LET visit(q, n) ==
            LET j == FindEntry(n) IN
            IF q.found \/ j = 0 \/ q.color[j] = "black" THEN q
            ELSE IF q.color[j] = "grey" THEN [q EXCEPT !.found = TRUE] ELSE CycleDfs(q, j)
        r == FoldLeft(visit, [p EXCEPT !.color[i] = "grey"], entries[i].deps)
    IN  IF r.found THEN r ELSE [r EXCEPT !.color[i] = "black"]
HasCycle(n) ==
    FindEntry(n) # 0 /\ CycleDfs([color |-> [i \in Indices |-> "white"], found |-> FALSE], FindEntry(n)).found

\* A resolution threads what it may change; path is the C stack.  The depth guard of di_build is
\* reset by every di_resolve below it, so that only the stack ends a resolution that meets itself.
Start == [instance |-> instance, req |-> requestInstance, built |-> built, out |-> 0, over |-> FALSE, path |-> {}]
RECURSIVE Resolve(_, _, _)
Build(s, i, fails) ==
    LET step(q, n) ==
            IF q.over \/ q.fail THEN q
            ELSE LET r == Resolve([instance |-> q.instance, req |-> q.req, built |-> q.built, out |-> 0, over |-> FALSE,
                                   path |-> s.path \cup {i}], n, fails)
                 IN  [q EXCEPT !.instance = r.instance, !.req = r.req, !.built = r.built, !.over = r.over,
                               !.fail = r.out = 0, !.args = Append(@, r.out)]
        d == FoldLeft(step, [instance |-> s.instance, req |-> s.req, built |-> s.built, over |-> i \in s.path,
                             fail |-> FALSE, args |-> << >>], entries[i].deps)
        ok == ~d.over /\ ~d.fail /\ entries[i].name \notin fails
    IN  [instance |-> d.instance, req |-> d.req, over |-> d.over, path |-> s.path,
         built |-> IF ok THEN Append(d.built, [of |-> i, args |-> d.args, req |-> IF inRequest THEN request ELSE 0])
                   ELSE d.built,
         out |-> IF ok THEN Len(d.built) + 1 ELSE 0]
Resolve(s, n, fails) ==
    LET i == FindEntry(n) IN
    CASE i = 0 -> [s EXCEPT !.out = 0]
      [] i # 0 /\ entries[i].scope = "SINGLETON" ->
            IF s.instance[i] # 0 THEN [s EXCEPT !.out = s.instance[i]]
            ELSE LET b == Build(s, i, fails) IN [b EXCEPT !.instance[i] = b.out]
      [] i # 0 /\ entries[i].scope = "REQUEST" /\ inRequest ->
            IF s.req[i] # 0 THEN [s EXCEPT !.out = s.req[i]]
            ELSE LET b == Build(s, i, fails) IN [b EXCEPT !.req[i] = b.out]
      [] OTHER -> Build(s, i, fails)

Became(r, how) ==
    /\ Len(r.built) <= MaxBuilt
    /\ instance' = r.instance /\ requestInstance' = r.req /\ built' = r.built
    /\ crashed' = IF r.over THEN how ELSE "no"
    /\ UNCHANGED <<entries, inRequest, tags, alive, request, mwVars>>
DiResolve(n, fails) == Running /\ Became(Resolve(Start, n, fails), "resolve")

AddTag(n, t) ==
    /\ Running /\ FindEntry(n) # 0 /\ Len(tags[FindEntry(n)]) = 0
    /\ tags' = [tags EXCEPT ![FindEntry(n)] = Append(@, t)]
    /\ UNCHANGED <<entries, instance, requestInstance, inRequest, alive, built, request, crashed, mwVars>>
Chained(s, i) == IF s.over THEN s ELSE Resolve([s EXCEPT !.out = 0], entries[i].name, {})
ResolveTagged(t) ==
    /\ Running
    /\ Became(FoldLeft(Chained, Start, SelectSeq([i \in Indices |-> i], LAMBDA i : Contains(tags[i], t))), "tagged")

\* Kahn's algorithm: what is resolved in turn, and the order of all entries it reaches.
KahnTurn(k, q) ==
    LET u == q.queue[k]
        hits(i) == Cardinality({j \in DOMAIN entries[i].deps : entries[i].deps[j] = entries[u].name})
        ready == SelectSeq([i \in Indices |-> i], LAMBDA i : q.degree[i] > 0 /\ q.degree[i] - hits(i) <= 0)
    IN  [degree |-> [i \in Indices |-> IF hits(i) > q.degree[i] THEN 0 ELSE q.degree[i] - hits(i)], queue |-> q.queue \o ready]
KahnOrder ==
    LET q0 == [degree |-> [i \in Indices |-> Len(entries[i].deps)],
               queue |-> SelectSeq([i \in Indices |-> i], LAMBDA i : entries[i].deps = << >>)]
        turn[k \in 0..Len(entries)] ==
            IF k = 0 THEN q0 ELSE LET q == turn[k - 1] IN IF k > Len(q.queue) THEN q ELSE KahnTurn(k, q)
    IN  turn[Len(entries)].queue
ResolveAllOk == Len(KahnOrder) = Len(entries)
ResolveAll ==
    /\ Running /\ entries # << >>
    /\ Became(FoldLeft(Chained, Start, SelectSeq(KahnOrder, LAMBDA i : entries[i].scope = "SINGLETON")), "all")

BeginRequest ==
    /\ Running /\ request < MaxRequests /\ request' = request + 1
    /\ inRequest' = TRUE /\ requestInstance' = [i \in DOMAIN requestInstance |-> 0]
    /\ UNCHANGED <<entries, instance, tags, alive, built, crashed, mwVars>>
EndRequest ==
    /\ Running /\ inRequest' = FALSE
    /\ requestInstance' = [i \in DOMAIN requestInstance |-> IF i \in Indices THEN 0 ELSE requestInstance[i]]
    /\ instance' = [i \in DOMAIN instance |-> IF i \in Indices /\ entries[i].scope = "REQUEST" THEN 0 ELSE instance[i]]
    /\ UNCHANGED <<entries, tags, alive, built, request, crashed, mwVars>>
\* The request's instances stay behind: a program initialises the container again before it reuses it.
Destroy ==
    /\ Running /\ alive' = FALSE /\ entries' = << >> /\ tags' = << >>
    /\ instance' = [i \in DOMAIN instance |-> 0]
    /\ UNCHANGED <<requestInstance, inRequest, built, request, crashed, mwVars>>

DiNext ==
    \/ \E m \in Menu : Register(m)
    \/ \E n \in {m.name : m \in Menu}, fails \in {{}} \cup {{m.name} : m \in Menu} : DiResolve(n, fails)
    \/ \E n \in {m.name : m \in Menu}, t \in Tags : AddTag(n, t)
    \/ \E t \in Tags : ResolveTagged(t)
    \/ ResolveAll
    \/ BeginRequest \/ EndRequest \/ Destroy

-----------------------------------------------------------------------------
(* middleware.c: the list is linked both ways. *)

Alloc(n) == [name |-> n, prev |-> 0, next |-> 0]
Grown(n) == [i \in DOMAIN nodes \cup {allocated + 1} |-> IF i = allocated + 1 THEN Alloc(n) ELSE nodes[i]]
Use(n) ==
    LET k == allocated + 1 IN
    /\ allocated < MaxNodes /\ allocated' = k /\ mwCount' = mwCount + 1 /\ mwTail' = k
    /\ IF mwTail # 0
       THEN nodes' = [Grown(n) EXCEPT ![mwTail].next = k, ![k].prev = mwTail] /\ UNCHANGED mwHead
       ELSE nodes' = Grown(n) /\ mwHead' = k
    /\ order' = Append(order, k)
    /\ UNCHANGED diVars

Remove1(i) == [x \in DOMAIN nodes \ {i} |->
                 [nodes[x] EXCEPT !.next = IF x = nodes[i].prev THEN nodes[i].next ELSE @,
                                  !.prev = IF x = nodes[i].next THEN nodes[i].prev ELSE @]]
\* The first node of the name, along the list.
MwRemove(n) ==
    LET walk[k \in 0..MaxNodes] ==
            IF k = 0 THEN mwHead
            ELSE LET c == walk[k - 1] IN IF c = 0 THEN 0 ELSE IF nodes[c].name = n THEN c ELSE nodes[c].next
        i == walk[MaxNodes]
    IN  /\ i # 0
        /\ mwHead' = IF nodes[i].prev = 0 THEN nodes[i].next ELSE mwHead
        /\ mwTail' = IF nodes[i].next = 0 THEN nodes[i].prev ELSE mwTail
        /\ nodes' = Remove1(i) /\ mwCount' = mwCount - 1
        /\ order' = SelectSeq(order, LAMBDA x : x # i)
        /\ UNCHANGED <<allocated, diVars>>

MwInsertAt(pos, n) ==
    LET k == allocated + 1
        walk[j \in 0..MaxNodes] == IF j = 0 THEN mwHead ELSE nodes[walk[j - 1]].next
        curr == walk[pos]
        front == pos = 0 \/ mwCount = 0
        back == ~front /\ pos >= mwCount
    IN  /\ allocated < MaxNodes /\ allocated' = k /\ mwCount' = mwCount + 1
        /\ front => /\ nodes' = [i \in DOMAIN Grown(n) |->
                                   IF i = k THEN [Alloc(n) EXCEPT !.next = mwHead]
                                   ELSE IF i = mwHead THEN [nodes[i] EXCEPT !.prev = k] ELSE nodes[i]]
                    /\ mwHead' = k /\ mwTail' = IF mwTail = 0 THEN k ELSE mwTail
        /\ back => /\ nodes' = [Grown(n) EXCEPT ![k].prev = mwTail, ![mwTail].next = k]
                   /\ mwTail' = k /\ UNCHANGED mwHead
        /\ ~front /\ ~back =>
              /\ nodes' = [Grown(n) EXCEPT ![k].next = curr, ![k].prev = nodes[curr].prev,
                                           ![nodes[curr].prev].next = k, ![curr].prev = k]
              /\ UNCHANGED <<mwHead, mwTail>>
        /\ order' = InsertAt(order, Min({pos, Len(order)}) + 1, k)
        /\ UNCHANGED diVars

\* What mw_process runs when the nodes in stops return an error and those in aborts give the request up.
Processed(stops, aborts, aborted) ==
    LET go[k \in 0..MaxNodes] ==
            IF k = 0 THEN [at |-> mwHead, ran |-> << >>, res |-> 0]
            ELSE LET p == go[k - 1] IN
                 IF p.at = 0 \/ p.res # 0 THEN p
                 ELSE [at |-> nodes[p.at].next, ran |-> Append(p.ran, p.at),
                       res |-> IF p.at \in stops THEN 1 ELSE IF aborted \/ p.at \in aborts THEN 2 ELSE 0]
    IN  go[MaxNodes]
MwNext ==
    \E n \in Names : Use(n) \/ MwRemove(n) \/ \E pos \in 0..MaxNodes : MwInsertAt(pos, n)

-----------------------------------------------------------------------------

Needs(i) == {FindEntry(n) : n \in Range(entries[i].deps)} \ {0}
From(S) ==
    LET c[k \in 0..MaxServices] == IF k = 0 THEN S ELSE LET p == c[k - 1] IN p \cup UNION {Needs(j) : j \in p}
    IN  c[MaxServices]
Cyclic(i) == \E j \in From({i}) : j \in From(Needs(j))
Distinct == \A i, j \in Indices : entries[i].name = entries[j].name => i = j

Complete(i) == \A j \in From({i}) : \A n \in Range(entries[j].deps) : FindEntry(n) # 0
\* di_container.c: a service that reaches no cycle resolves, however often and after whichever failed
\* factories, exactly when all it needs is registered; a singleton is built once and a request-scoped
\* service once per request, from instances of its own dependencies that were built before it; the
\* three-colour search finds exactly the cycles; bulk resolution accepts exactly the complete acyclic
\* graphs and, when the names are distinct, never meets itself.  Nothing is claimed of di_resolve on a
\* service that reaches a cycle: di_container.h:80 promises NULL there, but the depth that di_build
\* checks is set back to zero by every di_resolve, and the recursion only ends with the stack.
ContainerSound ==
    alive =>
    /\ entries \in Seq(DIServiceEntry)
    /\ \A i \in Indices : HasCycle(entries[i].name) <=> Cyclic(FindEntry(entries[i].name))
    /\ Distinct => (ResolveAllOk <=> \A i \in Indices : ~Cyclic(i) /\ \A n \in Range(entries[i].deps) : FindEntry(n) # 0)
    /\ \A i \in Indices : i = FindEntry(entries[i].name) /\ ~Cyclic(i) =>
          LET r == Resolve(Start, entries[i].name, {}) IN ~r.over /\ (r.out # 0 <=> Complete(i))
    /\ crashed = "all" => ~Distinct
    /\ \A p, q \in DOMAIN built :
          LET e == entries[built[p].of] IN
          /\ built[p].of = built[q].of /\ e.scope = "SINGLETON" => p = q
          /\ built[p].of = built[q].of /\ e.scope = "REQUEST" /\ built[p].req = built[q].req /\ built[p].req # 0 => p = q
    /\ \A p \in DOMAIN built : \A k \in DOMAIN built[p].args :
          built[p].args[k] < p /\ built[built[p].args[k]].of = FindEntry(entries[built[p].of].deps[k])

Walk(start, dir) ==
    LET w[k \in 0..mwCount] == IF k = 0 THEN <<start, << >> >> ELSE LET p == w[k - 1] IN <<nodes[p[1]][dir], Append(p[2], p[1])>>
    IN  w[mwCount]
\* middleware.c: forwards and backwards the list is the pipeline the calls asked for, and a request runs its
\* handlers in that order up to and including the first that stops it.
PipelineSound ==
    /\ DOMAIN nodes = Range(order) /\ \A i \in DOMAIN nodes : nodes[i] \in MWNode
    /\ mwCount = Len(order) /\ Walk(mwHead, "next") = <<0, order>> /\ Walk(mwTail, "prev") = <<0, Reverse(order)>>
    /\ \A stops, aborts \in SUBSET Range(order), aborted \in BOOLEAN :
          LET ending == {k \in DOMAIN order : order[k] \in stops \cup aborts \/ aborted} IN
          Processed(stops, aborts, aborted).ran = IF ending = {} THEN order ELSE SubSeq(order, 1, Min(ending))
=============================================================================
