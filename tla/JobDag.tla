------------------------------- MODULE JobDag -------------------------------
(***************************************************************************)
(* The job dependency graph of mini-job-system (job_dag.c).  Nodes live in *)
(* an array, edges are array indices kept at both ends, and removing a     *)
(* node moves the last one into its place.  indegree starts as the number  *)
(* of in-edges and is counted down as predecessors complete.  edge_count   *)
(* and outdegree, which no operation reads, are left out.                  *)
(***************************************************************************)
EXTENDS Integers, Sequences, SequencesExt, FiniteSetsExt

CONSTANTS Ids,          \* job ids
          MaxNodes      \* dag->max_nodes

VARIABLES nodes,        \* dag->nodes[0 .. node_count), here from 1
          started       \* a node has been marked: the graph is being executed

vars == <<nodes, started>>

Init == nodes = <<>> /\ started = FALSE

\* jdag_find_node, 0 when there is none.
FindNode(ns, id) == SelectInSeq(ns, LAMBDA n : n.id = id)

\* Delete the first e of s by moving the last element into its place.
SwapOut(s, e) ==
    LET i == SelectInSeq(s, LAMBDA x : x = e)
    IN  IF i = 0 THEN s
        ELSE [k \in 1 .. Len(s) - 1 |-> IF k = i THEN s[Len(s)] ELSE s[k]]

-----------------------------------------------------------------------------
(* Building the graph, before its execution starts.                        *)

AddNode(id) ==
    /\ ~started /\ Len(nodes) < MaxNodes /\ FindNode(nodes, id) = 0
    /\ nodes' = Append(nodes, [id |-> id, out |-> <<>>, in |-> <<>>,
                               indegree |-> 0, state |-> "PENDING"])
    /\ UNCHANGED started

\* jdag_remove_edge: each list and indegree only if the edge is in the list.
NodeWithoutIn(n, e) ==
    [n EXCEPT !.in = SwapOut(@, e),
              !.indegree = IF Contains(n.in, e) THEN @ - 1 ELSE @]
RemoveEdge(f, t) ==
    LET fi == FindNode(nodes, f)
        ti == FindNode(nodes, t)
    IN  /\ ~started /\ fi # 0 /\ ti # 0
        /\ nodes' = [nodes EXCEPT ![fi].out = SwapOut(@, ti), ![ti] = NodeWithoutIn(@, fi)]
        /\ UNCHANGED started

RenumberNothing(s, from, to) == s
Renumber(s, from, to) == [k \in DOMAIN s |-> IF s[k] = from THEN to ELSE s[k]]

\* Every edge of the node goes, the last node takes its place and the edges to
\* the last node follow it.
RemoveNode(id) ==
    LET x == FindNode(nodes, id)
        last == Len(nodes)
        cut == [k \in DOMAIN nodes |-> [NodeWithoutIn(nodes[k], x) EXCEPT !.out = SwapOut(@, x)]]
    IN  /\ ~started /\ x # 0
        /\ nodes' = [k \in 1 .. last - 1 |->
                       LET n == IF k = x THEN cut[last] ELSE cut[k]
                       IN  [n EXCEPT !.in = Renumber(@, last, x), !.out = Renumber(@, last, x)]]
        /\ UNCHANGED started

\* jdag_would_create_cycle: breadth-first search for f from t.
RECURSIVE Bfs(_, _)
Bfs(queue, visited) ==
    IF queue = <<>> THEN visited
    ELSE LET new == SelectSeq(nodes[Head(queue)].out, LAMBDA v : v \notin visited)
         IN  Bfs(Tail(queue) \o new, visited \cup ToSet(new))
WouldCreateCycle(fi, ti) == fi \in Bfs(<<ti>>, {ti})

AddEdge(f, t) ==
    LET fi == FindNode(nodes, f)
        ti == FindNode(nodes, t)
    IN  /\ ~started /\ fi # 0 /\ ti # 0 /\ fi # ti
        /\ ~Contains(nodes[fi].out, ti)
        /\ ~WouldCreateCycle(fi, ti)
        /\ nodes' = [nodes EXCEPT ![fi].out = Append(@, ti), ![ti].in = Append(@, fi),
                                  ![ti].indegree = @ + 1]
        /\ UNCHANGED started

-----------------------------------------------------------------------------
(* Executing it: the caller takes nodes from jdag_get_ready_nodes and      *)
(* marks each once.                                                        *)

ReadyNodes == {k \in DOMAIN nodes : nodes[k].state = "PENDING" /\ nodes[k].indegree = 0}

Successor(d) == IF d > 0 THEN d - 1 ELSE d

MarkCompleted(k) ==
    /\ k \in ReadyNodes
    /\ nodes' = [i \in DOMAIN nodes |->
                   [nodes[i] EXCEPT !.state = IF i = k THEN "COMPLETED" ELSE @,
                                    !.indegree = IF Contains(nodes[k].out, i)
                                                 THEN Successor(@) ELSE @]]
    /\ started' = TRUE

\* Only the direct successors are skipped.
MarkFailed(k) ==
    /\ k \in ReadyNodes
    /\ nodes' = [i \in DOMAIN nodes |->
                   [nodes[i] EXCEPT !.state = IF i = k THEN "FAILED"
                                              ELSE IF Contains(nodes[k].out, i) /\ @ = "PENDING"
                                              THEN "SKIPPED" ELSE @]]
    /\ started' = TRUE

Next ==
    \/ \E id \in Ids : AddNode(id) \/ RemoveNode(id)
    \/ \E f, t \in Ids : AddEdge(f, t) \/ RemoveEdge(f, t)
    \/ \E k \in DOMAIN nodes : MarkCompleted(k) \/ MarkFailed(k)

Spec == Init /\ [][Next]_vars

-----------------------------------------------------------------------------
(* The algorithms on the graph.  Kahn's loop also carries the distances of *)
(* jdag_critical_path_length and jdag_get_levels, which repeat it.         *)

Indegrees == [k \in DOMAIN nodes |-> nodes[k].indegree]

Relax(u, acc, v) ==
    [queue |-> IF acc.deg[v] = 1 THEN Append(acc.queue, v) ELSE acc.queue,
     deg   |-> [acc.deg EXCEPT ![v] = @ - 1],
     dist  |-> [acc.dist EXCEPT ![v] = IF acc.dist[u] + 1 > @ THEN acc.dist[u] + 1 ELSE @]]

RECURSIVE KahnLoop(_, _)
KahnLoop(acc, order) ==
    IF acc.queue = <<>> THEN [order |-> order, dist |-> acc.dist]
    ELSE LET u == Head(acc.queue)
         IN  KahnLoop(FoldLeft(LAMBDA a, v : Relax(u, a, v), [acc EXCEPT !.queue = Tail(@)],
                               nodes[u].out),
                      Append(order, u))
Sources == SelectSeq([k \in DOMAIN nodes |-> k], LAMBDA k : nodes[k].indegree = 0)
Kahn == KahnLoop([queue |-> Sources, deg |-> Indegrees,
                  dist |-> [k \in DOMAIN nodes |-> IF nodes[k].indegree = 0 THEN 1 ELSE 0]], <<>>)

CriticalPathLength == Max({0} \cup Range(Kahn.dist))

\* jdag_topological_sort_dfs: a node is put in front of what is already placed
\* once its successors are.
RECURSIVE DfsVisit(_, _)
DfsVisit(order, u) ==
    IF Contains(order, u) THEN order
    ELSE <<u>> \o FoldLeft(DfsVisit, order, nodes[u].out)
Dfs == FoldLeft(DfsVisit, <<>>, [k \in DOMAIN nodes |-> k])

-----------------------------------------------------------------------------
(* Properties                                                              *)

States == {"PENDING", "COMPLETED", "FAILED", "SKIPPED"}

\* Type invariant.
TypeOK ==
    /\ started \in BOOLEAN /\ Len(nodes) <= MaxNodes
    /\ \A k \in DOMAIN nodes : /\ nodes[k].id \in Ids /\ nodes[k].state \in States
                               /\ nodes[k].indegree \in 0 .. MaxNodes

Edges == {<<u, v>> \in (DOMAIN nodes) \X (DOMAIN nodes) : Contains(nodes[u].out, v)}
Preds(k) == {u \in DOMAIN nodes : <<u, k>> \in Edges}

\* The two ends of every edge agree and no list holds a stale or repeated index,
\* whatever nodes were removed and moved before: in and out are mirror images.
Mirrored ==
    \A k \in DOMAIN nodes :
        /\ IsInjective(nodes[k].out) /\ IsInjective(nodes[k].in)
        /\ ToSet(nodes[k].out) \subseteq DOMAIN nodes
        /\ ToSet(nodes[k].in) = Preds(k)

\* order lists every node once and every edge points forward in it.
Topological(order) ==
    /\ Len(order) = Len(nodes) /\ ToSet(order) = DOMAIN nodes
    /\ \A i, j \in DOMAIN order : <<order[i], order[j]>> \in Edges => i < j

\* Until execution starts the graph stays acyclic and both topological sorts
\* order all of it, and the distances of Kahn's loop are longest paths.
Sortable ==
    /\ Mirrored
    /\ ~started => /\ Topological(Kahn.order) /\ Topological(Dfs)
                   /\ \A k \in DOMAIN nodes :
                        Kahn.dist[k] = 1 + Max({0} \cup {Kahn.dist[u] : u \in Preds(k)})

\* A node is offered by jdag_get_ready_nodes only when all its predecessors have
\* completed, and a node whose predecessors all completed is offered.
ReadyWhenDone ==
    \A k \in DOMAIN nodes : nodes[k].state = "PENDING" =>
        (k \in ReadyNodes <=> \A u \in Preds(k) : nodes[u].state = "COMPLETED")
=============================================================================
