-------------------------------- MODULE Bpmn --------------------------------
(* The BPMN engine (mini-business-arch/src/bpmn_model.c): instances of a    *)
(* process and the tokens that bpmn_process_execute_step moves, one pass    *)
(* over the list of tokens per step.                                        *)
EXTENDS Integers, Sequences, SequencesExt, FiniteSets, TLC

CONSTANTS Custom,        \* a process of the caller's own
          MaxInstances,  \* BPMN_MAX_INSTANCES
          MaxSteps       \* bound: steps per instance

VARIABLES process,    \* the process: the type of each node and its outgoing flows
          instances,  \* BPMNProcessInstance: tokens, newest first, and how it ended
          called      \* history: how often each instance called each node's function

vars == <<process, instances, called>>

\* A flow has text when it has a condition or is the default.
Flow(to) == [to |-> to, text |-> FALSE]
If(to) == [to |-> to, text |-> TRUE]
Chain(nodes) == [n \in {nodes[i] : i \in 1 .. Len(nodes) - 1} |->
                   << Flow(nodes[(CHOOSE i \in 1 .. Len(nodes) - 1 : nodes[i] = n) + 1]) >>]
OrderFulfillment ==
    [type |-> [start |-> "start", validate |-> "task", check |-> "task", gw |-> "xor",
               ship |-> "task", backorder |-> "task", notify |-> "task", end |-> "end"],
     out |-> ("gw" :> << If("ship"), If("backorder") >>) @@ ("ship" :> << Flow("notify") >>) @@ ("end" :> << >>)
             @@ Chain(<<"start", "validate", "check", "gw">>) @@ Chain(<<"backorder", "notify", "end">>)]
PaymentProcessing ==
    [type |-> [start |-> "start", authorize |-> "task", capture |-> "task", gw |-> "xor",
               refund |-> "task", end |-> "end"],
     out |-> ("gw" :> << If("refund"), If("end") >>) @@ ("end" :> << >>)
             @@ Chain(<<"start", "authorize", "capture", "gw">>) @@ Chain(<<"refund", "end">>)]
ExpenseApproval ==
    [type |-> [start |-> "start", review |-> "task", gw |-> "xor", auto |-> "task", manager |-> "task",
               director |-> "task", notify |-> "task", end |-> "end"],
     out |-> ("gw" :> << If("auto"), If("manager"), If("director") >>) @@ ("end" :> << >>)
             @@ ("auto" :> << Flow("notify") >>) @@ ("manager" :> << Flow("notify") >>)
             @@ Chain(<<"start", "review", "gw">>) @@ Chain(<<"director", "notify", "end">>)]
Shipped == {OrderFulfillment, PaymentProcessing, ExpenseApproval}

Nodes == DOMAIN process.type
Init == process \in Shipped \cup Custom /\ instances = << >> /\ called = << >>

-----------------------------------------------------------------------------
\* bpmn_process_start puts a token on the node of type start.
Start ==
    /\ Len(instances) < MaxInstances
    /\ \E n \in Nodes :
          /\ process.type[n] = "start"
          /\ instances' = Append(instances, [tokens |-> << [node |-> n, active |-> TRUE] >>,
                                             completed |-> FALSE, terminated |-> FALSE, steps |-> 0])
    /\ called' = Append(called, [n \in Nodes |-> 0])
    /\ UNCHANGED process

\* The exclusive gateway takes the first flow that has text (its condition is not
\* evaluated), else the first; the inclusive one counts the flows with text and
\* takes that many of the first; the parallel one takes them all.
Exclusive(out) == LET texts == SelectInSeq(out, LAMBDA f : f.text) IN
                  IF out = << >> THEN << >> ELSE << out[IF texts = 0 THEN 1 ELSE texts] >>
Inclusive(out) == LET n == Len(SelectSeq(out, LAMBDA f : f.text)) IN IF n = 0 THEN out ELSE SubSeq(out, 1, n)
Taken(n) ==
    LET out == process.out[n] IN
    CASE process.type[n] \in {"start", "end", "task"} -> SubSeq(out, 1, IF out = << >> THEN 0 ELSE 1)
      [] process.type[n] = "xor" -> Exclusive(out)
      [] process.type[n] = "or" -> Inclusive(out)
      [] process.type[n] = "and" -> out
      [] OTHER -> << >>

\* execute_node for the i-th token of the pass, and what execute_step does after it:
\* the token takes the first flow, new tokens go in front of the list for the others.
ExecuteNode(pass, i) ==
    LET tok == pass.tokens[i]
        known == tok.node \in Nodes
        taken == Taken(tok.node)
        to == IF taken = << >> THEN tok.node ELSE taken[1].to
        rest == SubSeq(taken, 2, Len(taken))
        split == [j \in DOMAIN rest |-> [node |-> rest[j].to, active |-> TRUE]]
    IN  IF pass.failed \/ ~tok.active THEN pass
        ELSE IF ~known THEN [pass EXCEPT !.failed = TRUE]
        ELSE [pass EXCEPT !.tokens[i] = [node |-> to, active |-> to \notin Nodes \/ process.type[to] # "end"],
                          !.new = Reverse(split) \o @,
                          !.completed = @ \/ (process.type[tok.node] \in {"start", "end"} /\ taken = << >>),
                          !.called = IF process.type[tok.node] = "task" THEN [@ EXCEPT ![tok.node] = @ + 1] ELSE @]

ExecuteStep(k) ==
    LET in == instances[k]
        pass == FoldLeftDomain(ExecuteNode, [tokens |-> in.tokens, new |-> << >>, failed |-> FALSE,
                                             completed |-> FALSE, called |-> called[k]], in.tokens)
        all == pass.new \o pass.tokens
        idle == ~pass.failed /\ \A i \in DOMAIN all : ~all[i].active
    IN  /\ ~in.completed /\ ~in.terminated /\ in.steps < MaxSteps
        /\ instances' = [instances EXCEPT ![k] = [@ EXCEPT !.tokens = all, !.steps = @ + 1,
                                                           !.completed = pass.completed \/ idle]]
        /\ called' = [called EXCEPT ![k] = pass.called]
        /\ UNCHANGED process

Terminate(k) ==
    /\ ~instances[k].completed
    /\ instances' = [instances EXCEPT ![k].terminated = TRUE, ![k].completed = TRUE]
    /\ UNCHANGED <<process, called>>

Next == Start \/ \E k \in DOMAIN instances : ExecuteStep(k) \/ Terminate(k)

\* A gateway that splits, a split that puts a token straight on an end event, and a
\* join: a node that the branches of a split reach along two flows.
Splits == {n \in Nodes : process.type[n] \in {"and", "or"} /\ Len(process.out[n]) > 1}
Ends == {n \in Nodes : process.type[n] = "end"}
Straight == \E n \in Splits : \E i \in 2 .. Len(process.out[n]) : process.out[n][i].to \in Ends
Incoming(n) == {f \in {<<m, i>> : m \in Nodes, i \in 1 .. 3} :
                  f[2] \in DOMAIN process.out[f[1]] /\ process.out[f[1]][f[2]].to = n}
Joins == Splits # {} /\ \E n \in Nodes \ Ends : Cardinality(Incoming(n)) > 1

\* Tokens of a BPMN instance are neither lost nor run twice, in a process without joins
\* and without a split straight to an end event: an instance that was not terminated is
\* completed exactly when each of its tokens came to rest on an end event (a token on a
\* node that does not exist never does), no task is called twice, and without timers and
\* missing nodes the instance completes within as many steps as the process has nodes.
\* Nothing is claimed of the two kinds of process left out, of which the code does not
\* keep what the workflow guide promises: joins wait for nobody, and a token put straight
\* on an end event completes the instance while other tokens are active.
BpmnSound ==
    ~Straight /\ ~Joins =>
    \A k \in DOMAIN instances :
        LET in == instances[k] IN
        /\ ~in.terminated => (in.completed <=> \A i \in DOMAIN in.tokens : in.tokens[i].node \in Ends)
        /\ \A n \in Nodes : called[k][n] <= 1
        /\ /\ in.steps >= Cardinality(Nodes) - 1
           /\ \A n \in Nodes : process.type[n] # "timer"
           /\ \A n \in Nodes : \A i \in DOMAIN process.out[n] : process.out[n][i].to \in Nodes
           => in.completed
=============================================================================
