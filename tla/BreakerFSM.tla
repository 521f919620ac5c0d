----------------------------- MODULE BreakerFSM -----------------------------
(***************************************************************************)
(* What a circuit breaker promises: the three-state machine that the       *)
(* headers of both breakers (mini-job-system and mini-business-infra) give *)
(* as their state diagram.  Both breakers are shown to implement it.       *)
(***************************************************************************)
EXTENDS Naturals

CONSTANTS SuccessThreshold,  \* successes in HALF_OPEN that close the breaker
          Manual             \* may the owner force a state?

VARIABLES state,    \* CLOSED, OPEN or HALF_OPEN
          cooled,   \* has the breaker been open for its cooldown?
          good,     \* successes seen in this HALF_OPEN period
          by        \* who made the last step, the breaker "itself" or its "owner"

fsmVars == <<state, cooled, good, by>>

Init == state = "CLOSED" /\ cooled \in BOOLEAN /\ good = 0 /\ by = "itself"

\* Only a closed breaker trips, and its cooldown starts then.
Trip == state = "CLOSED" /\ state' = "OPEN" /\ cooled' = FALSE /\ good' = 0

Cool == cooled' = TRUE /\ UNCHANGED <<state, good>>

\* An open breaker lets a first request through only after its cooldown.
Probe == state = "OPEN" /\ cooled /\ state' = "HALF_OPEN" /\ good' = 0 /\ cooled' \in BOOLEAN

Good ==
    /\ state = "HALF_OPEN" /\ good + 1 < SuccessThreshold
    /\ good' = good + 1
    /\ UNCHANGED <<state, cooled>>

Recover ==
    /\ state = "HALF_OPEN" /\ good + 1 >= SuccessThreshold
    /\ state' = "CLOSED" /\ good' = 0 /\ cooled' \in BOOLEAN

Relapse == state = "HALF_OPEN" /\ state' = "OPEN" /\ cooled' = FALSE /\ good' = 0

Idle == UNCHANGED <<state, cooled, good>>

\* What the breaker does by itself, and what only a call of the owner's may do.
Automatic == by' = "itself" /\ (Trip \/ Cool \/ Probe \/ Good \/ Recover \/ Relapse \/ Idle)
Force ==
    /\ Manual /\ by' = "owner"
    /\ state' \in {"CLOSED", "OPEN", "HALF_OPEN"} /\ cooled' \in BOOLEAN
    /\ good' = 0 \/ UNCHANGED <<state, good>>

Next == Automatic \/ Force

Spec == Init /\ [][Next]_fsmVars
=============================================================================
