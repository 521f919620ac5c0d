------------------------------ MODULE TimerSet ------------------------------
(***************************************************************************)
(* What a delayed queue promises: at most one timer per key, armed, moved  *)
(* or cancelled by its owner, and fired once, due and earliest first.      *)
(***************************************************************************)
EXTENDS Naturals

CONSTANTS Keys

VARIABLES now,
          timers,  \* the armed timers: records of a key and its fire time
          last     \* the last call, and the key it handed out if there is one

Keep(k) == {t \in timers : t.key # k}
Called(op, got) == last' = [op |-> op, got |-> got] /\ UNCHANGED now

Init == now = 0 /\ timers = {} /\ last = [op |-> "create", got |-> {}]

Arm(k) ==
    /\ Called("enqueue", {})
    /\ \E at \in {t.fire_time : t \in timers'} :
         at >= now /\ timers' = Keep(k) \cup {[key |-> k, fire_time |-> at]}

Cancel(k) == Called("cancel", {}) /\ timers' = Keep(k)

Due == {t \in timers : t.fire_time <= now /\ \A u \in timers : t.fire_time <= u.fire_time}

\* A timer that is due must be handed out, and nothing else may be.
Fire == \E t \in Due : timers' = timers \ {t} /\ Called("dequeue", {t.key})
FireNothing == Due = {} /\ UNCHANGED timers /\ Called("dequeue", {})

Tick == now' = now + 1 /\ UNCHANGED <<timers, last>>

Next == (\E k \in Keys : Arm(k) \/ Cancel(k)) \/ Fire \/ FireNothing \/ Tick

Spec == Init /\ [][Next]_<<now, timers, last>>
=============================================================================
