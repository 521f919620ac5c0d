----------------------------- MODULE RateLimiter -----------------------------
(***************************************************************************)
(* The four rate limiters of mini-job-system (rate_limiter.c).  level is   *)
(* the token count, the water level, current_cost or the window's count,   *)
(* and stamp is last_refill, last_leak or window_start.                    *)
(***************************************************************************)
EXTENDS Integers, Sequences, FiniteSetsExt, SequencesExt

CONSTANTS Kinds,      \* subset of {"token", "leaky", "sliding", "fixed"}
          Rate,       \* rate, per second
          Limit,      \* burst, capacity, max_cost or max_count
          Window,     \* window_sec
          Ring,       \* entries of the sliding log (256 in the code)
          Costs,      \* arguments cost > 0 of rl_consume
          MaxTime, MaxGrants   \* bounds of the clock and of the history

VARIABLES kind, now, level, stamp,
          log, head, count,   \* the sliding window's ring
          grants              \* what was granted since the last reset: <<time, cost>>

ring == <<log, head, count>>
vars == <<kind, now, level, stamp, ring, grants>>

Slots == 0 .. Ring - 1
Full(k) == IF k = "token" THEN Limit ELSE 0
EmptyLog == [s \in Slots |-> [timestamp |-> 0, cost |-> 0]]

Init ==
    /\ kind \in Kinds /\ now = 0 /\ stamp = 0 /\ level = Full(kind)
    /\ log = EmptyLog /\ head = 0 /\ count = 0 /\ grants = <<>>

Tick == now < MaxTime /\ now' = now + 1 /\ UNCHANGED <<kind, level, stamp, ring, grants>>

AtMost(a, b) == IF a < b THEN a ELSE b
AtLeast(a, b) == IF a > b THEN a ELSE b
Grant(ok, cost) == grants' = IF ok THEN Append(grants, <<now, cost>>) ELSE grants

\* rl_token_refill and token_consume; consume is FALSE in rl_consume_nowait.
TokenConsume(cost, consume) ==
    LET tokens == AtMost(level + Rate * (now - stamp), Limit)
        ok == consume /\ tokens >= cost
    IN  /\ kind = "token"
        /\ level' = (IF ok THEN tokens - cost ELSE tokens) /\ stamp' = now
        /\ Grant(ok, cost) /\ UNCHANGED ring

\* rl_leaky_drain and leaky_consume
LeakyConsume(cost, consume) ==
    LET water == AtLeast(level - Rate * (now - stamp), 0)
        ok == consume /\ water + cost <= Limit
    IN  /\ kind = "leaky"
        /\ level' = (IF ok THEN water + cost ELSE water) /\ stamp' = now
        /\ Grant(ok, cost) /\ UNCHANGED ring

\* rl_sliding_prune drops entries from the head up to the first recent one.
CutoffLate == AtLeast(now - Window + 1, 0)
Cutoff == AtLeast(now - Window, 0)
EntryAt(k) == log[(head + k) % Ring]
Pruned == Min({count} \cup {k \in 0 .. count - 1 : EntryAt(k).timestamp >= Cutoff})
PrunedCost == FoldFunction(+, 0, [k \in 0 .. Pruned - 1 |-> EntryAt(k).cost])

SlidingConsume(cost, consume) ==
    LET current == AtLeast(level - PrunedCost, 0)
        ok == consume /\ current + cost <= Limit
        tail == (head + count) % Ring
    IN  /\ kind = "sliding"
        /\ head' = (head + Pruned) % Ring
        /\ count' = count - Pruned + (IF ok THEN 1 ELSE 0)
        /\ log' = IF ok THEN [log EXCEPT ![tail] = [timestamp |-> now, cost |-> cost]] ELSE log
        /\ level' = IF ok THEN current + cost ELSE current
        /\ Grant(ok, cost) /\ UNCHANGED stamp

WindowOver == now - stamp >= Window
FixedConsume(cost, consume) ==
    LET used == IF WindowOver THEN 0 ELSE level
        ok == consume /\ used + cost <= Limit
    IN  /\ kind = "fixed"
        /\ stamp' = IF WindowOver THEN now ELSE stamp
        /\ level' = IF ok THEN used + cost ELSE used
        /\ Grant(ok, cost) /\ UNCHANGED ring

\* rl_consume, and rl_consume_nowait and rl_would_allow, which only look.
Consume(cost, consume) ==
    /\ Len(grants) < MaxGrants
    /\ \/ TokenConsume(cost, consume) \/ LeakyConsume(cost, consume)
       \/ SlidingConsume(cost, consume) \/ FixedConsume(cost, consume)
    /\ UNCHANGED <<kind, now>>

\* The entries of the sliding log stay behind.
Reset ==
    /\ level' = Full(kind) /\ head' = 0 /\ count' = 0 /\ grants' = <<>>
    /\ stamp' = IF kind = "sliding" THEN stamp ELSE now
    /\ UNCHANGED <<kind, now, log>>

Next == (\E c \in Costs, b \in BOOLEAN : Consume(c, b)) \/ Reset \/ Tick

Spec == Init /\ [][Next]_vars

-----------------------------------------------------------------------------
(* Properties                                                              *)

\* Type invariant.
TypeOK ==
    /\ kind \in Kinds /\ level \in 0 .. Limit /\ stamp \in 0 .. now
    /\ head \in Slots /\ count \in 0 .. MaxGrants

\* What was granted at the times in T.
Granted(T) == FoldSeq(LAMBDA g, sum : IF g[1] \in T THEN sum + g[2] ELSE sum, 0, grants)

\* Over every interval the limiter keeps its promise, whatever looks, refusals
\* and idle times lie between the grants: rate * T + burst for the buckets, the
\* limit for the sliding window, and twice the limit for the fixed one.
GrantsBounded ==
    \A a \in 0 .. now : \A b \in a .. now :
        /\ kind \in {"token", "leaky"} => Granted(a .. b) <= Rate * (b - a) + Limit
        /\ kind = "sliding" /\ b - a <= Window => Granted(a .. b) <= Limit
        /\ kind = "fixed" /\ b - a < Window => Granted(a .. b) <= 2 * Limit
=============================================================================
