---------------------------- MODULE JobProgress ----------------------------
(***************************************************************************)
(* mini-job-system/src/job_progress.c: the progress record of one job.     *)
(* jp_transition_state accepts every state; callers keep to the order of   *)
(* the header's diagram if Orderly is TRUE.  Percentages are rounded down, *)
(* times are whole seconds, and the messages are left out.                 *)
(***************************************************************************)
EXTENDS Integers, Sequences, SequenceTheorems, TLAPS

CONSTANTS Orderly, Totals, Steps, MaxLog, MaxTime

VARIABLES jp, now
vars == <<jp, now>>

Final == {"SUCCEEDED", "FAILED", "CANCELLED"}
States == Final \cup {"QUEUED", "RUNNING"}

Init ==
    /\ now = 1    \* time() is never 0, which stands for "not yet"
    /\ jp = [state |-> "QUEUED", total |-> 0, completed |-> 0, pct |-> 0, failed |-> FALSE,
             started_at |-> 0, completed_at |-> 0, eta |-> 0, log |-> <<>>]

SetTotalSteps(n) == jp' = [jp EXCEPT !.total = n] /\ UNCHANGED now

Logged(r, message) ==
    IF message /\ Len(r.log) < MaxLog
    THEN [r EXCEPT !.log = Append(@, [at |-> now, completed |-> r.completed, pct |-> r.pct])] ELSE r

Allowed(s) == ~Orderly \/ (jp.state = "QUEUED" /\ s \in {"RUNNING", "CANCELLED"})
                       \/ (jp.state = "RUNNING" /\ s \in Final)

Transition(s, message) ==
    /\ Allowed(s)
    /\ jp' = Logged([jp EXCEPT !.state = s,
                               !.failed = @ \/ s = "FAILED",    \* set by jp_fail
                               !.started_at = IF s = "RUNNING" THEN now ELSE @,
                               !.completed_at = IF s \in Final THEN now ELSE @], message)
    /\ UNCHANGED now

Percent(n, total) ==
    IF total = 0 THEN 0 ELSE IF n > total THEN 100 ELSE (n * 100) \div total

UpdateProgress(n, message) ==
    /\ jp.state = "RUNNING"
    /\ LET elapsed == now - jp.started_at
           eta == IF n > 1 /\ elapsed > 0 /\ jp.total > 0
                  THEN ((jp.total - n) * elapsed) \div n ELSE jp.eta
       IN jp' = Logged([jp EXCEPT !.completed = n, !.pct = Percent(n, jp.total), !.eta = eta], message)
    /\ UNCHANGED now

IncrementProgress(message) == jp.completed + 1 \in Steps /\ UpdateProgress(jp.completed + 1, message)

Elapsed == IF jp.started_at = 0 THEN 0
           ELSE (IF jp.completed_at > 0 THEN jp.completed_at ELSE now) - jp.started_at

Clock == now < MaxTime /\ now' = now + 1 /\ UNCHANGED jp

Next ==
    \/ \E n \in Totals : SetTotalSteps(n)
    \/ \E s \in States, m \in BOOLEAN : Transition(s, m)
    \/ \E n \in Steps, m \in BOOLEAN : UpdateProgress(n, m)
    \/ \E m \in BOOLEAN : IncrementProgress(m)
    \/ Clock
Spec == Init /\ [][Next]_vars
----------------------------------------------------------------------------
\* Whatever the callers report and whenever they change the number of steps,
\* the record and its log never show more than 100 per cent, the log stays in
\* the order of time within its bound, and jp_get_elapsed is not negative.
ProgressSound ==
    /\ jp.pct \in 0 .. 100 /\ \A x \in DOMAIN jp.log : jp.log[x].pct \in 0 .. 100
    /\ \A x, y \in DOMAIN jp.log : x < y => jp.log[x].at <= jp.log[y].at
    /\ Len(jp.log) <= MaxLog
    /\ Elapsed >= 0
----------------------------------------------------------------------------
(* Proof that a record stays sound, for every bound on log and time.       *)

ProgressAssumption == Totals \subseteq Nat /\ Steps \subseteq Nat /\ MaxLog \in Nat

Entries == [at : Nat, completed : Nat, pct : 0 .. 100]
Records == [state : States, total : Nat, completed : Nat, pct : 0 .. 100, failed : BOOLEAN,
            started_at : Nat, completed_at : Nat, eta : Int, log : Seq(Entries)]

\* The log is in the order of time, and none of it is of the future.
LogSound(log) ==
    /\ Len(log) <= MaxLog
    /\ \A x \in DOMAIN log : log[x].at <= now
    /\ \A x, y \in DOMAIN log : x < y => log[x].at <= log[y].at

\* The two times say which part of the header's diagram the record has been through.
TimesSound ==
    /\ jp.started_at <= now /\ jp.completed_at <= now
    /\ jp.state = "QUEUED" => jp.started_at = 0
    /\ jp.state \notin Final => jp.completed_at = 0
    /\ jp.state \in Final => jp.started_at <= jp.completed_at

ProgressInv == jp \in Records /\ now \in Nat \ {0} /\ LogSound(jp.log) /\ TimesSound

LEMMA PercentBound == ASSUME NEW n \in Nat, NEW total \in Nat PROVE Percent(n, total) \in 0 .. 100
  <1>1. CASE total = 0 \/ n > total
    BY <1>1 DEF Percent
  <1>2. CASE total # 0 /\ n <= total
    <2>1. (n * 100) \div total \in Int /\ total * ((n * 100) \div total) <= n * 100
          /\ n * 100 < total * ((n * 100) \div total) + total
      BY <1>2
    <2> DEFINE q == (n * 100) \div total
    <2>2. q \in Int /\ total * q <= n * 100 /\ n * 100 < total * q + total /\ n * 100 <= total * 100
      BY <1>2, <2>1
    <2> HIDE DEF q
    <2>3. q <= 100
      <3> SUFFICES ASSUME q >= 101 PROVE FALSE
        BY <2>2
      <3>1. total * q >= total * 101
        BY <1>2, <2>2
      <3> QED
        BY <1>2, <2>2, <3>1
    <2>4. q >= 0
      <3> SUFFICES ASSUME q <= 0 - 1 PROVE FALSE
        BY <2>2
      <3>1. total * q <= total * (0 - 1)
        BY <1>2, <2>2
      <3> QED
        BY <1>2, <2>2, <3>1
    <2>5. Percent(n, total) = q
      BY <1>2 DEF Percent, q
    <2> QED
      BY <2>2, <2>3, <2>4, <2>5
  <1> QED
    BY <1>1, <1>2

\* An entry for this moment may always be appended.
LEMMA LogKeeps ==
    ASSUME NEW r \in Records, NEW m \in BOOLEAN, now \in Nat, LogSound(r.log), MaxLog \in Nat
    PROVE  /\ Logged(r, m) \in Records /\ LogSound(Logged(r, m).log)
           /\ \E log \in Seq(Entries) : Logged(r, m) = [r EXCEPT !.log = log]
  <1>1. CASE m /\ Len(r.log) < MaxLog
    <2> DEFINE e == [at |-> now, completed |-> r.completed, pct |-> r.pct]
               log == Append(r.log, e)
    <2>1. Logged(r, m) = [r EXCEPT !.log = log] /\ r.log \in Seq(Entries) /\ e \in Entries
      BY <1>1 DEF Logged, Records, Entries
    <2>2. e.at = now
      OBVIOUS
    <2> HIDE DEF e
    <2>3. /\ log \in Seq(Entries) /\ Len(log) = Len(r.log) + 1 /\ DOMAIN log = 1 .. Len(r.log) + 1
          /\ Len(r.log) \in Nat /\ DOMAIN r.log = 1 .. Len(r.log)
          /\ log[Len(r.log) + 1] = e /\ \A x \in 1 .. Len(r.log) : log[x] = r.log[x]
      BY <2>1, AppendProperties, LenProperties
    <2> HIDE DEF log
    <2>4. LogSound(log)
      BY <1>1, <2>2, <2>3 DEF LogSound
    <2>5. [r EXCEPT !.log = log] \in Records /\ [r EXCEPT !.log = log].log = log
      BY <2>3 DEF Records
    <2> QED
      BY <2>1, <2>3, <2>4, <2>5
  <1>2. CASE ~(m /\ Len(r.log) < MaxLog)
    BY <1>2 DEF Logged, Records
  <1> QED
    BY <1>1, <1>2

LEMMA ProgressStep ==
    ASSUME ProgressAssumption, Orderly, ProgressInv, Next PROVE ProgressInv'
  <1>0. jp \in Records /\ now \in Nat \ {0} /\ MaxLog \in Nat
    BY DEF ProgressInv, ProgressAssumption
  <1>1. ASSUME NEW n \in Totals, SetTotalSteps(n) PROVE ProgressInv'
    BY <1>1, <1>0 DEF SetTotalSteps, ProgressInv, ProgressAssumption, Records, LogSound, TimesSound
  <1>2. ASSUME NEW s \in States, NEW m \in BOOLEAN, Transition(s, m) PROVE ProgressInv'
    <2> DEFINE r == [jp EXCEPT !.state = s, !.failed = @ \/ s = "FAILED",
                               !.started_at = IF s = "RUNNING" THEN now ELSE @,
                               !.completed_at = IF s \in Final THEN now ELSE @]
    <2>1. /\ r \in Records /\ r.log = jp.log /\ r.state = s
          /\ r.started_at = (IF s = "RUNNING" THEN now ELSE jp.started_at)
          /\ r.completed_at = (IF s \in Final THEN now ELSE jp.completed_at)
      BY <1>0 DEF Records
    <2>2. jp' = Logged(r, m) /\ now' = now /\ Allowed(s)
      BY <1>2 DEF Transition
    <2> HIDE DEF r
    <2>3. /\ Logged(r, m) \in Records /\ LogSound(Logged(r, m).log)
          /\ \E log \in Seq(Entries) : Logged(r, m) = [r EXCEPT !.log = log]
      BY <1>0, <2>1, LogKeeps DEF ProgressInv
    <2>4. jp'.state = s /\ jp'.started_at = r.started_at /\ jp'.completed_at = r.completed_at
      BY <2>1, <2>2, <2>3 DEF Records
    <2>5. TimesSound'
      BY <1>0, <2>1, <2>2, <2>4 DEF TimesSound, ProgressInv, Allowed, Final, Records
    <2> QED
      BY <1>0, <2>2, <2>3, <2>5 DEF ProgressInv, LogSound
  <1>3. ASSUME NEW n \in Steps, NEW m \in BOOLEAN, UpdateProgress(n, m) PROVE ProgressInv'
    <2> DEFINE elapsed == now - jp.started_at
               eta == IF n > 1 /\ elapsed > 0 /\ jp.total > 0 THEN ((jp.total - n) * elapsed) \div n ELSE jp.eta
               r == [jp EXCEPT !.completed = n, !.pct = Percent(n, jp.total), !.eta = eta]
    <2>0. n \in Nat /\ jp.total \in Nat /\ jp.started_at \in Nat /\ jp.eta \in Int
      BY <1>0 DEF ProgressAssumption, Records
    <2>1. Percent(n, jp.total) \in 0 .. 100
      BY <2>0, PercentBound
    <2>2. eta \in Int
      BY <1>0, <2>0
    <2> HIDE DEF eta
    <2>3. r \in Records /\ r.log = jp.log /\ r.state = jp.state /\ r.started_at = jp.started_at
          /\ r.completed_at = jp.completed_at
      BY <1>0, <2>0, <2>1, <2>2 DEF Records
    <2>4. jp' = Logged(r, m) /\ now' = now
      BY <1>3 DEF UpdateProgress, eta
    <2> HIDE DEF r
    <2>5. /\ Logged(r, m) \in Records /\ LogSound(Logged(r, m).log)
          /\ \E log \in Seq(Entries) : Logged(r, m) = [r EXCEPT !.log = log]
      BY <1>0, <2>3, LogKeeps DEF ProgressInv
    <2>6. jp'.state = jp.state /\ jp'.started_at = jp.started_at /\ jp'.completed_at = jp.completed_at
      BY <2>3, <2>4, <2>5 DEF Records
    <2>7. TimesSound'
      BY <2>4, <2>6 DEF TimesSound, ProgressInv
    <2> QED
      BY <1>0, <2>4, <2>5, <2>7 DEF ProgressInv, LogSound
  <1>4. CASE Clock
    <2>1. now' = now + 1 /\ jp' = jp
      BY <1>4 DEF Clock
    <2>2. \A x \in DOMAIN jp.log : jp.log[x].at \in Nat
      <3>1. jp.log \in Seq(Entries)
        BY <1>0 DEF Records
      <3>2. \A x \in DOMAIN jp.log : jp.log[x] \in Entries
        BY <3>1, ElementOfSeq, LenProperties
      <3> QED
        BY <3>2 DEF Entries
    <2>3. LogSound(jp.log)'
      BY <1>0, <2>1, <2>2 DEF ProgressInv, LogSound
    <2>4. TimesSound'
      BY <1>0, <2>1 DEF ProgressInv, TimesSound, Records
    <2> QED
      BY <1>0, <2>1, <2>3, <2>4 DEF ProgressInv
  <1> QED
    BY <1>1, <1>2, <1>3, <1>4 DEF Next, IncrementProgress

LEMMA ProgressHolds == ASSUME ProgressAssumption, ProgressInv PROVE ProgressSound
  <1>1. jp \in Records /\ now \in Nat \ {0} /\ LogSound(jp.log) /\ TimesSound /\ jp.log \in Seq(Entries)
    BY DEF ProgressInv, Records
  <1>2. \A x \in DOMAIN jp.log : jp.log[x] \in Entries
    BY <1>1, ElementOfSeq, LenProperties
  <1>3. Elapsed >= 0
    BY <1>1 DEF Elapsed, TimesSound, Records, States
  <1> QED
    BY <1>1, <1>2, <1>3 DEF ProgressSound, LogSound, Records, Entries

LEMMA ProgressInit == ASSUME ProgressAssumption, Init PROVE ProgressInv
  BY EmptySeq DEF Init, ProgressInv, Records, LogSound, TimesSound, States, Final, ProgressAssumption

LEMMA ProgressStutter == ASSUME ProgressInv, UNCHANGED vars PROVE ProgressInv'
  BY DEF vars, ProgressInv, LogSound, TimesSound

\* A job whose callers keep to the header's diagram never shows more than 100
\* per cent, a log out of order or beyond its bound, or a negative jp_get_elapsed.
THEOREM ProgressStaysSound ==
    ASSUME ProgressAssumption, Orderly PROVE Spec => []ProgressSound
  <1>1. Init => ProgressInv
    BY ProgressInit
  <1>2. ProgressInv /\ [Next]_vars => ProgressInv'
    BY ProgressStep, ProgressStutter
  <1>3. ProgressInv => ProgressSound
    BY ProgressHolds
  <1> QED
    BY <1>1, <1>2, <1>3, PTL DEF Spec
============================================================================
