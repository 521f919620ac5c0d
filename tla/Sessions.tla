------------------------------ MODULE Sessions ------------------------------
(* The session manager of mini-auth-security (session_manager.c): a table  *)
(* of sessions with an idle and an absolute time-out, rotated on a change  *)
(* of privilege and compacted by moving the last entry into a freed one.   *)
(* A client stands for the address and the user agent, which are stored    *)
(* and compared alike; session ids are the numbers of the generator's      *)
(* draws, which it never repeats.  Attributes, which only follow their     *)
(* session, and counters that nothing reads are left out.                  *)
EXTENDS Naturals

CONSTANTS None, Users, Clients, Enforced, IdleTimeout, AbsoluteTTL,
          MaxSessions, MaxIds, MaxTime, MaxExpiry

\* Enforced says whether sessions are bound to the client they were created for.

VARIABLES slots,     \* the array, the entries past count included
          count,
          issued,    \* ids the generator has drawn
          dead,      \* ids of sessions that were ended, and of copies made of them since (history)
          now
vars == <<slots, count, issued, dead, now>>

Ended == {"TERMINATED", "INVALIDATED"}
SessionEntry ==
    [id: 0..MaxIds, user: Users \cup {None}, client: Clients \cup {None}, last: 0..MaxTime, expires: 0..MaxExpiry,
     state: {"ACTIVE", "IDLE", "EXPIRED"} \cup Ended, level: 0..1]
Zeroed == [id |-> 0, user |-> None, client |-> None, state |-> "ACTIVE", last |-> 0, expires |-> 0, level |-> 0]

Init ==
    /\ slots = [i \in 1..MaxSessions |-> Zeroed] /\ count = 0
    /\ issued = 0 /\ dead = {} /\ now = 0

Stored == 1..count
\* An address that is not given leaves what the entry held before.
CreateSession(u, c) ==
    /\ count < MaxSessions /\ issued < MaxIds
    /\ slots' = [slots EXCEPT ![count + 1] =
          [@ EXCEPT !.id = issued + 1, !.user = u, !.client = IF c = None THEN @ ELSE c, !.state = "ACTIVE",
                    !.last = now, !.expires = now + AbsoluteTTL, !.level = 0]]
    /\ count' = count + 1 /\ issued' = issued + 1
    /\ UNCHANGED <<dead, now>>

Expired(s) == now > s.expires
IdledOut(s) == now > s.last + IdleTimeout
Mismatch(s, c) == Enforced /\ c # None /\ s.client # None /\ s.client # c
Woken(s) == [s EXCEPT !.last = now, !.state = IF @ = "IDLE" THEN "ACTIVE" ELSE @]
ValidateSession(i, c) ==
    LET s == slots[i] IN
    /\ s.state \notin Ended
    /\ Expired(s) \/ IdledOut(s) \/ ~Mismatch(s, c)
    /\ slots' = [slots EXCEPT ![i] =
          IF Expired(s) THEN [s EXCEPT !.state = "EXPIRED"]
          ELSE IF IdledOut(s) THEN [s EXCEPT !.state = "IDLE"] ELSE Woken(s)]
    /\ UNCHANGED <<count, issued, dead, now>>

ExtendSession(i) ==
    /\ slots[i].state \notin Ended /\ slots[i].expires < MaxExpiry
    /\ slots' = [slots EXCEPT ![i] = [Woken(@) EXCEPT !.expires = @ + 1]]
    /\ UNCHANGED <<count, issued, dead, now>>

TerminateSession(i) ==
    /\ slots' = [slots EXCEPT ![i].state = "TERMINATED"]
    /\ dead' = dead \cup {slots[i].id}
    /\ UNCHANGED <<count, issued, now>>

\* The copy takes the state as it was before the old entry is invalidated.
RegenerateRevives(i) ==
    /\ count < MaxSessions /\ issued < MaxIds
    /\ slots' = [slots EXCEPT ![count + 1] = [slots[i] EXCEPT !.id = issued + 1, !.state = "ACTIVE"],
                              ![i].state = "INVALIDATED"]
    /\ dead' = dead \cup {slots[i].id} \cup {issued + 1 : x \in {slots[i].id} \cap dead}
    /\ count' = count + 1 /\ issued' = issued + 1
    /\ UNCHANGED <<now>>
RegenerateSession(i) ==
    /\ count < MaxSessions /\ issued < MaxIds
    /\ slots' = [slots EXCEPT ![count + 1] = [slots[i] EXCEPT !.id = issued + 1], ![i].state = "INVALIDATED"]
    /\ dead' = dead \cup {slots[i].id} \cup {issued + 1 : x \in {slots[i].id} \cap dead}
    /\ count' = count + 1 /\ issued' = issued + 1
    /\ UNCHANGED <<now>>

SetAuthenticated(i) ==
    /\ slots' = [slots EXCEPT ![i].level = 1]
    /\ UNCHANGED <<count, issued, dead, now>>

\* Only the ACTIVE sessions are invalidated, although the comment says all: an IDLE or an EXPIRED
\* one passes again once it is extended.
InvalidateAllForUser(u) ==
    LET mine == {i \in Stored : slots[i].user = u /\ slots[i].state = "ACTIVE"} IN
    /\ slots' = [i \in DOMAIN slots |-> IF i \in mine THEN [slots[i] EXCEPT !.state = "INVALIDATED"] ELSE slots[i]]
    /\ dead' = dead \cup {slots[i].id : i \in mine}
    /\ UNCHANGED <<count, issued, now>>

\* One turn of the clean-up loop: i only moves on when its entry is kept.
Removable(s) == s.state \in Ended \cup {"EXPIRED"} \/ Expired(s) \/ now > s.last + 2 * IdleTimeout
Sweep(p) ==
    IF p.i > p.n THEN p
    ELSE IF Removable(p.a[p.i]) THEN [p EXCEPT !.a[p.i] = p.a[p.n], !.n = @ - 1]
    ELSE [p EXCEPT !.i = @ + 1]
Cleaned ==
    LET turn[k \in 0..MaxSessions] == IF k = 0 THEN [a |-> slots, i |-> 1, n |-> count] ELSE Sweep(turn[k - 1])
    IN  turn[count]
\* Of an entry past the count only the client is ever read again.
CleanupExpired ==
    /\ slots' = [i \in DOMAIN slots |-> IF i <= Cleaned.n THEN Cleaned.a[i] ELSE [Zeroed EXCEPT !.client = Cleaned.a[i].client]]
    /\ count' = Cleaned.n
    /\ UNCHANGED <<issued, dead, now>>

Clock == now < MaxTime /\ now' = now + 1 /\ UNCHANGED <<slots, count, issued, dead>>

Next ==
    \/ \E u \in Users, c \in Clients \cup {None} : CreateSession(u, c)
    \/ \E i \in Stored, c \in Clients \cup {None} : ValidateSession(i, c)
    \/ \E i \in Stored : ExtendSession(i) \/ TerminateSession(i) \/ RegenerateSession(i) \/ SetAuthenticated(i)
    \/ \E u \in Users : InvalidateAllForUser(u)
    \/ CleanupExpired
    \/ Clock

\* session_manager.c: an id names one session; a session that was terminated, rotated away or ACTIVE
\* when its user was logged out everywhere, and any copy made of it afterwards, is refused for good;
\* and the clean-up's swap loop removes exactly the removable ones.  A session that was IDLE or
\* EXPIRED when its user was logged out is not claimed to be ended.
SessionsSound ==
    /\ slots \in [1..MaxSessions -> SessionEntry]
    /\ \A i, j \in Stored : slots[i].id = slots[j].id => i = j
    /\ \A i \in Stored : slots[i].id \in dead => slots[i].state \in Ended
    /\ {Cleaned.a[i].id : i \in 1..Cleaned.n} = {slots[i].id : i \in {j \in Stored : ~Removable(slots[j])}}
=============================================================================
