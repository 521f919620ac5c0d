--------------------------- MODULE BusinessProofs ---------------------------
(***************************************************************************)
(* For every value of the constants: the configuration centre of           *)
(* mini-business-infra keeps every version, informs its subscribers and    *)
(* restores its snapshots; and in mini-business-arch orders own their line *)
(* items, the resilience patterns give back what they take, and sagas are  *)
(* undone as they were done.                                               *)
(***************************************************************************)
EXTENDS Integers, FiniteSetsExt, FiniteSetTheorems, SequenceTheorems, WellFoundedInduction, TLAPS

CONSTANTS None,
          ConfKeys, Ns, ConfValues, Enc, Torn, ConfClients, Ips, ConfVersions,    \* ConfigCenter
          Handles, Products, FirstCapacity, GivesAway, MaxBuffers, OrderVersions, Types, MaxEvents,    \* Orders
          MaxConcurrent, FailureThreshold, HalfOpenMax, Timeout, Burst, MaxRetries, MaxDepth, MaxCalls, MaxTime,
          Keys, Clients, MaxKeys, TTL, Mean0, Variance0, Phi, MaxChecks,    \* Resilience
          StepCount, Compensable, StepRetries, MaxSagas, Services, LogCapacity, BusEvents    \* SagaOrch

VARIABLES now,
          conf, subs, told, file, saved, torn, log, loaded,
          held, repo, heap, store, events,
          cb, bh, tb, eb, calls, entries, client, started, target, silent,
          sagas, saga_call, effects, bus, cursor, published, delivered, misread

Cc == INSTANCE ConfigCenter WITH
        Keys <- ConfKeys, Values <- ConfValues, Clients <- ConfClients, MaxVersion <- ConfVersions
Or == INSTANCE Orders WITH MaxVersion <- OrderVersions
Rs == INSTANCE Resilience
Sg == INSTANCE SagaOrch WITH MaxRetries <- StepRetries, MaxEvents <- BusEvents, call <- saga_call

\* Versions can be read as they were written, subscribers know the present value, snapshots restore.
ConfigSound == Cc!ConfigSound

\* Orders own their line items and events are numbered without gaps.
OrdersSound == (GivesAway => Or!OrdersOwned) /\ Or!EventsNumbered

\* The policy gives back what it takes, keys are worked on once, targets are given up late.
ResilienceSound == Rs!PolicyBalanced /\ Rs!StartedOnce /\ Rs!HealthSound

\* Sagas are undone as they were done, and the bus delivers in order.
SagasSound == Sg!SagaAtomic /\ Sg!BusInOrder

-----------------------------------------------------------------------------
(* Numbers and sequences                                                   *)

\* A set of naturals that is not empty has a least element.
LEMMA MinExists == ASSUME NEW S \in SUBSET Nat, S # {} PROVE Min(S) \in S /\ \A x \in S : Min(S) <= x
<1>1. \E m \in S : \A x \in S : ~(<<x, m>> \in OpToRel(<, Nat))
  BY NatLessThanWellFounded, WFMin, Zenon
<1>2. PICK m \in S : \A x \in S : ~(<<x, m>> \in OpToRel(<, Nat))
  BY <1>1
<1>3. \A x \in S : m <= x
  <2> SUFFICES ASSUME NEW x \in S, ~(m <= x) PROVE FALSE
    OBVIOUS
  <2>1. x \in Nat /\ m \in Nat /\ x < m
    OBVIOUS
  <2>2. <<x, m>> \in OpToRel(<, Nat)
    BY <2>1, Zenon DEF OpToRel
  <2> QED BY <1>2, <2>2
<1> QED BY <1>2, <1>3 DEF Min

\* What is left of a sequence when its element i is removed.
LEMMA RemovedAt ==
    ASSUME NEW S, NEW s \in Seq(S), NEW i \in 1 .. Len(s)
    PROVE  LET r == SubSeq(s, 1, i - 1) \o SubSeq(s, i + 1, Len(s)) IN
           /\ r \in Seq(S) /\ Len(r) = Len(s) - 1 /\ DOMAIN r = 1 .. Len(s) - 1
           /\ \A n \in 1 .. Len(s) - 1 : r[n] = IF n < i THEN s[n] ELSE s[n + 1]
<1> DEFINE a == SubSeq(s, 1, i - 1)  b == SubSeq(s, i + 1, Len(s))  r == a \o b
<1>1. a \in Seq(S) /\ Len(a) = i - 1 /\ \A n \in 1 .. i - 1 : a[n] = s[n]
  OBVIOUS
<1>2. b \in Seq(S) /\ Len(b) = Len(s) - i /\ \A n \in 1 .. Len(s) - i : b[n] = s[n + i]
  OBVIOUS
<1>3. Len(s) \in Nat /\ i \in Nat /\ i <= Len(s)
  OBVIOUS
<1> HIDE DEF a, b
<1>4. /\ r \in Seq(S) /\ Len(r) = Len(a) + Len(b)
      /\ \A n \in 1 .. Len(a) + Len(b) : r[n] = IF n <= Len(a) THEN a[n] ELSE b[n - Len(a)]
  BY <1>1, <1>2, ConcatProperties
<1> HIDE DEF r
<1>5. Len(r) = Len(s) - 1 /\ DOMAIN r = 1 .. Len(s) - 1
  BY <1>1, <1>2, <1>3, <1>4
<1>6. ASSUME NEW n \in 1 .. Len(s) - 1 PROVE r[n] = IF n < i THEN s[n] ELSE s[n + 1]
  <2>1. n \in Nat /\ n \in 1 .. Len(a) + Len(b)
    BY <1>1, <1>2, <1>3
  <2>2. CASE n < i
    BY <1>1, <1>3, <1>4, <2>1, <2>2
  <2>3. CASE ~(n < i)
    <3>1. n - (i - 1) \in 1 .. Len(s) - i /\ (n - (i - 1)) + i = n + 1
      BY <1>3, <2>1, <2>3
    <3>2. r[n] = b[n - (i - 1)]
      BY <1>1, <1>3, <1>4, <2>1, <2>3
    <3> QED BY <1>2, <2>3, <3>1, <3>2
  <2> QED BY <2>2, <2>3
<1> QED BY <1>4, <1>5, <1>6 DEF r, a, b

-----------------------------------------------------------------------------
(* The configuration centre                                                *)

\* What an entry may hold, in the clear, encrypted or cut short, and what a record of a snapshot is.
ConfVals == ConfValues \cup {Enc[v] : v \in ConfValues} \cup {Torn}
ConfVersion == [version : Nat, val : ConfVals]
ConfGray == {None} \cup [ips : {Ips}, val : ConfValues]
ConfEntry == [val : ConfVals, version : Nat, versions : Seq(ConfVersion), encrypted : BOOLEAN, gray : ConfGray]
ConfSub == [client : ConfClients, ns : Cc!Namespaces]
ConfRecord == [key : ConfKeys, version : Nat, val : ConfVals]

\* The absence of a value or of an entry is none of them.
ConfigConstants == None \notin ConfVals /\ None \notin ConfEntry

ConfTypes ==
    /\ conf \in [ConfKeys -> ConfEntry \cup {None}]
    /\ log \in [ConfKeys -> Seq(ConfVals)]
    /\ told \in [ConfClients -> [ConfKeys -> ConfVals \cup {None}]]
    /\ loaded \in BOOLEAN
    /\ subs \in Seq(ConfSub)

\* An entry's old versions are numbered from one and hold the history but its last value, which is the present one.
EntryKept(e, h) ==
    /\ Len(h) > 0 /\ e.val = h[Len(h)]
    /\ e.version = Len(h) /\ Len(e.versions) = Len(h) - 1
    /\ \A i \in 1 .. Len(h) - 1 : e.versions[i] = [version |-> i, val |-> h[i]]
VersionsKept == \A k \in ConfKeys : IF conf[k] = None THEN log[k] = << >> ELSE EntryKept(conf[k], log[k])

\* Only a subscriber of the namespace was told of a key, and of the present value if there is one.
Subscribed(c, k) == \E i \in DOMAIN subs : subs[i] = [client |-> c, ns |-> Ns[k]]
SubscribersTold ==
    \A c \in ConfClients, k \in ConfKeys :
        told[c][k] # None => Subscribed(c, k) /\ (conf[k] # None => told[c][k] = conf[k].val)

\* A snapshot has one record of a key; after a load into an empty centre it is what the centre holds.
SnapshotKept ==
    /\ file \in SUBSET ConfRecord /\ \A r, s \in file : r.key = s.key => r = s
    /\ loaded => /\ \A r \in file : r.key \in ConfKeys /\ conf[r.key] # None /\ conf[r.key].val = r.val
                 /\ \A k \in ConfKeys : conf[k] # None => \E r \in file : r.key = k

\* The file holds what the last save was given; if that save was cut off, nothing else but one record cut short.
FileKept ==
    /\ torn \in BOOLEAN
    /\ ~torn => file = saved
    /\ torn => /\ \A r \in file \ saved : r.val = Torn /\ \E y \in saved : y.key = r.key
               /\ \A r, s \in file \ saved : r = s

ConfInv == ConfTypes /\ VersionsKept /\ SubscribersTold /\ SnapshotKept /\ FileKept

\* cc_create: an empty centre.
LEMMA ConfInit == Cc!Init => ConfInv
<1> SUFFICES ASSUME Cc!Init PROVE ConfInv
  OBVIOUS
<1> USE DEF Cc!Init
<1>1. loaded \in BOOLEAN
  BY Zenon
<1>2. ConfTypes
  BY <1>1 DEF ConfTypes
<1>3. VersionsKept
  BY DEF VersionsKept
<1>4. SubscribersTold
  BY DEF SubscribersTold
<1>5. SnapshotKept
  <2>1. ~loaded
    BY Zenon
  <2> QED BY <2>1 DEF SnapshotKept
<1>6. FileKept
  <2>1. torn \in BOOLEAN
    BY Zenon
  <2> QED BY <2>1 DEF FileKept
<1> QED BY <1>2, <1>3, <1>4, <1>5, <1>6 DEF ConfInv

LEMMA ConfStutter == ASSUME ConfInv, UNCHANGED <<conf, subs, told, file, saved, torn, log, loaded>> PROVE ConfInv'
<1>1. ConfTypes' /\ VersionsKept' /\ SnapshotKept' /\ FileKept'
  BY DEF ConfInv, ConfTypes, VersionsKept, SnapshotKept, FileKept
<1>2. SubscribersTold'
  BY DEF ConfInv, SubscribersTold, Subscribed
<1> QED BY <1>1, <1>2 DEF ConfInv

\* cc_config_put: the entry of k after v is written to it continues its history.
LEMMA PutKept ==
    ASSUME ConfTypes, VersionsKept, NEW k \in ConfKeys, NEW v \in ConfVals
    PROVE  /\ Cc!Put(conf[k], v) \in ConfEntry
           /\ Cc!Put(conf[k], v).val = v
           /\ EntryKept(Cc!Put(conf[k], v), Append(log[k], v))
<1> DEFINE e == conf[k]  h == log[k]  w == Cc!Put(conf[k], v)  g == Append(log[k], v)
<1>1. h \in Seq(ConfVals) /\ e \in ConfEntry \cup {None}
  BY DEF ConfTypes
<1>2. /\ g \in Seq(ConfVals) /\ Len(g) = Len(h) + 1 /\ g[Len(g)] = v /\ Len(h) \in Nat
      /\ \A i \in 1 .. Len(h) : g[i] = h[i] /\ h[i] \in ConfVals
  BY <1>1
<1>3. CASE e = None
  <2>1. Len(h) = 0
    BY <1>3 DEF VersionsKept
  <2>2. w = [val |-> v, version |-> 1, versions |-> << >>, encrypted |-> FALSE, gray |-> None]
    BY <1>3 DEF Cc!Put, Cc!Created
  <2>3. << >> \in Seq(ConfVersion) /\ Len(<< >>) = 0
    OBVIOUS
  <2>4. w \in ConfEntry /\ w.val = v
    BY <2>2, <2>3 DEF ConfEntry, ConfGray
  <2>5. EntryKept(w, g)
    <3> HIDE DEF g
    <3>1. w.version = 1 /\ w.versions = << >>
      BY <2>2
    <3> HIDE DEF w, h, e
    <3> QED BY <1>2, <2>1, <2>3, <2>4, <3>1 DEF EntryKept
  <2> QED BY <2>4, <2>5
<1>4. CASE e # None
  <2>1. e \in ConfEntry /\ EntryKept(e, h)
    BY <1>1, <1>4 DEF VersionsKept
  <2> DEFINE old == [version |-> e.version, val |-> e.val]
  <2>2. w = [e EXCEPT !.versions = Append(e.versions, old), !.val = v, !.version = e.version + 1]
    BY <1>4 DEF Cc!Put, Cc!Written
  <2>3. /\ e.versions \in Seq(ConfVersion) /\ old \in ConfVersion
        /\ e.version \in Nat
    BY <2>1 DEF ConfEntry, ConfVersion
  <2>4. /\ Append(e.versions, old) \in Seq(ConfVersion)
        /\ Len(Append(e.versions, old)) = Len(e.versions) + 1
        /\ Append(e.versions, old)[Len(e.versions) + 1] = old
        /\ \A i \in 1 .. Len(e.versions) : Append(e.versions, old)[i] = e.versions[i]
    BY <2>3, AppendProperties
  <2>5. /\ w \in ConfEntry /\ w.val = v /\ w.version = e.version + 1
        /\ w.versions = Append(e.versions, old)
    <3> DEFINE vs == Append(e.versions, old)
    <3>1. vs \in Seq(ConfVersion)
      BY <2>4
    <3>2. w = [e EXCEPT !.versions = vs, !.val = v, !.version = e.version + 1]
      BY <2>2
    <3> HIDE DEF vs, w, e
    <3>3. e.encrypted \in BOOLEAN /\ e.gray \in ConfGray /\ e.version + 1 \in Nat
      BY <2>1, <2>3 DEF ConfEntry
    <3>4. w = [val |-> v, version |-> e.version + 1, versions |-> vs, encrypted |-> e.encrypted, gray |-> e.gray]
      BY <2>1, <3>2 DEF ConfEntry
    <3>5. w \in ConfEntry
      BY <3>1, <3>3, <3>4 DEF ConfEntry
    <3> QED BY <3>4, <3>5 DEF vs
  <2>6. Len(e.versions) = Len(h) - 1 /\ e.version = Len(h) /\ Len(h) > 0 /\ e.val = h[Len(h)]
    BY <2>1 DEF EntryKept
  <2>7. \A i \in 1 .. Len(h) - 1 : e.versions[i] = [version |-> i, val |-> h[i]]
    BY <2>1 DEF EntryKept
  <2>8. old = [version |-> Len(h), val |-> h[Len(h)]]
    BY <2>6
  <2> HIDE DEF w, g, h, e, old
  <2>9. \A i \in 1 .. Len(g) - 1 : w.versions[i] = [version |-> i, val |-> g[i]]
    BY <1>2, <2>4, <2>5, <2>6, <2>7, <2>8
  <2> QED BY <1>2, <2>4, <2>5, <2>6, <2>9 DEF EntryKept, w, g
<1> QED BY <1>3, <1>4

\* cc_config_put, _put_encrypted and _rollback: the new version is kept and every subscriber is told of it.
LEMMA SetInv ==
    ASSUME ConfigConstants, ConfInv, NEW k \in ConfKeys, NEW e \in ConfEntry,
           EntryKept(e, Append(log[k], e.val)), Cc!Set(k, e)
    PROVE  ConfInv'
<1> USE DEF Cc!Set
<1>1. e # None /\ e.val \in ConfVals
  BY DEF ConfigConstants, ConfEntry
<1>2. loaded' = FALSE
  OBVIOUS
<1>3. \A l \in ConfKeys : conf'[l] = IF l = k THEN e ELSE conf[l]
  BY DEF ConfInv, ConfTypes
<1>4. \A l \in ConfKeys : log'[l] = IF l = k THEN Append(log[k], e.val) ELSE log[l]
  BY DEF ConfInv, ConfTypes
<1>5. \A c \in ConfClients, l \in ConfKeys :
         told'[c][l] = IF l = k /\ Subscribed(c, k) THEN e.val ELSE told[c][l]
  BY DEF ConfInv, ConfTypes, Cc!Notified, Subscribed
<1>6. told' \in [ConfClients -> [ConfKeys -> ConfVals \cup {None}]]
  <2>1. \A c \in ConfClients : told[c] \in [ConfKeys -> ConfVals \cup {None}]
    BY DEF ConfInv, ConfTypes
  <2>2. \A c \in ConfClients : [told[c] EXCEPT ![k] = e.val] \in [ConfKeys -> ConfVals \cup {None}]
    BY <1>1, <2>1
  <2> QED BY <2>1, <2>2 DEF Cc!Notified
<1>7. conf' \in [ConfKeys -> ConfEntry \cup {None}] /\ log' \in [ConfKeys -> Seq(ConfVals)]
  <2>1. Append(log[k], e.val) \in Seq(ConfVals)
    BY <1>1 DEF ConfInv, ConfTypes
  <2> QED BY <2>1 DEF ConfInv, ConfTypes
<1>8. ConfTypes'
  BY <1>2, <1>6, <1>7 DEF ConfInv, ConfTypes
<1>9. VersionsKept'
  BY <1>1, <1>3, <1>4 DEF ConfInv, VersionsKept
<1>10. SubscribersTold'
  <2>1. \A c \in ConfClients, l \in ConfKeys : Subscribed(c, l)' <=> Subscribed(c, l)
    BY DEF Subscribed
  <2> QED BY <1>3, <1>5, <2>1 DEF ConfInv, SubscribersTold
<1>11. SnapshotKept' /\ FileKept'
  BY <1>2 DEF ConfInv, SnapshotKept, FileKept
<1> QED BY <1>8, <1>9, <1>10, <1>11 DEF ConfInv

LEMMA WriteInv ==
    ASSUME ConfigConstants, ConfInv, NEW k \in ConfKeys, NEW v \in ConfValues,
           Cc!ConfigPut(k, v) \/ Cc!ConfigPutEncrypted(k, v)
    PROVE  ConfInv'
<1>1. v \in ConfVals /\ Enc[v] \in ConfVals
  BY DEF ConfVals
<1>2. CASE Cc!ConfigPut(k, v)
  <2> DEFINE w == Cc!Put(conf[k], v)
  <2>1. w \in ConfEntry /\ w.val = v /\ EntryKept(w, Append(log[k], v)) /\ Cc!Set(k, w)
    BY <1>1, <1>2, PutKept DEF ConfInv, Cc!ConfigPut
  <2> HIDE DEF w
  <2> QED BY <2>1, SetInv
<1>3. CASE Cc!ConfigPutEncrypted(k, v)
  <2> DEFINE w == Cc!Put(conf[k], Enc[v])  x == [w EXCEPT !.encrypted = TRUE]
  <2>1. w \in ConfEntry /\ w.val = Enc[v] /\ EntryKept(w, Append(log[k], Enc[v]))
    BY <1>1, PutKept DEF ConfInv
  <2>2. Cc!Set(k, x)
    BY <1>3 DEF Cc!ConfigPutEncrypted
  <2> HIDE DEF w
  <2>3. x \in ConfEntry /\ x.val = w.val /\ x.version = w.version /\ x.versions = w.versions
    BY <2>1 DEF ConfEntry
  <2> HIDE DEF x
  <2>4. EntryKept(x, Append(log[k], x.val))
    BY <2>1, <2>3 DEF EntryKept
  <2> QED BY <2>2, <2>3, <2>4, SetInv
<1> QED BY <1>2, <1>3

LEMMA RollbackInv ==
    ASSUME ConfigConstants, ConfInv, NEW k \in ConfKeys, conf[k] # None, NEW i, Cc!ConfigRollback(k, i)
    PROVE  ConfInv'
<1> DEFINE v == conf[k].versions[i]
<1>1. conf[k] \in ConfEntry
  BY DEF ConfInv, ConfTypes
<1>2. conf[k].versions \in Seq(ConfVersion)
  BY <1>1 DEF ConfEntry
<1>3. v \in ConfVersion
  <2>1. \A s \in Seq(ConfVersion) : \A n \in DOMAIN s : s[n] \in ConfVersion
    OBVIOUS
  <2> QED BY <1>2, <2>1 DEF Cc!ConfigRollback
<1>4. v.val \in ConfVals
  BY <1>3 DEF ConfVersion
<1> HIDE DEF v
<1> DEFINE w == Cc!Put(conf[k], v.val)
<1>5. w \in ConfEntry /\ w.val = v.val /\ EntryKept(w, Append(log[k], v.val))
  BY <1>4, PutKept DEF ConfInv
<1>6. Cc!Set(k, w)
  BY DEF Cc!ConfigRollback, Cc!Put, v
<1> HIDE DEF w
<1> QED BY <1>5, <1>6, SetInv

LEMMA DeleteInv == ASSUME ConfInv, NEW k \in ConfKeys, Cc!ConfigDelete(k) PROVE ConfInv'
<1> USE DEF Cc!ConfigDelete
<1>1. \A l \in ConfKeys : /\ conf'[l] = IF l = k THEN None ELSE conf[l]
                          /\ log'[l] = IF l = k THEN << >> ELSE log[l]
  BY DEF ConfInv, ConfTypes
<1>2. << >> \in Seq(ConfVals)
  OBVIOUS
<1>3. ConfTypes'
  BY <1>2 DEF ConfInv, ConfTypes
<1>4. VersionsKept'
  BY <1>1 DEF ConfInv, VersionsKept
<1>5. SubscribersTold'
  BY <1>1 DEF ConfInv, SubscribersTold, Subscribed
<1>6. SnapshotKept' /\ FileKept'
  BY DEF ConfInv, SnapshotKept, FileKept
<1> QED BY <1>3, <1>4, <1>5, <1>6 DEF ConfInv

\* cc_gray_release_set changes neither the value nor the versions.
LEMMA GrayInv == ASSUME ConfigConstants, ConfInv, NEW k \in ConfKeys, NEW v \in ConfValues, Cc!GrayReleaseSet(k, Ips, v) PROVE ConfInv'
<1> DEFINE e == conf[k]  g == [ips |-> Ips, val |-> v]  w == [e EXCEPT !.gray = g]
<1>1. e \in ConfEntry /\ e # None
  BY DEF Cc!GrayReleaseSet, ConfInv, ConfTypes
<1>2. g \in ConfGray
  BY DEF ConfGray
<1>3. conf' = [conf EXCEPT ![k] = w]
  BY DEF Cc!GrayReleaseSet
<1> HIDE DEF e, g
<1>4. w \in ConfEntry /\ w.val = e.val /\ w.version = e.version /\ w.versions = e.versions
  BY <1>1, <1>2 DEF ConfEntry
<1> HIDE DEF w
<1>5. w # None
  BY <1>4 DEF ConfigConstants
<1>6. \A l \in ConfKeys : conf'[l] = IF l = k THEN w ELSE conf[l]
  BY <1>3 DEF ConfInv, ConfTypes
<1>7. UNCHANGED <<subs, told, file, saved, torn, log>> /\ ~loaded' /\ loaded' \in BOOLEAN
  <2>1. loaded' = FALSE /\ UNCHANGED <<subs, told, file, saved, torn, log>>
    BY DEF Cc!GrayReleaseSet
  <2> QED BY <2>1
<1>8. ConfTypes'
  BY <1>3, <1>4, <1>7 DEF ConfInv, ConfTypes
<1>9. VersionsKept'
  <2>1. EntryKept(e, log[k])
    BY <1>1 DEF ConfInv, VersionsKept, e
  <2>2. EntryKept(w, log[k])
    BY <1>4, <2>1 DEF EntryKept
  <2> QED BY <1>5, <1>6, <1>7, <2>2 DEF ConfInv, VersionsKept
<1>10. SubscribersTold'
  BY <1>1, <1>4, <1>5, <1>6, <1>7 DEF ConfInv, SubscribersTold, Subscribed, e
<1>11. SnapshotKept' /\ FileKept'
  BY <1>7 DEF ConfInv, SnapshotKept, FileKept
<1> QED BY <1>8, <1>9, <1>10, <1>11 DEF ConfInv

\* cc_read_repair finds nothing to repair: no version is above the present one.
LEMMA RepairIdle == ASSUME ConfInv, NEW k \in ConfKeys, Cc!GetConsistent(k) PROVE UNCHANGED <<conf, subs, told, file, saved, torn, log, loaded>>
<1> DEFINE e == conf[k]
<1>1. e # None
  BY DEF Cc!GetConsistent
<1>2. EntryKept(e, log[k]) /\ Len(log[k]) \in Nat
  BY <1>1 DEF ConfInv, VersionsKept, ConfTypes
<1> HIDE DEF e
<1>3. \A i \in 1 .. Len(e.versions) : ~(e.versions[i].version > e.version)
  <2>1. Len(e.versions) = Len(log[k]) - 1 /\ e.version = Len(log[k])
    BY <1>2 DEF EntryKept
  <2>2. \A i \in 1 .. Len(log[k]) - 1 : e.versions[i] = [version |-> i, val |-> log[k][i]]
    BY <1>2 DEF EntryKept
  <2>3. ASSUME NEW i \in 1 .. Len(log[k]) - 1 PROVE e.versions[i].version = i
    <3>1. e.versions[i] = [version |-> i, val |-> log[k][i]]
      BY <2>2
    <3> QED BY <3>1
  <2> QED BY <1>2, <2>1, <2>3
<1>4. {i \in 1 .. Len(e.versions) : e.versions[i].version > e.version} = {}
  BY <1>3
<1>5. Cc!Repaired(e) = e
  BY <1>4 DEF Cc!Repaired, Cc!SelectInSeq
<1>6. conf' = [conf EXCEPT ![k] = conf[k]]
  BY <1>5 DEF Cc!GetConsistent, e
<1>7. conf' = conf
  BY <1>6 DEF ConfInv, ConfTypes
<1> QED BY <1>7 DEF Cc!GetConsistent

LEMMA SubscribeInv == ASSUME ConfInv, NEW c \in ConfClients, NEW ns \in Cc!Namespaces, Cc!Subscribe(c, ns) PROVE ConfInv'
<1> DEFINE s == [client |-> c, ns |-> ns]
<1>1. subs' = Append(subs, s) /\ UNCHANGED <<conf, file, saved, torn, log, loaded>>
  BY DEF Cc!Subscribe
<1>2. \A d \in ConfClients, k \in ConfKeys : told'[d][k] = IF d = c THEN None ELSE told[d][k]
  BY DEF Cc!Subscribe, ConfInv, ConfTypes
<1>3. told' \in [ConfClients -> [ConfKeys -> ConfVals \cup {None}]]
  BY DEF Cc!Subscribe, ConfInv, ConfTypes
<1>4. /\ Len(subs') = Len(subs) + 1 /\ DOMAIN subs' = 1 .. Len(subs') /\ DOMAIN subs = 1 .. Len(subs) /\ Len(subs) \in Nat
      /\ \A i \in 1 .. Len(subs) : subs'[i] = subs[i]
      /\ subs' \in Seq(ConfSub)
  <2>1. s \in ConfSub
    BY DEF ConfSub
  <2> HIDE DEF s
  <2> QED BY <1>1, <2>1 DEF ConfInv, ConfTypes
<1> HIDE DEF s
<1>5. ConfTypes'
  BY <1>1, <1>3, <1>4 DEF ConfInv, ConfTypes
<1>6. \A d \in ConfClients, k \in ConfKeys : Subscribed(d, k) => Subscribed(d, k)'
  BY <1>4 DEF Subscribed
<1>7. SubscribersTold'
  BY <1>1, <1>2, <1>6 DEF ConfInv, SubscribersTold
<1>8. VersionsKept' /\ SnapshotKept' /\ FileKept'
  BY <1>1 DEF ConfInv, VersionsKept, SnapshotKept, FileKept
<1> QED BY <1>5, <1>7, <1>8 DEF ConfInv

\* cc_unsubscribe: the others stay subscribed.
LEMMA UnsubscribeInv == ASSUME ConfInv, NEW ns, Cc!Unsubscribe(ns) PROVE ConfInv'
<1> DEFINE I == {i \in 1 .. Len(subs) : subs[i].ns = ns}
<1>1. subs \in Seq(ConfSub) /\ Len(subs) \in Nat /\ DOMAIN subs = 1 .. Len(subs)
  BY DEF ConfInv, ConfTypes
<1>2. PICK i : /\ i = (IF I # {} THEN Cc!Min(I) ELSE 0) /\ i # 0
               /\ subs' = SubSeq(subs, 1, i - 1) \o SubSeq(subs, i + 1, Len(subs))
               /\ told' = [told EXCEPT ![subs[i].client] = [k \in ConfKeys |-> None]]
               /\ UNCHANGED <<conf, file, saved, torn, log, loaded>>
  BY DEF Cc!Unsubscribe, Cc!SelectInSeq, Cc!RemoveAt
<1>3. i \in 1 .. Len(subs)
  <2>1. I \in SUBSET Nat /\ I # {} /\ i = Cc!Min(I)
    BY <1>1, <1>2
  <2>2. Cc!Min(I) = Min(I)
    BY DEF Cc!Min, Min
  <2>3. i \in I
    BY <2>1, <2>2, MinExists
  <2> QED BY <2>3
<1> HIDE DEF I
<1>4. /\ subs' \in Seq(ConfSub) /\ Len(subs') = Len(subs) - 1 /\ DOMAIN subs' = 1 .. Len(subs')
      /\ \A n \in 1 .. Len(subs) - 1 : subs'[n] = IF n < i THEN subs[n] ELSE subs[n + 1]
  BY <1>1, <1>2, <1>3, RemovedAt
<1>5. subs[i].client \in ConfClients
  <2>1. subs[i] \in ConfSub
    BY <1>1, <1>3
  <2> QED BY <2>1 DEF ConfSub
<1>6. \A d \in ConfClients, k \in ConfKeys : told'[d][k] = IF d = subs[i].client THEN None ELSE told[d][k]
  BY <1>2, <1>5 DEF ConfInv, ConfTypes
<1>7. told' \in [ConfClients -> [ConfKeys -> ConfVals \cup {None}]]
  BY <1>2, <1>5 DEF ConfInv, ConfTypes
<1>8. ConfTypes'
  BY <1>2, <1>4, <1>7 DEF ConfInv, ConfTypes
<1>9. ASSUME NEW d \in ConfClients, NEW k \in ConfKeys, Subscribed(d, k), d # subs[i].client PROVE Subscribed(d, k)'
  <2>1. PICK n \in DOMAIN subs : subs[n] = [client |-> d, ns |-> Ns[k]]
    BY <1>9 DEF Subscribed
  <2>2. n # i
    BY <1>9, <2>1
  <2>3. CASE n < i
    <3>1. n \in DOMAIN subs' /\ subs'[n] = subs[n]
      BY <1>1, <1>3, <1>4, <2>3
    <3> QED BY <2>1, <3>1 DEF Subscribed
  <2>4. CASE n > i
    <3>1. n - 1 \in DOMAIN subs' /\ subs'[n - 1] = subs[n]
      BY <1>1, <1>3, <1>4, <2>4
    <3> QED BY <2>1, <3>1 DEF Subscribed
  <2> QED BY <1>1, <1>3, <2>2, <2>3, <2>4
<1>10. SubscribersTold'
  BY <1>2, <1>6, <1>9 DEF ConfInv, SubscribersTold
<1>11. VersionsKept' /\ SnapshotKept' /\ FileKept'
  BY <1>2 DEF ConfInv, VersionsKept, SnapshotKept, FileKept
<1> QED BY <1>8, <1>10, <1>11 DEF ConfInv

\* cc_poll_update: only subscribers of the namespace are told, and of the present values.
LEMMA PollInv == ASSUME ConfInv, NEW ns, Cc!PollUpdate(ns) PROVE ConfInv'
<1> DEFINE Tells(c, k) == /\ \E i \in DOMAIN subs : subs[i].ns = ns /\ subs[i].client = c
                          /\ conf[k] # None /\ Ns[k] = ns
<1>1. UNCHANGED <<conf, subs, file, saved, torn, log, loaded>>
  BY DEF Cc!PollUpdate
<1>2. \A c \in ConfClients, k \in ConfKeys : told'[c][k] = IF Tells(c, k) THEN conf[k].val ELSE told[c][k]
  BY DEF Cc!PollUpdate, Cc!Present
<1>3. \A k \in ConfKeys : conf[k] # None => conf[k].val \in ConfVals
  BY DEF ConfInv, ConfTypes, ConfEntry
<1>4. told' \in [ConfClients -> [ConfKeys -> ConfVals \cup {None}]]
  BY <1>3 DEF Cc!PollUpdate, Cc!Present, ConfInv, ConfTypes
<1>5. ConfTypes'
  BY <1>1, <1>4 DEF ConfInv, ConfTypes
<1>6. \A c \in ConfClients, k \in ConfKeys : Tells(c, k) => Subscribed(c, k)
  <2> SUFFICES ASSUME NEW c \in ConfClients, NEW k \in ConfKeys, Tells(c, k) PROVE Subscribed(c, k)
    OBVIOUS
  <2>1. PICK i \in DOMAIN subs : subs[i].ns = ns /\ subs[i].client = c
    OBVIOUS
  <2>2. subs[i] \in ConfSub
    BY DEF ConfInv, ConfTypes
  <2>3. subs[i] = [client |-> c, ns |-> Ns[k]]
    BY <2>1, <2>2 DEF ConfSub
  <2> QED BY <2>3 DEF Subscribed
<1> HIDE DEF Tells
<1>7. SubscribersTold'
  <2>1. \A c \in ConfClients, k \in ConfKeys : Subscribed(c, k)' <=> Subscribed(c, k)
    BY <1>1 DEF Subscribed
  <2> QED BY <1>1, <1>2, <1>6, <2>1 DEF ConfInv, SubscribersTold
<1>8. VersionsKept' /\ SnapshotKept' /\ FileKept'
  BY <1>1 DEF ConfInv, VersionsKept, SnapshotKept, FileKept
<1> QED BY <1>5, <1>7, <1>8 DEF ConfInv

\* The records of some entries: at most one for each, with its value.
LEMMA RecordsOf ==
    ASSUME ConfTypes, NEW S \in SUBSET Cc!Present
    PROVE  /\ Cc!Records(S) \in SUBSET ConfRecord
           /\ \A r, s \in Cc!Records(S) : r.key = s.key => r = s
           /\ \A r \in Cc!Records(S) : r.key \in S /\ conf[r.key].val = r.val
           /\ \A k \in S : \E r \in Cc!Records(S) : r.key = k
<1> DEFINE R(k) == [key |-> k, version |-> conf[k].version, val |-> conf[k].val]
<1>1. Cc!Records(S) = {R(k) : k \in S}
  BY DEF Cc!Records
<1>2. ASSUME NEW k \in S PROVE R(k) \in ConfRecord /\ R(k).key = k /\ R(k).val = conf[k].val
  <2>1. conf[k] \in ConfEntry
    BY DEF ConfTypes, Cc!Present
  <2>2. conf[k].version \in Nat /\ conf[k].val \in ConfVals
    BY <2>1 DEF ConfEntry
  <2> QED BY <2>2 DEF ConfRecord, Cc!Present
<1> HIDE DEF R
<1> QED BY <1>1, <1>2

\* cc_snapshot_save: one record for each entry.
LEMMA SaveInv == ASSUME ConfInv, Cc!SnapshotSave PROVE ConfInv'
<1> DEFINE A == Cc!Records(Cc!Present)
<1>1. file' = A /\ saved' = A /\ UNCHANGED <<conf, subs, told, log, loaded>>
  BY DEF Cc!SnapshotSave
<1>2. ~torn' /\ torn' \in BOOLEAN
  BY Zenon DEF Cc!SnapshotSave
<1>3. /\ A \in SUBSET ConfRecord /\ \A r, s \in A : r.key = s.key => r = s
      /\ \A r \in A : r.key \in Cc!Present /\ conf[r.key].val = r.val
      /\ \A k \in Cc!Present : \E r \in A : r.key = k
  BY RecordsOf DEF ConfInv
<1> HIDE DEF A
<1>4. \A k \in ConfKeys : k \in Cc!Present <=> conf[k] # None
  BY DEF Cc!Present
<1>5. Cc!Present \in SUBSET ConfKeys
  BY DEF Cc!Present
<1>6. SnapshotKept'
  BY <1>1, <1>3, <1>4, <1>5 DEF SnapshotKept
<1>7. ConfTypes' /\ VersionsKept'
  BY <1>1 DEF ConfInv, ConfTypes, VersionsKept
<1>8. SubscribersTold'
  BY <1>1 DEF ConfInv, SubscribersTold, Subscribed
<1>9. FileKept'
  BY <1>1, <1>2 DEF FileKept
<1> QED BY <1>6, <1>7, <1>8, <1>9 DEF ConfInv

\* The next process starts empty.
LEMMA EmptyInv == ASSUME Cc!Empty PROVE ConfTypes' /\ VersionsKept' /\ SubscribersTold' /\ ~loaded'
<1>1. /\ conf' = [k \in ConfKeys |-> None] /\ log' = [k \in ConfKeys |-> << >>] /\ subs' = << >>
      /\ told' = [c \in ConfClients |-> [k \in ConfKeys |-> None]]
  BY DEF Cc!Empty
<1>2. ~loaded' /\ loaded' \in BOOLEAN
  BY Zenon DEF Cc!Empty
<1>3. ConfTypes'
  BY <1>1, <1>2 DEF ConfTypes
<1>4. VersionsKept' /\ SubscribersTold'
  BY <1>1 DEF VersionsKept, SubscribersTold
<1> QED BY <1>2, <1>3, <1>4

\* The snapshot survives the process.
LEMMA RestartInv == ASSUME ConfInv, Cc!Restart PROVE ConfInv'
<1>1. ConfTypes' /\ VersionsKept' /\ SubscribersTold' /\ ~loaded'
  BY EmptyInv DEF Cc!Restart
<1>2. UNCHANGED <<file, saved, torn>>
  BY DEF Cc!Restart
<1>3. SnapshotKept' /\ FileKept'
  BY <1>1, <1>2 DEF ConfInv, SnapshotKept, FileKept
<1> QED BY <1>1, <1>3 DEF ConfInv

\* Of a save cut off some records are in the file, and one may be cut short.
LEMMA CrashInv ==
    ASSUME ConfInv, NEW whole \in SUBSET Cc!Present, NEW cut \in SUBSET (Cc!Present \ whole),
           \A k, l \in cut : k = l, Cc!CrashInSave(whole, cut)
    PROVE  ConfInv'
<1> DEFINE A == Cc!Records(Cc!Present)  W == Cc!Records(whole)  C == Cc!Records(cut)
           t(x) == [x EXCEPT !.val = Torn]
<1>1. ConfTypes' /\ VersionsKept' /\ SubscribersTold' /\ ~loaded'
  BY EmptyInv DEF Cc!CrashInSave
<1>2. file' = W \cup {t(x) : x \in C} /\ saved' = A
  BY DEF Cc!CrashInSave, Cc!Fragment
<1>3. torn' /\ torn' \in BOOLEAN
  BY Zenon DEF Cc!CrashInSave
<1>4. cut \in SUBSET Cc!Present
  OBVIOUS
<1>5. /\ W \in SUBSET ConfRecord /\ \A r, s \in W : r.key = s.key => r = s
      /\ \A r \in W : r.key \in whole
  BY RecordsOf DEF ConfInv
<1>6. /\ C \in SUBSET ConfRecord /\ \A r, s \in C : r.key = s.key => r = s
      /\ \A r \in C : r.key \in cut
  BY <1>4, RecordsOf DEF ConfInv
<1>7. W \in SUBSET A /\ C \in SUBSET A
  BY <1>4 DEF Cc!Records
<1>8. \A x \in C : t(x) \in ConfRecord /\ t(x).key = x.key /\ t(x).val = Torn
  BY <1>6 DEF ConfRecord, ConfVals
<1> HIDE DEF A, W, C, t
<1>9. \A x, y \in C : x = y
  BY <1>6
<1>10. \A r \in file' : r \in W \/ \E x \in C : r = t(x)
  BY <1>2
<1>11. file' \in SUBSET ConfRecord /\ \A r, s \in file' : r.key = s.key => r = s
  BY <1>5, <1>6, <1>8, <1>9, <1>10
<1>12. SnapshotKept'
  BY <1>1, <1>11 DEF SnapshotKept
<1>13. FileKept'
  <2>1. \A r \in file' \ saved' : \E x \in C : r = t(x)
    BY <1>2, <1>7, <1>10
  <2>2. \A r \in file' \ saved' : r.val = Torn /\ \E y \in saved' : y.key = r.key
    BY <1>2, <1>7, <1>8, <2>1
  <2>3. \A r, s \in file' \ saved' : r = s
    BY <1>9, <2>1
  <2> QED BY <1>3, <2>2, <2>3 DEF FileKept
<1> QED BY <1>1, <1>12, <1>13 DEF ConfInv

\* cc_snapshot_load: every restored key gets a version more, and its subscribers are told.
LEMMA LoadInv == ASSUME ConfigConstants, ConfInv, Cc!SnapshotLoad PROVE ConfInv'
<1> DEFINE R(k) == Cc!Restores(k)  w(k) == Cc!Put(conf[k], Cc!Record(k).val)  g(k) == Append(log[k], Cc!Record(k).val)
<1>1. file \in SUBSET ConfRecord /\ \A r, s \in file : r.key = s.key => r = s
  BY DEF Cc!SnapshotLoad, ConfInv, SnapshotKept
<1>2. /\ conf' = [k \in ConfKeys |-> IF R(k) THEN w(k) ELSE conf[k]]
      /\ log' = [k \in ConfKeys |-> IF R(k) THEN g(k) ELSE log[k]]
      /\ UNCHANGED <<subs, file, saved, torn>>
  BY DEF Cc!SnapshotLoad
<1>3. ASSUME NEW k \in ConfKeys, NEW r \in file, r.key = k PROVE Cc!Record(k) = r
  BY <1>1, <1>3 DEF Cc!Record
<1>4. \A k \in ConfKeys : R(k) => \E r \in file : r.key = k
  BY DEF Cc!Restores
<1>5. ASSUME NEW k \in ConfKeys, R(k)
      PROVE  /\ Cc!Record(k) \in file /\ Cc!Record(k).val \in ConfVals
             /\ w(k) \in ConfEntry /\ w(k) # None /\ w(k).val = Cc!Record(k).val
             /\ EntryKept(w(k), g(k)) /\ g(k) \in Seq(ConfVals)
  <2>1. PICK r \in file : r.key = k
    BY <1>4, <1>5
  <2>2. Cc!Record(k) = r
    BY <1>3, <2>1
  <2>3. r \in file /\ r.val \in ConfVals
    BY <1>1 DEF ConfRecord
  <2>4. w(k) \in ConfEntry /\ w(k).val = r.val /\ EntryKept(w(k), g(k))
    BY <2>2, <2>3, PutKept DEF ConfInv
  <2>5. g(k) \in Seq(ConfVals)
    BY <2>2, <2>3 DEF ConfInv, ConfTypes
  <2> HIDE DEF w, g
  <2> QED BY <2>2, <2>3, <2>4, <2>5 DEF ConfigConstants
<1>6. \A c \in ConfClients, k \in ConfKeys :
         told'[c][k] = IF R(k) /\ Subscribed(c, k) THEN Cc!Record(k).val ELSE told[c][k]
  <2>1. ASSUME NEW c \in ConfClients, NEW k \in ConfKeys
        PROVE  Cc!Notified(told, k, Cc!Record(k).val)[c][k] = IF Subscribed(c, k) THEN Cc!Record(k).val ELSE told[c][k]
    BY DEF Cc!Notified, Subscribed, ConfInv, ConfTypes
  <2>2. told' = [c \in ConfClients |-> [k \in ConfKeys |-> IF R(k) THEN Cc!Notified(told, k, Cc!Record(k).val)[c][k] ELSE told[c][k]]]
    BY DEF Cc!SnapshotLoad
  <2> HIDE DEF R
  <2> QED BY <2>1, <2>2
<1>7. told' \in [ConfClients -> [ConfKeys -> ConfVals \cup {None}]]
  <2>1. \E f : told' = [c \in ConfClients |-> [k \in ConfKeys |-> f[c][k]]]
    <3> DEFINE f == [c \in ConfClients |-> [k \in ConfKeys |-> IF R(k) THEN Cc!Notified(told, k, Cc!Record(k).val)[c][k] ELSE told[c][k]]]
    <3>1. told' = [c \in ConfClients |-> [k \in ConfKeys |-> f[c][k]]]
      BY DEF Cc!SnapshotLoad
    <3> QED BY <3>1
  <2>2. \A c \in ConfClients, k \in ConfKeys : told'[c][k] \in ConfVals \cup {None}
    BY <1>5, <1>6 DEF ConfInv, ConfTypes
  <2> QED BY <2>1, <2>2
<1>8. loaded' = (Cc!Present = {})
  BY DEF Cc!SnapshotLoad
<1> HIDE DEF R, w, g
<1>9. ConfTypes'
  <2>1. conf' \in [ConfKeys -> ConfEntry \cup {None}] /\ log' \in [ConfKeys -> Seq(ConfVals)]
    BY <1>2, <1>5 DEF ConfInv, ConfTypes
  <2>2. loaded' \in BOOLEAN
    BY <1>8
  <2> QED BY <1>2, <1>7, <2>1, <2>2 DEF ConfInv, ConfTypes
<1>10. VersionsKept'
  BY <1>2, <1>5 DEF ConfInv, VersionsKept
<1>11. SubscribersTold'
  <2>1. \A c \in ConfClients, k \in ConfKeys : Subscribed(c, k)' <=> Subscribed(c, k)
    BY <1>2 DEF Subscribed
  <2> QED BY <1>2, <1>5, <1>6, <2>1 DEF ConfInv, SubscribersTold
<1>12. SnapshotKept'
  <2>1. SUFFICES ASSUME loaded'
        PROVE  /\ \A r \in file : r.key \in ConfKeys /\ conf'[r.key] # None /\ conf'[r.key].val = r.val
               /\ \A k \in ConfKeys : conf'[k] # None => \E r \in file : r.key = k
    BY <1>1, <1>2 DEF SnapshotKept
  <2>2. \A k \in ConfKeys : conf[k] = None
    BY <1>8, <2>1 DEF Cc!Present
  <2>3. ASSUME NEW r \in file PROVE r.key \in ConfKeys /\ conf'[r.key] # None /\ conf'[r.key].val = r.val
    <3>1. r.key \in ConfKeys
      BY <1>1 DEF ConfRecord
    <3>2. R(r.key)
      BY <2>2, <3>1 DEF R, Cc!Restores
    <3> QED BY <1>2, <1>3, <1>5, <3>1, <3>2
  <2>4. \A k \in ConfKeys : conf'[k] # None => \E r \in file : r.key = k
    BY <1>2, <1>4, <2>2 DEF R
  <2> QED BY <2>3, <2>4
<1>13. FileKept'
  BY <1>2 DEF ConfInv, FileKept
<1> QED BY <1>9, <1>10, <1>11, <1>12, <1>13 DEF ConfInv

LEMMA ConfNext == ASSUME ConfigConstants, ConfInv, [Cc!Next]_(Cc!vars) PROVE ConfInv'
<1>1. CASE UNCHANGED Cc!vars
  <2>1. UNCHANGED <<conf, subs, told, file, saved, torn, log, loaded>>
    BY <1>1 DEF Cc!vars
  <2> QED BY <2>1, ConfStutter
<1>2. ASSUME NEW k \in ConfKeys, NEW v \in ConfValues, Cc!ConfigPut(k, v) \/ Cc!ConfigPutEncrypted(k, v) PROVE ConfInv'
  BY <1>2, WriteInv
<1>3. ASSUME NEW k \in ConfKeys, NEW v \in ConfValues, Cc!GrayReleaseSet(k, Ips, v) PROVE ConfInv'
  BY <1>3, GrayInv
<1>4. ASSUME NEW k \in Cc!Present, Cc!ConfigDelete(k) PROVE ConfInv'
  BY <1>4, DeleteInv DEF Cc!Present
<1>5. ASSUME NEW k \in Cc!Present, Cc!GetConsistent(k) PROVE ConfInv'
  BY <1>5, RepairIdle, ConfStutter DEF Cc!Present
<1>6. ASSUME NEW k \in Cc!Present, NEW i, Cc!ConfigRollback(k, i) PROVE ConfInv'
  BY <1>6, RollbackInv DEF Cc!Present
<1>7. ASSUME NEW c \in ConfClients, NEW ns \in Cc!Namespaces, Cc!Subscribe(c, ns) PROVE ConfInv'
  BY <1>7, SubscribeInv
<1>8. ASSUME NEW ns, Cc!Unsubscribe(ns) PROVE ConfInv'
  BY <1>8, UnsubscribeInv
<1>9. ASSUME NEW ns, Cc!PollUpdate(ns) PROVE ConfInv'
  BY <1>9, PollInv
<1>10. CASE Cc!SnapshotSave
  BY <1>10, SaveInv
<1>11. CASE Cc!Restart
  BY <1>11, RestartInv
<1>12. CASE Cc!SnapshotLoad
  BY <1>12, LoadInv
<1>13. ASSUME NEW whole \in SUBSET Cc!Present, Cc!CrashInSave(whole, {}) PROVE ConfInv'
  BY <1>13, CrashInv
<1>14. ASSUME NEW whole \in SUBSET Cc!Present, NEW k \in Cc!Present \ whole, Cc!CrashInSave(whole, {k}) PROVE ConfInv'
  <2>1. {k} \in SUBSET (Cc!Present \ whole) /\ \A a, b \in {k} : a = b
    OBVIOUS
  <2> QED BY <1>14, <2>1, CrashInv
<1> QED BY <1>1, <1>2, <1>3, <1>4, <1>5, <1>6, <1>7, <1>8, <1>9, <1>10, <1>11, <1>12, <1>13, <1>14 DEF Cc!Next

\* cc_config_get_version finds what was written as version n.
LEMMA VersionRead ==
    ASSUME ConfInv, NEW k \in ConfKeys, conf[k] # None, NEW n \in DOMAIN log[k]
    PROVE  Cc!GetVersion(k, n) = log[k][n]
<1> DEFINE e == conf[k]  h == log[k]  I == {i \in 1 .. Len(e.versions) : e.versions[i].version = n}
<1>1. EntryKept(e, h) /\ Len(h) \in Nat /\ n \in 1 .. Len(h)
  BY DEF ConfInv, VersionsKept, ConfTypes
<1> HIDE DEF e, h
<1>2. CASE n = Len(h)
  <2>1. e.version = n /\ e.val = h[n]
    BY <1>1, <1>2 DEF EntryKept
  <2> QED BY <2>1 DEF Cc!GetVersion, e, h
<1>3. CASE n # Len(h)
  <2>1. Len(e.versions) = Len(h) - 1 /\ e.version = Len(h)
    BY <1>1 DEF EntryKept
  <2>2. \A i \in 1 .. Len(h) - 1 : e.versions[i] = [version |-> i, val |-> h[i]]
    BY <1>1 DEF EntryKept
  <2>3. ASSUME NEW i \in 1 .. Len(h) - 1 PROVE e.versions[i].version = i /\ e.versions[i].val = h[i]
    <3>1. e.versions[i] = [version |-> i, val |-> h[i]]
      BY <2>2
    <3> QED BY <3>1
  <2>4. n \in 1 .. Len(h) - 1 /\ n # 0
    BY <1>1, <1>3
  <2>5. I = {n}
    BY <2>1, <2>3, <2>4
  <2>6. Cc!Min(I) = n
    BY <2>4, <2>5 DEF Cc!Min
  <2>7. e.version # n
    BY <1>3, <2>1
  <2>8. I # {}
    BY <2>5
  <2>9. Cc!GetVersion(k, n) = e.versions[n].val
    BY <2>4, <2>6, <2>7, <2>8 DEF Cc!GetVersion, Cc!SelectInSeq, e
  <2> QED BY <2>3, <2>4, <2>9 DEF h
<1> QED BY <1>2, <1>3

LEMMA ConfInvSound == ASSUME ConfInv PROVE ConfigSound
<1>1. ASSUME NEW k \in Cc!Present
      PROVE  /\ conf[k].version = Len(log[k])
             /\ \A n \in DOMAIN log[k] : Cc!GetVersion(k, n) = log[k][n]
             /\ \A c \in ConfClients : told[c][k] \in {None, conf[k].val}
  <2>1. k \in ConfKeys /\ conf[k] # None
    BY DEF Cc!Present
  <2>2. EntryKept(conf[k], log[k])
    BY <2>1 DEF ConfInv, VersionsKept
  <2>3. \A n \in DOMAIN log[k] : Cc!GetVersion(k, n) = log[k][n]
    BY <2>1, VersionRead
  <2>4. \A c \in ConfClients : told[c][k] \in {None, conf[k].val}
    BY <2>1 DEF ConfInv, SubscribersTold
  <2> QED BY <2>2, <2>3, <2>4 DEF EntryKept
<1> DEFINE Q(x) == [key |-> x.key, val |-> x.val]
<1>2. Cc!Restored = {Q(r) : r \in Cc!Records(Cc!Present)} /\ Cc!Pairs(saved) = {Q(r) : r \in saved}
  BY DEF Cc!Restored, Cc!Pairs
<1>3. \A x, y : Q(x) = Q(y) <=> x.key = y.key /\ x.val = y.val
  OBVIOUS
<1>4. \A x : Q(x).key = x.key /\ Q(x).val = x.val
  OBVIOUS
<1> HIDE DEF Q
<1>5. ASSUME loaded PROVE Cc!Restored = {Q(r) : r \in file}
  <2>1. /\ \A r \in file : r.key \in Cc!Present /\ conf[r.key].val = r.val
        /\ \A k \in Cc!Present : \E r \in file : r.key = k
    BY <1>5 DEF ConfInv, SnapshotKept, Cc!Present
  <2>2. /\ \A r \in Cc!Records(Cc!Present) : r.key \in Cc!Present /\ conf[r.key].val = r.val
        /\ \A k \in Cc!Present : \E r \in Cc!Records(Cc!Present) : r.key = k
    BY RecordsOf DEF ConfInv
  <2>3. \A r \in Cc!Records(Cc!Present) : \E s \in file : Q(r) = Q(s)
    BY <1>3, <2>1, <2>2
  <2>4. \A s \in file : \E r \in Cc!Records(Cc!Present) : Q(r) = Q(s)
    BY <1>3, <2>1, <2>2
  <2> QED BY <1>2, <2>1, <2>3, <2>4
<1>6. ASSUME loaded, ~torn PROVE Cc!Restored = Cc!Pairs(saved)
  BY <1>2, <1>5, <1>6 DEF ConfInv, FileKept
<1>7. ASSUME loaded, torn
      PROVE  /\ \A x \in Cc!Restored \ Cc!Pairs(saved) : x.val = Torn /\ \E y \in saved : y.key = x.key
             /\ \A x, y \in Cc!Restored \ Cc!Pairs(saved) : x = y
  <2>1. \A x \in Cc!Restored \ Cc!Pairs(saved) : \E r \in file \ saved : x = Q(r)
    BY <1>2, <1>5, <1>7
  <2>2. /\ \A r \in file \ saved : r.val = Torn /\ \E y \in saved : y.key = r.key
        /\ \A r, s \in file \ saved : r = s
    BY <1>5, <1>7 DEF ConfInv, FileKept
  <2> QED BY <1>4, <2>1, <2>2
<1> QED BY <1>1, <1>6, <1>7 DEF ConfigSound, Cc!ConfigSound

\* For any keys, values, namespaces and clients: every version of an entry can be read
\* as it was written, rollbacks and restores included; a subscriber that was told of an
\* entry knows its present value; and what is loaded into an empty centre is what the
\* last save was given, or, if the process ended inside that save, nothing but entries
\* of it, at most one with its value cut short (cc_snapshot_save, cc_snapshot_load).
THEOREM ConfigIsSound == ASSUME ConfigConstants PROVE Cc!Spec => []ConfigSound
<1>1. Cc!Spec => []ConfInv
  BY ConfInit, ConfNext, PTL DEF Cc!Spec
<1> QED BY <1>1, ConfInvSound, PTL

-----------------------------------------------------------------------------
(* Orders and events                                                       *)

Order == [id : Nat, version : Nat, status : {"DRAFT", "PLACED", "SHIPPED", "CANCELLED"}, buf : Nat, count : Nat,
          capacity : Nat, total : Nat, own : BOOLEAN]
Buffer == [live : BOOLEAN, lines : Seq(Products)]

\* The absence of an order is no order.
OrdersConstants == FirstCapacity \in Nat /\ None \notin Order

\* An order that owns its buffer: it is live and has the order's lines; a placed order's total is their number.
Owns(a) ==
    /\ a.buf \in 1 .. Len(heap) /\ heap[a.buf].live /\ a.count <= Len(heap[a.buf].lines)
    /\ a.status \in {"PLACED", "SHIPPED"} => a.total = a.count /\ a.total > 0
\* The caller's order h is its own, not a copy that a find returned.
Mine(h) == held[h] # None /\ held[h].own

OrderTypes == held \in [Handles -> Order \cup {None}] /\ repo \in Seq(Order) /\ heap \in Seq(Buffer)
OwnersOwn ==
    /\ \A h \in Handles : Mine(h) => Owns(held[h])
    /\ \A i \in 1 .. Len(repo) : Owns(repo[i])
OneOwner ==
    /\ \A h, g \in Handles : Mine(h) /\ Mine(g) /\ held[h].buf = held[g].buf => h = g
    /\ \A i, k \in 1 .. Len(repo) : repo[i].buf = repo[k].buf => i = k
    /\ \A h \in Handles, i \in 1 .. Len(repo) : Mine(h) => held[h].buf # repo[i].buf
NoLeak ==
    \A b \in 1 .. Len(heap) : heap[b].live => (\E h \in Handles : Mine(h) /\ held[h].buf = b) \/ (\E i \in 1 .. Len(repo) : repo[i].buf = b)
OwnedInv == OrderTypes /\ OwnersOwn /\ OneOwner /\ NoLeak

\* Numbers are given in the order of the events, and none is left out.
EventsInv ==
    /\ DOMAIN store = {"sequence", "handlers", "view"}
    /\ store.sequence \in Nat
    /\ events \in Seq([type : Types, number : Nat])
    /\ \A i \in 1 .. Len(events) : events[i].number <= store.sequence
    /\ \A n \in 1 .. store.sequence : \E i \in 1 .. Len(events) : events[i].number = n
    /\ \A i, k \in 1 .. Len(events) : i < k /\ events[i].number > 0 /\ events[k].number > 0 => events[i].number < events[k].number

LEMMA EventsInit == Or!Init => EventsInv
<1> SUFFICES ASSUME Or!Init PROVE EventsInv
  OBVIOUS
<1>1. store.sequence = 0 /\ events = << >> /\ DOMAIN store = {"sequence", "handlers", "view"}
  BY DEF Or!Init
<1>2. events \in Seq([type : Types, number : Nat]) /\ Len(events) = 0
  BY <1>1
<1> QED BY <1>1, <1>2 DEF EventsInv

\* command_bus_dispatch and event_store_append
LEMMA DispatchInv ==
    ASSUME EventsInv, NEW t \in Types, NEW ok \in BOOLEAN, NEW n \in 0 .. 2, Or!DispatchCommand(t, ok, n)
    PROVE  EventsInv'
<1> DEFINE E == [type : Types, number : Nat]  N == Len(events)  q == store.sequence
           num(i) == IF ok THEN q + i ELSE 0
           made == [i \in 1 .. n |-> [type |-> t, number |-> num(i)]]
<1>1. events \in Seq(E) /\ N \in Nat /\ q \in Nat /\ n \in Nat
  BY DEF EventsInv
<1>2. events' = events \o made /\ store'.sequence = (IF ok THEN q + n ELSE q) /\ DOMAIN store' = DOMAIN store
  BY DEF Or!DispatchCommand, EventsInv
<1>3. made \in Seq(E) /\ Len(made) = n /\ \A i \in 1 .. n : made[i].number = num(i)
  <2>1. \A i \in 1 .. n : num(i) \in Nat
    BY <1>1
  <2>2. \A i \in 1 .. n : [type |-> t, number |-> num(i)] \in E
    BY <2>1
  <2>3. made \in Seq(E) /\ Len(made) = n
    <3> HIDE DEF E, num
    <3> QED BY <1>1, <2>2, IsASeq
  <2> HIDE DEF num
  <2> QED BY <2>3
<1> HIDE DEF made, E, N, q
<1>4. events' \in Seq(E) /\ Len(events') = N + n /\ \A i \in 1 .. N + n : events'[i] = IF i <= N THEN events[i] ELSE made[i - N]
  <2>1. events \o made \in Seq(E) /\ Len(events \o made) = Len(events) + Len(made)
        /\ \A i \in 1 .. Len(events) + Len(made) : (events \o made)[i] = IF i <= Len(events) THEN events[i] ELSE made[i - Len(events)]
    BY <1>1, <1>3, ConcatProperties
  <2> QED BY <1>2, <1>3, <2>1 DEF N
<1>5. \A i \in 1 .. N : events[i].number \in Nat /\ events[i].number <= q
  <2>1. \A i \in 1 .. N : events[i] \in E
    BY <1>1 DEF N
  <2> QED BY <2>1 DEF EventsInv, E, N, q
<1>6. \A i \in 1 .. N : events'[i] = events[i]
  BY <1>1, <1>4
<1>7. \A i \in N + 1 .. N + n : events'[i].number = num(i - N)
  <2> SUFFICES ASSUME NEW i \in N + 1 .. N + n PROVE events'[i].number = num(i - N)
    OBVIOUS
  <2>1. i \in 1 .. N + n /\ ~(i <= N) /\ i - N \in 1 .. n
    BY <1>1
  <2>2. events'[i] = made[i - N]
    BY <1>4, <2>1
  <2> QED BY <1>3, <2>1, <2>2
<1> DEFINE p == store'.sequence
<1>8. CASE ok
  <2>1. p = q + n /\ \A i \in N + 1 .. N + n : events'[i].number = q + (i - N)
    BY <1>2, <1>7, <1>8
  <2> HIDE DEF num, p
  <2>2. \A i \in 1 .. N + n : events'[i].number <= p
    <3> SUFFICES ASSUME NEW i \in 1 .. N + n PROVE events'[i].number <= p
      OBVIOUS
    <3>1. CASE i <= N
      <4>1. events'[i].number \in Nat /\ events'[i].number <= q
        BY <1>1, <1>5, <1>6, <3>1
      <4> QED BY <1>1, <2>1, <4>1
    <3>2. CASE ~(i <= N)
      <4>1. i \in N + 1 .. N + n
        BY <1>1, <3>2
      <4> QED BY <1>1, <2>1, <4>1
    <3> QED BY <3>1, <3>2
  <2>3. ASSUME NEW m \in 1 .. p PROVE \E i \in 1 .. N + n : events'[i].number = m
    <3>1. CASE m <= q
      <4>1. PICK i \in 1 .. N : events[i].number = m
        BY <1>1, <2>1, <3>1 DEF EventsInv, N, q
      <4>2. i \in 1 .. N + n
        BY <1>1
      <4> QED BY <1>6, <4>1, <4>2
    <3>2. CASE ~(m <= q)
      <4>1. N + (m - q) \in N + 1 .. N + n /\ q + ((N + (m - q)) - N) = m /\ N + (m - q) \in 1 .. N + n
        BY <1>1, <2>1, <3>2
      <4> QED BY <2>1, <4>1
    <3> QED BY <3>1, <3>2
  <2>4. ASSUME NEW i \in 1 .. N + n, NEW k \in 1 .. N + n, i < k, events'[i].number > 0, events'[k].number > 0
        PROVE  events'[i].number < events'[k].number
    <3>1. CASE k <= N
      <4>1. i \in 1 .. N /\ k \in 1 .. N
        BY <1>1, <2>4, <3>1
      <4> QED BY <1>6, <2>4, <4>1 DEF EventsInv, N
    <3>2. CASE i <= N /\ ~(k <= N)
      <4>1. i \in 1 .. N /\ k \in N + 1 .. N + n
        BY <1>1, <3>2
      <4>2. events'[i].number \in Nat /\ events'[i].number <= q /\ events'[k].number = q + (k - N)
        BY <1>5, <1>6, <2>1, <4>1
      <4> QED BY <1>1, <4>1, <4>2
    <3>3. CASE ~(i <= N)
      <4>1. i \in N + 1 .. N + n /\ k \in N + 1 .. N + n
        BY <1>1, <2>4, <3>3
      <4>2. events'[i].number = q + (i - N) /\ events'[k].number = q + (k - N)
        BY <2>1, <4>1
      <4> QED BY <1>1, <2>4, <4>1, <4>2
    <3> QED BY <1>1, <2>4, <3>1, <3>2, <3>3
  <2>5. p \in Nat
    BY <1>1, <2>1
  <2> QED BY <1>2, <1>4, <2>2, <2>3, <2>4, <2>5 DEF EventsInv, E, p
<1>9. CASE ~ok
  <2>1. p = q /\ \A i \in N + 1 .. N + n : events'[i].number = 0
    BY <1>2, <1>7, <1>9
  <2> HIDE DEF num, p
  <2>2. ASSUME NEW i \in 1 .. N + n PROVE events'[i].number = IF i <= N THEN events[i].number ELSE 0
    <3>1. CASE i <= N
      BY <1>1, <1>6, <3>1
    <3>2. CASE ~(i <= N)
      <4>1. i \in N + 1 .. N + n
        BY <1>1, <3>2
      <4> QED BY <2>1, <3>2, <4>1
    <3> QED BY <3>1, <3>2
  <2>3. \A i \in 1 .. N + n : events'[i].number <= p
    <3> SUFFICES ASSUME NEW i \in 1 .. N + n PROVE events'[i].number <= p
      OBVIOUS
    <3>1. CASE i <= N
      BY <1>1, <1>5, <2>1, <2>2, <3>1
    <3>2. CASE ~(i <= N)
      BY <1>1, <2>1, <2>2, <3>2
    <3> QED BY <3>1, <3>2
  <2>4. ASSUME NEW m \in 1 .. p PROVE \E i \in 1 .. N + n : events'[i].number = m
    <3>1. PICK i \in 1 .. N : events[i].number = m
      BY <2>1 DEF EventsInv, N, q
    <3>2. i \in 1 .. N + n
      BY <1>1
    <3> QED BY <1>6, <3>1, <3>2
  <2>5. ASSUME NEW i \in 1 .. N + n, NEW k \in 1 .. N + n, i < k, events'[i].number > 0, events'[k].number > 0
        PROVE  events'[i].number < events'[k].number
    <3>1. i <= N /\ k <= N
      BY <2>2, <2>5
    <3>2. i \in 1 .. N /\ k \in 1 .. N
      BY <1>1, <3>1
    <3> QED BY <1>6, <2>5, <3>2 DEF EventsInv, N
  <2>6. p \in Nat
    BY <1>1, <2>1
  <2> QED BY <1>2, <1>4, <2>3, <2>4, <2>5, <2>6 DEF EventsInv, E, p
<1> QED BY <1>8, <1>9

LEMMA EventsNext == ASSUME EventsInv, [Or!OrderNext \/ Or!EventNext]_(Or!vars) PROVE EventsInv'
<1>1. CASE store'.sequence = store.sequence /\ DOMAIN store' = DOMAIN store /\ events' = events
  BY <1>1 DEF EventsInv
<1>2. ASSUME NEW t \in Types, NEW ok \in BOOLEAN, NEW n \in 0 .. 2, Or!DispatchCommand(t, ok, n) PROVE EventsInv'
  BY <1>2, DispatchInv
<1>3. CASE Or!OrderNext
  <2>1. UNCHANGED Or!eventVars
    BY <1>3 DEF Or!OrderNext, Or!Create, Or!Place, Or!Ship, Or!CancelOrder, Or!Save, Or!PlaceOrder, Or!CancelAndSave,
                Or!Destroy, Or!Forget, Or!AddLine, Or!RemoveLine, Or!Find, Or!Delete
  <2> QED BY <1>1, <2>1 DEF Or!eventVars
<1>4. ASSUME NEW t \in Types, Or!Register(t) PROVE EventsInv'
  <2>1. store'.sequence = store.sequence /\ DOMAIN store' = DOMAIN store /\ events' = events
    BY <1>4 DEF Or!Register, EventsInv
  <2> QED BY <1>1, <2>1
<1>5. ASSUME NEW i, Or!Project(i) PROVE EventsInv'
  <2>1. store'.sequence = store.sequence /\ DOMAIN store' = DOMAIN store /\ events' = events
    BY <1>5 DEF Or!Project, EventsInv
  <2> QED BY <1>1, <2>1
<1>6. CASE UNCHANGED Or!vars
  BY <1>1, <1>6 DEF Or!vars, Or!eventVars
<1> QED BY <1>2, <1>3, <1>4, <1>5, <1>6 DEF Or!EventNext, Or!Poll

LEMMA EventsInvSound == ASSUME EventsInv PROVE Or!EventsNumbered
<1>1. DOMAIN events = 1 .. Len(events) /\ \A i \in 1 .. Len(events) : events[i].number \in Nat
  <2> DEFINE E == [type : Types, number : Nat]
  <2>1. events \in Seq(E)
    BY DEF EventsInv
  <2> HIDE DEF E
  <2>2. DOMAIN events = 1 .. Len(events) /\ \A i \in 1 .. Len(events) : events[i] \in E
    BY <2>1
  <2> QED BY <2>2 DEF E
<1>2. \A n \in 1 .. store.sequence : \E i \in 1 .. Len(events) : events[i].number > 0 /\ events[i].number = n
  BY DEF EventsInv
<1>3. \A i \in 1 .. Len(events) : events[i].number > 0 => events[i].number \in 1 .. store.sequence
  BY <1>1 DEF EventsInv
<1>4. \A i, k \in 1 .. Len(events) : i < k /\ events[i].number > 0 /\ events[k].number > 0 => events[i].number < events[k].number
  BY DEF EventsInv
<1> QED BY <1>1, <1>2, <1>3, <1>4 DEF Or!EventsNumbered

LEMMA OwnedInit == Or!Init => OwnedInv
<1> SUFFICES ASSUME Or!Init PROVE OwnedInv
  OBVIOUS
<1>1. held = [h \in Handles |-> None] /\ repo = << >> /\ heap = << >>
  BY DEF Or!Init
<1>2. Len(repo) = 0 /\ Len(heap) = 0 /\ repo \in Seq(Order) /\ heap \in Seq(Buffer)
  BY <1>1
<1>3. \A h \in Handles : ~Mine(h)
  BY <1>1 DEF Mine
<1> QED BY <1>1, <1>2, <1>3 DEF OwnedInv, OrderTypes, OwnersOwn, OneOwner, NoLeak

\* A caller's order takes the place of what h was; only the buffer of h, if it had one, and a new one may change.
LEMMA HeldChanges ==
    ASSUME OwnedInv, NEW h \in Handles, NEW a \in Order, a # None, a.own, held' = [held EXCEPT ![h] = a], UNCHANGED repo,
           heap' \in Seq(Buffer), Len(heap') >= Len(heap), Owns(a)',
           \A b \in 1 .. Len(heap) : ~(Mine(h) /\ b = held[h].buf) => heap'[b] = heap[b],
           \A b \in 1 .. Len(heap') : heap'[b].live => b = a.buf \/ (b \in 1 .. Len(heap) /\ ~(Mine(h) /\ b = held[h].buf)),
           a.buf > Len(heap) \/ (Mine(h) /\ a.buf = held[h].buf)
    PROVE  OwnedInv'
<1>1. \A g \in Handles : held'[g] = IF g = h THEN a ELSE held[g]
  BY DEF OwnedInv, OrderTypes
<1>2. OrderTypes'
  BY DEF OwnedInv, OrderTypes
<1>3. \A g \in Handles : Mine(g)' <=> (g = h \/ Mine(g))
  BY <1>1 DEF Mine
<1>4. Len(heap) \in Nat /\ Len(heap') \in Nat
  BY DEF OwnedInv, OrderTypes
<1>5. ASSUME NEW o, Owns(o), ~(Mine(h) /\ o.buf = held[h].buf) PROVE o.buf # a.buf
  BY <1>4, <1>5 DEF Owns
<1>6. \A g \in Handles : g # h /\ Mine(g) => Owns(held[g])' /\ held[g].buf # a.buf
  <2> SUFFICES ASSUME NEW g \in Handles, g # h, Mine(g) PROVE Owns(held[g])' /\ held[g].buf # a.buf
    OBVIOUS
  <2>1. Owns(held[g]) /\ ~(Mine(h) /\ held[g].buf = held[h].buf)
    BY DEF OwnedInv, OwnersOwn, OneOwner
  <2> DEFINE o == held[g]
  <2>3. Owns(o) /\ ~(Mine(h) /\ o.buf = held[h].buf)
    BY <2>1
  <2>4. held'[g] = held[g]
    BY <1>1
  <2> HIDE DEF o
  <2>5. o.buf # a.buf
    BY <1>5, <2>3
  <2>6. /\ o.buf \in 1 .. Len(heap) /\ heap'[o.buf] = heap[o.buf] /\ o.buf \in 1 .. Len(heap')
    BY <1>4, <2>3 DEF Owns
  <2> QED BY <2>3, <2>4, <2>5, <2>6 DEF Owns, o
<1>7. \A i \in 1 .. Len(repo) : Owns(repo[i])' /\ repo[i].buf # a.buf
  <2> SUFFICES ASSUME NEW i \in 1 .. Len(repo) PROVE Owns(repo[i])' /\ repo[i].buf # a.buf
    OBVIOUS
  <2> DEFINE o == repo[i]
  <2>1. Owns(o) /\ ~(Mine(h) /\ o.buf = held[h].buf) /\ repo'[i] = o
    BY DEF OwnedInv, OwnersOwn, OneOwner
  <2> HIDE DEF o
  <2>2. o.buf # a.buf
    BY <1>5, <2>1
  <2>3. /\ o.buf \in 1 .. Len(heap) /\ heap'[o.buf] = heap[o.buf] /\ o.buf \in 1 .. Len(heap')
    BY <1>4, <2>1 DEF Owns
  <2> QED BY <2>1, <2>2, <2>3 DEF Owns, o
<1>8. OwnersOwn'
  BY <1>1, <1>3, <1>6, <1>7 DEF OwnersOwn, Owns
<1>9. OneOwner'
  BY <1>1, <1>3, <1>6, <1>7 DEF OwnedInv, OneOwner
<1>10. NoLeak'
  <2> SUFFICES ASSUME NEW b \in 1 .. Len(heap'), heap'[b].live
               PROVE  (\E g \in Handles : Mine(g)' /\ held'[g].buf = b) \/ (\E i \in 1 .. Len(repo') : repo'[i].buf = b)
    BY DEF NoLeak
  <2>1. CASE b = a.buf
    BY <1>1, <1>3, <2>1
  <2>2. CASE b # a.buf
    <3>1. b \in 1 .. Len(heap) /\ ~(Mine(h) /\ b = held[h].buf) /\ heap'[b] = heap[b]
      BY <2>2
    <3>2. (\E g \in Handles : Mine(g) /\ held[g].buf = b) \/ (\E i \in 1 .. Len(repo) : repo[i].buf = b)
      BY <3>1 DEF OwnedInv, NoLeak
    <3>3. \A g \in Handles : Mine(g) /\ held[g].buf = b => g # h
      BY <3>1
    <3> QED BY <1>1, <1>3, <3>2, <3>3
  <2> QED BY <2>1, <2>2
<1> QED BY <1>2, <1>8, <1>9, <1>10 DEF OwnedInv

\* A buffer is freed.
LEMMA FreedBuffer ==
    ASSUME OwnedInv, NEW b \in 1 .. Len(heap), heap' = [heap EXCEPT ![b] = Or!Freed]
    PROVE  /\ heap' \in Seq(Buffer) /\ Len(heap') = Len(heap) /\ ~heap'[b].live
           /\ \A x \in 1 .. Len(heap) : x # b => heap'[x] = heap[x]
<1> DEFINE f == Or!Freed
<1>1. << >> \in Seq(Products)
  OBVIOUS
<1>2. f \in Buffer /\ ~f.live
  BY <1>1 DEF Or!Freed, Buffer
<1>3. heap \in Seq(Buffer)
  BY DEF OwnedInv, OrderTypes
<1> HIDE DEF f
<1>4. heap' = [heap EXCEPT ![b] = f]
  BY DEF f
<1>5. heap' \in Seq(Buffer) /\ Len(heap') = Len(heap) /\ \A x \in 1 .. Len(heap) : heap'[x] = IF x = b THEN f ELSE heap[x]
  BY <1>2, <1>3, <1>4, ExceptSeq
<1> QED BY <1>2, <1>5

\* h is left without an order of its own, whose buffer, if it had one, is freed.
LEMMA HeldDrops ==
    ASSUME OwnedInv, NEW h \in Handles, NEW a \in Order \cup {None}, a = None \/ ~a.own, held' = [held EXCEPT ![h] = a], UNCHANGED repo,
           IF Mine(h) THEN heap' = [heap EXCEPT ![held[h].buf] = Or!Freed] ELSE UNCHANGED heap
    PROVE  OwnedInv'
<1> DEFINE b == held[h].buf
<1>1. \A g \in Handles : held'[g] = IF g = h THEN a ELSE held[g]
  BY DEF OwnedInv, OrderTypes
<1>2. \A g \in Handles : Mine(g)' <=> (g # h /\ Mine(g))
  BY <1>1 DEF Mine
<1>3. Mine(h) => b \in 1 .. Len(heap)
  BY DEF OwnedInv, OwnersOwn, Owns
<1>4. /\ heap' \in Seq(Buffer) /\ Len(heap') = Len(heap) /\ (Mine(h) => ~heap'[b].live)
      /\ \A x \in 1 .. Len(heap) : ~(Mine(h) /\ x = b) => heap'[x] = heap[x]
  <2>1. CASE Mine(h)
    BY <1>3, <2>1, FreedBuffer
  <2>2. CASE ~Mine(h)
    BY <2>2 DEF OwnedInv, OrderTypes
  <2> QED BY <2>1, <2>2
<1>5. OrderTypes'
  BY <1>4 DEF OwnedInv, OrderTypes
<1>6. \A g \in Handles : g # h /\ Mine(g) => held[g].buf \in 1 .. Len(heap) /\ ~(Mine(h) /\ held[g].buf = b)
  BY DEF OwnedInv, OwnersOwn, OneOwner, Owns
<1>7. \A i \in 1 .. Len(repo) : repo[i].buf \in 1 .. Len(heap) /\ ~(Mine(h) /\ repo[i].buf = b)
  BY DEF OwnedInv, OwnersOwn, OneOwner, Owns
<1> HIDE DEF b
<1>8. OwnersOwn'
  <2>1. ASSUME NEW g \in Handles, Mine(g)' PROVE Owns(held[g])'
    <3>1. held'[g] = held[g] /\ Owns(held[g]) /\ heap'[held[g].buf] = heap[held[g].buf]
      BY <1>1, <1>2, <1>4, <1>6, <2>1 DEF OwnedInv, OwnersOwn
    <3> QED BY <1>4, <3>1 DEF Owns
  <2>2. ASSUME NEW i \in 1 .. Len(repo) PROVE Owns(repo[i])'
    <3>1. repo'[i] = repo[i] /\ Owns(repo[i]) /\ heap'[repo[i].buf] = heap[repo[i].buf]
      BY <1>4, <1>7 DEF OwnedInv, OwnersOwn
    <3> QED BY <1>4, <3>1 DEF Owns
  <2> QED BY <2>1, <2>2 DEF OwnersOwn
<1>9. OneOwner'
  BY <1>1, <1>2 DEF OwnedInv, OneOwner
<1>10. NoLeak'
  <2> SUFFICES ASSUME NEW x \in 1 .. Len(heap'), heap'[x].live
               PROVE  (\E g \in Handles : Mine(g)' /\ held'[g].buf = x) \/ (\E i \in 1 .. Len(repo') : repo'[i].buf = x)
    BY DEF NoLeak
  <2>1. x \in 1 .. Len(heap) /\ ~(Mine(h) /\ x = b)
    BY <1>4
  <2>2. (\E g \in Handles : Mine(g) /\ held[g].buf = x) \/ (\E i \in 1 .. Len(repo) : repo[i].buf = x)
    BY <1>4, <2>1 DEF OwnedInv, NoLeak
  <2>3. \A g \in Handles : Mine(g) /\ held[g].buf = x => g # h
    BY <2>1 DEF b
  <2> QED BY <1>1, <1>2, <2>2, <2>3
<1> QED BY <1>5, <1>8, <1>9, <1>10 DEF OwnedInv

\* inmem_order_save: the caller's order becomes the repository's, and one it replaces is freed.
LEMMA StoreInv ==
    ASSUME OwnedInv, NEW h \in Handles, Mine(h), NEW a \in Order, Owns(a), a.buf = held[h].buf,
           held' = [held EXCEPT ![h] = None], Or!Store(a)
    PROVE  OwnedInv'
<1> DEFINE i == Or!Stored(a.id)  R == Len(repo)
<1>1. \A g \in Handles : held'[g] = IF g = h THEN None ELSE held[g]
  BY DEF OwnedInv, OrderTypes
<1>2. \A g \in Handles : Mine(g)' <=> (g # h /\ Mine(g))
  BY <1>1 DEF Mine
<1>3. repo \in Seq(Order) /\ R \in Nat /\ heap \in Seq(Buffer)
  BY DEF OwnedInv, OrderTypes
<1>4. \A k \in 1 .. R : repo[k].buf \in 1 .. Len(heap) /\ repo[k].buf # a.buf
  BY DEF OwnedInv, OwnersOwn, OneOwner, Owns
<1>5. \A g \in Handles : g # h /\ Mine(g) =>
         /\ held[g].buf \in 1 .. Len(heap) /\ held[g].buf # a.buf /\ \A k \in 1 .. R : held[g].buf # repo[k].buf
  BY DEF OwnedInv, OwnersOwn, OneOwner, Owns
<1>6. i = 0 \/ i \in 1 .. R
  <2> DEFINE I == {k \in 1 .. Len(repo) : repo[k].id = a.id}
  <2>1. i = IF I # {} THEN Or!Min(I) ELSE 0
    BY DEF Or!Stored, Or!SelectInSeq
  <2>2. I \in SUBSET Nat /\ Or!Min(I) = Min(I)
    BY DEF Or!Min, Min
  <2>3. I # {} => Min(I) \in I
    BY <2>2, MinExists
  <2> QED BY <2>1, <2>2, <2>3
<1> HIDE DEF i, R
<1>7. ASSUME NEW r, r \in 0 .. R + 1, repo' \in Seq(Order), Len(repo') = (IF r = R + 1 THEN R + 1 ELSE R), r # 0, repo'[r] = a,
             \A k \in 1 .. R : k # r => repo'[k] = repo[k],
             heap' \in Seq(Buffer), Len(heap') = Len(heap),
             \A x \in 1 .. Len(heap) : ~(r \in 1 .. R /\ x = repo[r].buf) => heap'[x] = heap[x],
             r \in 1 .. R => ~heap'[repo[r].buf].live
      PROVE  OwnedInv'
  <2>1. OrderTypes'
    BY <1>7 DEF OwnedInv, OrderTypes
  <2>2. 1 .. Len(repo') = (1 .. R) \cup {r}
    BY <1>3, <1>7
  <2>3. \A k \in 1 .. R : k # r => ~(r \in 1 .. R /\ repo[k].buf = repo[r].buf)
    BY DEF OwnedInv, OneOwner, R
  <2>4. OwnersOwn'
    <3>1. ASSUME NEW g \in Handles, Mine(g)' PROVE Owns(held[g])'
      <4>1. held'[g] = held[g] /\ Owns(held[g]) /\ heap'[held[g].buf] = heap[held[g].buf]
        BY <1>1, <1>2, <1>5, <1>7, <3>1 DEF OwnedInv, OwnersOwn
      <4> QED BY <1>7, <4>1 DEF Owns
    <3>2. ASSUME NEW k \in 1 .. R, k # r PROVE Owns(repo[k])'
      <4>1. repo'[k] = repo[k] /\ Owns(repo[k]) /\ heap'[repo[k].buf] = heap[repo[k].buf]
        BY <1>4, <1>7, <2>3, <3>2 DEF OwnedInv, OwnersOwn, R
      <4> QED BY <1>7, <4>1 DEF Owns
    <3>3. Owns(repo[r])'
      <4>1. a.buf \in 1 .. Len(heap) /\ heap'[a.buf] = heap[a.buf]
        BY <1>4, <1>7 DEF Owns
      <4> QED BY <1>7, <4>1 DEF Owns
    <3> QED BY <2>2, <3>1, <3>2, <3>3 DEF OwnersOwn
  <2>5. OneOwner'
    <3>1. \A g, f \in Handles : Mine(g)' /\ Mine(f)' /\ held'[g].buf = held'[f].buf => g = f
      BY <1>1, <1>2 DEF OwnedInv, OneOwner
    <3>2. \A k \in (1 .. R) \cup {r} : repo'[k].buf = a.buf => k = r
      BY <1>4, <1>7
    <3>3. \A k, l \in (1 .. R) \cup {r} : repo'[k].buf = repo'[l].buf => k = l
      <4> SUFFICES ASSUME NEW k \in (1 .. R) \cup {r}, NEW l \in (1 .. R) \cup {r}, repo'[k].buf = repo'[l].buf PROVE k = l
        OBVIOUS
      <4>1. CASE k = r \/ l = r
        BY <1>7, <3>2, <4>1
      <4>2. CASE k # r /\ l # r
        <5>1. k \in 1 .. R /\ l \in 1 .. R /\ repo'[k] = repo[k] /\ repo'[l] = repo[l]
          BY <1>7, <4>2
        <5> QED BY <5>1 DEF OwnedInv, OneOwner, R
      <4> QED BY <4>1, <4>2
    <3>4. \A g \in Handles, k \in (1 .. R) \cup {r} : Mine(g)' => held'[g].buf # repo'[k].buf
      <4> SUFFICES ASSUME NEW g \in Handles, NEW k \in (1 .. R) \cup {r}, Mine(g)' PROVE held'[g].buf # repo'[k].buf
        OBVIOUS
      <4>1. g # h /\ Mine(g) /\ held'[g] = held[g]
        BY <1>1, <1>2
      <4>2. CASE k = r
        BY <1>5, <1>7, <4>1, <4>2
      <4>3. CASE k # r
        BY <1>5, <1>7, <4>1, <4>3
      <4> QED BY <4>2, <4>3
    <3> QED BY <2>2, <3>1, <3>3, <3>4 DEF OneOwner
  <2>6. NoLeak'
    <3> SUFFICES ASSUME NEW x \in 1 .. Len(heap'), heap'[x].live
                 PROVE  (\E g \in Handles : Mine(g)' /\ held'[g].buf = x) \/ (\E k \in 1 .. Len(repo') : repo'[k].buf = x)
      BY DEF NoLeak
    <3>1. x \in 1 .. Len(heap) /\ ~(r \in 1 .. R /\ x = repo[r].buf) /\ heap'[x] = heap[x]
      BY <1>7
    <3>2. CASE x = a.buf
      BY <1>7, <2>2, <3>2
    <3>3. CASE x # a.buf
      <4>1. (\E g \in Handles : Mine(g) /\ held[g].buf = x) \/ (\E k \in 1 .. R : repo[k].buf = x)
        BY <3>1 DEF OwnedInv, NoLeak, R
      <4>2. CASE \E g \in Handles : Mine(g) /\ held[g].buf = x
        <5>1. PICK g \in Handles : Mine(g) /\ held[g].buf = x
          BY <4>2
        <5>2. g # h
          BY <3>3, <5>1
        <5> QED BY <1>1, <1>2, <5>1, <5>2
      <4>3. CASE \E k \in 1 .. R : repo[k].buf = x
        <5>1. PICK k \in 1 .. R : repo[k].buf = x
          BY <4>3
        <5>2. k # r
          BY <3>1, <5>1
        <5> QED BY <1>7, <2>2, <5>1, <5>2
      <4> QED BY <4>1, <4>2, <4>3
    <3> QED BY <3>2, <3>3
  <2> QED BY <2>1, <2>4, <2>5, <2>6 DEF OwnedInv
<1>8. CASE i \in 1 .. R
  <2>1. heap' = [heap EXCEPT ![repo[i].buf] = Or!Freed] /\ repo' = [repo EXCEPT ![i] = a]
    BY <1>3, <1>8 DEF Or!Store, i
  <2>2. repo' \in Seq(Order) /\ Len(repo') = R /\ \A k \in 1 .. R : repo'[k] = IF k = i THEN a ELSE repo[k]
    BY <1>3, <1>8, <2>1, ExceptSeq DEF R
  <2>3. /\ heap' \in Seq(Buffer) /\ Len(heap') = Len(heap) /\ ~heap'[repo[i].buf].live
        /\ \A x \in 1 .. Len(heap) : x # repo[i].buf => heap'[x] = heap[x]
    BY <1>4, <1>8, <2>1, FreedBuffer
  <2>4. i \in 0 .. R + 1 /\ i # R + 1 /\ i # 0
    BY <1>3, <1>8
  <2> QED BY <1>7, <1>8, <2>2, <2>3, <2>4
<1>9. CASE i = 0
  <2>1. repo' = Append(repo, a) /\ heap' = heap
    BY <1>9 DEF Or!Store, i
  <2>2. repo' \in Seq(Order) /\ Len(repo') = R + 1 /\ repo'[R + 1] = a /\ \A k \in 1 .. R : repo'[k] = repo[k]
    BY <1>3, <2>1, AppendProperties DEF R
  <2>3. R + 1 \in 0 .. R + 1 /\ R + 1 # 0 /\ R + 1 \notin 1 .. R
    BY <1>3
  <2> QED BY <1>3, <1>7, <2>1, <2>2, <2>3
<1> QED BY <1>6, <1>8, <1>9

\* inmem_order_delete: the order's buffer is freed and the orders behind it move up.
LEMMA DeletedInv == ASSUME OwnedInv, NEW i \in DOMAIN repo, Or!Delete(i) PROVE OwnedInv'
<1> DEFINE R == Len(repo)  b == repo[i].buf  at(n) == IF n < i THEN n ELSE n + 1
<1>1. repo \in Seq(Order) /\ R \in Nat /\ i \in 1 .. R /\ heap \in Seq(Buffer)
  BY DEF OwnedInv, OrderTypes
<1>2. held' = held /\ heap' = [heap EXCEPT ![b] = Or!Freed] /\ repo' = SubSeq(repo, 1, i - 1) \o SubSeq(repo, i + 1, R)
  BY DEF Or!Delete, Or!RemoveAt
<1>3. repo' \in Seq(Order) /\ Len(repo') = R - 1 /\ \A n \in 1 .. R - 1 : repo'[n] = IF n < i THEN repo[n] ELSE repo[n + 1]
  BY <1>1, <1>2, RemovedAt
<1>4. b \in 1 .. Len(heap)
  BY <1>1 DEF OwnedInv, OwnersOwn, Owns
<1>5. /\ heap' \in Seq(Buffer) /\ Len(heap') = Len(heap) /\ ~heap'[b].live
      /\ \A x \in 1 .. Len(heap) : x # b => heap'[x] = heap[x]
  BY <1>2, <1>4, FreedBuffer
<1>6. \A g \in Handles : Mine(g)' <=> Mine(g)
  BY <1>2 DEF Mine
<1>7. \A g \in Handles : Mine(g) => held[g].buf # b
  BY <1>1 DEF OwnedInv, OneOwner
<1>8. \A k \in 1 .. R : repo[k].buf = b => k = i
  BY <1>1 DEF OwnedInv, OneOwner
<1> HIDE DEF b, R
<1>9. /\ \A n \in 1 .. R - 1 : at(n) \in 1 .. R /\ at(n) # i /\ repo'[n] = repo[at(n)]
      /\ \A m, n \in 1 .. R - 1 : at(m) = at(n) => m = n
  <2>1. R \in Nat /\ i \in 1 .. R
    BY <1>1
  <2>2. \A n \in 1 .. R - 1 : at(n) \in 1 .. R /\ at(n) # i
    BY <2>1
  <2>3. \A m, n \in 1 .. R - 1 : at(m) = at(n) => m = n
    BY <2>1
  <2>4. \A n \in 1 .. R - 1 : repo'[n] = repo[at(n)]
    BY <1>3
  <2> QED BY <2>2, <2>3, <2>4
<1>10. ASSUME NEW k \in 1 .. R, k # i PROVE \E n \in 1 .. R - 1 : at(n) = k
  <2>1. CASE k < i
    <3>1. k \in 1 .. R - 1 /\ at(k) = k
      BY <1>1, <2>1
    <3> QED BY <3>1
  <2>2. CASE ~(k < i)
    <3>1. k - 1 \in 1 .. R - 1 /\ at(k - 1) = k
      BY <1>1, <1>10, <2>2
    <3> QED BY <3>1
  <2> QED BY <2>1, <2>2
<1> HIDE DEF at
<1>11. OrderTypes'
  BY <1>2, <1>3, <1>5 DEF OwnedInv, OrderTypes
<1>12. OwnersOwn'
  <2>1. ASSUME NEW g \in Handles, Mine(g)' PROVE Owns(held[g])'
    <3>1. held'[g] = held[g] /\ Owns(held[g]) /\ held[g].buf # b
      BY <1>2, <1>6, <1>7, <2>1 DEF OwnedInv, OwnersOwn
    <3>2. heap'[held[g].buf] = heap[held[g].buf]
      BY <1>5, <3>1 DEF Owns
    <3> QED BY <1>5, <3>1, <3>2 DEF Owns
  <2>2. ASSUME NEW n \in 1 .. Len(repo') PROVE Owns(repo[n])'
    <3>1. repo'[n] = repo[at(n)] /\ at(n) \in 1 .. R /\ repo[at(n)].buf # b
      BY <1>3, <1>8, <1>9
    <3>2. Owns(repo[at(n)])
      BY <3>1 DEF OwnedInv, OwnersOwn, R
    <3>3. heap'[repo[at(n)].buf] = heap[repo[at(n)].buf]
      BY <1>5, <3>1, <3>2 DEF Owns
    <3> QED BY <1>5, <3>1, <3>2, <3>3 DEF Owns
  <2> QED BY <2>1, <2>2 DEF OwnersOwn
<1>13. OneOwner'
  <2>1. \A m, n \in 1 .. Len(repo') : repo'[m].buf = repo'[n].buf => m = n
    <3> SUFFICES ASSUME NEW m \in 1 .. Len(repo'), NEW n \in 1 .. Len(repo'), repo'[m].buf = repo'[n].buf PROVE m = n
      OBVIOUS
    <3>1. repo'[m] = repo[at(m)] /\ at(m) \in 1 .. R /\ repo'[n] = repo[at(n)] /\ at(n) \in 1 .. R
      BY <1>3, <1>9
    <3>2. at(m) = at(n)
      BY <3>1 DEF OwnedInv, OneOwner, R
    <3> QED BY <1>3, <1>9, <3>2
  <2>2. \A g \in Handles, n \in 1 .. Len(repo') : Mine(g)' => held'[g].buf # repo'[n].buf
    <3> SUFFICES ASSUME NEW g \in Handles, NEW n \in 1 .. Len(repo'), Mine(g)' PROVE held'[g].buf # repo'[n].buf
      OBVIOUS
    <3>1. repo'[n] = repo[at(n)] /\ at(n) \in 1 .. Len(repo) /\ Mine(g) /\ held'[g] = held[g]
      BY <1>2, <1>3, <1>6, <1>9 DEF R
    <3> QED BY <3>1 DEF OwnedInv, OneOwner
  <2>3. \A g, f \in Handles : Mine(g)' /\ Mine(f)' /\ held'[g].buf = held'[f].buf => g = f
    BY <1>2, <1>6 DEF OwnedInv, OneOwner
  <2> QED BY <2>1, <2>2, <2>3 DEF OneOwner
<1>14. NoLeak'
  <2> SUFFICES ASSUME NEW x \in 1 .. Len(heap'), heap'[x].live
               PROVE  (\E g \in Handles : Mine(g)' /\ held'[g].buf = x) \/ (\E k \in 1 .. Len(repo') : repo'[k].buf = x)
    BY DEF NoLeak
  <2>1. x \in 1 .. Len(heap) /\ x # b /\ heap'[x] = heap[x]
    BY <1>5
  <2>2. (\E g \in Handles : Mine(g) /\ held[g].buf = x) \/ (\E k \in 1 .. R : repo[k].buf = x)
    BY <2>1 DEF OwnedInv, NoLeak, R
  <2>3. CASE \E g \in Handles : Mine(g) /\ held[g].buf = x
    BY <1>2, <1>6, <2>3
  <2>4. CASE \E k \in 1 .. R : repo[k].buf = x
    <3>1. PICK k \in 1 .. R : repo[k].buf = x
      BY <2>4
    <3>2. k # i
      BY <2>1, <3>1 DEF b
    <3>3. PICK n \in 1 .. R - 1 : at(n) = k
      BY <1>10, <3>2
    <3> QED BY <1>3, <1>9, <3>1, <3>3
  <2> QED BY <2>2, <2>3, <2>4
<1> QED BY <1>11, <1>12, <1>13, <1>14 DEF OwnedInv

\* order_aggregate_create
LEMMA CreateInv == ASSUME OrdersConstants, OwnedInv, NEW h \in Handles, Or!Create(h) PROVE OwnedInv'
<1> DEFINE N == Len(heap)  B == Or!Bytes
<1> PICK a : a = [id |-> N + 1, version |-> 0, status |-> "DRAFT", buf |-> N + 1, count |-> 0, capacity |-> FirstCapacity, total |-> 0, own |-> TRUE]
  OBVIOUS
<1>1. heap \in Seq(Buffer) /\ N \in Nat
  BY DEF OwnedInv, OrderTypes
<1>2. ~Mine(h) /\ held' = [held EXCEPT ![h] = a] /\ heap' = Append(heap, B) /\ UNCHANGED repo
  BY DEF Or!Create, Mine
<1>3. B \in Buffer /\ B.live /\ Len(B.lines) = 0
  <2>1. << >> \in Seq(Products) /\ Len(<< >>) = 0
    OBVIOUS
  <2> QED BY <2>1 DEF Or!Bytes, Buffer
<1> HIDE DEF N, B
<1>4. a \in Order /\ a.own /\ a.buf = N + 1 /\ a.count = 0 /\ a.status = "DRAFT"
  BY <1>1 DEF Order, OrdersConstants
<1>5. heap' \in Seq(Buffer) /\ Len(heap') = N + 1 /\ heap'[N + 1] = B /\ \A x \in 1 .. N : heap'[x] = heap[x]
  BY <1>1, <1>2, <1>3, AppendProperties DEF N
<1>6. Owns(a)'
  BY <1>1, <1>3, <1>4, <1>5 DEF Owns
<1>7. a # None /\ Len(heap') >= Len(heap) /\ a.buf > Len(heap)
  <2>1. a # None
    BY <1>4 DEF OrdersConstants
  <2>2. Len(heap') >= N /\ a.buf > N
    BY <1>1, <1>4, <1>5
  <2> QED BY <2>1, <2>2 DEF N
<1>8. \A x \in 1 .. Len(heap') : heap'[x].live => x = a.buf \/ x \in 1 .. Len(heap)
  BY <1>1, <1>4, <1>5 DEF N
<1>9. \A x \in 1 .. Len(heap) : heap'[x] = heap[x]
  BY <1>5 DEF N
<1> QED BY <1>2, <1>4, <1>5, <1>6, <1>7, <1>8, <1>9, HeldChanges

\* What the callers that give orders away may use.
LEMMA HasMine ==
    ASSUME OwnedInv, GivesAway, NEW h \in Handles
    PROVE  /\ Or!Has(h) => Mine(h) /\ held[h] \in Order /\ Owns(held[h])
           /\ held[h] # None /\ ~Or!Has(h) => ~Mine(h)
  BY DEF OwnedInv, OrderTypes, OwnersOwn, Owns, Mine, Or!Has

\* The lines of an order are as many as it counts.
LEMMA LinesCounted ==
    ASSUME OwnedInv, NEW a \in Order, Owns(a)
    PROVE  /\ Or!Lines(a) \in Seq(Products) /\ Len(Or!Lines(a)) = a.count
           /\ heap[a.buf] \in Buffer /\ heap[a.buf].lines \in Seq(Products) /\ a.count \in Nat /\ Len(heap[a.buf].lines) \in Nat
<1>1. heap[a.buf] \in Buffer
  BY DEF OwnedInv, OrderTypes, Owns
<1> DEFINE s == heap[a.buf].lines  n == a.count
<1>2. s \in Seq(Products) /\ n \in Nat /\ n <= Len(s)
  BY <1>1 DEF Buffer, Order, Owns
<1> HIDE DEF s, n
<1>3. SubSeq(s, 1, n) \in Seq(Products) /\ Len(SubSeq(s, 1, n)) = n /\ Len(s) \in Nat
  BY <1>2
<1> QED BY <1>1, <1>2, <1>3 DEF Or!Lines, s, n

\* order_aggregate_add_line and _remove_line in the order's own buffer.
LEMMA LinesChange ==
    ASSUME OrdersConstants, OwnedInv, NEW h \in Handles, Mine(h), NEW n \in Nat, NEW s \in Seq(Products), n <= Len(s), held[h].status = "DRAFT",
           held' = [held EXCEPT ![h].count = n], heap' = [heap EXCEPT ![held[h].buf].lines = s], UNCHANGED repo
    PROVE  OwnedInv'
<1> DEFINE o == held[h]  b == o.buf  B == [heap[b] EXCEPT !.lines = s]
<1>0. PICK a : a = [o EXCEPT !.count = n]
  OBVIOUS
<1>1. o \in Order /\ Owns(o) /\ o.own
  BY DEF OwnedInv, OrderTypes, OwnersOwn, Mine
<1>2. b \in 1 .. Len(heap) /\ heap \in Seq(Buffer)
  BY <1>1 DEF Owns, OwnedInv, OrderTypes
<1>3. heap[b] \in Buffer /\ heap[b].live
  BY <1>1, <1>2 DEF Owns
<1>4. B \in Buffer /\ B.live /\ B.lines = s
  <2> DEFINE c == heap[b]
  <2> HIDE DEF c
  <2>1. c \in Buffer /\ c.live /\ B = [c EXCEPT !.lines = s]
    BY <1>3 DEF c
  <2> QED BY <2>1 DEF Buffer
<1>5. heap' = [heap EXCEPT ![b] = B] /\ held' = [held EXCEPT ![h] = a]
  BY <1>0
<1> HIDE DEF B
<1>6. heap' \in Seq(Buffer) /\ Len(heap') = Len(heap) /\ \A x \in 1 .. Len(heap) : heap'[x] = IF x = b THEN B ELSE heap[x]
  BY <1>2, <1>4, <1>5, ExceptSeq
<1>7. o.status = "DRAFT"
  OBVIOUS
<1> HIDE DEF o
<1>8. a \in Order /\ a.own /\ a.buf = b /\ a.count = n /\ a.status = "DRAFT"
  BY <1>0, <1>1, <1>7 DEF Order, b
<1> HIDE DEF b
<1>9. Owns(a)'
  BY <1>2, <1>4, <1>6, <1>8 DEF Owns
<1>10. a # None /\ Len(heap') >= Len(heap) /\ Mine(h) /\ a.buf = held[h].buf
  BY <1>2, <1>6, <1>8 DEF OrdersConstants, b, o
<1>11. \A x \in 1 .. Len(heap) : x # held[h].buf => heap'[x] = heap[x]
  BY <1>6 DEF b, o
<1>12. \A x \in 1 .. Len(heap') : x = a.buf \/ (x \in 1 .. Len(heap) /\ x # held[h].buf)
  BY <1>6, <1>10
<1> QED BY <1>5, <1>6, <1>8, <1>9, <1>10, <1>11, <1>12, HeldChanges

\* order_aggregate_place, _ship and _cancel: the order keeps its buffer and its lines.
LEMMA StatusChange ==
    ASSUME OrdersConstants, OwnedInv, NEW h \in Handles, Mine(h), NEW a \in Order, a.own, a.buf = held[h].buf, a.count = held[h].count,
           a.status \in {"PLACED", "SHIPPED"} => a.total = a.count /\ a.total > 0,
           held' = [held EXCEPT ![h] = a], UNCHANGED <<repo, heap>>
    PROVE  OwnedInv'
<1>1. Owns(held[h]) /\ heap \in Seq(Buffer) /\ heap' = heap /\ repo' = repo
  BY DEF OwnedInv, OwnersOwn, OrderTypes
<1>2. Owns(a) /\ Owns(a)'
  BY <1>1 DEF Owns
<1>3. a # None /\ Len(heap') >= Len(heap)
  BY <1>1 DEF OrdersConstants
<1>4. \A b \in 1 .. Len(heap') : b = a.buf \/ (b \in 1 .. Len(heap) /\ ~(Mine(h) /\ b = held[h].buf))
  BY <1>1
<1> QED BY <1>1, <1>2, <1>3, <1>4, HeldChanges

LEMMA MovedOrder ==
    ASSUME NEW o \in Order, NEW st \in {"DRAFT", "PLACED", "SHIPPED", "CANCELLED"}
    PROVE  LET a == Or!Moved(o, st) IN
           a \in Order /\ a.status = st /\ a.own = o.own /\ a.buf = o.buf /\ a.count = o.count /\ a.total = o.total
<1> DEFINE a == Or!Moved(o, st)
<1>1. a = [o EXCEPT !.status = st, !.version = o.version + 1]
  BY DEF Or!Moved
<1> HIDE DEF a
<1>2. a = [id |-> o.id, version |-> o.version + 1, status |-> st, buf |-> o.buf, count |-> o.count, capacity |-> o.capacity,
           total |-> o.total, own |-> o.own]
  BY <1>1 DEF Order
<1>3. a \in Order /\ a.status = st /\ a.own = o.own /\ a.buf = o.buf /\ a.count = o.count /\ a.total = o.total
  BY <1>2 DEF Order
<1> QED BY <1>3 DEF a

LEMMA PlaceInv == ASSUME OrdersConstants, OwnedInv, GivesAway, NEW h \in Handles, Or!Place(h) PROVE OwnedInv'
<1> DEFINE o == held[h]  m == Or!Moved(o, "PLACED")  t == Or!Total(o)
<1>0. PICK a : a = [m EXCEPT !.total = t]
  OBVIOUS
<1>1. Mine(h) /\ o \in Order /\ Owns(o) /\ o.own /\ o.count > 0
  BY HasMine DEF Or!Place, Mine
<1>2. held' = [held EXCEPT ![h] = a] /\ UNCHANGED <<repo, heap>>
  BY <1>0 DEF Or!Place
<1>3. t = o.count /\ t \in Nat
  BY <1>1, LinesCounted DEF Or!Total
<1> HIDE DEF o
<1>4. m \in Order /\ m.status = "PLACED" /\ m.own = o.own /\ m.buf = o.buf /\ m.count = o.count
  BY <1>1, MovedOrder
<1> HIDE DEF m, t
<1>5. a \in Order /\ a.own /\ a.buf = o.buf /\ a.count = o.count /\ a.total = t
  BY <1>0, <1>1, <1>3, <1>4 DEF Order
<1> QED BY <1>1, <1>2, <1>3, <1>5, StatusChange DEF o

LEMMA ShipInv == ASSUME OrdersConstants, OwnedInv, GivesAway, NEW h \in Handles, Or!Ship(h) PROVE OwnedInv'
<1> DEFINE o == held[h]
<1>0. PICK a : a = Or!Moved(o, "SHIPPED")
  OBVIOUS
<1>1. Mine(h) /\ o \in Order /\ Owns(o) /\ o.own /\ o.status = "PLACED"
  BY HasMine DEF Or!Ship, Mine
<1>2. held' = [held EXCEPT ![h] = a] /\ UNCHANGED <<repo, heap>>
  BY <1>0 DEF Or!Ship
<1>3. a \in Order /\ a.own = o.own /\ a.buf = o.buf /\ a.count = o.count /\ a.total = o.total
  BY <1>0, <1>1, MovedOrder
<1> QED BY <1>1, <1>2, <1>3, StatusChange DEF Owns

LEMMA CancelInv == ASSUME OrdersConstants, OwnedInv, GivesAway, NEW h \in Handles, Or!CancelOrder(h) PROVE OwnedInv'
<1> DEFINE o == held[h]
<1>0. PICK a : a = Or!Moved(o, "CANCELLED")
  OBVIOUS
<1>1. Mine(h) /\ o \in Order /\ Owns(o) /\ o.own
  BY HasMine DEF Or!CancelOrder, Mine
<1>2. held' = [held EXCEPT ![h] = a] /\ UNCHANGED <<repo, heap>>
  BY <1>0 DEF Or!CancelOrder
<1>3. a \in Order /\ a.own = o.own /\ a.buf = o.buf /\ a.count = o.count /\ a.status = "CANCELLED"
  BY <1>0, <1>1, MovedOrder
<1> QED BY <1>1, <1>2, <1>3, StatusChange

\* order_aggregate_add_line: into the buffer, or into one of twice the size.
LEMMA AddLineInv ==
    ASSUME OrdersConstants, OwnedInv, GivesAway, NEW h \in Handles, NEW p \in Products, Or!AddLine(h, p)
    PROVE  OwnedInv'
<1> DEFINE o == held[h]  b == o.buf  old == heap[b].lines  lines == Append(Or!Lines(o), p)  n == o.count
<1>1. Mine(h) /\ o \in Order /\ Owns(o) /\ o.own /\ o.status = "DRAFT" /\ UNCHANGED repo
  BY HasMine DEF Or!AddLine, Mine
<1>2. Or!Lines(o) \in Seq(Products) /\ Len(Or!Lines(o)) = n /\ heap[b] \in Buffer /\ old \in Seq(Products) /\ n \in Nat
  BY <1>1, LinesCounted
<1>3. lines \in Seq(Products) /\ Len(lines) = n + 1
  BY <1>2, AppendProperties
<1>4. CASE o.count < o.capacity
  <2> DEFINE rest == SubSeq(old, n + 2, Len(old))  s == lines \o rest
  <2>1. heap' = [heap EXCEPT ![b].lines = s] /\ held' = [held EXCEPT ![h].count = n + 1]
    BY <1>4 DEF Or!AddLine
  <2> HIDE DEF n, lines, old
  <2>2. rest \in Seq(Products) /\ Len(rest) \in Nat
    BY <1>2
  <2> HIDE DEF rest
  <2>3. s \in Seq(Products) /\ Len(s) = n + 1 + Len(rest)
    BY <1>2, <1>3, <2>2, ConcatProperties
  <2> HIDE DEF s
  <2>4. n + 1 \in Nat /\ n + 1 <= Len(s)
    BY <1>2, <2>2, <2>3
  <2> QED BY <1>1, <2>1, <2>3, <2>4, LinesChange
<1>5. CASE ~(o.count < o.capacity)
  <2> DEFINE N == Len(heap)  F == [heap EXCEPT ![b] = Or!Freed]  B == [live |-> TRUE, lines |-> lines]
  <2>0. PICK a : a = [o EXCEPT !.count = n + 1, !.capacity = 2 * o.capacity, !.buf = N + 1]
    OBVIOUS
  <2>1. heap' = Append(F, B) /\ held' = [held EXCEPT ![h].count = n + 1, ![h].capacity = 2 * o.capacity, ![h].buf = N + 1]
    BY <1>5 DEF Or!AddLine
  <2>2. held' = [held EXCEPT ![h] = a]
    BY <2>0, <2>1 DEF OwnedInv, OrderTypes
  <2>3. b \in 1 .. N /\ N \in Nat /\ heap \in Seq(Buffer)
    BY <1>1 DEF Owns, OwnedInv, OrderTypes
  <2>4. F \in Seq(Buffer) /\ Len(F) = N /\ ~F[b].live /\ \A x \in 1 .. N : x # b => F[x] = heap[x]
    <3> DEFINE f == Or!Freed
    <3>1. << >> \in Seq(Products)
      OBVIOUS
    <3>2. f \in Buffer /\ ~f.live
      BY <3>1 DEF Or!Freed, Buffer
    <3> HIDE DEF f
    <3>3. F = [heap EXCEPT ![b] = f]
      BY DEF f
    <3>4. F \in Seq(Buffer) /\ Len(F) = N /\ \A x \in 1 .. N : F[x] = IF x = b THEN f ELSE heap[x]
      BY <2>3, <3>2, <3>3, ExceptSeq
    <3> QED BY <2>3, <3>2, <3>4
  <2>5. B \in Buffer /\ B.live /\ B.lines = lines
    BY <1>3 DEF Buffer
  <2> HIDE DEF F, B, lines
  <2>6. heap' \in Seq(Buffer) /\ Len(heap') = N + 1 /\ heap'[N + 1] = B /\ \A x \in 1 .. N : heap'[x] = F[x]
    BY <2>1, <2>3, <2>4, <2>5, AppendProperties
  <2> HIDE DEF o, n, N
  <2>7. o.capacity \in Nat /\ o.count \in Nat
    BY <1>1 DEF Order
  <2>8. n + 1 \in Nat /\ 2 * o.capacity \in Nat /\ N + 1 \in Nat
    BY <1>2, <2>3, <2>7
  <2>9. a \in Order /\ a.own /\ a.buf = N + 1 /\ a.count = n + 1 /\ a.status = "DRAFT"
    BY <1>1, <2>0, <2>8 DEF Order
  <2>10. Owns(a)'
    BY <1>3, <2>3, <2>5, <2>6, <2>9 DEF Owns
  <2>11. a # None
    BY <2>9 DEF OrdersConstants
  <2>12. Len(heap') >= N /\ a.buf > N
    BY <2>3, <2>6, <2>9
  <2>13. \A x \in 1 .. N : x # b => heap'[x] = heap[x]
    BY <2>4, <2>6
  <2>14. \A x \in 1 .. N + 1 : heap'[x].live => x = a.buf \/ (x \in 1 .. N /\ x # b)
    BY <2>3, <2>4, <2>6, <2>9
  <2> QED BY <1>1, <2>2, <2>6, <2>9, <2>10, <2>11, <2>12, <2>13, <2>14, HeldChanges DEF N, o
<1> QED BY <1>4, <1>5

\* order_aggregate_remove_line: the lines behind it move up, and the buffer keeps a copy of the last.
LEMMA RemoveLineInv ==
    ASSUME OrdersConstants, OwnedInv, GivesAway, NEW h \in Handles, NEW p \in Products, Or!RemoveLine(h, p)
    PROVE  OwnedInv'
<1> DEFINE o == held[h]  b == o.buf  old == heap[b].lines  lines == Or!Lines(o)  n == o.count  i == Or!SelectInSeq(lines, LAMBDA x : x = p)
           r == SubSeq(lines, 1, i - 1) \o SubSeq(lines, i + 1, Len(lines))  q == r \o << lines[n] >>  s == q \o SubSeq(old, n + 1, Len(old))
<1>1. Mine(h) /\ o \in Order /\ Owns(o) /\ o.own /\ o.status = "DRAFT" /\ UNCHANGED repo /\ i > 0
  BY HasMine DEF Or!RemoveLine, Mine
<1>2. lines \in Seq(Products) /\ Len(lines) = n /\ heap[b] \in Buffer /\ old \in Seq(Products) /\ n \in Nat
  BY <1>1, LinesCounted
<1>3. heap' = [heap EXCEPT ![b].lines = s] /\ held' = [held EXCEPT ![h].count = n - 1]
  BY DEF Or!RemoveLine, Or!RemoveAt
<1>4. i \in 1 .. Len(lines)
  <2> DEFINE I == {k \in 1 .. Len(lines) : lines[k] = p}
  <2>1. i = IF I # {} THEN Or!Min(I) ELSE 0
    BY DEF Or!SelectInSeq
  <2>2. I \in SUBSET Nat /\ Or!Min(I) = Min(I)
    BY DEF Or!Min, Min
  <2>3. I # {} => Min(I) \in I
    BY <2>2, MinExists
  <2> QED BY <1>1, <2>1, <2>2, <2>3
<1> HIDE DEF i, lines, old, n
<1>5. r \in Seq(Products) /\ Len(r) = n - 1
  BY <1>2, <1>4, RemovedAt
<1>6. n \in 1 .. Len(lines) /\ lines[n] \in Products
  BY <1>2, <1>4
<1>7. SubSeq(old, n + 1, Len(old)) \in Seq(Products) /\ Len(SubSeq(old, n + 1, Len(old))) \in Nat
  BY <1>2
<1> DEFINE l == << lines[n] >>
<1>8. l \in Seq(Products) /\ Len(l) = 1
  BY <1>6
<1> HIDE DEF r, l
<1>9. q \in Seq(Products) /\ Len(q) = n - 1 + 1
  <2>1. q = r \o l
    BY DEF l
  <2> QED BY <1>5, <1>8, <2>1, ConcatProperties
<1> HIDE DEF q
<1>10. s \in Seq(Products) /\ Len(s) = Len(q) + Len(SubSeq(old, n + 1, Len(old)))
  BY <1>7, <1>9, ConcatProperties
<1> HIDE DEF s
<1>11. n - 1 \in Nat /\ n - 1 <= Len(s)
  BY <1>2, <1>6, <1>7, <1>9, <1>10
<1> QED BY <1>1, <1>3, <1>10, <1>11, LinesChange

\* The callers' other operations.
LEMMA OrdersGoInv ==
    ASSUME OrdersConstants, OwnedInv, GivesAway, NEW h \in Handles,
           Or!Save(h) \/ Or!PlaceOrder(h) \/ Or!CancelAndSave(h) \/ Or!Destroy(h) \/ Or!Forget(h)
    PROVE  OwnedInv'
<1>1. ASSUME Or!Has(h), NEW a \in Order, Owns(a), a.buf = held[h].buf, Or!Store(a), Or!Kept(h, a) PROVE OwnedInv'
  BY <1>1, HasMine, StoreInv DEF Or!Kept
<1>2. CASE Or!Save(h) \/ Or!PlaceOrder(h)
  BY <1>1, <1>2, HasMine DEF Or!Save, Or!PlaceOrder
<1>3. CASE Or!CancelAndSave(h)
  <2> PICK a : a = Or!Moved(held[h], "CANCELLED")
    OBVIOUS
  <2>1. Or!Has(h) /\ held[h] \in Order /\ Owns(held[h]) /\ Or!Store(a) /\ Or!Kept(h, a)
    BY <1>3, HasMine DEF Or!CancelAndSave
  <2>2. a \in Order /\ a.status = "CANCELLED" /\ a.buf = held[h].buf /\ a.count = held[h].count
    BY <2>1, MovedOrder
  <2>3. Owns(a)
    BY <2>1, <2>2 DEF Owns
  <2> QED BY <1>1, <2>1, <2>2, <2>3
<1>4. CASE Or!Destroy(h)
  BY <1>4, HasMine, HeldDrops DEF Or!Destroy
<1>5. CASE Or!Forget(h)
  BY <1>5, HasMine, HeldDrops DEF Or!Forget
<1> QED BY <1>2, <1>3, <1>4, <1>5

\* inmem_order_find: the caller gets a copy that is not its own.
LEMMA FindInv == ASSUME OrdersConstants, OwnedInv, NEW h \in Handles, NEW i \in DOMAIN repo, Or!Find(h, i) PROVE OwnedInv'
<1> DEFINE o == repo[i]
<1> PICK a : a = [o EXCEPT !.own = FALSE]
  OBVIOUS
<1>1. ~Mine(h) /\ held' = [held EXCEPT ![h] = a] /\ UNCHANGED <<repo, heap>>
  BY DEF Or!Find, Mine
<1>2. o \in Order
  BY DEF OwnedInv, OrderTypes
<1> HIDE DEF o
<1>3. a \in Order /\ ~a.own
  BY <1>2 DEF Order
<1> QED BY <1>1, <1>3, HeldDrops

LEMMA OwnedNext ==
    ASSUME OrdersConstants, OwnedInv, GivesAway, [Or!OrderNext \/ Or!EventNext]_(Or!vars)
    PROVE  OwnedInv'
<1>1. CASE UNCHANGED <<held, repo, heap>>
  BY <1>1 DEF OwnedInv, OrderTypes, OwnersOwn, OneOwner, NoLeak, Owns, Mine
<1>2. CASE Or!EventNext
  <2>1. UNCHANGED <<held, repo, heap>>
    BY <1>2 DEF Or!EventNext, Or!Poll, Or!Register, Or!DispatchCommand, Or!Project, Or!vars, Or!orderVars
  <2> QED BY <1>1, <2>1
<1>3. CASE UNCHANGED Or!vars
  BY <1>1, <1>3 DEF Or!vars, Or!orderVars
<1>4. CASE Or!OrderNext
  BY <1>4, CreateInv, PlaceInv, ShipInv, CancelInv, AddLineInv, RemoveLineInv, OrdersGoInv, FindInv, DeletedInv DEF Or!OrderNext
<1> QED BY <1>2, <1>3, <1>4

LEMMA OwnedInvSound == ASSUME OwnedInv PROVE Or!OrdersOwned
<1>1. DOMAIN repo = 1 .. Len(repo) /\ DOMAIN heap = 1 .. Len(heap) /\ \A i \in 1 .. Len(repo) : repo[i] \in Order /\ Owns(repo[i])
  BY DEF OwnedInv, OrderTypes, OwnersOwn
<1>2. Or!PersistedWhole
  BY <1>1 DEF Or!PersistedWhole, Owns
<1>3. ASSUME NEW b \in DOMAIN heap, heap[b].live
      PROVE  Or!Cardinality({h \in Handles : held[h] # None /\ held[h].own /\ held[h].buf = b}) + Or!Cardinality({i \in DOMAIN repo : repo[i].buf = b}) = 1
  <2> DEFINE H == {h \in Handles : held[h] # None /\ held[h].own /\ held[h].buf = b}  R == {i \in DOMAIN repo : repo[i].buf = b}
  <2>1. Or!Cardinality(H) = Cardinality(H) /\ Or!Cardinality(R) = Cardinality(R)
    BY DEF Or!Cardinality, Cardinality
  <2>2. (\E h \in Handles : h \in H) \/ (\E i \in DOMAIN repo : i \in R)
    BY <1>1, <1>3 DEF OwnedInv, NoLeak, Mine
  <2>3. /\ \A h, g \in H : h = g
        /\ \A i, k \in R : i = k
        /\ H # {} => R = {}
    BY <1>1 DEF OwnedInv, OneOwner, Mine
  <2> HIDE DEF H, R
  <2>4. (\E h : H = {h} /\ R = {}) \/ (\E i : R = {i} /\ H = {})
    BY <2>2, <2>3
  <2>5. Cardinality({}) = 0 /\ \A x : Cardinality({x}) = 1
    BY FS_EmptySet, FS_Singleton
  <2>6. Cardinality(H) + Cardinality(R) = 1
    <3>1. (Cardinality(H) = 1 /\ Cardinality(R) = 0) \/ (Cardinality(H) = 0 /\ Cardinality(R) = 1)
      BY <2>4, <2>5
    <3> QED BY <3>1
  <2> QED BY <2>1, <2>6 DEF H, R
<1>4. ASSUME NEW i \in DOMAIN repo, repo[i].status \in {"PLACED", "SHIPPED"} PROVE repo[i].total = Or!Total(repo[i]) /\ repo[i].total > 0
  BY <1>1, <1>4, LinesCounted DEF Owns, Or!Total
<1> QED BY <1>2, <1>3, <1>4 DEF Or!OrdersOwned

\* For any handles, products and first capacity, and whatever the bounds on
\* buffers, versions and events: when callers give orders away, every order in the
\* repository has its line items, each buffer has one owner and a placed order
\* keeps the lines its total was computed from; and, whatever callers do, the
\* events of successful commands are numbered without gap or repeat.
THEOREM OrdersAreSound == ASSUME OrdersConstants PROVE Or!Spec => []OrdersSound
<1> DEFINE OrdersInv == (GivesAway => OwnedInv) /\ EventsInv
<1>1. Or!Init => OrdersInv
  BY OwnedInit, EventsInit
<1>2. OrdersInv /\ [Or!OrderNext \/ Or!EventNext]_(Or!vars) => OrdersInv'
  BY OwnedNext, EventsNext
<1>3. OrdersInv => OrdersSound
  BY OwnedInvSound, EventsInvSound DEF OrdersSound
<1> QED BY <1>1, <1>2, <1>3, PTL DEF Or!Spec

-----------------------------------------------------------------------------
(* The resilience patterns                                                 *)

\* cb_create, eb_create and ik_store_create replace what is not positive by a default.
ResilienceConstants ==
    /\ FailureThreshold \in Nat \ {0} /\ HalfOpenMax \in Nat \ {0} /\ MaxRetries \in Nat \ {0}
    /\ MaxConcurrent \in Nat /\ TTL \in Nat

HealthInv ==
    /\ DOMAIN target = {"mean", "variance", "beat", "missed", "suspicious", "available"}
    /\ silent \in Nat /\ target.missed \in Nat /\ target.missed <= silent
    /\ ~target.available => target.missed > 3
    /\ ~target.available => target.suspicious

LEMMA HealthInit == Rs!Init => HealthInv
<1> SUFFICES ASSUME Rs!Init PROVE HealthInv
  OBVIOUS
<1>1. target.available /\ target.missed = 0 /\ silent = 0 /\ DOMAIN target = {"mean", "variance", "beat", "missed", "suspicious", "available"}
  BY DEF Rs!Init
<1> QED BY <1>1 DEF HealthInv

LEMMA HealthNext == ASSUME HealthInv, [Rs!PolicyNext \/ Rs!IkNext \/ Rs!HealthNext]_(Rs!vars) PROVE HealthInv'
<1>1. CASE Rs!Heartbeat
  <2>1. target'.available /\ target'.missed = 0 /\ silent' = 0 /\ DOMAIN target' = DOMAIN target
    BY <1>1 DEF Rs!Heartbeat, HealthInv
  <2> QED BY <2>1 DEF HealthInv
<1>2. CASE Rs!IsAvailable
  <2>1. silent' = silent + 1
    BY <1>2 DEF Rs!IsAvailable
  <2>2. CASE Rs!HighPhi(target)
    <3> DEFINE a == target.available /\ target.missed + 1 <= 3
    <3>1. target' = [target EXCEPT !.missed = target.missed + 1, !.suspicious = TRUE, !.available = a]
      BY <1>2, <2>2 DEF Rs!IsAvailable
    <3> HIDE DEF a
    <3>2. target'.missed = target.missed + 1 /\ target'.suspicious
      BY <3>1
    <3>3. target'.available = a
      BY <3>1
    <3>4. ~target'.available => target.missed + 1 > 3
      <4>1. ~target'.available => ~target.available \/ ~(target.missed + 1 <= 3)
        BY <3>3, Zenon DEF a
      <4>2. target.missed \in Nat /\ (~target.available => target.missed > 3)
        BY DEF HealthInv
      <4> QED BY <4>1, <4>2
    <3>5. DOMAIN target' = DOMAIN target
      BY <3>1
    <3>6. silent \in Nat /\ target.missed \in Nat /\ target.missed <= silent
      BY DEF HealthInv
    <3> QED BY <2>1, <3>2, <3>4, <3>5, <3>6 DEF HealthInv
  <2>3. CASE ~Rs!HighPhi(target)
    <3>1. target'.missed = 0 /\ target'.available /\ DOMAIN target' = DOMAIN target
      BY <1>2, <2>3 DEF Rs!IsAvailable, HealthInv
    <3> QED BY <2>1, <3>1 DEF HealthInv
  <2> QED BY <2>2, <2>3
<1>3. CASE UNCHANGED <<target, silent>>
  BY <1>3 DEF HealthInv
<1>4. [Rs!PolicyNext \/ Rs!IkNext \/ Rs!HealthNext]_(Rs!vars) => Rs!Heartbeat \/ Rs!IsAvailable \/ UNCHANGED <<target, silent>>
  BY DEF Rs!PolicyNext, Rs!IkNext, Rs!HealthNext, Rs!vars, Rs!healthVars, Rs!Clock, Rs!Execute, Rs!CallReturns,
         Rs!EvictExpired, Rs!MarkProcessing, Rs!MarkCompleted, Rs!Check
<1> QED BY <1>1, <1>2, <1>3, <1>4

BreakerType == [state : {"CLOSED", "OPEN", "HALF_OPEN"}, failures : Nat, probes : Nat, wins : Nat, since : Nat]
BelowLimits(b) ==
    /\ b \in BreakerType
    /\ b.state = "CLOSED" => b.failures < FailureThreshold
    /\ b.state = "HALF_OPEN" => b.wins < HalfOpenMax /\ b.probes <= HalfOpenMax

\* The slots taken are the executions in progress.
BulkheadType == [current : Nat, admitted : Nat, completed : Nat, failed : Nat]
SlotsTaken(b, n) ==
    /\ b \in BulkheadType
    /\ b.current = n /\ n <= MaxConcurrent /\ b.admitted = b.completed + b.failed + b.current

\* Only the innermost execution can be one whose function did not use the policy
\* itself, and the shared backoff counts its calls.
Calls == [tries : Nat, nested : BOOLEAN]
BackoffCounts ==
    /\ calls \in Seq(Calls) /\ eb \in Nat /\ eb < MaxRetries
    /\ \A i \in 1 .. Len(calls) : ~calls[i].nested => i = Len(calls) /\ calls[i].tries = eb + 1

PolicyInv == now \in Nat /\ BelowLimits(cb) /\ SlotsTaken(bh, Len(calls)) /\ BackoffCounts

LEMMA PolicyInit == ASSUME ResilienceConstants PROVE Rs!Init => PolicyInv
<1> SUFFICES ASSUME Rs!Init PROVE PolicyInv
  OBVIOUS
<1>1. now \in Nat /\ BelowLimits(cb)
  BY DEF Rs!Init, BelowLimits, BreakerType, ResilienceConstants
<1>2. calls = << >> /\ eb = 0
  BY DEF Rs!Init
<1>3. calls \in Seq(Calls) /\ Len(calls) = 0
  BY <1>2
<1>4. SlotsTaken(bh, 0)
  BY DEF Rs!Init, SlotsTaken, BulkheadType, ResilienceConstants
<1>5. BackoffCounts
  BY <1>2, <1>3 DEF BackoffCounts, ResilienceConstants
<1> QED BY <1>1, <1>3, <1>4, <1>5 DEF PolicyInv

\* cb_allow_request, cb_record_success and cb_record_failure leave the counters below their limits.
LEMMA AllowBelow == ASSUME ResilienceConstants, now \in Nat, NEW b, BelowLimits(b) PROVE BelowLimits(Rs!Allow(b).cb)
<1>1. CASE b.state = "CLOSED"
  BY <1>1 DEF Rs!Allow
<1>2. CASE b.state = "OPEN" /\ now - b.since >= Timeout
  <2>1. Rs!Allow(b).cb = [b EXCEPT !.state = "HALF_OPEN", !.probes = 0, !.wins = 0, !.since = now]
    BY <1>2 DEF Rs!Allow
  <2>2. Rs!Allow(b).cb = [state |-> "HALF_OPEN", failures |-> b.failures, probes |-> 0, wins |-> 0, since |-> now]
    BY <2>1 DEF BelowLimits, BreakerType
  <2>3. b.failures \in Nat
    BY DEF BelowLimits, BreakerType
  <2> QED BY <2>2, <2>3 DEF BelowLimits, BreakerType, ResilienceConstants
<1>3. CASE b.state = "HALF_OPEN" /\ b.probes < HalfOpenMax
  BY <1>3 DEF Rs!Allow, BelowLimits, BreakerType, ResilienceConstants
<1>4. CASE (b.state = "OPEN" /\ ~(now - b.since >= Timeout)) \/ (b.state = "HALF_OPEN" /\ ~(b.probes < HalfOpenMax))
  BY <1>4 DEF Rs!Allow
<1> QED BY <1>1, <1>2, <1>3, <1>4 DEF BelowLimits, BreakerType

LEMMA SuccessBelow == ASSUME ResilienceConstants, now \in Nat, NEW b, BelowLimits(b) PROVE BelowLimits(Rs!RecordSuccess(b))
<1> DEFINE c == Rs!RecordSuccess(b)
<1>0. b.failures \in Nat /\ b.probes \in Nat /\ b.wins \in Nat /\ b.since \in Nat
  BY DEF BelowLimits, BreakerType
<1>1. CASE b.state = "CLOSED"
  BY <1>1 DEF Rs!RecordSuccess, BelowLimits, BreakerType, ResilienceConstants
<1>2. CASE b.state = "HALF_OPEN" /\ b.wins + 1 < HalfOpenMax
  <2>1. c = [b EXCEPT !.wins = b.wins + 1]
    BY <1>2 DEF Rs!RecordSuccess
  <2>2. c = [state |-> "HALF_OPEN", failures |-> b.failures, probes |-> b.probes, wins |-> b.wins + 1, since |-> b.since]
    BY <1>2, <2>1 DEF BelowLimits, BreakerType
  <2>3. b.probes <= HalfOpenMax
    BY <1>2 DEF BelowLimits
  <2> HIDE DEF c
  <2>4. c \in BreakerType
    BY <1>0, <2>2 DEF BreakerType
  <2>5. BelowLimits(c)
    BY <1>2, <2>2, <2>3, <2>4 DEF BelowLimits
  <2> QED BY <2>5 DEF c
<1>3. CASE b.state = "HALF_OPEN" /\ ~(b.wins + 1 < HalfOpenMax)
  <2>1. c = [b EXCEPT !.wins = b.wins + 1, !.state = "CLOSED", !.failures = 0, !.since = now]
    BY <1>3 DEF Rs!RecordSuccess
  <2>2. c = [state |-> "CLOSED", failures |-> 0, probes |-> b.probes, wins |-> b.wins + 1, since |-> now]
    BY <2>1 DEF BelowLimits, BreakerType
  <2> HIDE DEF c
  <2>3. BelowLimits(c)
    BY <1>0, <2>2 DEF BelowLimits, BreakerType, ResilienceConstants
  <2> QED BY <2>3 DEF c
<1>4. CASE b.state = "OPEN"
  BY <1>4 DEF Rs!RecordSuccess
<1> QED BY <1>1, <1>2, <1>3, <1>4 DEF BelowLimits, BreakerType

LEMMA FailureBelow == ASSUME ResilienceConstants, now \in Nat, NEW b, BelowLimits(b) PROVE BelowLimits(Rs!RecordFailure(b))
<1> DEFINE c == Rs!RecordFailure(b)
<1>0. b.failures \in Nat /\ b.probes \in Nat /\ b.wins \in Nat /\ b.since \in Nat
  BY DEF BelowLimits, BreakerType
<1>1. CASE b.state = "CLOSED" /\ b.failures + 1 < FailureThreshold
  <2>1. c = [b EXCEPT !.failures = b.failures + 1]
    BY <1>1 DEF Rs!RecordFailure
  <2>2. c = [state |-> "CLOSED", failures |-> b.failures + 1, probes |-> b.probes, wins |-> b.wins, since |-> b.since]
    BY <1>1, <2>1 DEF BelowLimits, BreakerType
  <2> HIDE DEF c
  <2>3. BelowLimits(c)
    BY <1>0, <1>1, <2>2 DEF BelowLimits, BreakerType
  <2> QED BY <2>3 DEF c
<1>2. CASE b.state = "CLOSED" /\ ~(b.failures + 1 < FailureThreshold)
  <2>1. c = [b EXCEPT !.failures = b.failures + 1, !.state = "OPEN", !.since = now]
    BY <1>2 DEF Rs!RecordFailure
  <2>2. c = [state |-> "OPEN", failures |-> b.failures + 1, probes |-> b.probes, wins |-> b.wins, since |-> now]
    BY <2>1 DEF BelowLimits, BreakerType
  <2> HIDE DEF c
  <2>3. BelowLimits(c)
    BY <1>0, <2>2 DEF BelowLimits, BreakerType
  <2> QED BY <2>3 DEF c
<1>3. CASE b.state = "HALF_OPEN"
  <2>1. c = [b EXCEPT !.state = "OPEN", !.since = now]
    BY <1>3 DEF Rs!RecordFailure
  <2>2. c = [state |-> "OPEN", failures |-> b.failures, probes |-> b.probes, wins |-> b.wins, since |-> now]
    BY <2>1 DEF BelowLimits, BreakerType
  <2> HIDE DEF c
  <2>3. BelowLimits(c)
    BY <1>0, <2>2 DEF BelowLimits, BreakerType
  <2> QED BY <2>3 DEF c
<1>4. CASE b.state = "OPEN"
  BY <1>4 DEF Rs!RecordFailure
<1> QED BY <1>1, <1>2, <1>3, <1>4 DEF BelowLimits, BreakerType

\* bh_try_acquire and bh_release.
LEMMA Acquired ==
    ASSUME ResilienceConstants, NEW b, NEW n \in Nat, SlotsTaken(b, n), b.current < MaxConcurrent
    PROVE  SlotsTaken([b EXCEPT !.current = @ + 1, !.admitted = @ + 1], n + 1)
<1> DEFINE x == b.current + 1  y == b.admitted + 1  c == [b EXCEPT !.current = x, !.admitted = y]
<1>1. b.current \in Nat /\ b.admitted \in Nat /\ b.completed \in Nat /\ b.failed \in Nat /\ MaxConcurrent \in Nat
  BY DEF SlotsTaken, BulkheadType, ResilienceConstants
<1> HIDE DEF x, y
<1>2. c = [current |-> x, admitted |-> y, completed |-> b.completed, failed |-> b.failed]
  <2>1. b \in BulkheadType
    BY DEF SlotsTaken
  <2>2. c = [b EXCEPT !.current = x, !.admitted = y]
    OBVIOUS
  <2> HIDE DEF c
  <2> QED BY <2>1, <2>2 DEF BulkheadType
<1> HIDE DEF c
<1>3. c \in BulkheadType
  BY <1>1, <1>2 DEF BulkheadType, x, y
<1>4. c.current = n + 1 /\ n + 1 <= MaxConcurrent /\ c.admitted = c.completed + c.failed + c.current
  BY <1>1, <1>2 DEF SlotsTaken, x, y
<1> QED BY <1>3, <1>4 DEF SlotsTaken, c, x, y

LEMMA Released == ASSUME ResilienceConstants, NEW b, NEW n \in Nat, SlotsTaken(b, n), n > 0, NEW ok \in BOOLEAN PROVE SlotsTaken(Rs!Release(b, ok), n - 1)
<1> DEFINE c == Rs!Release(b, ok)
<1>1. b.current \in Nat /\ b.admitted \in Nat /\ b.completed \in Nat /\ b.failed \in Nat /\ MaxConcurrent \in Nat /\ b.current > 0
  BY DEF SlotsTaken, BulkheadType, ResilienceConstants
<1>2. CASE ok = TRUE
  <2>1. c = [b EXCEPT !.current = b.current - 1, !.completed = b.completed + 1, !.failed = b.failed]
    BY <1>1, <1>2 DEF Rs!Release
  <2>2. c = [current |-> b.current - 1, admitted |-> b.admitted, completed |-> b.completed + 1, failed |-> b.failed]
    BY <2>1 DEF SlotsTaken, BulkheadType
  <2> HIDE DEF c
  <2>3. c \in BulkheadType
    BY <1>1, <2>2 DEF BulkheadType
  <2>4. c.current = n - 1 /\ n - 1 <= MaxConcurrent /\ c.admitted = c.completed + c.failed + c.current
    BY <1>1, <2>2 DEF SlotsTaken
  <2> QED BY <2>3, <2>4 DEF SlotsTaken, c
<1>3. CASE ok = FALSE
  <2>1. c = [b EXCEPT !.current = b.current - 1, !.completed = b.completed, !.failed = b.failed + 1]
    BY <1>1, <1>3 DEF Rs!Release
  <2>2. c = [current |-> b.current - 1, admitted |-> b.admitted, completed |-> b.completed, failed |-> b.failed + 1]
    BY <2>1 DEF SlotsTaken, BulkheadType
  <2> HIDE DEF c
  <2>3. c \in BulkheadType
    BY <1>1, <2>2 DEF BulkheadType
  <2>4. c.current = n - 1 /\ n - 1 <= MaxConcurrent /\ c.admitted = c.completed + c.failed + c.current
    BY <1>1, <2>2 DEF SlotsTaken
  <2> QED BY <2>3, <2>4 DEF SlotsTaken, c
<1> QED BY <1>2, <1>3

\* resilience_execute up to the call, or to a refusal.
LEMMA ExecuteInv == ASSUME ResilienceConstants, PolicyInv, Rs!Execute PROVE PolicyInv'
<1> DEFINE n == Len(calls)  in == [bh EXCEPT !.current = @ + 1, !.admitted = @ + 1]  allowed == Rs!Allow(cb)
<1>1. n \in Nat /\ now \in Nat /\ now' = now /\ calls \in Seq(Calls)
  BY DEF Rs!Execute, PolicyInv, BackoffCounts
<1>2. CASE UNCHANGED <<cb, bh, tb, eb, calls>>
  BY <1>1, <1>2 DEF PolicyInv, BackoffCounts
<1>3. BelowLimits(allowed.cb)
  BY <1>1, AllowBelow DEF PolicyInv
<1> HIDE DEF allowed
<1>4. BelowLimits(Rs!RecordSuccess(allowed.cb))
  BY <1>1, <1>3, SuccessBelow
<1>5. ASSUME bh.current < MaxConcurrent PROVE SlotsTaken(in, n + 1) /\ SlotsTaken(Rs!Release(in, TRUE), n)
  <2>1. SlotsTaken(in, n + 1)
    BY <1>1, <1>5, Acquired DEF PolicyInv
  <2> HIDE DEF in
  <2>2. n + 1 \in Nat /\ n + 1 > 0 /\ (n + 1) - 1 = n /\ TRUE \in BOOLEAN
    BY <1>1
  <2> HIDE DEF n
  <2>3. SlotsTaken(Rs!Release(in, TRUE), (n + 1) - 1)
    BY <2>1, <2>2, Released
  <2> QED BY <2>1, <2>2, <2>3
<1>6. CASE /\ bh.current < MaxConcurrent /\ cb' \in {allowed.cb, Rs!RecordSuccess(allowed.cb)}
           /\ bh' = Rs!Release(in, TRUE) /\ UNCHANGED <<eb, calls>>
  <2>1. BelowLimits(cb)' /\ SlotsTaken(bh, n)'
    <3>1. BelowLimits(cb')
      BY <1>3, <1>4, <1>6
    <3>2. SlotsTaken(bh', n)
      BY <1>5, <1>6
    <3> QED BY <1>6, <3>1, <3>2 DEF BelowLimits, SlotsTaken
  <2>2. BackoffCounts'
    BY <1>6 DEF PolicyInv, BackoffCounts
  <2> QED BY <1>1, <2>1, <2>2 DEF PolicyInv
<1>7. CASE /\ bh.current < MaxConcurrent /\ cb' = allowed.cb /\ bh' = in
           /\ eb' = 0 /\ calls' = Append(Rs!Called, [tries |-> 1, nested |-> FALSE])
  <2> DEFINE new == [tries |-> 1, nested |-> FALSE]
  <2>1. /\ Rs!Called \in Seq(Calls) /\ Len(Rs!Called) = n
        /\ \A i \in 1 .. n : i < n => Rs!Called[i] = calls[i]
        /\ n > 0 => Rs!Called[n].nested
    <3>1. CASE calls = << >>
      BY <1>1, <3>1 DEF Rs!Called
    <3>2. CASE calls # << >>
      <4> DEFINE c == [calls[n] EXCEPT !.nested = TRUE]
      <4>1. Rs!Called = [calls EXCEPT ![n] = c]
        BY <3>2 DEF Rs!Called
      <4>2. n \in 1 .. Len(calls)
        BY <1>1, <3>2
      <4>3. calls[n] \in Calls
        BY <1>1, <4>2
      <4>4. c \in Calls /\ c.nested
        BY <4>3 DEF Calls
      <4> HIDE DEF c
      <4>5. Rs!Called \in Seq(Calls) /\ Len(Rs!Called) = Len(calls) /\ \A i \in 1 .. Len(calls) : Rs!Called[i] = IF i = n THEN c ELSE calls[i]
        BY <1>1, <4>1, <4>2, <4>4, ExceptSeq
      <4> QED BY <4>2, <4>4, <4>5
    <3> QED BY <3>1, <3>2
  <2>2. new \in Calls /\ ~new.nested /\ new.tries = 1
    BY DEF Calls
  <2> HIDE DEF new, n
  <2>3. /\ calls' \in Seq(Calls) /\ Len(calls') = n + 1 /\ calls'[n + 1] = new
        /\ \A i \in 1 .. n : calls'[i] = Rs!Called[i]
    BY <1>7, <2>1, <2>2, AppendProperties DEF new
  <2>4. \A i \in 1 .. n : calls'[i].nested
    <3> SUFFICES ASSUME NEW i \in 1 .. n PROVE calls'[i].nested
      OBVIOUS
    <3>1. CASE i = n
      BY <1>1, <2>1, <2>3, <3>1
    <3>2. CASE i < n
      <4>1. calls'[i] = calls[i]
        BY <2>1, <2>3, <3>2
      <4>2. ~calls[i].nested => i = n
        BY <3>2 DEF PolicyInv, BackoffCounts, n
      <4> QED BY <3>2, <4>1, <4>2
    <3> QED BY <1>1, <3>1, <3>2
  <2>5. BackoffCounts'
    <3>1. eb' \in Nat /\ eb' < MaxRetries /\ eb' = 0
      BY <1>7 DEF ResilienceConstants
    <3>2. ASSUME NEW i \in 1 .. Len(calls'), ~calls'[i].nested PROVE i = Len(calls') /\ calls'[i].tries = eb' + 1
      <4>1. i = n + 1
        BY <1>1, <2>3, <2>4, <3>2
      <4> QED BY <2>2, <2>3, <3>1, <4>1
    <3> QED BY <2>3, <3>1, <3>2 DEF BackoffCounts
  <2>6. BelowLimits(cb')
    BY <1>3, <1>7
  <2>7. SlotsTaken(bh', Len(calls'))
    BY <1>5, <1>7, <2>3
  <2> QED BY <1>1, <2>5, <2>6, <2>7 DEF PolicyInv, BelowLimits, SlotsTaken
<1> QED BY <1>2, <1>6, <1>7 DEF Rs!Execute, allowed

\* The function of the innermost execution returns, and is called again or not.
LEMMA ReturnInv == ASSUME ResilienceConstants, PolicyInv, NEW how, Rs!CallReturns(how) PROVE PolicyInv'
<1> DEFINE n == Len(calls)
<1>1. n \in Nat /\ n > 0 /\ now \in Nat /\ now' = now /\ calls \in Seq(Calls) /\ eb \in Nat
  BY DEF Rs!CallReturns, PolicyInv, BackoffCounts
<1>2. ASSUME NEW b, BelowLimits(b), NEW ok \in BOOLEAN, Rs!Finish(b, ok) PROVE PolicyInv'
  <2>1. cb' = b /\ bh' = Rs!Release(bh, ok) /\ eb' = 0 /\ calls' = SubSeq(calls, 1, n - 1)
    BY <1>2 DEF Rs!Finish, Rs!Front
  <2>2. SlotsTaken(bh', n - 1)
    BY <1>1, <1>2, <2>1, Released DEF PolicyInv
  <2>3. calls' \in Seq(Calls) /\ Len(calls') = n - 1 /\ \A i \in 1 .. n - 1 : calls'[i] = calls[i]
    <3>1. \A i \in 1 .. n - 1 : calls[i] \in Calls
      BY <1>1
    <3> HIDE DEF n
    <3>2. 1 \in Int /\ n - 1 \in Int /\ (1 <= n - 1 \/ n - 1 = 0) /\ (n - 1) - 1 + 1 = n - 1
      BY <1>1
    <3>3. calls' \in Seq(Calls) /\ Len(calls') = n - 1 /\ \A i \in 1 .. (n - 1) - 1 + 1 : calls'[i] = calls[1 + i - 1]
      BY <2>1, <3>1, <3>2, SubSeqProperties
    <3> QED BY <3>2, <3>3
  <2>4. \A i \in 1 .. n - 1 : calls'[i].nested
    BY <1>1, <2>3 DEF PolicyInv, BackoffCounts
  <2> HIDE DEF n
  <2>5. BackoffCounts'
    <3>1. eb' \in Nat /\ eb' < MaxRetries
      BY <2>1 DEF ResilienceConstants
    <3>2. \A i \in 1 .. Len(calls') : calls'[i].nested
      BY <2>3, <2>4
    <3> QED BY <2>3, <3>1, <3>2 DEF BackoffCounts
  <2>6. BelowLimits(cb')
    BY <1>2, <2>1
  <2>7. SlotsTaken(bh', Len(calls'))
    BY <2>2, <2>3
  <2> QED BY <1>1, <2>5, <2>6, <2>7 DEF PolicyInv, BelowLimits, SlotsTaken
<1>3. CASE /\ eb + 1 < MaxRetries /\ eb' = eb + 1 /\ calls' = [calls EXCEPT ![n].tries = @ + 1] /\ UNCHANGED <<cb, bh>>
  <2> DEFINE c == [calls[n] EXCEPT !.tries = @ + 1]
  <2>1. n \in 1 .. Len(calls)
    BY <1>1
  <2>2. calls[n] \in Calls
    BY <1>1, <2>1
  <2>3. calls[n].tries \in Nat
    BY <2>2 DEF Calls
  <2>4. c \in Calls /\ c.tries = calls[n].tries + 1 /\ (c.nested <=> calls[n].nested)
    <3> DEFINE t == calls[n].tries + 1
    <3>1. t \in Nat /\ c = [calls[n] EXCEPT !.tries = t]
      BY <2>3
    <3> HIDE DEF t
    <3> QED BY <2>2, <3>1 DEF Calls, t
  <2>5. calls' = [calls EXCEPT ![n] = c]
    BY <1>3
  <2> HIDE DEF c
  <2>6. calls' \in Seq(Calls) /\ Len(calls') = Len(calls) /\ \A i \in 1 .. Len(calls) : calls'[i] = IF i = n THEN c ELSE calls[i]
    BY <1>1, <2>1, <2>4, <2>5, ExceptSeq
  <2>7. BackoffCounts'
    <3>1. eb' \in Nat /\ eb' < MaxRetries /\ eb' = eb + 1
      BY <1>1, <1>3
    <3>2. ASSUME NEW i \in 1 .. Len(calls'), ~calls'[i].nested PROVE i = Len(calls') /\ calls'[i].tries = eb' + 1
      <4>1. i \in 1 .. Len(calls) /\ ~calls[i].nested
        BY <2>4, <2>6, <3>2
      <4>2. i = n /\ calls[n].tries = eb + 1
        BY <4>1 DEF PolicyInv, BackoffCounts
      <4> QED BY <1>1, <2>1, <2>4, <2>6, <3>1, <4>2
    <3> QED BY <2>6, <3>1, <3>2 DEF BackoffCounts
  <2> QED BY <1>1, <1>3, <2>6, <2>7 DEF PolicyInv, BelowLimits, SlotsTaken
<1>4. BelowLimits(Rs!RecordSuccess(cb)) /\ BelowLimits(Rs!RecordFailure(cb))
  BY SuccessBelow, FailureBelow DEF PolicyInv
<1>5. TRUE \in BOOLEAN /\ FALSE \in BOOLEAN
  OBVIOUS
<1> QED BY <1>2, <1>3, <1>4, <1>5 DEF Rs!CallReturns

LEMMA PolicyNext == ASSUME ResilienceConstants, PolicyInv, [Rs!PolicyNext \/ Rs!IkNext \/ Rs!HealthNext]_(Rs!vars) PROVE PolicyInv'
<1>1. CASE Rs!Execute
  BY <1>1, ExecuteInv
<1>2. CASE \E how : Rs!CallReturns(how)
  BY <1>2, ReturnInv
<1>3. CASE Rs!Clock
  BY <1>3 DEF Rs!Clock, Rs!policyVars, PolicyInv, BelowLimits, SlotsTaken, BackoffCounts
<1>4. CASE UNCHANGED <<Rs!policyVars, now>>
  BY <1>4 DEF Rs!policyVars, PolicyInv, BelowLimits, SlotsTaken, BackoffCounts
<1>5. [Rs!PolicyNext \/ Rs!IkNext \/ Rs!HealthNext]_(Rs!vars) =>
         Rs!Execute \/ (\E how : Rs!CallReturns(how)) \/ Rs!Clock \/ UNCHANGED <<Rs!policyVars, now>>
  BY DEF Rs!PolicyNext, Rs!IkNext, Rs!HealthNext, Rs!vars, Rs!EvictExpired, Rs!MarkProcessing, Rs!MarkCompleted, Rs!Check,
         Rs!Heartbeat, Rs!IsAvailable
<1> QED BY <1>1, <1>2, <1>3, <1>4, <1>5

\* Idempotency keys: an entry lives as long as the start it records is within the time to live.
KeyEntry == [key : Keys, status : {"PROCESSING", "COMPLETED"}, created : Nat]
OneEntryPerKey == \A m, n \in 1 .. Len(entries) : entries[m].key = entries[n].key => m = n
StartsRemembered ==
    \A m \in 1 .. Len(started) :
        /\ started[m][2] <= now
        /\ now - started[m][2] <= TTL => \E i \in 1 .. Len(entries) : entries[i].key = started[m][1] /\ entries[i].created = started[m][2]
StartsApart == \A m, n \in 1 .. Len(started) : m < n /\ started[m][1] = started[n][1] => started[n][2] - started[m][2] > TTL
KeysInv ==
    /\ now \in Nat /\ entries \in Seq(KeyEntry) /\ started \in Seq(Keys \X Nat)
    /\ client \in [Clients -> {None} \cup [key : Keys, step : {"claim", "work"}]]
    /\ OneEntryPerKey /\ StartsRemembered /\ StartsApart

\* get_index: no entry of k, or the one there is.
LEMMA IndexFinds ==
    ASSUME KeysInv, NEW k
    PROVE  \/ Rs!Index(k) = 0 /\ \A i \in 1 .. Len(entries) : entries[i].key # k
           \/ Rs!Index(k) \in 1 .. Len(entries) /\ entries[Rs!Index(k)].key = k
<1> DEFINE I == {i \in 1 .. Len(entries) : entries[i].key = k}
<1>1. Rs!Index(k) = IF I # {} THEN Rs!Min(I) ELSE 0
  BY DEF Rs!Index, Rs!SelectInSeq
<1>2. I \in SUBSET Nat /\ Rs!Min(I) = Min(I)
  BY DEF Rs!Min, Min
<1>3. I # {} => Min(I) \in I
  BY <1>2, MinExists
<1> QED BY <1>1, <1>2, <1>3

LEMMA KeysInit == Rs!Init => KeysInv
<1> SUFFICES ASSUME Rs!Init PROVE KeysInv
  OBVIOUS
<1>1. now = 0 /\ entries = << >> /\ started = << >> /\ client = [c \in Clients |-> None]
  BY DEF Rs!Init
<1>2. Len(entries) = 0 /\ Len(started) = 0 /\ entries \in Seq(KeyEntry) /\ started \in Seq(Keys \X Nat)
  BY <1>1
<1>3. OneEntryPerKey /\ StartsRemembered /\ StartsApart
  BY <1>2 DEF OneEntryPerKey, StartsRemembered, StartsApart
<1> QED BY <1>1, <1>2, <1>3 DEF KeysInv

\* Removing entries keeps the invariant, if those that stay are as they were and none that is still alive goes.
LEMMA EntriesGo ==
    ASSUME KeysInv, ResilienceConstants, entries' \in Seq(KeyEntry), UNCHANGED <<now, started>>,
           client' \in [Clients -> {None} \cup [key : Keys, step : {"claim", "work"}]],
           NEW at, \A m \in 1 .. Len(entries') : /\ at[m] \in 1 .. Len(entries)
                                                 /\ entries'[m].key = entries[at[m]].key
                                                 /\ entries'[m].created = entries[at[m]].created,
           \A m, n \in 1 .. Len(entries') : at[m] = at[n] => m = n,
           \A i \in 1 .. Len(entries) : ~Rs!Expired(entries[i]) => \E m \in 1 .. Len(entries') : at[m] = i
    PROVE  KeysInv'
<1>1. OneEntryPerKey'
  <2> SUFFICES ASSUME NEW m \in 1 .. Len(entries'), NEW n \in 1 .. Len(entries'), entries'[m].key = entries'[n].key PROVE m = n
    BY DEF OneEntryPerKey
  <2>1. at[m] \in 1 .. Len(entries) /\ at[n] \in 1 .. Len(entries) /\ entries[at[m]].key = entries[at[n]].key
    OBVIOUS
  <2>2. at[m] = at[n]
    BY <2>1 DEF KeysInv, OneEntryPerKey
  <2> QED BY <2>2
<1>2. StartsRemembered'
  <2> SUFFICES ASSUME NEW m \in 1 .. Len(started)
               PROVE  /\ started[m][2] <= now
                      /\ now - started[m][2] <= TTL =>
                            \E i \in 1 .. Len(entries') : entries'[i].key = started[m][1] /\ entries'[i].created = started[m][2]
    BY DEF StartsRemembered
  <2>1. started[m][2] <= now
    BY DEF KeysInv, StartsRemembered
  <2>2. ASSUME now - started[m][2] <= TTL
        PROVE  \E i \in 1 .. Len(entries') : entries'[i].key = started[m][1] /\ entries'[i].created = started[m][2]
    <3>1. PICK i \in 1 .. Len(entries) : entries[i].key = started[m][1] /\ entries[i].created = started[m][2]
      BY <2>2 DEF KeysInv, StartsRemembered
    <3>2. started[m] \in Keys \X Nat
      BY DEF KeysInv
    <3>3. started[m][2] \in Nat /\ now \in Nat /\ TTL \in Nat
      BY <3>2 DEF KeysInv, ResilienceConstants
    <3>4. ~Rs!Expired(entries[i])
      BY <2>2, <3>1, <3>3 DEF Rs!Expired
    <3>5. PICK n \in 1 .. Len(entries') : at[n] = i
      BY <3>4
    <3> QED BY <3>1, <3>5
  <2> QED BY <2>1, <2>2
<1>3. StartsApart'
  BY DEF KeysInv, StartsApart
<1> QED BY <1>1, <1>2, <1>3 DEF KeysInv

\* What a client does next.
LEMMA DoingType ==
    ASSUME KeysInv, NEW c \in Clients, NEW k \in Keys, NEW step \in {None, "claim", "work"}, Rs!Doing(c, k, step)
    PROVE  client' \in [Clients -> {None} \cup [key : Keys, step : {"claim", "work"}]]
<1> DEFINE D == [key : Keys, step : {"claim", "work"}]  d == IF step = None THEN None ELSE [key |-> k, step |-> step]
<1>1. d \in {None} \cup D
  OBVIOUS
<1>2. client \in [Clients -> {None} \cup D] /\ client' = [client EXCEPT ![c] = d]
  BY DEF KeysInv, Rs!Doing
<1> HIDE DEF d, D
<1>3. client' \in [Clients -> {None} \cup D]
  BY <1>1, <1>2
<1> QED BY <1>3 DEF D

LEMMA KeysStutter == ASSUME KeysInv, UNCHANGED <<now, entries, client, started>> PROVE KeysInv'
  BY DEF KeysInv, OneEntryPerKey, StartsRemembered, StartsApart

\* ik_store_check
LEMMA CheckInv == ASSUME ResilienceConstants, KeysInv, NEW c \in Clients, NEW k \in Keys, Rs!Check(c, k) PROVE KeysInv'
<1> DEFINE i == Rs!Index(k)
<1>1. UNCHANGED <<now, started>>
  BY DEF Rs!Check
<1>2. CASE UNCHANGED <<entries, client>>
  BY <1>1, <1>2, KeysStutter
<1>3. CASE i = 0 /\ Rs!Doing(c, k, "claim") /\ UNCHANGED entries
  <2>1. client' \in [Clients -> {None} \cup [key : Keys, step : {"claim", "work"}]]
    BY <1>3, DoingType
  <2> QED BY <1>1, <1>3, <2>1 DEF KeysInv, OneEntryPerKey, StartsRemembered, StartsApart
<1>4. CASE i > 0 /\ Rs!Expired(entries[i]) /\ entries' = Rs!RemoveAt(entries, i) /\ Rs!Doing(c, k, "claim")
  <2>1. client' \in [Clients -> {None} \cup [key : Keys, step : {"claim", "work"}]]
    BY <1>4, DoingType
  <2>2. entries \in Seq(KeyEntry) /\ Len(entries) \in Nat
    BY DEF KeysInv
  <2>3. i \in 1 .. Len(entries)
    BY <1>4, <2>2, IndexFinds
  <2> HIDE DEF i
  <2>4. entries' = SubSeq(entries, 1, i - 1) \o SubSeq(entries, i + 1, Len(entries))
    BY <1>4 DEF Rs!RemoveAt
  <2>5. /\ entries' \in Seq(KeyEntry) /\ Len(entries') = Len(entries) - 1
        /\ \A n \in 1 .. Len(entries) - 1 : entries'[n] = IF n < i THEN entries[n] ELSE entries[n + 1]
    BY <2>2, <2>3, <2>4, RemovedAt
  <2> DEFINE N == Len(entries)  at == [n \in 1 .. N - 1 |-> IF n < i THEN n ELSE n + 1]
  <2>6. \A m \in 1 .. N - 1 : at[m] \in 1 .. N /\ entries'[m] = entries[at[m]]
    <3> HIDE DEF N
    <3>1. N \in Nat /\ \A m \in 1 .. N - 1 : entries'[m] = IF m < i THEN entries[m] ELSE entries[m + 1]
      BY <2>2, <2>5 DEF N
    <3> QED BY <3>1
  <2>7. \A m, n \in 1 .. N - 1 : at[m] = at[n] => m = n
    <3> HIDE DEF N
    <3>1. N \in Nat /\ i \in 1 .. N
      BY <2>2, <2>3 DEF N
    <3> QED BY <3>1
  <2>8. \A l \in 1 .. N : l # i => \E m \in 1 .. N - 1 : at[m] = l
    <3> HIDE DEF N
    <3>1. N \in Nat /\ i \in 1 .. N
      BY <2>2, <2>3 DEF N
    <3> SUFFICES ASSUME NEW l \in 1 .. N, l # i PROVE \E m \in 1 .. N - 1 : at[m] = l
      OBVIOUS
    <3>2. CASE l < i
      <4>1. l \in 1 .. N - 1 /\ at[l] = l
        BY <3>1, <3>2
      <4> QED BY <4>1
    <3>3. CASE l > i
      <4>1. l - 1 \in 1 .. N - 1 /\ at[l - 1] = l
        BY <3>1, <3>3
      <4> QED BY <4>1
    <3> QED BY <3>1, <3>2, <3>3
  <2> HIDE DEF at
  <2>9. \A l \in 1 .. N : ~Rs!Expired(entries[l]) => \E m \in 1 .. N - 1 : at[m] = l
    BY <1>4, <2>8 DEF i
  <2>10. N - 1 = Len(entries')
    BY <2>5
  <2>11. \A m \in 1 .. Len(entries') : /\ at[m] \in 1 .. Len(entries) /\ entries'[m].key = entries[at[m]].key
                                       /\ entries'[m].created = entries[at[m]].created
    BY <2>6, <2>10
  <2>12. \A m, n \in 1 .. Len(entries') : at[m] = at[n] => m = n
    BY <2>7, <2>10
  <2>13. \A l \in 1 .. Len(entries) : ~Rs!Expired(entries[l]) => \E m \in 1 .. Len(entries') : at[m] = l
    BY <2>9, <2>10
  <2>14. entries' \in Seq(KeyEntry)
    BY <2>5
  <2> QED BY <1>1, <2>1, <2>11, <2>12, <2>13, <2>14, EntriesGo
<1> QED BY <1>2, <1>3, <1>4 DEF Rs!Check

\* ik_store_evict_expired
LEMMA EvictInv == ASSUME ResilienceConstants, KeysInv, Rs!EvictExpired PROVE KeysInv'
<1> DEFINE live == {i \in DOMAIN entries : ~Rs!Expired(entries[i])}  z == Rs!Cardinality(live)
<1>1. PICK at \in Rs!Bijection(1 .. z, live) : entries' = [n \in DOMAIN at |-> entries[at[n]]]
  BY DEF Rs!EvictExpired
<1>2. UNCHANGED <<now, started, client>>
  BY DEF Rs!EvictExpired
<1>3. entries \in Seq(KeyEntry) /\ DOMAIN entries = 1 .. Len(entries)
  BY DEF KeysInv
<1>4. z \in Nat
  <2>1. IsFiniteSet(live)
    <3>1. IsFiniteSet(1 .. Len(entries))
      BY <1>3, FS_Interval
    <3> QED BY <1>3, <3>1, FS_Subset
  <2>2. z = Cardinality(live)
    BY DEF Rs!Cardinality, Cardinality
  <2> QED BY <2>1, <2>2, FS_CardinalityType
<1> HIDE DEF z
<1>5. /\ at \in [1 .. z -> live] /\ \A m, n \in 1 .. z : at[m] = at[n] => m = n
      /\ \A i \in live : \E m \in 1 .. z : at[m] = i
  BY DEF Rs!Bijection, Rs!Injection, Rs!Surjection, Rs!IsInjective
<1>6. entries' \in Seq(KeyEntry) /\ Len(entries') = z /\ \A m \in 1 .. z : entries'[m] = entries[at[m]]
  <2>1. entries' = [n \in 1 .. z |-> entries[at[n]]]
    BY <1>1, <1>5
  <2>2. \A n \in 1 .. z : entries[at[n]] \in KeyEntry
    BY <1>3, <1>5
  <2> QED BY <1>4, <2>1, <2>2, IsASeq
<1>7. client' \in [Clients -> {None} \cup [key : Keys, step : {"claim", "work"}]]
  BY <1>2 DEF KeysInv
<1>8. \A i \in 1 .. Len(entries) : ~Rs!Expired(entries[i]) => \E m \in 1 .. Len(entries') : at[m] = i
  BY <1>3, <1>5, <1>6
<1>9. \A m \in 1 .. Len(entries') : at[m] \in 1 .. Len(entries) /\ entries'[m] = entries[at[m]]
  BY <1>3, <1>5, <1>6
<1>10. \A m, n \in 1 .. Len(entries') : at[m] = at[n] => m = n
  BY <1>5, <1>6
<1> HIDE DEF live
<1> QED BY <1>2, <1>6, <1>7, <1>8, <1>9, <1>10, EntriesGo

\* ik_store_mark_processing: only a key that has no entry is started, more than the time to live after its last start.
LEMMA ProcessingInv == ASSUME ResilienceConstants, KeysInv, NEW c \in Clients, Rs!MarkProcessing(c) PROVE KeysInv'
<1> DEFINE k == client[c].key  D == [key : Keys, step : {"claim", "work"}]
           e == [key |-> k, status |-> "PROCESSING", created |-> now]
<1>1. k \in Keys /\ now' = now
  BY DEF Rs!MarkProcessing, KeysInv
<1>2. entries \in Seq(KeyEntry) /\ started \in Seq(Keys \X Nat) /\ now \in Nat /\ Len(entries) \in Nat /\ Len(started) \in Nat
  BY DEF KeysInv
<1>3. CASE Len(entries) >= MaxKeys \/ Rs!Index(k) > 0
  <2>1. Rs!Doing(c, k, None) /\ UNCHANGED <<entries, started>>
    BY <1>3 DEF Rs!MarkProcessing
  <2>2. client' \in [Clients -> {None} \cup D]
    BY <1>1, <2>1, DoingType
  <2> QED BY <1>1, <2>1, <2>2 DEF KeysInv, OneEntryPerKey, StartsRemembered, StartsApart
<1>4. CASE ~(Len(entries) >= MaxKeys \/ Rs!Index(k) > 0)
  <2>1. /\ Rs!Doing(c, k, "work") /\ entries' = Append(entries, e) /\ started' = Append(started, <<k, now>>)
    BY <1>4 DEF Rs!MarkProcessing
  <2>2. client' \in [Clients -> {None} \cup D]
    BY <1>1, <2>1, DoingType
  <2>3. \A i \in 1 .. Len(entries) : entries[i].key # k
    BY <1>2, <1>4, IndexFinds
  <2>4. e \in KeyEntry /\ e.key = k /\ e.created = now /\ <<k, now>> \in Keys \X Nat
    BY <1>1, <1>2 DEF KeyEntry
  <2> HIDE DEF k
  <2> DEFINE p == <<k, now>>
  <2>5. p[1] = k /\ p[2] = now /\ p \in Keys \X Nat /\ started' = Append(started, p)
    BY <2>1, <2>4
  <2> HIDE DEF e, p
  <2>6. /\ entries' \in Seq(KeyEntry) /\ Len(entries') = Len(entries) + 1 /\ entries'[Len(entries) + 1] = e
        /\ \A i \in 1 .. Len(entries) : entries'[i] = entries[i]
    BY <1>2, <2>1, <2>4, AppendProperties
  <2>7. /\ started' \in Seq(Keys \X Nat) /\ Len(started') = Len(started) + 1 /\ started'[Len(started) + 1] = p
        /\ \A i \in 1 .. Len(started) : started'[i] = started[i]
    BY <1>2, <2>5, AppendProperties
  <2>8. ASSUME NEW m \in 1 .. Len(started), started[m][1] = k PROVE now - started[m][2] > TTL
    <3>1. started[m] \in Keys \X Nat
      BY <1>2
    <3>2. started[m][2] \in Nat /\ TTL \in Nat
      BY <3>1 DEF ResilienceConstants
    <3>3. ~(now - started[m][2] <= TTL)
      BY <2>3, <2>8 DEF KeysInv, StartsRemembered
    <3> QED BY <1>2, <3>2, <3>3
  <2>9. OneEntryPerKey'
    <3> SUFFICES ASSUME NEW m \in 1 .. Len(entries'), NEW n \in 1 .. Len(entries'), entries'[m].key = entries'[n].key PROVE m = n
      BY DEF OneEntryPerKey
    <3> DEFINE N == Len(entries)
    <3>3. N \in Nat /\ Len(entries') = N + 1 /\ entries'[N + 1].key = k /\ \A i \in 1 .. N : entries'[i].key # k
      BY <1>2, <2>3, <2>4, <2>6
    <3>1. CASE m = N + 1 \/ n = N + 1
      <4> HIDE DEF N
      <4> QED BY <3>1, <3>3
    <3>2. CASE m # Len(entries) + 1 /\ n # Len(entries) + 1
      <4>1. m \in 1 .. Len(entries) /\ n \in 1 .. Len(entries)
        BY <1>2, <2>6, <3>2
      <4> QED BY <2>6, <4>1 DEF KeysInv, OneEntryPerKey
    <3> QED BY <3>1, <3>2
  <2>10. StartsRemembered'
    <3> SUFFICES ASSUME NEW m \in 1 .. Len(started')
                 PROVE  /\ started'[m][2] <= now
                        /\ now - started'[m][2] <= TTL =>
                              \E i \in 1 .. Len(entries') : entries'[i].key = started'[m][1] /\ entries'[i].created = started'[m][2]
      BY <1>1 DEF StartsRemembered
    <3>1. CASE m = Len(started) + 1
      <4>1. Len(entries) + 1 \in 1 .. Len(entries')
        BY <1>2, <2>6
      <4>2. started'[m][1] = k /\ started'[m][2] = now
        BY <2>5, <2>7, <3>1
      <4>3. entries'[Len(entries) + 1].key = k /\ entries'[Len(entries) + 1].created = now
        BY <2>4, <2>6
      <4> QED BY <1>2, <4>1, <4>2, <4>3
    <3>2. CASE m # Len(started) + 1
      <4>1. m \in 1 .. Len(started) /\ started'[m] = started[m]
        BY <1>2, <2>7, <3>2
      <4>2. started[m][2] <= now
        BY <4>1 DEF KeysInv, StartsRemembered
      <4>3. ASSUME now - started[m][2] <= TTL
            PROVE  \E i \in 1 .. Len(entries') : entries'[i].key = started[m][1] /\ entries'[i].created = started[m][2]
        <5>1. PICK i \in 1 .. Len(entries) : entries[i].key = started[m][1] /\ entries[i].created = started[m][2]
          BY <4>1, <4>3 DEF KeysInv, StartsRemembered
        <5>2. i \in 1 .. Len(entries') /\ entries'[i] = entries[i]
          BY <1>2, <2>6
        <5> QED BY <5>1, <5>2
      <4> QED BY <4>1, <4>2, <4>3
    <3> QED BY <3>1, <3>2
  <2>11. StartsApart'
    <3> SUFFICES ASSUME NEW m \in 1 .. Len(started'), NEW n \in 1 .. Len(started'), m < n, started'[m][1] = started'[n][1]
                 PROVE  started'[n][2] - started'[m][2] > TTL
      BY DEF StartsApart
    <3>1. m \in 1 .. Len(started) /\ started'[m] = started[m]
      BY <1>2, <2>7
    <3>2. CASE n = Len(started) + 1
      BY <2>5, <2>7, <2>8, <3>1, <3>2
    <3>3. CASE n # Len(started) + 1
      <4>1. n \in 1 .. Len(started) /\ started'[n] = started[n]
        BY <1>2, <2>7, <3>3
      <4> QED BY <3>1, <4>1 DEF KeysInv, StartsApart
    <3> QED BY <3>2, <3>3
  <2> QED BY <1>1, <1>2, <2>2, <2>6, <2>7, <2>9, <2>10, <2>11 DEF KeysInv
<1> QED BY <1>3, <1>4

\* ik_store_mark_completed changes no key and no time.
LEMMA CompletedInv == ASSUME ResilienceConstants, KeysInv, NEW c \in Clients, Rs!MarkCompleted(c) PROVE KeysInv'
<1> DEFINE k == client[c].key  i == Rs!Index(k)
<1>1. k \in Keys /\ UNCHANGED <<now, started>> /\ Rs!Doing(c, k, None)
  BY DEF Rs!MarkCompleted, KeysInv
<1>2. client' \in [Clients -> {None} \cup [key : Keys, step : {"claim", "work"}]]
  BY <1>1, DoingType
<1>3. entries \in Seq(KeyEntry) /\ Len(entries) \in Nat
  BY DEF KeysInv
<1>4. entries' \in Seq(KeyEntry) /\ Len(entries') = Len(entries) /\ \A m \in 1 .. Len(entries) : entries'[m].key = entries[m].key /\ entries'[m].created = entries[m].created
  <2>1. CASE i > 0
    <3> DEFINE e == [entries[i] EXCEPT !.status = "COMPLETED"]
    <3>1. i \in 1 .. Len(entries)
      BY <1>3, <2>1, IndexFinds
    <3>2. entries' = [entries EXCEPT ![i] = e]
      BY <2>1 DEF Rs!MarkCompleted
    <3> HIDE DEF i
    <3>3. entries[i] \in KeyEntry
      BY <1>3, <3>1
    <3>4. e \in KeyEntry /\ e.key = entries[i].key /\ e.created = entries[i].created
      BY <3>3 DEF KeyEntry
    <3> HIDE DEF e
    <3>5. entries' \in Seq(KeyEntry) /\ Len(entries') = Len(entries) /\ \A m \in 1 .. Len(entries) : entries'[m] = IF m = i THEN e ELSE entries[m]
      BY <1>3, <3>1, <3>2, <3>4, ExceptSeq
    <3> QED BY <3>4, <3>5
  <2>2. CASE ~(i > 0)
    <3>1. entries' = entries
      BY <2>2 DEF Rs!MarkCompleted
    <3> QED BY <1>3, <3>1
  <2> QED BY <2>1, <2>2
<1> DEFINE at == [m \in 1 .. Len(entries) |-> m]
<1>5. \A m \in 1 .. Len(entries) : at[m] = m
  OBVIOUS
<1> HIDE DEF at
<1> QED BY <1>1, <1>2, <1>4, <1>5, EntriesGo

LEMMA KeysNext == ASSUME ResilienceConstants, KeysInv, [Rs!PolicyNext \/ Rs!IkNext \/ Rs!HealthNext]_(Rs!vars) PROVE KeysInv'
<1>1. ASSUME NEW c \in Clients, NEW k \in Keys, Rs!Check(c, k) PROVE KeysInv'
  BY <1>1, CheckInv
<1>2. ASSUME NEW c \in Clients, Rs!MarkProcessing(c) PROVE KeysInv'
  BY <1>2, ProcessingInv
<1>3. ASSUME NEW c \in Clients, Rs!MarkCompleted(c) PROVE KeysInv'
  BY <1>3, CompletedInv
<1>4. CASE Rs!EvictExpired
  BY <1>4, EvictInv
<1>5. CASE Rs!Clock
  <2>1. now' = now + 1 /\ UNCHANGED <<entries, client, started>> /\ now \in Nat /\ TTL \in Nat
    BY <1>5 DEF Rs!Clock, Rs!ikVars, KeysInv, ResilienceConstants
  <2>2. \A m \in 1 .. Len(started) : started[m][2] \in Nat
    BY DEF KeysInv
  <2>3. StartsRemembered'
    <3> SUFFICES ASSUME NEW m \in 1 .. Len(started)
                 PROVE  /\ started[m][2] <= now'
                        /\ now' - started[m][2] <= TTL =>
                              \E i \in 1 .. Len(entries) : entries[i].key = started[m][1] /\ entries[i].created = started[m][2]
      BY <2>1 DEF StartsRemembered
    <3> DEFINE t == started[m][2]
    <3>1. t \in Nat /\ t <= now
      BY <2>2 DEF KeysInv, StartsRemembered
    <3>2. t <= now' /\ (now' - t <= TTL => now - t <= TTL)
      <4> HIDE DEF t
      <4> QED BY <2>1, <3>1
    <3> QED BY <3>2 DEF KeysInv, StartsRemembered
  <2>4. OneEntryPerKey' /\ StartsApart'
    BY <2>1 DEF KeysInv, OneEntryPerKey, StartsApart
  <2>5. now' \in Nat
    BY <2>1
  <2> QED BY <2>1, <2>3, <2>4, <2>5 DEF KeysInv
<1>6. CASE UNCHANGED <<now, Rs!ikVars>>
  BY <1>6, KeysStutter DEF Rs!ikVars
<1>7. [Rs!PolicyNext \/ Rs!IkNext \/ Rs!HealthNext]_(Rs!vars) =>
         \/ Rs!EvictExpired \/ Rs!Clock \/ UNCHANGED <<now, Rs!ikVars>>
         \/ \E c \in Clients : Rs!MarkProcessing(c) \/ Rs!MarkCompleted(c) \/ \E k \in Keys : Rs!Check(c, k)
  BY DEF Rs!PolicyNext, Rs!IkNext, Rs!HealthNext, Rs!vars, Rs!Execute, Rs!CallReturns, Rs!Heartbeat, Rs!IsAvailable
<1> QED BY <1>1, <1>2, <1>3, <1>4, <1>5, <1>6, <1>7

LEMMA ResilienceInvSound == ASSUME ResilienceConstants, PolicyInv, KeysInv, HealthInv PROVE ResilienceSound
<1>1. Rs!HealthSound
  BY DEF HealthInv, Rs!HealthSound
<1>2. Rs!StartedOnce
  <2>1. DOMAIN started = 1 .. Len(started) /\ DOMAIN entries = 1 .. Len(entries)
    BY DEF KeysInv
  <2> QED BY <2>1 DEF Rs!StartedOnce, KeysInv, OneEntryPerKey, StartsApart
<1>3. Rs!PolicyBalanced
  <2>1. DOMAIN calls = 1 .. Len(calls) /\ eb \in Nat /\ eb + 1 <= MaxRetries
    BY DEF PolicyInv, BackoffCounts, ResilienceConstants
  <2>2. \A i \in DOMAIN calls : ~calls[i].nested => calls[i].tries <= MaxRetries
    BY <2>1 DEF PolicyInv, BackoffCounts
  <2> QED BY <2>2 DEF Rs!PolicyBalanced, PolicyInv, SlotsTaken, BelowLimits
<1> QED BY <1>1, <1>2, <1>3 DEF ResilienceSound

\* For any settings, keys, clients and time to live, nested calls included: every path of
\* resilience_execute gives the bulkhead's slot back and keeps to max_retries, the work of
\* a key is started again only after its time to live, and a target is given up only
\* after more than three suspicious checks in a row.
THEOREM ResilienceIsSound == ASSUME ResilienceConstants PROVE Rs!Spec => []ResilienceSound
<1>1. Rs!Spec => []PolicyInv
  BY PolicyInit, PolicyNext, PTL DEF Rs!Spec
<1>2. Rs!Spec => []KeysInv
  BY KeysInit, KeysNext, PTL DEF Rs!Spec
<1>3. Rs!Spec => []HealthInv
  BY HealthInit, HealthNext, PTL DEF Rs!Spec
<1> QED BY <1>1, <1>2, <1>3, ResilienceInvSound, PTL

-----------------------------------------------------------------------------
(* Sagas and the bus                                                       *)

SagasConstants == StepCount \in Nat /\ LogCapacity \in Nat \ {0}

Saga == [status : {"RUNNING", "COMPENSATING", "COMPLETED", "COMPENSATED", "FAILED"}, current : 0 .. StepCount,
         step : [Sg!Steps -> {"PENDING", "EXECUTING", "COMPLETED", "FAILED", "COMPENSATING", "COMPENSATED"}],
         retries : [Sg!Steps -> Nat]]
Effect == {"do", "undo", "failed"} \X Sg!Steps
SagaCall == [fn : {"none", "execute", "step", "tick", "compensate"}, k : Nat, i : Int, tick : BOOLEAN]

\* What saga s did (effects e): its steps up to current in order, then compensations, last done first.
Undoing(s, e) == s.current + 1 .. Len(e)
Outcome(x) == IF x[1] = "undo" THEN "COMPENSATED" ELSE "COMPENSATING"
Trail(s, e) ==
    /\ s.current <= Len(e)
    /\ \A n \in 1 .. s.current : e[n] = <<"do", n - 1>>
    /\ \A n \in Undoing(s, e) : e[n][1] # "do" /\ e[n][2] \in Compensable /\ e[n][2] < s.current /\ s.step[e[n][2]] = Outcome(e[n])
    /\ \A m, n \in Undoing(s, e) : m < n => e[m][2] > e[n][2]
    /\ \A i \in Sg!Steps : i < s.current => s.step[i] = "COMPLETED" \/ \E n \in Undoing(s, e) : e[n][2] = i
    /\ \A i \in Sg!Steps : s.current <= i => s.step[i] # "COMPLETED"
    /\ s.status \in {"RUNNING", "COMPLETED", "FAILED"} => Len(e) = s.current
    /\ s.status = "COMPLETED" => s.current = StepCount
\* The walk back has come down to step i: every compensable step above was compensated, and none below.
WalkedTo(s, e, i) ==
    /\ \A n \in Undoing(s, e) : e[n][2] >= i
    /\ \A m \in Sg!Steps : m < s.current /\ m > i /\ m \in Compensable => \E n \in Undoing(s, e) : e[n][2] = m

SagaTypes == sagas \in Seq(Saga) /\ effects \in Seq(Seq(Effect)) /\ Len(effects) = Len(sagas) /\ saga_call \in SagaCall
Trails ==
    \A k \in 1 .. Len(sagas) :
        Trail(sagas[k], effects[k]) /\ (sagas[k].status = "COMPENSATED" => WalkedTo(sagas[k], effects[k], -1))
\* The function in progress is at its saga's current step, or on the walk back that made it COMPENSATING.
CallFits(c, k, s, e) ==
    /\ c.fn \in {"execute", "step"} /\ c.k = k => s.status = "RUNNING" /\ c.i = s.current
    /\ c.fn = "compensate" /\ c.k = k => s.status = "COMPENSATING" /\ c.i \in -1 .. StepCount - 1 /\ WalkedTo(s, e, c.i)
    /\ s.status = "COMPENSATING" => c.fn = "compensate" /\ c.k = k
CallInv ==
    /\ saga_call.fn \in {"execute", "step", "compensate"} => saga_call.k \in 1 .. Len(sagas)
    /\ saga_call.fn = "tick" => saga_call.k > 0
    /\ \A k \in 1 .. Len(sagas) : CallFits(saga_call, k, sagas[k], effects[k])
SagaInv == SagaTypes /\ Trails /\ CallInv

LEMMA SagaInit == Sg!Init => SagaInv
<1> SUFFICES ASSUME Sg!Init PROVE SagaInv
  OBVIOUS
<1>1. sagas = << >> /\ effects = << >> /\ Len(sagas) = 0 /\ Len(effects) = 0
  BY DEF Sg!Init
<1>2. saga_call \in SagaCall /\ saga_call.fn = "none"
  BY DEF Sg!Init, Sg!Idle, SagaCall
<1>3. SagaTypes
  BY <1>1, <1>2 DEF SagaTypes
<1> QED BY <1>1, <1>2, <1>3 DEF SagaInv, Trails, CallInv

\* The function in progress changes saga k to s, its effects to e and itself to c.
LEMMA SagaChange ==
    ASSUME SagaInv, NEW k \in 1 .. Len(sagas), NEW s \in Saga, NEW e \in Seq(Effect), NEW c \in SagaCall,
           sagas' = [sagas EXCEPT ![k] = s], effects' = [effects EXCEPT ![k] = e], saga_call' = c,
           Trail(s, e), s.status = "COMPENSATED" => WalkedTo(s, e, -1), CallFits(c, k, s, e),
           saga_call.fn = "compensate" => saga_call.k = k,
           c.fn \in {"execute", "step", "compensate"} => c.k = k, c.fn = "tick" => c.k > 0
    PROVE  SagaInv'
<1>1. sagas \in Seq(Saga) /\ effects \in Seq(Seq(Effect)) /\ Len(effects) = Len(sagas)
  BY DEF SagaInv, SagaTypes
<1>2. sagas' \in Seq(Saga) /\ Len(sagas') = Len(sagas) /\ \A x \in 1 .. Len(sagas) : sagas'[x] = IF x = k THEN s ELSE sagas[x]
  BY <1>1, ExceptSeq
<1>3. effects' \in Seq(Seq(Effect)) /\ Len(effects') = Len(effects) /\ \A x \in 1 .. Len(sagas) : effects'[x] = IF x = k THEN e ELSE effects[x]
  BY <1>1, ExceptSeq
<1>4. SagaTypes'
  BY <1>1, <1>2, <1>3 DEF SagaTypes
<1>5. Trails'
  BY <1>2, <1>3 DEF SagaInv, Trails
<1>6. CallInv'
  <2>1. ASSUME NEW x \in 1 .. Len(sagas) PROVE CallFits(c, x, sagas'[x], effects'[x])
    <3>1. CASE x = k
      BY <1>2, <1>3, <3>1
    <3>2. CASE x # k
      <4>1. sagas'[x] = sagas[x] /\ effects'[x] = effects[x] /\ CallFits(saga_call, x, sagas[x], effects[x])
        BY <1>2, <1>3, <3>2 DEF SagaInv, CallInv
      <4>2. sagas[x].status # "COMPENSATING"
        BY <3>2, <4>1 DEF CallFits
      <4> QED BY <3>2, <4>1, <4>2 DEF CallFits
    <3> QED BY <3>1, <3>2
  <2> QED BY <1>2, <2>1 DEF CallInv
<1> QED BY <1>4, <1>5, <1>6 DEF SagaInv

\* Only the function in progress changes.
LEMMA CallChange ==
    ASSUME SagaInv, UNCHANGED <<sagas, effects>>, NEW c \in SagaCall, saga_call' = c,
           c.fn \in {"execute", "step", "compensate"} => c.k \in 1 .. Len(sagas), c.fn = "tick" => c.k > 0,
           \A k \in 1 .. Len(sagas) : CallFits(c, k, sagas[k], effects[k])
    PROVE  SagaInv'
<1>1. sagas' = sagas /\ effects' = effects
  OBVIOUS
<1> QED BY <1>1 DEF SagaInv, SagaTypes, Trails, CallInv

\* What holds of the saga of the function in progress.
LEMMA InProgress ==
    ASSUME SagaInv, saga_call.fn \in {"execute", "step", "compensate"}
    PROVE  LET k == saga_call.k  s == sagas[k]  e == effects[k]  i == saga_call.i IN
           /\ k \in 1 .. Len(sagas) /\ s \in Saga /\ e \in Seq(Effect) /\ Trail(s, e) /\ CallFits(saga_call, k, s, e)
           /\ saga_call \in SagaCall /\ i \in Int /\ s.current \in 0 .. StepCount
<1>1. saga_call.k \in 1 .. Len(sagas) /\ saga_call \in SagaCall /\ Len(effects) = Len(sagas)
  BY DEF SagaInv, CallInv, SagaTypes
<1>2. sagas[saga_call.k] \in Saga /\ effects[saga_call.k] \in Seq(Effect)
  BY <1>1 DEF SagaInv, SagaTypes
<1>3. Trail(sagas[saga_call.k], effects[saga_call.k]) /\ CallFits(saga_call, saga_call.k, sagas[saga_call.k], effects[saga_call.k])
  BY <1>1 DEF SagaInv, Trails, CallInv
<1>4. saga_call.i \in Int /\ sagas[saga_call.k].current \in 0 .. StepCount
  BY <1>1, <1>2 DEF SagaCall, Saga
<1> QED BY <1>1, <1>2, <1>3, <1>4
LEMMA TickCall == ASSUME NEW n PROVE [Sg!Idle EXCEPT !.fn = "tick", !.k = n] = [fn |-> "tick", k |-> n, i |-> 0, tick |-> FALSE]
<1> DEFINE r == Sg!Idle
<1>1. r = [fn |-> "none", k |-> 0, i |-> 0, tick |-> FALSE]
  BY DEF Sg!Idle
<1> HIDE DEF r
<1>2. PICK c : c = [r EXCEPT !.fn = "tick", !.k = n]
  OBVIOUS
<1>3. r \in [fn : {"none"}, k : {0}, i : {0}, tick : {FALSE}]
  BY <1>1
<1>4. c = [fn |-> "tick", k |-> n, i |-> r.i, tick |-> r.tick]
  BY <1>2, <1>3
<1> QED BY <1>1, <1>2, <1>4 DEF r

LEMMA ReturnedCall ==
    ASSUME saga_call \in SagaCall
    PROVE  LET c == Sg!Returned IN c \in SagaCall /\ c.fn \in {"tick", "none"} /\ (c.fn = "tick" => c.k > 0)
<1>1. saga_call.k \in Nat
  BY DEF SagaCall
<1>2. Sg!Returned = IF saga_call.tick THEN [fn |-> "tick", k |-> saga_call.k + 1, i |-> 0, tick |-> FALSE]
                                      ELSE [fn |-> "none", k |-> 0, i |-> 0, tick |-> FALSE]
  BY TickCall DEF Sg!Returned, Sg!Idle
<1>3. [fn |-> "tick", k |-> saga_call.k + 1, i |-> 0, tick |-> FALSE] \in SagaCall /\ saga_call.k + 1 > 0
  BY <1>1 DEF SagaCall
<1>4. [fn |-> "none", k |-> 0, i |-> 0, tick |-> FALSE] \in SagaCall
  BY DEF SagaCall
<1>5. CASE saga_call.tick
  BY <1>2, <1>3, <1>5
<1>6. CASE ~saga_call.tick
  BY <1>2, <1>4, <1>6
<1> QED BY <1>5, <1>6

\* A saga that has compensated nothing.
LEMMA ForwardTrail ==
    ASSUME SagasConstants, NEW s \in Saga, NEW e \in Seq(Effect), Len(e) = s.current, \A n \in 1 .. s.current : e[n] = <<"do", n - 1>>,
           \A i \in Sg!Steps : s.step[i] = "COMPLETED" <=> i < s.current, s.status = "COMPLETED" => s.current = StepCount
    PROVE  Trail(s, e) /\ \A i \in Int : i >= s.current - 1 => WalkedTo(s, e, i)
<1>1. s.current \in Nat
  BY DEF Saga, SagasConstants
<1>2. Undoing(s, e) = {}
  BY <1>1 DEF Undoing
<1>3. Sg!Steps \subseteq Int
  BY DEF Sg!Steps, SagasConstants
<1>4. \A i \in Sg!Steps : s.current <= i => ~(i < s.current)
  BY <1>1, <1>3
<1>5. Trail(s, e)
  BY <1>1, <1>2, <1>4 DEF Trail
<1>6. \A i \in Int, m \in Sg!Steps : ~(i >= s.current - 1 /\ m < s.current /\ m > i)
  BY <1>1, <1>3
<1> QED BY <1>2, <1>5, <1>6 DEF WalkedTo

LEMMA RunningTrail ==
    ASSUME SagasConstants, NEW s \in Saga, NEW e \in Seq(Effect), Trail(s, e), s.status = "RUNNING"
    PROVE  /\ Len(e) = s.current /\ \A n \in 1 .. s.current : e[n] = <<"do", n - 1>>
           /\ \A i \in Sg!Steps : s.step[i] = "COMPLETED" <=> i < s.current
<1>1. s.current \in Nat /\ Sg!Steps \subseteq Int
  BY DEF Saga, Sg!Steps, SagasConstants
<1>2. Len(e) = s.current /\ Undoing(s, e) = {}
  BY <1>1 DEF Trail, Undoing
<1>3. \A i \in Sg!Steps : i < s.current \/ s.current <= i
  BY <1>1
<1>4. \A i \in Sg!Steps : i < s.current => s.step[i] = "COMPLETED"
  BY <1>2 DEF Trail
<1>5. \A i \in Sg!Steps : s.current <= i => s.step[i] # "COMPLETED"
  BY DEF Trail
<1> QED BY <1>2, <1>3, <1>4, <1>5 DEF Trail

LEMMA EnqueueInv == ASSUME SagasConstants, SagaInv, Sg!Enqueue PROVE SagaInv'
<1> DEFINE s == Sg!NewSaga  K == Len(sagas)
<1>1. sagas \in Seq(Saga) /\ effects \in Seq(Seq(Effect)) /\ Len(effects) = K /\ K \in Nat
  BY DEF SagaInv, SagaTypes
<1>2. sagas' = Append(sagas, s) /\ effects' = Append(effects, << >>) /\ saga_call' = saga_call /\ saga_call.fn = "none"
  BY DEF Sg!Enqueue, Sg!Idle
<1>3. s \in Saga /\ s.status = "RUNNING" /\ s.current = 0 /\ \A i \in Sg!Steps : s.step[i] = "PENDING"
  BY DEF Sg!NewSaga, Saga, SagasConstants
<1>4. << >> \in Seq(Effect) /\ Len(<< >>) = 0
  OBVIOUS
<1> HIDE DEF s, K
<1>5. \A i \in Sg!Steps : i \in Int /\ ~(i < 0)
  BY DEF Sg!Steps, SagasConstants
<1> DEFINE e == << >>
<1>6. e \in Seq(Effect) /\ Len(e) = 0
  BY <1>4
<1> HIDE DEF e
<1>7. Trail(s, e)
  <2>1. \A i \in Sg!Steps : s.step[i] = "COMPLETED" <=> i < s.current
    BY <1>3, <1>5
  <2>2. \A n \in 1 .. s.current : e[n] = <<"do", n - 1>>
    BY <1>3
  <2> QED BY <1>3, <1>6, <2>1, <2>2, ForwardTrail
<1>8. sagas' \in Seq(Saga) /\ Len(sagas') = K + 1 /\ sagas'[K + 1] = s /\ \A k \in 1 .. K : sagas'[k] = sagas[k]
  BY <1>1, <1>2, <1>3, AppendProperties DEF K
<1>9. effects' \in Seq(Seq(Effect)) /\ Len(effects') = K + 1 /\ effects'[K + 1] = e /\ \A k \in 1 .. K : effects'[k] = effects[k]
  BY <1>1, <1>2, <1>6, AppendProperties DEF e
<1>10. 1 .. K + 1 = (1 .. K) \cup {K + 1} /\ \A k \in 1 .. K : k # K + 1
  BY <1>1
<1>11. SagaTypes'
  BY <1>2, <1>8, <1>9 DEF SagaInv, SagaTypes
<1>12. Trails'
  BY <1>3, <1>7, <1>8, <1>9, <1>10 DEF SagaInv, Trails, K
<1>13. CallInv'
  BY <1>2, <1>3, <1>8, <1>9, <1>10 DEF SagaInv, CallInv, CallFits, K
<1> QED BY <1>11, <1>12, <1>13 DEF SagaInv

\* saga_orch_execute and _execute_step begin, a tick goes on to its next saga.
LEMMA BeginInv ==
    ASSUME SagasConstants, SagaInv, NEW k \in Nat, NEW f \in {"execute", "step"}, NEW b \in BOOLEAN, saga_call.fn \in {"none", "tick"},
           k \in 1 .. Len(sagas), sagas[k].status = "RUNNING", UNCHANGED <<sagas, effects>>,
           saga_call' = [fn |-> f, k |-> k, i |-> sagas[k].current, tick |-> b]
    PROVE  SagaInv'
<1> PICK c : c = [fn |-> f, k |-> k, i |-> sagas[k].current, tick |-> b]
  OBVIOUS
<1>1. sagas[k] \in Saga
  BY DEF SagaInv, SagaTypes
<1>2. sagas[k].current \in Int
  BY <1>1 DEF Saga, SagasConstants
<1>3. c \in SagaCall /\ c.fn \in {"execute", "step"} /\ c.k = k /\ c.i = sagas[k].current
  BY <1>2 DEF SagaCall
<1>4. \A x \in 1 .. Len(sagas) : CallFits(c, x, sagas[x], effects[x])
  BY <1>3 DEF SagaInv, CallInv, CallFits
<1> QED BY <1>3, <1>4, CallChange

LEMMA BeginsInv ==
    ASSUME SagasConstants, SagaInv, Sg!Tick \/ Sg!TickNext \/ \E k \in DOMAIN sagas : Sg!Resume(k) \/ Sg!ExecuteStep(k)
    PROVE  SagaInv'
<1>0. sagas \in Seq(Saga) /\ DOMAIN sagas = 1 .. Len(sagas) /\ saga_call \in SagaCall /\ Len(sagas) \in Nat
  BY DEF SagaInv, SagaTypes
<1>1. ASSUME NEW c \in SagaCall, c.fn \in {"none", "tick"}, c.fn = "tick" => c.k > 0, saga_call' = c, UNCHANGED <<sagas, effects>>,
             saga_call.fn \in {"none", "tick"}
      PROVE  SagaInv'
  <2>1. \A x \in 1 .. Len(sagas) : CallFits(c, x, sagas[x], effects[x])
    BY <1>1 DEF SagaInv, CallInv, CallFits
  <2> QED BY <1>1, <2>1, CallChange
<1>2. CASE Sg!Tick
  <2> PICK c : c = [fn |-> "tick", k |-> 1, i |-> 0, tick |-> FALSE]
    OBVIOUS
  <2>1. saga_call.fn = "none" /\ saga_call' = c /\ UNCHANGED <<sagas, effects>>
    BY <1>2, TickCall DEF Sg!Tick, Sg!Idle
  <2>2. c \in SagaCall /\ c.fn = "tick" /\ c.k > 0
    BY DEF SagaCall
  <2> QED BY <1>1, <2>1, <2>2
<1>3. CASE Sg!TickNext
  <2>1. saga_call.fn = "tick" /\ UNCHANGED <<sagas, effects>> /\ saga_call.k \in Nat /\ saga_call.k > 0
    BY <1>0, <1>3 DEF Sg!TickNext, SagaCall, SagaInv, CallInv
  <2>2. CASE saga_call.k > Len(sagas)
    <3> PICK c : c = Sg!Idle
      OBVIOUS
    <3>1. c \in SagaCall /\ c.fn = "none" /\ saga_call' = c
      BY <1>3, <2>2 DEF Sg!Idle, SagaCall, Sg!TickNext
    <3> QED BY <1>1, <2>1, <3>1
  <2>3. CASE ~(saga_call.k > Len(sagas)) /\ Sg!IsTerminal(sagas[saga_call.k])
    <3> PICK c : c = [saga_call EXCEPT !.k = @ + 1]
      OBVIOUS
    <3>1. c \in SagaCall /\ c.fn = "tick" /\ c.k = saga_call.k + 1
      BY <1>0, <2>1 DEF SagaCall
    <3>2. c.k > 0
      BY <2>1, <3>1
    <3>3. saga_call' = c
      BY <1>3, <2>3 DEF Sg!TickNext
    <3> QED BY <1>1, <2>1, <3>1, <3>2, <3>3
  <2>4. CASE ~(saga_call.k > Len(sagas)) /\ ~Sg!IsTerminal(sagas[saga_call.k])
    <3> PICK k : k = saga_call.k
      OBVIOUS
    <3>1. k \in 1 .. Len(sagas) /\ k \in Nat
      BY <1>0, <2>1, <2>4
    <3>2. sagas[k] \in Saga /\ sagas[k].status # "COMPENSATING"
      BY <1>0, <2>1, <3>1 DEF SagaInv, CallInv, CallFits
    <3>3. sagas[k].status = "RUNNING"
      BY <2>4, <3>2 DEF Saga, Sg!IsTerminal
    <3>4. saga_call' = [fn |-> "execute", k |-> k, i |-> sagas[k].current, tick |-> TRUE]
      BY <1>3, <2>4 DEF Sg!TickNext
    <3> QED BY <2>1, <3>1, <3>3, <3>4, BeginInv
  <2> QED BY <2>2, <2>3, <2>4
<1>4. ASSUME NEW k \in DOMAIN sagas, Sg!Resume(k) \/ Sg!ExecuteStep(k) PROVE SagaInv'
  <2>1. k \in Nat /\ k \in 1 .. Len(sagas) /\ saga_call.fn = "none" /\ sagas[k].status = "RUNNING" /\ UNCHANGED <<sagas, effects>>
    BY <1>0, <1>4 DEF Sg!Resume, Sg!ExecuteStep, Sg!Idle
  <2>2. \E f \in {"execute", "step"} : saga_call' = [fn |-> f, k |-> k, i |-> sagas[k].current, tick |-> FALSE]
    BY <1>4 DEF Sg!Resume, Sg!ExecuteStep
  <2> QED BY <2>1, <2>2, BeginInv
<1> QED BY <1>2, <1>3, <1>4

\* saga_orch_cancel: the saga turns to the walk back from its current step.
LEMMA CancelsInv == ASSUME SagasConstants, SagaInv, NEW k \in DOMAIN sagas, Sg!Cancel(k) PROVE SagaInv'
<1> DEFINE o == sagas[k]  e == effects[k]  top == IF o.current >= StepCount THEN StepCount - 1 ELSE o.current
<1>1. k \in 1 .. Len(sagas) /\ k \in Nat /\ o \in Saga /\ e \in Seq(Effect)
  BY DEF SagaInv, SagaTypes
<1>2. saga_call.fn = "none" /\ ~Sg!IsTerminal(o)
  BY DEF Sg!Cancel, Sg!Idle
<1>3. o.status = "RUNNING"
  BY <1>1, <1>2 DEF Saga, Sg!IsTerminal, SagaInv, CallInv, CallFits
<1>4. Trail(o, e)
  BY <1>1 DEF SagaInv, Trails
<1>5. PICK s : s = [o EXCEPT !.status = "COMPENSATING"]
  OBVIOUS
<1>6. PICK c : c = [fn |-> "compensate", k |-> k, i |-> top, tick |-> FALSE]
  OBVIOUS
<1>7. sagas' = [sagas EXCEPT ![k] = s] /\ effects' = [effects EXCEPT ![k] = e] /\ saga_call' = c
  BY <1>1, <1>5, <1>6 DEF Sg!Cancel, SagaInv, SagaTypes
<1> HIDE DEF o, e
<1>8. s \in Saga /\ s.status = "COMPENSATING" /\ s.current = o.current /\ s.step = o.step
  BY <1>1, <1>5 DEF Saga
<1>9. o.current \in 0 .. StepCount
  BY <1>1 DEF Saga
<1>10. top \in -1 .. StepCount - 1 /\ top >= s.current - 1 /\ top \in Int
  BY <1>8, <1>9 DEF SagasConstants
<1> HIDE DEF top
<1>11. c \in SagaCall /\ c.fn = "compensate" /\ c.k = k /\ c.i = top
  BY <1>1, <1>6, <1>10 DEF SagaCall
<1>12. Trail(s, e) /\ WalkedTo(s, e, top)
  BY <1>1, <1>3, <1>4, <1>8, <1>10, RunningTrail, ForwardTrail
<1>13. CallFits(c, k, s, e)
  BY <1>8, <1>10, <1>11, <1>12 DEF CallFits
<1> QED BY <1>1, <1>2, <1>7, <1>8, <1>11, <1>12, <1>13, SagaChange

\* saga_step_execute succeeds.
LEMMA StepDoneInv == ASSUME SagasConstants, SagaInv, Sg!StepReturns(TRUE) PROVE SagaInv'
<1>0. PICK k, i : k = saga_call.k /\ i = saga_call.i
  OBVIOUS
<1> DEFINE o == sagas[k]  e == effects[k]
<1>1. saga_call.fn \in {"execute", "step"} /\ i < StepCount
  BY <1>0 DEF Sg!StepReturns
<1>2. k \in 1 .. Len(sagas) /\ o \in Saga /\ e \in Seq(Effect) /\ Trail(o, e) /\ CallFits(saga_call, k, o, e) /\ saga_call \in SagaCall
  BY <1>0, <1>1, InProgress
<1>3. o.status = "RUNNING" /\ i = o.current
  BY <1>0, <1>1, <1>2 DEF CallFits
<1>4. PICK s : s = [o EXCEPT !.step[i] = "COMPLETED", !.current = i + 1]
  OBVIOUS
<1>5. PICK c : c = IF saga_call.fn = "step" THEN Sg!Returned ELSE [saga_call EXCEPT !.i = i + 1]
  OBVIOUS
<1>6. PICK f : f = Append(e, <<"do", i>>)
  OBVIOUS
<1>7. sagas' = [sagas EXCEPT ![k] = s] /\ effects' = [effects EXCEPT ![k] = f] /\ saga_call' = c
  BY <1>0, <1>2, <1>4, <1>5, <1>6 DEF Sg!StepReturns, SagaInv, SagaTypes
<1> HIDE DEF o, e
<1>8. i \in Nat /\ i \in Sg!Steps /\ i + 1 \in 0 .. StepCount
  BY <1>1, <1>2, <1>3 DEF Saga, Sg!Steps, SagasConstants
<1>9. s = [status |-> o.status, current |-> i + 1, step |-> [o.step EXCEPT ![i] = "COMPLETED"], retries |-> o.retries]
  BY <1>2, <1>4 DEF Saga
<1>10. s \in Saga /\ s.status = "RUNNING" /\ s.current = i + 1 /\ s.step = [o.step EXCEPT ![i] = "COMPLETED"]
  BY <1>2, <1>3, <1>8, <1>9 DEF Saga
<1>11. \A x \in Sg!Steps : s.step[x] = "COMPLETED" <=> x < s.current
  <2>1. \A x \in Sg!Steps : o.step[x] = "COMPLETED" <=> x < i
    BY <1>2, <1>3, RunningTrail
  <2>2. \A x \in Sg!Steps : x \in Int /\ (x < i + 1 <=> x < i \/ x = i)
    BY <1>8 DEF Sg!Steps, SagasConstants
  <2>3. \A x \in Sg!Steps : s.step[x] = IF x = i THEN "COMPLETED" ELSE o.step[x]
    BY <1>2, <1>10 DEF Saga
  <2> QED BY <1>10, <2>1, <2>2, <2>3
<1>12. Len(e) = i /\ \A n \in 1 .. i : e[n] = <<"do", n - 1>>
  BY <1>2, <1>3, RunningTrail
<1>13. <<"do", i>> \in Effect
  BY <1>8 DEF Effect
<1>14. f \in Seq(Effect) /\ Len(f) = i + 1 /\ f[i + 1] = <<"do", i>> /\ \A n \in 1 .. i : f[n] = e[n]
  BY <1>2, <1>6, <1>12, <1>13, AppendProperties
<1>15. \A n \in 1 .. i + 1 : f[n] = <<"do", n - 1>>
  <2>1. \A n \in 1 .. i + 1 : n \in 1 .. i \/ n = i + 1
    BY <1>8
  <2>2. i + 1 - 1 = i
    BY <1>8
  <2> QED BY <1>12, <1>14, <2>1, <2>2
<1>16. Trail(s, f)
  BY <1>10, <1>11, <1>14, <1>15, ForwardTrail
<1>17. /\ c \in SagaCall /\ c.fn # "compensate" /\ (c.fn = "tick" => c.k > 0)
       /\ c.fn \in {"execute", "step"} => c.k = k /\ c.i = i + 1
  <2>1. CASE saga_call.fn = "step"
    BY <1>2, <1>5, <2>1, ReturnedCall
  <2>2. CASE saga_call.fn # "step"
    BY <1>0, <1>1, <1>2, <1>5, <1>8, <2>2 DEF SagaCall
  <2> QED BY <2>1, <2>2
<1>18. CallFits(c, k, s, f)
  BY <1>10, <1>17 DEF CallFits
<1>19. saga_call.fn # "compensate"
  BY <1>1
<1> QED BY <1>2, <1>7, <1>10, <1>14, <1>16, <1>17, <1>18, <1>19, SagaChange

\* It fails: it is called again, or the saga turns to the walk back, or a single step ends the saga.
LEMMA StepFailedInv == ASSUME SagasConstants, SagaInv, Sg!StepReturns(FALSE) PROVE SagaInv'
<1>0. PICK k, i : k = saga_call.k /\ i = saga_call.i
  OBVIOUS
<1> DEFINE o == sagas[k]  e == effects[k]
<1>1. saga_call.fn \in {"execute", "step"} /\ i < StepCount
  BY <1>0 DEF Sg!StepReturns
<1>2. k \in 1 .. Len(sagas) /\ o \in Saga /\ e \in Seq(Effect) /\ Trail(o, e) /\ CallFits(saga_call, k, o, e) /\ saga_call \in SagaCall
  BY <1>0, <1>1, InProgress
<1>3. o.status = "RUNNING" /\ i = o.current
  BY <1>0, <1>1, <1>2 DEF CallFits
<1>4. Len(e) = i /\ (\A n \in 1 .. i : e[n] = <<"do", n - 1>>) /\ \A x \in Sg!Steps : o.step[x] = "COMPLETED" <=> x < i
  BY <1>2, <1>3, RunningTrail
<1>5. i \in Nat /\ i \in Sg!Steps /\ i \in Int /\ i \in -1 .. StepCount - 1 /\ i >= i - 1
  BY <1>1, <1>2, <1>3 DEF Saga, Sg!Steps, SagasConstants
<1>6. effects' = [effects EXCEPT ![k] = e]
  BY <1>0, <1>2 DEF Sg!StepReturns, SagaInv, SagaTypes
<1>7. ASSUME NEW s \in Saga, NEW st, st # "COMPLETED", s.current = i, s.step = [o.step EXCEPT ![i] = st], s.status # "COMPLETED"
      PROVE  Trail(s, e) /\ WalkedTo(s, e, i)
  <2>1. \A x \in Sg!Steps : s.step[x] = IF x = i THEN st ELSE o.step[x]
    BY <1>2, <1>7 DEF Saga
  <2>2. ~(i < i)
    BY <1>5
  <2>3. \A x \in Sg!Steps : s.step[x] = "COMPLETED" <=> x < s.current
    BY <1>4, <1>7, <2>1, <2>2
  <2> QED BY <1>2, <1>4, <1>5, <1>7, <2>3, ForwardTrail
<1>8. CASE Sg!CanRetry(sagas[k], i)
  <2>1. PICK s : s = [o EXCEPT !.step[i] = "EXECUTING", !.retries[i] = @ + 1]
    OBVIOUS
  <2>2. sagas' = [sagas EXCEPT ![k] = s] /\ saga_call' = saga_call
    BY <1>0, <1>2, <1>8, <2>1 DEF Sg!StepReturns, SagaInv, SagaTypes
  <2> HIDE DEF o, e
  <2>3. s = [status |-> o.status, current |-> o.current, step |-> [o.step EXCEPT ![i] = "EXECUTING"],
             retries |-> [o.retries EXCEPT ![i] = o.retries[i] + 1]]
    BY <1>2, <2>1 DEF Saga
  <2>4. s \in Saga /\ s.status = "RUNNING" /\ s.current = i /\ s.step = [o.step EXCEPT ![i] = "EXECUTING"]
    BY <1>2, <1>3, <1>5, <2>3 DEF Saga
  <2>5. Trail(s, e)
    BY <1>7, <2>4
  <2>6. CallFits(saga_call, k, s, e)
    BY <1>0, <1>1, <2>4 DEF CallFits
  <2> QED BY <1>0, <1>1, <1>2, <1>6, <2>2, <2>4, <2>5, <2>6, SagaChange
<1>9. CASE ~Sg!CanRetry(sagas[k], i)
  <2> DEFINE st == IF saga_call.fn = "step" THEN "FAILED" ELSE "COMPENSATING"
  <2>1. PICK s : s = [o EXCEPT !.step[i] = "FAILED", !.status = st]
    OBVIOUS
  <2>2. PICK c : c = IF saga_call.fn = "step" THEN Sg!Returned ELSE [saga_call EXCEPT !.fn = "compensate"]
    OBVIOUS
  <2>3. sagas' = [sagas EXCEPT ![k] = s] /\ saga_call' = c
    BY <1>0, <1>2, <1>9, <2>1, <2>2 DEF Sg!StepReturns, SagaInv, SagaTypes
  <2> HIDE DEF o, e
  <2>4. s = [status |-> st, current |-> o.current, step |-> [o.step EXCEPT ![i] = "FAILED"], retries |-> o.retries]
    BY <1>2, <2>1 DEF Saga
  <2>5. s \in Saga /\ s.status = st /\ s.current = i /\ s.step = [o.step EXCEPT ![i] = "FAILED"]
    BY <1>2, <1>3, <1>5, <2>4 DEF Saga
  <2>6. Trail(s, e) /\ WalkedTo(s, e, i)
    BY <1>7, <2>5
  <2>7. /\ c \in SagaCall /\ c.fn \in {"tick", "none", "compensate"} /\ (c.fn = "tick" => c.k > 0)
        /\ (c.fn = "compensate" <=> saga_call.fn # "step") /\ (c.fn = "compensate" => c.k = k /\ c.i = i)
    <3>1. CASE saga_call.fn = "step"
      BY <1>2, <2>2, <3>1, ReturnedCall
    <3>2. CASE saga_call.fn # "step"
      BY <1>0, <1>1, <1>2, <2>2, <3>2 DEF SagaCall
    <3> QED BY <3>1, <3>2
  <2>8. CallFits(c, k, s, e)
    BY <1>5, <2>5, <2>6, <2>7 DEF CallFits
  <2>9. s.status # "COMPENSATED" /\ saga_call.fn # "compensate"
    BY <1>1, <2>5
  <2> QED BY <1>2, <1>6, <2>3, <2>5, <2>6, <2>7, <2>8, <2>9, SagaChange
<1> QED BY <1>8, <1>9

\* The last step was done.
LEMMA AllDoneInv == ASSUME SagasConstants, SagaInv, Sg!AllDone PROVE SagaInv'
<1>0. PICK k : k = saga_call.k
  OBVIOUS
<1> DEFINE o == sagas[k]  e == effects[k]
<1>1. saga_call.fn = "execute" /\ saga_call.i >= StepCount
  BY DEF Sg!AllDone
<1>2. k \in 1 .. Len(sagas) /\ o \in Saga /\ e \in Seq(Effect) /\ Trail(o, e) /\ CallFits(saga_call, k, o, e) /\ saga_call \in SagaCall
  BY <1>0, <1>1, InProgress
<1>3. o.status = "RUNNING" /\ o.current = StepCount
  BY <1>0, <1>1, <1>2 DEF CallFits, Saga, SagasConstants
<1>4. PICK s : s = [o EXCEPT !.status = "COMPLETED"]
  OBVIOUS
<1>5. PICK c : c = Sg!Returned
  OBVIOUS
<1>6. sagas' = [sagas EXCEPT ![k] = s] /\ effects' = [effects EXCEPT ![k] = e] /\ saga_call' = c
  BY <1>0, <1>2, <1>4, <1>5 DEF Sg!AllDone, SagaInv, SagaTypes
<1> HIDE DEF o, e
<1>7. s \in Saga /\ s.status = "COMPLETED" /\ s.current = o.current /\ s.step = o.step
  BY <1>2, <1>4 DEF Saga
<1>8. Trail(s, e)
  BY <1>2, <1>3, <1>7, RunningTrail, ForwardTrail
<1>9. c \in SagaCall /\ c.fn \in {"tick", "none"} /\ (c.fn = "tick" => c.k > 0)
  BY <1>2, <1>5, ReturnedCall
<1>10. CallFits(c, k, s, e)
  BY <1>7, <1>9 DEF CallFits
<1> QED BY <1>1, <1>2, <1>6, <1>7, <1>8, <1>9, <1>10, SagaChange

\* saga_orch_compensate goes past a step that has nothing to undo.
LEMMA SkipBackInv == ASSUME SagasConstants, SagaInv, Sg!SkipBack PROVE SagaInv'
<1>0. PICK k, i : k = saga_call.k /\ i = saga_call.i
  OBVIOUS
<1> DEFINE o == sagas[k]  e == effects[k]
<1>1. saga_call.fn = "compensate" /\ i >= 0 /\ ~Sg!MustCompensate(o, i) /\ UNCHANGED <<sagas, effects>>
  BY <1>0 DEF Sg!SkipBack
<1>2. k \in 1 .. Len(sagas) /\ o \in Saga /\ e \in Seq(Effect) /\ Trail(o, e) /\ CallFits(saga_call, k, o, e) /\ saga_call \in SagaCall
  BY <1>0, <1>1, InProgress
<1>3. o.status = "COMPENSATING" /\ i \in -1 .. StepCount - 1 /\ WalkedTo(o, e, i)
  BY <1>0, <1>1, <1>2 DEF CallFits
<1>4. PICK c : c = [saga_call EXCEPT !.i = i - 1]
  OBVIOUS
<1>5. saga_call' = c
  BY <1>0, <1>4 DEF Sg!SkipBack
<1>6. i \in Sg!Steps /\ i \in Int /\ i - 1 \in -1 .. StepCount - 1 /\ i - 1 \in Int
  BY <1>1, <1>3 DEF Sg!Steps, SagasConstants
<1>7. c \in SagaCall /\ c.fn = "compensate" /\ c.k = k /\ c.i = i - 1
  BY <1>0, <1>1, <1>2, <1>4, <1>6 DEF SagaCall
<1> HIDE DEF o, e
<1>8. i < o.current /\ i \in Compensable => \E n \in Undoing(o, e) : e[n][2] = i
  BY <1>1, <1>2, <1>6 DEF Trail, Sg!MustCompensate
<1>9. WalkedTo(o, e, i - 1)
  <2>1. \A m \in Sg!Steps : m \in Int /\ (m > i - 1 => m = i \/ m > i)
    BY <1>6 DEF Sg!Steps, SagasConstants
  <2>2. \A n \in Undoing(o, e) : e[n][2] \in Int
    <3>1. \A n \in Undoing(o, e) : n \in 1 .. Len(e)
      BY <1>2 DEF Undoing, Saga, SagasConstants
    <3>2. \A n \in 1 .. Len(e) : e[n] \in Effect
      BY <1>2
    <3> QED BY <3>1, <3>2 DEF Effect, Sg!Steps, SagasConstants
  <2>3. \A n \in Undoing(o, e) : e[n][2] >= i - 1
    BY <1>3, <1>6, <2>2 DEF WalkedTo
  <2> QED BY <1>3, <1>8, <2>1, <2>3 DEF WalkedTo
<1>10. \A x \in 1 .. Len(sagas) : CallFits(c, x, sagas[x], effects[x])
  <2>1. CallFits(c, k, sagas[k], effects[k])
    BY <1>3, <1>6, <1>7, <1>9 DEF CallFits, o, e
  <2>2. ASSUME NEW x \in 1 .. Len(sagas), x # k PROVE CallFits(c, x, sagas[x], effects[x])
    BY <1>0, <1>1, <1>7, <2>2 DEF SagaInv, CallInv, CallFits
  <2> QED BY <2>1, <2>2
<1> QED BY <1>1, <1>2, <1>5, <1>7, <1>10, CallChange

\* A completed step is compensated, and what it did is undone last of all so far.
LEMMA CompensateInv == ASSUME SagasConstants, SagaInv, NEW ok \in BOOLEAN, Sg!Compensate(ok) PROVE SagaInv'
<1>0. PICK k, i : k = saga_call.k /\ i = saga_call.i
  OBVIOUS
<1> DEFINE o == sagas[k]  e == effects[k]  st == IF ok THEN "COMPENSATED" ELSE "COMPENSATING"  how == IF ok THEN "undo" ELSE "failed"
           low == IF ~ok /\ o.retries[i] + 1 < StepRetries THEN i ELSE i - 1
<1>1. saga_call.fn = "compensate" /\ i >= 0 /\ o.step[i] = "COMPLETED" /\ i \in Compensable
  BY <1>0 DEF Sg!Compensate, Sg!MustCompensate
<1>2. k \in 1 .. Len(sagas) /\ o \in Saga /\ e \in Seq(Effect) /\ Trail(o, e) /\ CallFits(saga_call, k, o, e) /\ saga_call \in SagaCall
  BY <1>0, <1>1, InProgress
<1>3. o.status = "COMPENSATING" /\ i \in -1 .. StepCount - 1 /\ WalkedTo(o, e, i)
  BY <1>0, <1>1, <1>2 DEF CallFits
<1>4. PICK s : s = [o EXCEPT !.step[i] = st, !.retries[i] = IF ok THEN @ ELSE @ + 1]
  OBVIOUS
<1>5. PICK c : c = [saga_call EXCEPT !.i = low]
  OBVIOUS
<1>6. PICK f : f = Append(e, <<how, i>>)
  OBVIOUS
<1>7. sagas' = [sagas EXCEPT ![k] = s] /\ effects' = [effects EXCEPT ![k] = f] /\ saga_call' = c
  BY <1>0, <1>2, <1>4, <1>5, <1>6 DEF Sg!Compensate, SagaInv, SagaTypes
<1> HIDE DEF o, e
<1>8. i \in Sg!Steps /\ i \in Nat /\ Len(e) \in Nat /\ o.current \in Nat /\ o.current <= Len(e)
  BY <1>1, <1>2, <1>3 DEF Sg!Steps, SagasConstants, Saga, Trail
<1>9. i < o.current
  BY <1>1, <1>2, <1>8 DEF Trail
<1>10. low \in -1 .. StepCount - 1 /\ low <= i /\ i - 1 <= low /\ low \in Int
  BY <1>3, <1>8 DEF SagasConstants
<1> DEFINE rt == IF ok THEN o.retries[i] ELSE o.retries[i] + 1
<1>11. rt \in Nat
  BY <1>2, <1>8 DEF Saga
<1>12. s = [o EXCEPT !.step[i] = st, !.retries[i] = rt]
  BY <1>4
<1>13. st \in {"COMPENSATED", "COMPENSATING"} /\ how \in {"undo", "failed"} /\ st = IF how = "undo" THEN "COMPENSATED" ELSE "COMPENSATING"
  OBVIOUS
<1> HIDE DEF rt, low, st, how
<1>14. s = [status |-> o.status, current |-> o.current, step |-> [o.step EXCEPT ![i] = st], retries |-> [o.retries EXCEPT ![i] = rt]]
  BY <1>2, <1>12 DEF Saga
<1>15. s \in Saga /\ s.status = "COMPENSATING" /\ s.current = o.current /\ s.step = [o.step EXCEPT ![i] = st]
  BY <1>2, <1>3, <1>8, <1>11, <1>13, <1>14 DEF Saga
<1>16. \A x \in Sg!Steps : s.step[x] = IF x = i THEN st ELSE o.step[x]
  BY <1>2, <1>15 DEF Saga
<1> DEFINE L == Len(e)
<1>17. <<how, i>> \in Effect
  BY <1>8, <1>13 DEF Effect
<1>18. f \in Seq(Effect) /\ Len(f) = L + 1 /\ f[L + 1] = <<how, i>> /\ \A n \in 1 .. L : f[n] = e[n]
  BY <1>2, <1>6, <1>17, AppendProperties
<1>19. \A n \in 1 .. L : e[n][2] \in Sg!Steps /\ e[n][2] \in Int
  <2>1. \A n \in 1 .. L : e[n] \in Effect
    BY <1>2
  <2>2. Sg!Steps \subseteq Int
    BY DEF Sg!Steps, SagasConstants
  <2> QED BY <2>1, <2>2 DEF Effect
<1> DEFINE U == Undoing(o, e)  V == Undoing(s, f)
<1>20. /\ V = U \cup {L + 1} /\ U \subseteq 1 .. L /\ L + 1 \notin U
       /\ \A n \in 1 .. o.current : n \in 1 .. L
       /\ \A m, n \in V : m < n => m \in U /\ (n \in U \/ n = L + 1)
  BY <1>8, <1>15, <1>18 DEF Undoing
<1>21. f[L + 1][1] = how /\ f[L + 1][2] = i /\ \A n \in U : f[n] = e[n]
  BY <1>18, <1>20
<1> HIDE DEF L, U, V
<1>22. \A n \in U : e[n][2] > i /\ e[n][2] \in Sg!Steps /\ e[n][2] # i
  <2>1. \A n \in U : e[n][2] >= i /\ o.step[e[n][2]] # "COMPLETED"
    BY <1>2, <1>3 DEF WalkedTo, Trail, U, Outcome
  <2>2. \A n \in U : e[n][2] # i
    BY <1>1, <2>1
  <2> QED BY <1>8, <1>19, <1>20, <2>1, <2>2
<1>23. Trail(s, f)
  <2>1. s.current <= Len(f)
    BY <1>8, <1>15, <1>18 DEF L
  <2>2. \A n \in 1 .. s.current : f[n] = <<"do", n - 1>>
    BY <1>2, <1>15, <1>18, <1>20 DEF Trail
  <2>3. ASSUME NEW n \in V PROVE f[n][1] # "do" /\ f[n][2] \in Compensable /\ f[n][2] < s.current /\ s.step[f[n][2]] = Outcome(f[n])
    <3>1. CASE n \in U
      BY <1>2, <1>15, <1>16, <1>21, <1>22, <3>1 DEF Trail, U
    <3>2. CASE n = L + 1
      BY <1>1, <1>8, <1>9, <1>13, <1>15, <1>16, <1>21, <3>2 DEF Outcome
    <3> QED BY <1>20, <3>1, <3>2
  <2>4. ASSUME NEW m \in V, NEW n \in V, m < n PROVE f[m][2] > f[n][2]
    <3>1. m \in U
      BY <1>20, <2>4
    <3>2. CASE n \in U
      BY <1>2, <1>21, <2>4, <3>1, <3>2 DEF Trail, U
    <3>3. CASE n = L + 1
      BY <1>21, <1>22, <3>1, <3>3
    <3> QED BY <1>20, <2>4, <3>2, <3>3
  <2>5. ASSUME NEW x \in Sg!Steps, x < s.current PROVE s.step[x] = "COMPLETED" \/ \E n \in V : f[n][2] = x
    <3>1. CASE x = i
      BY <1>20, <1>21, <3>1
    <3>2. CASE x # i
      <4>1. o.step[x] = "COMPLETED" \/ \E n \in U : e[n][2] = x
        BY <1>2, <1>15, <2>5 DEF Trail, U
      <4> QED BY <1>16, <1>20, <1>21, <3>2, <4>1
    <3> QED BY <3>1, <3>2
  <2>6. ASSUME NEW x \in Sg!Steps, s.current <= x PROVE s.step[x] # "COMPLETED"
    BY <1>2, <1>13, <1>15, <1>16, <2>6 DEF Trail
  <2> QED BY <1>15, <2>1, <2>2, <2>3, <2>4, <2>5, <2>6 DEF Trail, V
<1>24. WalkedTo(s, f, low)
  <2>1. ASSUME NEW n \in V PROVE f[n][2] >= low
    <3>1. CASE n \in U
      <4>1. f[n][2] \in Int /\ f[n][2] > i
        BY <1>19, <1>20, <1>21, <1>22, <3>1
      <4> QED BY <1>8, <1>10, <4>1
    <3>2. CASE n = L + 1
      BY <1>8, <1>10, <1>21, <3>2
    <3> QED BY <1>20, <3>1, <3>2
  <2>2. ASSUME NEW m \in Sg!Steps, m < s.current, m > low, m \in Compensable PROVE \E n \in V : f[n][2] = m
    <3>1. m \in Int /\ (m = i \/ m > i)
      BY <1>8, <1>10, <2>2 DEF Sg!Steps, SagasConstants
    <3>2. CASE m = i
      BY <1>20, <1>21, <3>2
    <3>3. CASE m > i
      <4>1. \E n \in U : e[n][2] = m
        BY <1>3, <1>15, <2>2, <3>3 DEF WalkedTo, U
      <4> QED BY <1>20, <1>21, <4>1
    <3> QED BY <3>1, <3>2, <3>3
  <2> QED BY <2>1, <2>2 DEF WalkedTo, V
<1>25. c \in SagaCall /\ c.fn = "compensate" /\ c.k = k /\ c.i = low
  BY <1>0, <1>1, <1>2, <1>5, <1>10 DEF SagaCall
<1>26. CallFits(c, k, s, f)
  BY <1>10, <1>15, <1>24, <1>25 DEF CallFits
<1> QED BY <1>0, <1>2, <1>7, <1>15, <1>18, <1>23, <1>25, <1>26, SagaChange

\* The walk back is at its end.
LEMMA CompensateEndInv == ASSUME SagasConstants, SagaInv, Sg!CompensateEnd PROVE SagaInv'
<1>0. PICK k : k = saga_call.k
  OBVIOUS
<1> DEFINE o == sagas[k]  e == effects[k]
<1>1. saga_call.fn = "compensate" /\ saga_call.i < 0
  BY DEF Sg!CompensateEnd
<1>2. k \in 1 .. Len(sagas) /\ o \in Saga /\ e \in Seq(Effect) /\ Trail(o, e) /\ CallFits(saga_call, k, o, e) /\ saga_call \in SagaCall
  BY <1>0, <1>1, InProgress
<1>3. o.status = "COMPENSATING" /\ saga_call.i \in -1 .. StepCount - 1 /\ WalkedTo(o, e, saga_call.i)
  BY <1>0, <1>1, <1>2 DEF CallFits
<1>4. WalkedTo(o, e, -1)
  <2>1. saga_call.i = -1
    BY <1>1, <1>3 DEF SagasConstants
  <2> QED BY <1>3, <2>1
<1>5. PICK s : s = [o EXCEPT !.status = "COMPENSATED"]
  OBVIOUS
<1>6. PICK c : c = Sg!Returned
  OBVIOUS
<1>7. sagas' = [sagas EXCEPT ![k] = s] /\ effects' = [effects EXCEPT ![k] = e] /\ saga_call' = c
  BY <1>0, <1>2, <1>5, <1>6 DEF Sg!CompensateEnd, SagaInv, SagaTypes
<1> HIDE DEF o, e
<1>8. s \in Saga /\ s.status = "COMPENSATED" /\ s.current = o.current /\ s.step = o.step
  BY <1>2, <1>5 DEF Saga
<1>9. Trail(s, e) /\ WalkedTo(s, e, -1)
  BY <1>2, <1>4, <1>8 DEF Trail, WalkedTo, Undoing
<1>10. c \in SagaCall /\ c.fn \in {"tick", "none"} /\ (c.fn = "tick" => c.k > 0)
  BY <1>2, <1>6, ReturnedCall
<1>11. CallFits(c, k, s, e)
  BY <1>8, <1>10 DEF CallFits
<1> QED BY <1>0, <1>2, <1>7, <1>8, <1>9, <1>10, <1>11, SagaChange

LEMMA SagaNext == ASSUME SagasConstants, SagaInv, [Sg!SagaNext \/ Sg!BusNext]_(Sg!vars) PROVE SagaInv'
<1>1. CASE UNCHANGED <<sagas, saga_call, effects>>
  BY <1>1 DEF SagaInv, SagaTypes, Trails, CallInv
<1>2. CASE Sg!BusNext
  <2>1. UNCHANGED <<sagas, saga_call, effects>>
    BY <1>2 DEF Sg!BusNext, Sg!RegisterService, Sg!Publish, Sg!Handle, Sg!Dispatch, Sg!Skip, Sg!NextEvent, Sg!Clear, Sg!sagaVars
  <2> QED BY <1>1, <2>1
<1>3. CASE UNCHANGED Sg!vars
  BY <1>1, <1>3 DEF Sg!vars, Sg!sagaVars
<1>4. CASE \E ok \in BOOLEAN : Sg!StepReturns(ok)
  BY <1>4, StepDoneInv, StepFailedInv
<1>5. CASE Sg!SagaNext
  BY <1>4, <1>5, EnqueueInv, BeginsInv, CancelsInv, AllDoneInv, SkipBackInv, CompensateInv, CompensateEndInv DEF Sg!SagaNext
<1> QED BY <1>2, <1>3, <1>5

LEMMA SagaInvSound == ASSUME SagasConstants, SagaInv PROVE Sg!SagaAtomic
<1> SUFFICES ASSUME NEW k \in DOMAIN sagas
             PROVE  \E d \in 0 .. Len(effects[k]) :
                       LET e == effects[k]  undoing == d + 1 .. Len(e)  owed == Compensable \cap (0 .. d - 1) IN
                       /\ \A n \in 1 .. d : e[n] = <<"do", n - 1>>
                       /\ \A n \in undoing : e[n][1] # "do"
                       /\ sagas[k].status = "COMPLETED" => d = StepCount /\ undoing = {}
                       /\ sagas[k].status = "COMPENSATED" =>
                             /\ {e[n][2] : n \in undoing} = owed
                             /\ \A m, n \in undoing : m < n => e[m][2] > e[n][2]
                             /\ \A n \in undoing : sagas[k].step[e[n][2]] = IF e[n][1] = "undo" THEN "COMPENSATED" ELSE "COMPENSATING"
  BY DEF Sg!SagaAtomic
<1> DEFINE s == sagas[k]  e == effects[k]  d == s.current  U == d + 1 .. Len(e)
<1>1. k \in 1 .. Len(sagas) /\ s \in Saga /\ e \in Seq(Effect)
  BY DEF SagaInv, SagaTypes
<1>2. Trail(s, e) /\ (s.status = "COMPENSATED" => WalkedTo(s, e, -1))
  BY <1>1 DEF SagaInv, Trails
<1> HIDE DEF s, e
<1>3. d \in 0 .. Len(e) /\ d \in Nat /\ d <= StepCount /\ Len(e) \in Nat
  BY <1>1, <1>2 DEF Saga, Trail, SagasConstants
<1>4. U = Undoing(s, e)
  BY DEF Undoing
<1>5. s.status = "COMPLETED" => d = StepCount /\ U = {}
  BY <1>2, <1>3 DEF Trail
<1>6. (\A n \in 1 .. d : e[n] = <<"do", n - 1>>) /\ (\A n \in U : e[n][1] # "do") /\ \A m, n \in U : m < n => e[m][2] > e[n][2]
  BY <1>2, <1>4 DEF Trail
<1>8. \A n \in U : s.step[e[n][2]] = IF e[n][1] = "undo" THEN "COMPENSATED" ELSE "COMPENSATING"
  BY <1>2, <1>4 DEF Trail, Outcome
<1>7. ASSUME s.status = "COMPENSATED" PROVE {e[n][2] : n \in U} = Compensable \cap (0 .. d - 1)
  <2>1. \A n \in U : e[n] \in Effect
    BY <1>1, <1>3
  <2>2. \A n \in U : e[n][2] \in Compensable /\ e[n][2] \in Sg!Steps /\ e[n][2] < d
    BY <1>2, <1>4, <2>1 DEF Trail, Effect
  <2>3. \A x \in Sg!Steps : x < d => x \in 0 .. d - 1
    BY <1>3 DEF Sg!Steps, SagasConstants
  <2>4. \A x \in 0 .. d - 1 : x \in Sg!Steps /\ x < d /\ x > -1
    BY <1>3 DEF Sg!Steps, SagasConstants
  <2>5. \A x \in 0 .. d - 1 : x \in Compensable => \E n \in U : e[n][2] = x
    BY <1>2, <1>4, <1>7, <2>4 DEF WalkedTo
  <2> QED BY <2>2, <2>3, <2>5
<1> QED BY <1>3, <1>5, <1>6, <1>7, <1>8 DEF s, e

\* The log holds the events published since the last dispatch; what was delivered
\* lies before the event and the service the dispatch is at.
BusEvent == [to : Services \cup {Sg!NoService}, n : Nat]
Cleared == Len(published) - Len(bus.log)
Passed(d, at, cleared) ==
    IF at.on THEN d[2].n < cleared + at.i \/ (d[2].n = cleared + at.i /\ d[1] < at.j)
             ELSE d[2].n <= cleared
LogTypes ==
    /\ DOMAIN bus = {"services", "log", "capacity"} /\ bus.log \in Seq(BusEvent) /\ bus.services \in Seq(Services)
    /\ published \in Seq(BusEvent)
CursorTypes == cursor \in [on : BOOLEAN, i : Nat \ {0}, j : Nat, moved : BOOLEAN] /\ delivered \in Seq(Nat \X BusEvent)
LogKept ==
    /\ \A n \in 1 .. Len(published) : published[n].n = n
    /\ Len(bus.log) <= Len(published)
    /\ \A n \in 1 .. Len(bus.log) : bus.log[n] = published[Cleared + n]
DeliveredInOrder ==
    /\ \A m \in 1 .. Len(delivered) : Passed(delivered[m], cursor, Cleared) /\ delivered[m][2].n <= Len(published)
    /\ \A m, n \in 1 .. Len(delivered) : m < n /\ delivered[m][1] = delivered[n][1] => delivered[m][2].n < delivered[n][2].n
BusInv == LogTypes /\ CursorTypes /\ LogKept /\ DeliveredInOrder

LEMMA BusInit == Sg!Init => BusInv
<1> SUFFICES ASSUME Sg!Init PROVE BusInv
  OBVIOUS
<1>1. /\ bus = [services |-> << >>, log |-> << >>, capacity |-> LogCapacity] /\ cursor = [on |-> FALSE, i |-> 1, j |-> 1, moved |-> FALSE]
      /\ published = << >> /\ delivered = << >>
  BY DEF Sg!Init
<1>2. DOMAIN bus = {"services", "log", "capacity"} /\ bus.log = << >> /\ bus.services = << >>
  BY <1>1
<1>3. LogTypes /\ CursorTypes
  BY <1>1, <1>2 DEF LogTypes, CursorTypes
<1>4. Len(published) = 0 /\ Len(delivered) = 0 /\ Len(bus.log) = 0
  BY <1>1, <1>2
<1> QED BY <1>3, <1>4 DEF BusInv, LogKept, DeliveredInOrder

\* How many events were dispatched and cleared.
LEMMA ClearedCount ==
    ASSUME BusInv
    PROVE  /\ Len(published) \in Nat /\ Len(bus.log) \in Nat /\ Len(bus.log) <= Len(published)
           /\ Cleared = Len(published) - Len(bus.log) /\ Cleared \in Nat
<1>1. Len(published) \in Nat /\ Len(bus.log) \in Nat /\ Len(bus.log) <= Len(published)
  BY DEF BusInv, LogTypes, LogKept
<1> QED BY <1>1 DEF Cleared

LEMMA DeliveredTypes ==
    ASSUME BusInv
    PROVE  Len(delivered) \in Nat /\ \A m \in 1 .. Len(delivered) : delivered[m][2].n \in Nat /\ delivered[m][1] \in Nat
<1>1. delivered \in Seq(Nat \X BusEvent)
  BY DEF BusInv, CursorTypes
<1>2. \A m \in 1 .. Len(delivered) : delivered[m] \in Nat \X BusEvent
  BY <1>1
<1> QED BY <1>1, <1>2 DEF BusEvent

\* An event is published: it goes to the end of the log.
LEMMA LogInv ==
    ASSUME BusInv, NEW s \in Services \cup {Sg!NoService}, Sg!Log(Sg!Event(s)), published' = Append(published, Sg!Event(s))
    PROVE  LogTypes' /\ LogKept' /\ Cleared' = Cleared /\ Len(published') = Len(published) + 1
<1> DEFINE v == Sg!Event(s)  P == Len(published)  L == Len(bus.log)
<1>1. published \in Seq(BusEvent) /\ bus.log \in Seq(BusEvent) /\ P \in Nat /\ L \in Nat /\ L <= P /\ Cleared = P - L /\ Cleared \in Nat
  BY ClearedCount DEF BusInv, LogTypes
<1>2. v \in BusEvent /\ v.n = P + 1
  BY <1>1 DEF Sg!Event, BusEvent
<1>3. DOMAIN bus' = DOMAIN bus /\ bus'.log = Append(bus.log, v) /\ bus'.services = bus.services
  BY DEF Sg!Log, BusInv, LogTypes
<1>4. published' = Append(published, v)
  OBVIOUS
<1> HIDE DEF v
<1>5. published' \in Seq(BusEvent) /\ Len(published') = P + 1 /\ published'[P + 1] = v /\ \A n \in 1 .. P : published'[n] = published[n]
  BY <1>1, <1>2, <1>4, AppendProperties
<1>6. bus'.log \in Seq(BusEvent) /\ Len(bus'.log) = L + 1 /\ bus'.log[L + 1] = v /\ \A n \in 1 .. L : bus'.log[n] = bus.log[n]
  BY <1>1, <1>2, <1>3, AppendProperties
<1>7. LogTypes'
  BY <1>3, <1>5, <1>6 DEF BusInv, LogTypes
<1>8. \A n \in 1 .. P : published[n].n = n
  BY DEF BusInv, LogKept
<1>9. \A n \in 1 .. L : bus.log[n] = published[Cleared + n]
  BY DEF BusInv, LogKept
<1> HIDE DEF P, L
<1>10. Cleared' = Cleared
  <2>1. (P + 1) - (L + 1) = P - L
    BY <1>1
  <2> QED BY <1>1, <1>5, <1>6, <2>1 DEF Cleared
<1>11. \A n \in 1 .. P + 1 : published'[n].n = n
  <2>1. \A n \in 1 .. P + 1 : n \in 1 .. P \/ n = P + 1
    BY <1>1
  <2> QED BY <1>2, <1>5, <1>8, <2>1
<1>12. \A n \in 1 .. L + 1 : bus'.log[n] = published'[Cleared + n]
  <2>1. \A n \in 1 .. L + 1 : (n \in 1 .. L /\ Cleared + n \in 1 .. P) \/ (n = L + 1 /\ Cleared + n = P + 1)
    BY <1>1
  <2> QED BY <1>5, <1>6, <1>9, <2>1
<1>13. L + 1 <= P + 1
  BY <1>1
<1>14. LogKept'
  BY <1>5, <1>6, <1>10, <1>11, <1>12, <1>13 DEF LogKept
<1> QED BY <1>5, <1>7, <1>10, <1>14 DEF P

\* The dispatch stays where it is.
LEMMA CursorStays ==
    ASSUME BusInv, UNCHANGED <<cursor, delivered>>, LogTypes', LogKept', Cleared' = Cleared, Len(published') \in Nat, Len(published) <= Len(published')
    PROVE  BusInv'
<1>1. \A m \in 1 .. Len(delivered) : Passed(delivered'[m], cursor', Cleared')
  BY DEF BusInv, DeliveredInOrder
<1>2. \A m \in 1 .. Len(delivered) : delivered[m][2].n \in Nat /\ delivered[m][2].n <= Len(published)
  BY DeliveredTypes DEF BusInv, DeliveredInOrder
<1>3. \A m \in 1 .. Len(delivered) : delivered[m][2].n <= Len(published')
  <2>1. Len(published) \in Nat
    BY ClearedCount
  <2> QED BY <1>2, <2>1
<1>4. DeliveredInOrder'
  BY <1>1, <1>3 DEF BusInv, DeliveredInOrder
<1> QED BY <1>4 DEF BusInv, CursorTypes

\* The dispatch goes on to the next service, with or without a delivery to this one.
LEMMA PassInv ==
    ASSUME BusInv, LogTypes', LogKept', Cleared' = Cleared, Len(published') \in Nat, Len(published) <= Len(published'), Sg!AtEvent,
           cursor' \in [on : BOOLEAN, i : Nat \ {0}, j : Nat, moved : BOOLEAN], cursor'.on, cursor'.i = cursor.i, cursor'.j = cursor.j + 1,
           delivered' = delivered \/ delivered' = Append(delivered, <<cursor.j, bus.log[cursor.i]>>)
    PROVE  BusInv'
<1>0. PICK x, i, j : x = <<cursor.j, bus.log[cursor.i]>> /\ i = cursor.i /\ j = cursor.j
  OBVIOUS
<1> DEFINE D == Len(delivered)  C == Cleared
<1>1. /\ cursor \in [on : BOOLEAN, i : Nat \ {0}, j : Nat, moved : BOOLEAN] /\ delivered \in Seq(Nat \X BusEvent) /\ D \in Nat
  BY DEF BusInv, CursorTypes
<1>2. cursor.on /\ i \in Nat /\ j \in Nat /\ i <= Len(bus.log) /\ i >= 1
  BY <1>0, <1>1 DEF Sg!AtEvent
<1>3. C \in Nat /\ C + i <= Len(published) /\ C + i \in 1 .. Len(published) /\ Len(published) \in Nat /\ i \in 1 .. Len(bus.log)
  BY <1>2, ClearedCount
<1>4. \A m \in 1 .. D : delivered[m][2].n \in Nat /\ delivered[m][1] \in Nat /\ Passed(delivered[m], cursor, C) /\ delivered[m][2].n <= Len(published)
  BY DeliveredTypes DEF BusInv, DeliveredInOrder
<1>5. x \in Nat \X BusEvent /\ x[1] = j /\ x[2].n = C + i
  <2>1. bus.log[i] = published[C + i] /\ published[C + i].n = C + i /\ bus.log[i] \in BusEvent
    BY <1>3 DEF BusInv, LogKept, LogTypes
  <2> QED BY <1>0, <1>2, <2>1
<1> HIDE DEF C, D
<1>6. ASSUME NEW d, d[2].n \in Nat, d[1] \in Nat, Passed(d, cursor, C)
      PROVE  Passed(d, cursor', C) /\ (d[1] = j => d[2].n < C + i)
  <2>1. d[2].n < C + i \/ (d[2].n = C + i /\ d[1] < j)
    BY <1>0, <1>2, <1>6 DEF Passed
  <2>2. d[2].n < C + i \/ (d[2].n = C + i /\ d[1] < j + 1)
    BY <1>2, <1>6, <2>1
  <2>3. Passed(d, cursor', C)
    BY <1>0, <2>2 DEF Passed
  <2>4. d[1] = j => d[2].n < C + i
    BY <1>2, <1>6, <2>1
  <2> QED BY <2>3, <2>4
<1>7. Cleared' = C
  BY DEF C
<1>8. ASSUME NEW m \in 1 .. D PROVE /\ Passed(delivered[m], cursor', C)
                                    /\ delivered[m][1] = j => delivered[m][2].n < C + i
                                    /\ delivered[m][2].n <= Len(published')
  <2>1. PICK d : d = delivered[m]
    OBVIOUS
  <2>2. d[2].n \in Nat /\ d[1] \in Nat /\ Passed(d, cursor, C) /\ d[2].n <= Len(published)
    BY <1>4, <2>1
  <2>3. Passed(d, cursor', C) /\ (d[1] = j => d[2].n < C + i)
    BY <1>6, <2>2
  <2>4. d[2].n <= Len(published')
    BY <1>3, <2>2
  <2> QED BY <2>1, <2>3, <2>4
<1>9. \A m, n \in 1 .. D : m < n /\ delivered[m][1] = delivered[n][1] => delivered[m][2].n < delivered[n][2].n
  BY DEF BusInv, DeliveredInOrder, D
<1>10. CASE delivered' = delivered
  <2>1. DeliveredInOrder'
    BY <1>7, <1>8, <1>9, <1>10 DEF DeliveredInOrder, D
  <2> QED BY <1>1, <1>10, <2>1 DEF BusInv, CursorTypes
<1>11. CASE delivered' = Append(delivered, <<cursor.j, bus.log[cursor.i]>>)
  <2>1. delivered' = Append(delivered, x)
    BY <1>0, <1>11
  <2>2. delivered' \in Seq(Nat \X BusEvent) /\ Len(delivered') = D + 1 /\ delivered'[D + 1] = x /\ \A m \in 1 .. D : delivered'[m] = delivered[m]
    BY <1>1, <1>5, <2>1, AppendProperties DEF D
  <2>3. \A m \in 1 .. D + 1 : m \in 1 .. D \/ m = D + 1
    BY <1>1
  <2>4. Passed(x, cursor', C) /\ x[2].n <= Len(published')
    <3>1. j < j + 1 /\ C + i <= Len(published')
      BY <1>2, <1>3
    <3> QED BY <1>0, <1>5, <3>1 DEF Passed
  <2>5. \A m \in 1 .. D + 1 : Passed(delivered'[m], cursor', C) /\ delivered'[m][2].n <= Len(published')
    BY <1>8, <2>2, <2>3, <2>4
  <2>6. ASSUME NEW m \in 1 .. D + 1, NEW n \in 1 .. D + 1, m < n, delivered'[m][1] = delivered'[n][1]
        PROVE  delivered'[m][2].n < delivered'[n][2].n
    <3>1. m \in 1 .. D
      BY <1>1, <2>6
    <3>2. CASE n \in 1 .. D
      BY <1>9, <2>2, <2>6, <3>1, <3>2
    <3>3. CASE n = D + 1
      BY <1>5, <1>8, <2>2, <2>6, <3>1, <3>3
    <3> QED BY <2>3, <3>2, <3>3
  <2>7. DeliveredInOrder'
    BY <1>7, <2>2, <2>5, <2>6 DEF DeliveredInOrder
  <2> QED BY <2>2, <2>7 DEF BusInv, CursorTypes
<1> QED BY <1>10, <1>11

\* Registering, publishing and the beginning of a dispatch.
LEMMA RegisterInv == ASSUME BusInv, NEW s \in Services, Sg!RegisterService(s) PROVE BusInv'
<1>1. bus' = [bus EXCEPT !.services = Append(bus.services, s)] /\ UNCHANGED <<cursor, published, delivered>>
  BY DEF Sg!RegisterService
<1>2. DOMAIN bus = {"services", "log", "capacity"} /\ bus.services \in Seq(Services)
  BY DEF BusInv, LogTypes
<1>3. DOMAIN bus' = DOMAIN bus /\ bus'.log = bus.log /\ bus'.services = Append(bus.services, s)
  BY <1>1, <1>2
<1>4. bus'.services \in Seq(Services)
  BY <1>2, <1>3, AppendProperties
<1>5. LogTypes' /\ Cleared' = Cleared
  BY <1>1, <1>3, <1>4 DEF BusInv, LogTypes, Cleared
<1>6. LogKept'
  BY <1>1, <1>3, <1>5 DEF BusInv, LogKept
<1>7. Len(published') \in Nat /\ Len(published) <= Len(published')
  BY <1>1, ClearedCount
<1> QED BY <1>1, <1>5, <1>6, <1>7, CursorStays

LEMMA PublishInv == ASSUME BusInv, NEW s \in Services \cup {Sg!NoService}, Sg!Publish(s) PROVE BusInv'
<1>1. LogTypes' /\ LogKept' /\ Cleared' = Cleared /\ Len(published') = Len(published) + 1 /\ UNCHANGED <<cursor, delivered>>
  BY LogInv DEF Sg!Publish
<1>2. Len(published') \in Nat /\ Len(published) <= Len(published')
  BY <1>1, ClearedCount
<1> QED BY <1>1, <1>2, CursorStays

\* The handler of a service returns, having published or not, or the service is passed over.
LEMMA HandleInv == ASSUME BusInv, (\E s \in Services \cup {Sg!NoService} : Sg!Handle(s)) \/ Sg!Skip PROVE BusInv'
<1>1. Sg!AtEvent /\ (delivered' = delivered \/ delivered' = Append(delivered, <<cursor.j, bus.log[cursor.i]>>))
  BY DEF Sg!Handle, Sg!Skip
<1>2. cursor \in [on : BOOLEAN, i : Nat \ {0}, j : Nat, moved : BOOLEAN] /\ cursor.on
  BY <1>1 DEF BusInv, CursorTypes, Sg!AtEvent
<1> DEFINE b == cursor.moved \/ bus'.capacity # bus.capacity
<1>3. \/ UNCHANGED <<bus, published>> /\ cursor' = [cursor EXCEPT !.j = cursor.j + 1]
      \/ /\ \E s \in Services \cup {Sg!NoService} : Sg!Log(Sg!Event(s)) /\ published' = Append(published, Sg!Event(s))
         /\ cursor' = [[cursor EXCEPT !.j = cursor.j + 1] EXCEPT !.moved = b]
  BY <1>2 DEF Sg!Handle, Sg!HandlerReturns, Sg!Skip, Sg!NextService
<1>4. b \in BOOLEAN
  OBVIOUS
<1> HIDE DEF b
<1>5. cursor.j + 1 \in Nat
  BY <1>2
<1>6. /\ cursor' \in [on : BOOLEAN, i : Nat \ {0}, j : Nat, moved : BOOLEAN]
      /\ cursor'.on /\ cursor'.i = cursor.i /\ cursor'.j = cursor.j + 1
  <2> PICK p : p = [cursor EXCEPT !.j = cursor.j + 1]
    OBVIOUS
  <2>1. p \in [on : BOOLEAN, i : Nat \ {0}, j : Nat, moved : BOOLEAN] /\ p.on /\ p.i = cursor.i /\ p.j = cursor.j + 1
    BY <1>2, <1>5
  <2>2. cursor' = p \/ cursor' = [p EXCEPT !.moved = b]
    BY <1>3
  <2>3. CASE cursor' = p
    BY <2>1, <2>3
  <2>4. CASE cursor' = [p EXCEPT !.moved = b]
    BY <1>4, <2>1, <2>4
  <2> QED BY <2>2, <2>3, <2>4
<1>7. LogTypes' /\ LogKept' /\ Cleared' = Cleared /\ (Len(published') = Len(published) \/ Len(published') = Len(published) + 1)
  <2>1. CASE UNCHANGED <<bus, published>>
    BY <2>1 DEF BusInv, LogTypes, LogKept, Cleared
  <2>2. CASE \E s \in Services \cup {Sg!NoService} : Sg!Log(Sg!Event(s)) /\ published' = Append(published, Sg!Event(s))
    BY <2>2, LogInv
  <2> QED BY <1>3, <2>1, <2>2
<1>8. Len(published') \in Nat /\ Len(published) <= Len(published')
  BY <1>7, ClearedCount
<1> QED BY <1>1, <1>6, <1>7, <1>8, PassInv

\* choreography_bus_dispatch_pending begins, goes on to the next event, and ends with an empty log.
LEMMA DispatchesInv == ASSUME BusInv, Sg!Dispatch \/ Sg!NextEvent \/ Sg!Clear PROVE BusInv'
<1> DEFINE T == [on : BOOLEAN, i : Nat \ {0}, j : Nat, moved : BOOLEAN]  P == Len(published)  L == Len(bus.log)
<1>1. cursor \in T
  BY DEF BusInv, CursorTypes
<1>2. UNCHANGED <<published, delivered>>
  BY DEF Sg!Dispatch, Sg!NextEvent, Sg!Clear
<1>3. \A m \in 1 .. Len(delivered) : delivered[m][2].n \in Nat /\ delivered[m][1] \in Nat /\ Passed(delivered[m], cursor, Cleared) /\ delivered[m][2].n <= P
  BY DeliveredTypes DEF BusInv, DeliveredInOrder
<1>4. P \in Nat /\ L \in Nat /\ L <= P /\ Cleared = P - L /\ Cleared \in Nat
  BY ClearedCount
<1>5. ASSUME LogTypes', LogKept', cursor' \in T, \A m \in 1 .. Len(delivered) : Passed(delivered[m], cursor', Cleared') PROVE BusInv'
  BY <1>2, <1>5 DEF BusInv, CursorTypes, DeliveredInOrder
<1>6. ASSUME bus' = bus PROVE LogTypes' /\ LogKept' /\ Cleared' = Cleared
  BY <1>2, <1>6 DEF BusInv, LogTypes, LogKept, Cleared
<1> HIDE DEF P, L
<1>7. CASE Sg!Dispatch
  <2>1. ~cursor.on /\ cursor' = [on |-> TRUE, i |-> 1, j |-> 1, moved |-> FALSE] /\ bus' = bus
    BY <1>7 DEF Sg!Dispatch
  <2>2. cursor' \in T /\ cursor'.on /\ cursor'.i = 1
    BY <2>1
  <2>3. \A m \in 1 .. Len(delivered) : delivered[m][2].n < Cleared + 1
    BY <1>3, <1>4, <2>1 DEF Passed
  <2>4. \A m \in 1 .. Len(delivered) : Passed(delivered[m], cursor', Cleared)
    BY <2>2, <2>3 DEF Passed
  <2> QED BY <1>5, <1>6, <2>1, <2>2, <2>4
<1>8. CASE Sg!NextEvent
  <2>1. cursor.on /\ bus' = bus
    BY <1>8 DEF Sg!NextEvent, Sg!AtEvent
  <2>2. PICK c : c = [cursor EXCEPT !.i = cursor.i + 1, !.j = 1, !.moved = FALSE]
    OBVIOUS
  <2>3. cursor' = c
    BY <1>8, <2>2 DEF Sg!NextEvent
  <2>4. c = [on |-> cursor.on, i |-> cursor.i + 1, j |-> 1, moved |-> FALSE]
    BY <1>1, <2>2
  <2>5. cursor.i \in Nat
    BY <1>1
  <2>6. cursor' \in T /\ cursor'.on /\ cursor'.i = cursor.i + 1
    BY <1>1, <2>1, <2>3, <2>4, <2>5
  <2>7. \A m \in 1 .. Len(delivered) : delivered[m][2].n < Cleared + (cursor.i + 1)
    <3>1. \A m \in 1 .. Len(delivered) : delivered[m][2].n < Cleared + cursor.i \/ delivered[m][2].n = Cleared + cursor.i
      BY <1>3, <2>1 DEF Passed
    <3> QED BY <1>3, <1>4, <2>5, <3>1
  <2>8. \A m \in 1 .. Len(delivered) : Passed(delivered[m], cursor', Cleared)
    BY <2>6, <2>7 DEF Passed
  <2> QED BY <1>5, <1>6, <2>1, <2>6, <2>8
<1>9. CASE Sg!Clear
  <2>1. bus' = [bus EXCEPT !.log = << >>]
    BY <1>9 DEF Sg!Clear
  <2>2. PICK c : c = [cursor EXCEPT !.on = FALSE, !.i = 1]
    OBVIOUS
  <2>3. cursor' = c
    BY <1>9, <2>2 DEF Sg!Clear
  <2>4. c = [on |-> FALSE, i |-> 1, j |-> cursor.j, moved |-> cursor.moved]
    BY <1>1, <2>2
  <2>5. cursor' \in T /\ ~cursor'.on
    BY <1>1, <2>3, <2>4
  <2>6. DOMAIN bus' = DOMAIN bus /\ bus'.log = << >> /\ bus'.services = bus.services
    BY <2>1 DEF BusInv, LogTypes
  <2>7. Len(bus'.log) = 0 /\ bus'.log \in Seq(BusEvent)
    BY <2>6
  <2>8. LogTypes' /\ Cleared' = P
    <3>1. Cleared' = P - 0
      BY <1>2, <2>7 DEF Cleared, P
    <3> QED BY <1>2, <1>4, <2>6, <2>7, <3>1 DEF BusInv, LogTypes
  <2>9. LogKept'
    BY <1>2, <1>4, <2>7 DEF BusInv, LogKept, P
  <2>10. \A m \in 1 .. Len(delivered) : Passed(delivered[m], cursor', Cleared')
    BY <1>3, <2>5, <2>8 DEF Passed
  <2> QED BY <1>5, <2>5, <2>8, <2>9, <2>10
<1> QED BY <1>7, <1>8, <1>9

LEMMA BusNext == ASSUME BusInv, [Sg!SagaNext \/ Sg!BusNext]_(Sg!vars) PROVE BusInv'
<1>1. CASE UNCHANGED Sg!busVars
  <2>1. UNCHANGED <<bus, cursor, published, delivered>>
    BY <1>1 DEF Sg!busVars
  <2> QED BY <2>1 DEF BusInv, LogTypes, CursorTypes, LogKept, DeliveredInOrder, Cleared
<1>2. CASE Sg!SagaNext
  <2>1. UNCHANGED Sg!busVars
    BY <1>2 DEF Sg!SagaNext, Sg!Enqueue, Sg!Tick, Sg!TickNext, Sg!AllDone, Sg!SkipBack, Sg!CompensateEnd, Sg!Resume, Sg!ExecuteStep,
                Sg!Cancel, Sg!StepReturns, Sg!Compensate
  <2> QED BY <1>1, <2>1
<1>3. CASE UNCHANGED Sg!vars
  BY <1>1, <1>3 DEF Sg!vars
<1>4. CASE Sg!BusNext
  BY <1>4, RegisterInv, PublishInv, HandleInv, DispatchesInv DEF Sg!BusNext
<1> QED BY <1>2, <1>3, <1>4

\* A log that never grew never moved, and what was delivered from it went to its addressees.
Aim ==
    /\ bus.capacity \in Nat /\ LogCapacity <= bus.capacity /\ cursor.j >= 1
    /\ cursor.moved \/ misread => LogCapacity < bus.capacity
    /\ \A n \in 1 .. Len(delivered) :
          /\ delivered[n][1] \in 1 .. Len(bus.services)
          /\ bus.capacity = LogCapacity => bus.services[delivered[n][1]] = delivered[n][2].to

LEMMA AimInit == ASSUME SagasConstants, Sg!Init PROVE Aim
<1>1. /\ bus = [services |-> << >>, log |-> << >>, capacity |-> LogCapacity] /\ cursor = [on |-> FALSE, i |-> 1, j |-> 1, moved |-> FALSE]
      /\ delivered = << >> /\ misread = FALSE
  BY DEF Sg!Init
<1>2. bus.capacity = LogCapacity /\ cursor.j = 1 /\ ~cursor.moved /\ Len(delivered) = 0
  BY <1>1
<1> QED BY <1>1, <1>2 DEF Aim, SagasConstants

\* The log can only grow, and the services stay where they are.
LEMMA AimKept ==
    ASSUME SagasConstants, BusInv, Aim, NEW c, UNCHANGED <<delivered, misread>>,
           bus'.services = bus.services, bus'.capacity = c, c \in Nat, bus.capacity <= c,
           cursor'.j >= 1, cursor'.moved => cursor.moved \/ LogCapacity < c
    PROVE  Aim'
<1>1. LogCapacity \in Nat /\ bus.capacity \in Nat /\ LogCapacity <= bus.capacity
  BY DEF Aim, SagasConstants
<1>2. LogCapacity <= c /\ (LogCapacity < bus.capacity => LogCapacity < c) /\ (c = LogCapacity => bus.capacity = LogCapacity)
  BY <1>1
<1> QED BY <1>2 DEF Aim

LEMMA AimNext == ASSUME SagasConstants, BusInv, Aim, [Sg!SagaNext \/ Sg!BusNext]_(Sg!vars) PROVE Aim'
<1> DEFINE T == [on : BOOLEAN, i : Nat \ {0}, j : Nat, moved : BOOLEAN]  D == Len(delivered)
<1>1. /\ DOMAIN bus = {"services", "log", "capacity"} /\ bus.services \in Seq(Services) /\ cursor \in T /\ delivered \in Seq(Nat \X BusEvent)
      /\ bus.capacity \in Nat /\ LogCapacity <= bus.capacity /\ cursor.j >= 1 /\ LogCapacity \in Nat /\ LogCapacity > 0 /\ bus.capacity <= bus.capacity
  BY DEF BusInv, LogTypes, CursorTypes, Aim, SagasConstants
<1>2. CASE UNCHANGED Sg!busVars
  BY <1>2 DEF Sg!busVars, Aim
<1>3. CASE Sg!SagaNext
  <2>1. UNCHANGED Sg!busVars
    BY <1>3 DEF Sg!SagaNext, Sg!Enqueue, Sg!Tick, Sg!TickNext, Sg!AllDone, Sg!SkipBack, Sg!CompensateEnd, Sg!Resume, Sg!ExecuteStep,
                Sg!Cancel, Sg!StepReturns, Sg!Compensate
  <2> QED BY <1>2, <2>1
<1>4. ASSUME NEW e, Sg!Log(e)
      PROVE  /\ bus'.services = bus.services /\ bus'.capacity \in Nat /\ bus.capacity <= bus'.capacity
             /\ bus'.capacity # bus.capacity => LogCapacity < bus'.capacity
  <2>1. bus'.services = bus.services /\ bus'.capacity \in {bus.capacity, 2 * bus.capacity}
    BY <1>1, <1>4 DEF Sg!Log
  <2> QED BY <1>1, <2>1
<1>5. CASE \E s \in Services : Sg!RegisterService(s)
  <2>1. PICK s \in Services : bus' = [bus EXCEPT !.services = Append(bus.services, s)] /\ UNCHANGED <<cursor, delivered, misread>>
    BY <1>5 DEF Sg!RegisterService
  <2>2. bus'.services = Append(bus.services, s) /\ bus'.capacity = bus.capacity
    BY <1>1, <2>1
  <2>3. Len(bus'.services) = Len(bus.services) + 1 /\ \A n \in 1 .. Len(bus.services) : bus'.services[n] = bus.services[n] /\ n \in 1 .. Len(bus'.services)
    BY <1>1, <2>2, AppendProperties
  <2> QED BY <2>1, <2>2, <2>3 DEF Aim
<1>6. CASE \E s \in Services \cup {Sg!NoService} : Sg!Publish(s)
  <2>1. UNCHANGED <<cursor, delivered, misread>> /\ \E e : Sg!Log(e)
    BY <1>6 DEF Sg!Publish
  <2> QED BY <1>1, <1>4, <2>1, AimKept
<1>7. CASE Sg!Dispatch \/ Sg!NextEvent
  <2>1. cursor' = [on |-> TRUE, i |-> 1, j |-> 1, moved |-> FALSE] \/ cursor' = [cursor EXCEPT !.i = cursor.i + 1, !.j = 1, !.moved = FALSE]
    BY <1>7 DEF Sg!Dispatch, Sg!NextEvent
  <2>2. cursor'.j = 1 /\ ~cursor'.moved
    <3>1. CASE cursor' = [on |-> TRUE, i |-> 1, j |-> 1, moved |-> FALSE]
      BY <3>1
    <3>2. CASE cursor' = [cursor EXCEPT !.i = cursor.i + 1, !.j = 1, !.moved = FALSE]
      <4>1. PICK c : c = [cursor EXCEPT !.i = cursor.i + 1, !.j = 1, !.moved = FALSE]
        OBVIOUS
      <4>2. c = [on |-> cursor.on, i |-> cursor.i + 1, j |-> 1, moved |-> FALSE]
        BY <1>1, <4>1
      <4>3. cursor' = c
        BY <3>2, <4>1
      <4> QED BY <4>2, <4>3
    <3> QED BY <2>1, <3>1, <3>2
  <2>3. bus' = bus /\ UNCHANGED <<delivered, misread>>
    BY <1>7 DEF Sg!Dispatch, Sg!NextEvent
  <2> QED BY <1>1, <2>2, <2>3, AimKept
<1>8. CASE Sg!Clear
  <2>1. bus' = [bus EXCEPT !.log = << >>] /\ cursor' = [cursor EXCEPT !.on = FALSE, !.i = 1] /\ UNCHANGED <<delivered, misread>>
    BY <1>8 DEF Sg!Clear
  <2>2. bus'.services = bus.services /\ bus'.capacity = bus.capacity /\ cursor'.j = cursor.j /\ cursor'.moved = cursor.moved
    BY <1>1, <2>1
  <2> QED BY <1>1, <2>1, <2>2, AimKept
<1>10. CASE Sg!Skip
  <2>1. cursor' = [cursor EXCEPT !.j = cursor.j + 1] /\ UNCHANGED <<bus, delivered, misread>>
    BY <1>10 DEF Sg!Skip, Sg!NextService
  <2>2. cursor'.j >= 1 /\ cursor'.moved = cursor.moved
    BY <1>1, <2>1
  <2> QED BY <1>1, <2>1, <2>2, AimKept
<1>11. CASE \E s \in Services \cup {Sg!NoService} : Sg!Handle(s)
  <2>1. PICK s \in Services \cup {Sg!NoService} : Sg!Handle(s)
    BY <1>11
  <2> DEFINE p == [cursor EXCEPT !.j = cursor.j + 1]  b == cursor.moved \/ bus'.capacity # bus.capacity
  <2>2. p \in T /\ p.j >= 1 /\ p.moved = cursor.moved
    <3>1. p = [on |-> cursor.on, i |-> cursor.i, j |-> cursor.j + 1, moved |-> cursor.moved]
      BY <1>1
    <3>2. cursor.j + 1 \in Nat /\ cursor.j + 1 >= 1 /\ cursor.on \in BOOLEAN /\ cursor.moved \in BOOLEAN /\ cursor.i \in Nat \ {0}
      BY <1>1
    <3> HIDE DEF p
    <3> QED BY <3>1, <3>2
  <2>3. \/ UNCHANGED <<bus, published>> /\ cursor' = p
        \/ Sg!Log(Sg!Event(s)) /\ cursor' = [p EXCEPT !.moved = b]
    BY <1>1, <2>1 DEF Sg!Handle, Sg!HandlerReturns, Sg!NextService
  <2> HIDE DEF p
  <2>4. /\ bus'.services = bus.services /\ bus'.capacity \in Nat /\ bus.capacity <= bus'.capacity /\ cursor'.j >= 1
        /\ cursor'.moved => cursor.moved \/ LogCapacity < bus'.capacity
    <3>1. CASE UNCHANGED <<bus, published>> /\ cursor' = p
      BY <1>1, <2>2, <3>1
    <3>2. CASE Sg!Log(Sg!Event(s)) /\ cursor' = [p EXCEPT !.moved = b]
      <4>1. /\ bus'.services = bus.services /\ bus'.capacity \in Nat /\ bus.capacity <= bus'.capacity
            /\ bus'.capacity # bus.capacity => LogCapacity < bus'.capacity
        BY <1>4, <3>2
      <4>2. cursor'.j >= 1 /\ cursor'.moved = b
        BY <2>2, <3>2
      <4> QED BY <4>1, <4>2
    <3> QED BY <2>3, <3>1, <3>2
  <2>5. /\ LogCapacity <= bus'.capacity /\ (LogCapacity < bus.capacity => LogCapacity < bus'.capacity)
        /\ bus'.capacity = LogCapacity => bus.capacity = LogCapacity
    BY <1>1, <2>4
  <2>6. CASE cursor.moved /\ misread' = TRUE /\ UNCHANGED delivered
    BY <2>4, <2>5, <2>6 DEF Aim
  <2>7. CASE delivered' = Append(delivered, <<cursor.j, bus.log[cursor.i]>>) /\ UNCHANGED misread
    <3>1. PICK x : x = <<cursor.j, bus.log[cursor.i]>>
      OBVIOUS
    <3>2. /\ cursor.j \in 1 .. Len(bus.services) /\ x[1] = cursor.j /\ x[2] = bus.log[cursor.i] /\ cursor.j \in Nat
          /\ cursor.moved \/ bus.services[cursor.j] = bus.log[cursor.i].to
      BY <1>1, <2>1, <3>1 DEF Sg!Handle
    <3>3. x \in Nat \X BusEvent
      <4>1. bus.log[cursor.i] \in BusEvent
        BY <1>1, <2>1 DEF Sg!Handle, Sg!AtEvent, BusInv, LogTypes
      <4> QED BY <3>1, <3>2, <4>1
    <3>4. Len(delivered') = D + 1 /\ delivered'[D + 1] = x /\ (\A n \in 1 .. D : delivered'[n] = delivered[n]) /\ D \in Nat
      BY <1>1, <2>7, <3>1, <3>3, AppendProperties
    <3>5. \A n \in 1 .. D + 1 : n \in 1 .. D \/ n = D + 1
      BY <3>4
    <3>6. bus.capacity = LogCapacity => ~cursor.moved
      BY <1>1 DEF Aim
    <3> QED BY <2>4, <2>5, <2>7, <3>2, <3>4, <3>5, <3>6 DEF Aim
  <2> QED BY <2>1, <2>6, <2>7 DEF Sg!Handle
<1>12. CASE Sg!BusNext
  BY <1>5, <1>6, <1>7, <1>8, <1>10, <1>11, <1>12 DEF Sg!BusNext
<1>13. CASE UNCHANGED Sg!vars
  BY <1>2, <1>13 DEF Sg!vars
<1> QED BY <1>3, <1>12, <1>13

LEMMA BusInvSound == ASSUME SagasConstants, BusInv, Aim PROVE Sg!BusInOrder
<1> DEFINE P == Len(published)  L == Len(bus.log)  rest == SubSeq(published, Cleared + 1, P)
<1>1. published \in Seq(BusEvent) /\ bus.log \in Seq(BusEvent)
  BY DEF BusInv, LogTypes
<1>2. P \in Nat /\ L \in Nat /\ L <= P /\ Cleared = P - L /\ Cleared \in Nat
  BY ClearedCount
<1>3. \A n \in 1 .. L : bus.log[n] = published[Cleared + n]
  BY DEF BusInv, LogKept
<1>4. rest \in Seq(BusEvent) /\ Len(rest) = L /\ \A n \in 1 .. L : rest[n] = published[Cleared + n]
  <2> PICK c : c = Cleared
    OBVIOUS
  <2>1. rest = SubSeq(published, c + 1, P)
    OBVIOUS
  <2> HIDE DEF P, L, rest
  <2>2. c \in Nat /\ c + 1 \in 1 .. P + 1 /\ P - (c + 1) + 1 = L /\ c = P - L
    BY <1>2
  <2>3. /\ SubSeq(published, c + 1, P) \in Seq(BusEvent) /\ Len(SubSeq(published, c + 1, P)) = P - (c + 1) + 1
        /\ \A n \in 1 .. P - (c + 1) + 1 : SubSeq(published, c + 1, P)[n] = published[c + 1 + n - 1]
    BY <1>1, <1>2, <2>2 DEF P
  <2>4. \A n \in 1 .. L : c + 1 + n - 1 = c + n
    BY <1>2, <2>2
  <2> QED BY <2>1, <2>2, <2>3, <2>4
<1> HIDE DEF rest
<1>5. bus.log = rest
  BY <1>1, <1>3, <1>4, SeqEqual
<1>6. \E m \in 0 .. P : bus.log = SubSeq(published, m + 1, P)
  <2>1. Cleared \in 0 .. P
    BY <1>2
  <2> QED BY <1>5, <2>1 DEF rest
<1>7. DOMAIN delivered = 1 .. Len(delivered)
  BY DEF BusInv, CursorTypes
<1>8. bus.capacity = LogCapacity =>
          ~misread /\ \A n \in DOMAIN delivered : bus.services[delivered[n][1]] = delivered[n][2].to
  BY <1>7 DEF Aim, SagasConstants
<1> QED BY <1>6, <1>7, <1>8 DEF Sg!BusInOrder, BusInv, DeliveredInOrder

\* For any number of steps and sagas, any steps that can be compensated, any
\* retries, services and first allocation of the log: a saga that reports COMPLETED
\* did every step once, in order; one that reports COMPENSATED called each
\* compensation it owed once, last done first, and each step's status tells whether
\* it failed; the bus gives each service its events in the order they were
\* published, at most once, although handlers publish; and a log that never outgrew
\* its first allocation gives handlers events only, and only those addressed to them.
THEOREM SagasAreSound == ASSUME SagasConstants PROVE Sg!Spec => []SagasSound
<1>1. Sg!Init => SagaInv /\ BusInv /\ Aim
  BY SagaInit, BusInit, AimInit
<1>2. SagaInv /\ BusInv /\ Aim /\ [Sg!SagaNext \/ Sg!BusNext]_(Sg!vars) => (SagaInv /\ BusInv /\ Aim)'
  BY SagaNext, BusNext, AimNext
<1>3. SagaInv /\ BusInv /\ Aim => SagasSound
  BY SagaInvSound, BusInvSound DEF SagasSound
<1> QED BY <1>1, <1>2, <1>3, PTL DEF Sg!Spec
=============================================================================
