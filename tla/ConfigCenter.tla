---------------------------- MODULE ConfigCenter ----------------------------
(***************************************************************************)
(* mini-business-infra/src/config_center.c: versioned entries, grey        *)
(* releases, subscribers of a namespace, and snapshots that survive the    *)
(* process.  A key stands for namespace, group and key; values are free of *)
(* the line breaks that would end a snapshot's record.                     *)
(***************************************************************************)
EXTENDS Naturals, Sequences, SequencesExt, FiniteSets

CONSTANTS
    Keys, Ns,       \* Ns[k]: the namespace of k
    Values, Enc,    \* plain values; Enc[v]: what cc_xor_crypt makes of v
    Torn,           \* what is left of a value whose record was cut short
    Clients, Ips,
    MaxVersion,     \* MaxVersion[k]: bound on the writes to an entry
    None

VARIABLES
    conf,           \* conf[k]: None or [val, version, versions, encrypted, gray]
    subs,           \* the subscribers array: [client, ns]
    told,           \* told[c][k]: the value c was notified of since it subscribed
    file,           \* the snapshot, a set of [key, version, val]; no file is one without records
    saved,          \* history: the records the last save was to write
    torn,           \* history: the process ended before they were all written
    log,            \* history: the values of k since it was created
    loaded          \* history: the last operation loaded the snapshot into an empty centre

vars == <<conf, subs, told, file, saved, torn, log, loaded>>
Namespaces == {Ns[k] : k \in Keys}
Present == {k \in Keys : conf[k] # None}

Init ==
    /\ conf = [k \in Keys |-> None] /\ subs = <<>> /\ told = [c \in Clients |-> [k \in Keys |-> None]]
    /\ file = {} /\ saved = {} /\ torn = FALSE /\ log = [k \in Keys |-> <<>>] /\ loaded = FALSE

\* cc_notify: every subscriber of the namespace, in order.
Notified(t, k, v) == [c \in Clients |-> IF \E i \in DOMAIN subs : subs[i] = [client |-> c, ns |-> Ns[k]] THEN [t[c] EXCEPT ![k] = v] ELSE t[c]]

\* cc_add_version and the assignments after it.
WrittenFirst(e, v) == [e EXCEPT !.versions = Append(@, [version |-> e.version, val |-> v]), !.val = v, !.version = @ + 1]
Written(e, v) == [e EXCEPT !.versions = Append(@, [version |-> e.version, val |-> e.val]), !.val = v, !.version = @ + 1]
Created(v) == [val |-> v, version |-> 1, versions |-> <<>>, encrypted |-> FALSE, gray |-> None]
Put(e, v) == IF e = None THEN Created(v) ELSE Written(e, v)
MayWrite(k) == conf[k] # None => conf[k].version < MaxVersion[k]

Set(k, e) ==
    /\ MayWrite(k)
    /\ conf' = [conf EXCEPT ![k] = e]
    /\ told' = Notified(told, k, e.val)
    /\ log' = [log EXCEPT ![k] = Append(@, e.val)]
    /\ loaded' = FALSE /\ UNCHANGED <<subs, file, saved, torn>>

ConfigPut(k, v) == Set(k, Put(conf[k], v))

\* A plain put leaves encrypt_type as it is.
ConfigPutEncrypted(k, v) == Set(k, [Put(conf[k], Enc[v]) EXCEPT !.encrypted = TRUE])

\* cc_config_rollback: the old value becomes a new version.
ConfigRollback(k, i) == i \in DOMAIN conf[k].versions /\ Set(k, Written(conf[k], conf[k].versions[i].val))

\* Nobody is notified.
ConfigDelete(k) ==
    /\ conf[k] # None
    /\ conf' = [conf EXCEPT ![k] = None] /\ log' = [log EXCEPT ![k] = <<>>]
    /\ loaded' = FALSE /\ UNCHANGED <<subs, told, file, saved, torn>>

GrayReleaseSet(k, ips, v) ==
    /\ conf[k] # None
    /\ conf' = [conf EXCEPT ![k].gray = [ips |-> ips, val |-> v]]
    /\ loaded' = FALSE /\ UNCHANGED <<subs, told, file, saved, torn, log>>
GrayReleaseGet(k, ip) == IF conf[k].gray # None /\ ip \in conf[k].gray.ips THEN conf[k].gray.val ELSE conf[k].val

\* cc_config_get_version
GetVersion(k, n) ==
    IF n = conf[k].version THEN conf[k].val
    ELSE LET i == SelectInSeq(conf[k].versions, LAMBDA x : x.version = n) IN IF i = 0 THEN None ELSE conf[k].versions[i].val

\* cc_config_get_consistent with CC_CONSISTENCY_STRONG and cc_read_repair.
Repaired(e) ==
    LET i == SelectInSeq(e.versions, LAMBDA x : x.version > e.version)
    IN  IF i = 0 THEN e ELSE [Written(e, e.versions[i].val) EXCEPT !.version = e.versions[i].version]
GetConsistent(k) ==
    /\ conf[k] # None
    /\ conf' = [conf EXCEPT ![k] = Repaired(@)]
    /\ told' = IF conf' = conf THEN told ELSE Notified(told, k, conf'[k].val)
    /\ UNCHANGED <<subs, file, saved, torn, log, loaded>>

Subscribe(c, ns) ==
    /\ ~\E i \in DOMAIN subs : subs[i].client = c
    /\ subs' = Append(subs, [client |-> c, ns |-> ns])
    /\ told' = [told EXCEPT ![c] = [k \in Keys |-> None]]
    /\ UNCHANGED <<conf, file, saved, torn, log, loaded>>

\* cc_unsubscribe: whoever subscribed first to the namespace.
Unsubscribe(ns) ==
    LET i == SelectInSeq(subs, LAMBDA s : s.ns = ns) IN
    /\ i # 0
    /\ subs' = RemoveAt(subs, i)
    /\ told' = [told EXCEPT ![subs[i].client] = [k \in Keys |-> None]]
    /\ UNCHANGED <<conf, file, saved, torn, log, loaded>>

\* cc_poll_update, and cc_poll_all for every namespace.
PollUpdate(ns) ==
    LET seen == {i \in DOMAIN subs : subs[i].ns = ns} IN
    /\ seen # {}
    /\ told' = [c \in Clients |-> IF \E i \in seen : subs[i].client = c
                                  THEN [k \in Keys |-> IF k \in Present /\ Ns[k] = ns THEN conf[k].val ELSE told[c][k]] ELSE told[c]]
    /\ UNCHANGED <<conf, subs, file, saved, torn, log, loaded>>

Records(ks) == {[key |-> k, version |-> conf[k].version, val |-> conf[k].val] : k \in ks}
SnapshotSave ==
    /\ file' = Records(Present) /\ saved' = Records(Present) /\ torn' = FALSE
    /\ UNCHANGED <<conf, subs, told, log, loaded>>

\* The process ends and starts again with an empty centre.
Empty ==
    /\ conf' = [k \in Keys |-> None] /\ log' = [k \in Keys |-> <<>>]
    /\ subs' = <<>> /\ told' = [c \in Clients |-> [k \in Keys |-> None]]
    /\ loaded' = FALSE
Restart == Empty /\ UNCHANGED <<file, saved, torn>>

\* It ends inside cc_snapshot_save: fopen has truncated the file, some records are written and one may
\* be cut in its value.  (A record cut before its value is skipped by cc_snapshot_load.)
Fragment(whole, cut) == Records(whole) \cup {[x EXCEPT !.val = Torn] : x \in Records(cut)}
CrashInSave(whole, cut) ==
    /\ Empty
    /\ file' = Fragment(whole, cut) /\ saved' = Records(Present) /\ torn' = TRUE

\* cc_snapshot_load: a record is put where there is no entry or one with a lower version.
Restores(k) == \E r \in file : r.key = k /\ (conf[k] # None => r.version > conf[k].version)
Record(k) == CHOOSE r \in file : r.key = k
SnapshotLoad ==
    /\ \A k \in Keys : Restores(k) => MayWrite(k)
    /\ conf' = [k \in Keys |-> IF Restores(k) THEN Put(conf[k], Record(k).val) ELSE conf[k]]
    /\ told' = [c \in Clients |-> [k \in Keys |-> IF Restores(k) THEN Notified(told, k, Record(k).val)[c][k] ELSE told[c][k]]]
    /\ log' = [k \in Keys |-> IF Restores(k) THEN Append(log[k], Record(k).val) ELSE log[k]]
    /\ loaded' = (Present = {}) /\ UNCHANGED <<subs, file, saved, torn>>

Next ==
    \/ \E k \in Keys, v \in Values : ConfigPut(k, v) \/ ConfigPutEncrypted(k, v) \/ GrayReleaseSet(k, Ips, v)
    \/ \E k \in Present : ConfigDelete(k) \/ GetConsistent(k) \/ \E i \in 1 .. MaxVersion[k] : ConfigRollback(k, i)
    \/ \E c \in Clients, ns \in Namespaces : Subscribe(c, ns)
    \/ \E ns \in Namespaces : Unsubscribe(ns) \/ PollUpdate(ns)
    \/ SnapshotSave \/ Restart \/ SnapshotLoad
    \/ \E whole \in SUBSET Present :
        CrashInSave(whole, {}) \/ \E k \in Present \ whole : CrashInSave(whole, {k})
Spec == Init /\ [][Next]_vars
----------------------------------------------------------------------------
(* Properties.                                                             *)

\* Every version of an entry can be read as it was written, rollbacks and restores included; a
\* subscriber that was told of an entry knows its present value, through every write; and what is
\* loaded into an empty centre is what the last save was given.  If the process ended inside that
\* save, the centre it finds has no entry the save did not have, at most one of them with a value cut
\* short and the others with their own: entries may be missing, those of earlier saves too, because
\* the file is truncated before it is written again (config_center.c:565).
Pairs(records) == {[key |-> x.key, val |-> x.val] : x \in records}
Restored == Pairs(Records(Present))
ConfigSound ==
    /\ \A k \in Present :
        /\ conf[k].version = Len(log[k])
        /\ \A n \in DOMAIN log[k] : GetVersion(k, n) = log[k][n]
        /\ \A c \in Clients : told[c][k] \in {None, conf[k].val}
    /\ loaded /\ ~torn => Restored = Pairs(saved)
    /\ loaded /\ torn =>
        /\ \A x \in Restored \ Pairs(saved) : x.val = Torn /\ \E y \in saved : y.key = x.key
        /\ \A x, y \in Restored \ Pairs(saved) : x = y
=============================================================================
