------------------------------- MODULE FwData --------------------------------
(* mini-backend-framework: the in-memory rows behind the active records    *)
(* (orm_core.c) and the sectioned configuration (config.c).  A row is the  *)
(* values of its text columns; the offsets the scans compute are taken to  *)
(* be those of the struct.                                                 *)
EXTENDS Naturals, Sequences, FiniteSets, SequencesExt, FiniteSetsExt

CONSTANTS None, TableNames, MaxTables, Columns, Texts, MaxRows, MaxSaves,
          Sections, CfgKeys, CfgValues, MaxKeys, Environment

\* Sections holds the empty section ""; Environment gives each (section, key) the variable's value or None;
\* MaxSaves bounds the rows ever saved.

VARIABLES tables,
          saved,      \* what was saved, by table, in the order of saving; None once deleted (history)
          config, envOn,
          meant       \* the value each (section, key) was last given (history)
ormVars == <<tables, saved>>
cfgVars == <<config, envOn, meant>>
vars == <<ormVars, cfgVars>>

-----------------------------------------------------------------------------
(* orm_core.c: rows and primary keys are kept in two arrays side by side. *)

Row == [Columns -> Texts]
ORMTable == [table: TableNames, data: Seq(Row), pk_vals: Seq(Nat), pk_counter: Nat]
TableAt(T, n) == LET S == {i \in DOMAIN T : T[i].table = n} IN IF S = {} THEN 0 ELSE Min(S)
\* Looking a table up creates it while there is room; 0 when there is none.
WithTable(n) ==
    IF TableAt(tables, n) # 0 \/ Len(tables) >= MaxTables THEN tables
    ELSE Append(tables, [table |-> n, data |-> << >>, pk_vals |-> << >>, pk_counter |-> 0])

\* Every call inserts, also of an instance that was saved or found before: is_new is written, never read.
Save(n, row) ==
    LET T == WithTable(n)  i == TableAt(T, n) IN
    /\ Len(saved[n]) < MaxSaves
    /\ i # 0 /\ Len(T[i].data) < MaxRows
    /\ tables' = [T EXCEPT ![i].data = Append(@, row),
                           ![i].pk_vals = Append(@, T[i].pk_counter + 1),
                           ![i].pk_counter = @ + 1]
    /\ saved' = [saved EXCEPT ![n] = Append(@, row)]
    /\ UNCHANGED cfgVars
\* A lookup that finds nothing, or a refused save, still leaves the table behind.
Lookup(n) == tables' = WithTable(n) /\ tables' # tables /\ UNCHANGED <<saved, cfgVars>>

Drop(t, k) == [t EXCEPT !.data = RemoveAt(@, k), !.pk_vals = RemoveAt(@, k)]
RemoveRow(n, k) ==
    LET i == TableAt(tables, n) IN
    /\ tables' = [tables EXCEPT ![i] = Drop(tables[i], k)]
    /\ saved' = [saved EXCEPT ![n][tables[i].pk_vals[k]] = None]
    /\ UNCHANGED cfgVars
ById(t, id) == LET S == {k \in DOMAIN t.pk_vals : t.pk_vals[k] = id} IN IF S = {} THEN 0 ELSE Min(S)
ByText(t, c, v) == LET S == {k \in DOMAIN t.data : t.data[k][c] = v} IN IF S = {} THEN 0 ELSE Min(S)
Find(t, id) == IF ById(t, id) = 0 THEN None ELSE t.data[ById(t, id)]
FindBy(t, c, v) == IF ByText(t, c, v) = 0 THEN None ELSE t.pk_vals[ByText(t, c, v)]
Delete(n, id) ==
    LET i == TableAt(tables, n) IN i # 0 /\ ById(tables[i], id) # 0 /\ RemoveRow(n, ById(tables[i], id))
\* Only the first match goes.
DeleteBy(n, c, v) ==
    LET i == TableAt(tables, n) IN i # 0 /\ ByText(tables[i], c, v) # 0 /\ RemoveRow(n, ByText(tables[i], c, v))
OrmNext ==
    \E n \in TableNames :
        \/ Lookup(n)
        \/ \E row \in Row : Save(n, row)
        \/ \E id \in 1..MaxSaves : Delete(n, id)
        \/ \E c \in Columns, v \in Texts : DeleteBy(n, c, v)

-----------------------------------------------------------------------------
(* config.c *)

Pairs == Sections \X CfgKeys
CFGEntry == [section: Sections, key: CfgKeys, value: CfgValues]
EntryAt(C, s, k) ==
    LET S == {i \in DOMAIN C : C[i].section = s /\ C[i].key = k} IN IF S = {} THEN 0 ELSE Min(S)
\* A full configuration takes no value, not even for a key it has.
Put(C, s, k, v) ==
    IF Len(C) >= MaxKeys THEN C
    ELSE IF EntryAt(C, s, k) # 0 THEN [C EXCEPT ![EntryAt(C, s, k)].value = v]
    ELSE Append(C, [section |-> s, key |-> k, value |-> v])
Set(s, k, v) ==
    /\ config' = Put(config, s, k, v)
    /\ meant' = IF Len(config) >= MaxKeys THEN meant ELSE [meant EXCEPT ![<<s, k>>] = v]
    /\ UNCHANGED <<envOn, ormVars>>
RemoveKey(s, k) ==
    /\ EntryAt(config, s, k) # 0
    /\ config' = RemoveAt(config, EntryAt(config, s, k))
    /\ meant' = [meant EXCEPT ![<<s, k>>] = None]
    /\ UNCHANGED <<envOn, ormVars>>
EnableEnv == ~envOn /\ envOn' = TRUE /\ UNCHANGED <<config, meant, ormVars>>
ClearConfig == config' = << >> /\ envOn' = FALSE /\ meant' = [p \in Pairs |-> None] /\ UNCHANGED ormVars
FromEnv(s, k) == IF envOn THEN Environment[<<s, k>>] ELSE None
Get(s, k) == IF EntryAt(config, s, k) # 0 THEN config[EntryAt(config, s, k)].value ELSE FromEnv(s, k)
Has(s, k) == EntryAt(config, s, k) # 0 \/ FromEnv(s, k) # None
SectionKeys(s) == LET in(e) == e.section = s IN {e.key : e \in Range(SelectSeq(config, in))}

\* The text of a configuration: a header where the section changes to a named one, none for the
\* nameless section.
Dump(C) ==
    FlattenSeq([i \in DOMAIN C |->
        (IF C[i].section # "" /\ (i = 1 \/ C[i - 1].section # C[i].section) THEN <<[section |-> C[i].section]>> ELSE << >>)
        \o <<[key |-> C[i].key, value |-> C[i].value]>>])
ReadLine(s, line) ==
    IF "section" \in DOMAIN line THEN [s EXCEPT !.section = line.section]
    ELSE [s EXCEPT !.entries = Put(@, s.section, line.key, line.value)]
LoadFile(C, lines) == FoldLeft(ReadLine, [section |-> "", entries |-> C], lines).entries
CfgNext ==
    \/ EnableEnv \/ ClearConfig
    \/ \E s \in Sections, k \in CfgKeys : RemoveKey(s, k) \/ \E v \in CfgValues : Set(s, k, v)

-----------------------------------------------------------------------------

Init ==
    /\ tables = << >> /\ saved = [n \in TableNames |-> << >>]
    /\ config = << >> /\ envOn = FALSE /\ meant = [p \in Pairs |-> None]

\* orm_core.c: whatever was deleted in between, every primary key ever handed out finds the row that was
\* inserted under it or, once deleted, nothing; keys stay in ascending order, none is handed out twice, and
\* the row a search by column finds is the one its key finds.  The claim is about rows: it does not say that
\* saving an instance a second time replaces its row, as section 2.5 of docs/di-orm-architecture.md has it;
\* orm_save inserts another.
OrmSound ==
    /\ tables \in Seq(ORMTable) /\ Len(tables) <= MaxTables
    /\ \A i, j \in DOMAIN tables : tables[i].table = tables[j].table => i = j
    /\ \A i \in DOMAIN tables :
          LET t == tables[i] IN
          /\ Len(t.data) = Len(t.pk_vals) /\ Len(t.data) <= MaxRows
          /\ t.pk_counter = Len(saved[t.table])
          /\ \A k \in 2..Len(t.pk_vals) : t.pk_vals[k - 1] < t.pk_vals[k]
          /\ \A id \in DOMAIN saved[t.table] : Find(t, id) = saved[t.table][id]
          /\ \A c \in Columns, v \in Texts : LET id == FindBy(t, c, v) IN id # None => Find(t, id)[c] = v

\* config.c: a pair has one entry; a read gives the value last set and not removed, then the environment's if that is
\* enabled; and a dump read back gives the same configuration, provided no nameless entry follows a named
\* section, whose header would claim it.
StoreKept ==
    /\ config \in Seq(CFGEntry) /\ Len(config) <= MaxKeys
    /\ \A p \in Pairs :
          /\ Cardinality({i \in DOMAIN config : <<config[i].section, config[i].key>> = p}) <= 1
          /\ Get(p[1], p[2]) = (IF meant[p] # None THEN meant[p] ELSE FromEnv(p[1], p[2]))
          /\ Has(p[1], p[2]) <=> Get(p[1], p[2]) # None
          /\ p[2] \in SectionKeys(p[1]) <=> meant[p] # None
    /\ (\A i, j \in DOMAIN config : config[i].section # "" /\ i < j => config[j].section # "") =>
          LoadFile(<< >>, Dump(config)) = config
=============================================================================
