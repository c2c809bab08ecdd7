---------------------------- MODULE ArrowCatalog ----------------------------
(***************************************************************************)
(* The tables, columns and dictionaries of ArrowStorage, which is the      *)
(* SimpleSchemaProvider of its tables, under concurrent calls of           *)
(* createTable, dropTable, appendArrowTable and fetchBuffer.  Each call    *)
(* takes some of the locks data_mutex_, dict_mutex_, schema_mutex_ and the *)
(* mutex of a table, shared or unique; a step is what it does between      *)
(* taking two of them.  What the tables hold is ArrowTable's business.     *)
(***************************************************************************)
EXTENDS Integers, Sequences, Functions

CONSTANTS
    Threads,
    Names,          \* table names
    Columns,        \* lists of columns that createTable may be given, see below
    MaxDictId,      \* MAX_DB_ID: the largest number of a dictionary
    MaxTables,      \* bound: tables created
    MaxCalls        \* bound: calls

\* A column of createTable is [array, share]: whether it is an array, and the dictId()
\* of its (element) type, or Plain.  A column of a table has the id of its dictionary
\* instead, or Plain.
Plain == -99

ASSUME CatalogAssumption ==
    /\ Columns \subseteq Seq([array : BOOLEAN, share : Int])
    /\ {MaxDictId, MaxTables, MaxCalls} \subseteq Nat

VARIABLES
    tables,         \* ids in tables_
    table_infos,    \* id -> name
    by_name,        \* name -> id: table_index_by_name_
    columns,        \* id -> its columns: column_infos_
    dicts,          \* ids in dicts_
    next_table_id,
    next_dict_id,
    array_dicts,    \* history: dictionaries that a column of arrays had
    th,             \* thread -> its call
    left,           \* calls that may still come
    failed          \* the process has ended by a failed CHECK

schema == <<table_infos, by_name, columns>>
catalog == <<tables, schema, dicts, next_table_id, next_dict_id, array_dicts>>
vars == <<catalog, th, left, failed>>

Empty == [x \in {} |-> x]
Drop(f, x) == [y \in DOMAIN f \ {x} |-> f[y]]
Put(f, x, v) == [y \in DOMAIN f \cup {x} |-> IF y = x THEN v ELSE f[y]]
-----------------------------------------------------------------------------
(* Locks.  A thread holds pairs <<mutex, mode>>, "shared" or "unique".       *)

data_mutex == <<"data", 0>>
dict_mutex == <<"dict", 0>>
schema_mutex == <<"schema", 0>>
TableMutex(id) == <<"table", id>>

Idle == [pc |-> "idle", id |-> 0, name |-> "", cols |-> <<>>, held |-> {}]

Holds(t, l, mode) == <<l, mode>> \in th[t].held
CanShare(t, l) == \A u \in Threads \ {t} : ~Holds(u, l, "unique")
CanOwn(t, l) == \A u \in Threads \ {t} : ~Holds(u, l, "unique") /\ ~Holds(u, l, "shared")

At(t, pc) == ~failed /\ th[t].pc = pc
Take(t, l, mode, pc) ==
    th' = [th EXCEPT ![t].held = @ \cup {<<l, mode>>}, ![t].pc = pc]
Release(t, locks, pc) == th' = [th EXCEPT ![t].held = @ \ locks, ![t].pc = pc]

\* The call returns or throws, and all its locks are released.
Return(t) == th' = [th EXCEPT ![t] = Idle]
-----------------------------------------------------------------------------
Init ==
    /\ tables = {} /\ table_infos = Empty /\ by_name = Empty /\ columns = Empty
    /\ dicts = {} /\ array_dicts = {}
    /\ next_table_id = 1 /\ next_dict_id = 1
    /\ th = [t \in Threads |-> Idle]
    /\ left = MaxCalls
    /\ failed = FALSE

Call(t, call) ==
    /\ At(t, "idle")
    /\ left > 0
    /\ left' = left - 1
    /\ th' = [th EXCEPT ![t] = call]
    /\ UNCHANGED <<catalog, failed>>

CallCreate(t, name, cols) ==
    Call(t, [Idle EXCEPT !.pc = "create", !.name = name, !.cols = cols])
CallByName(t, pc, name) == Call(t, [Idle EXCEPT !.pc = pc, !.name = name])
CallById(t, pc, id) == Call(t, [Idle EXCEPT !.pc = pc, !.id = id])

\* createTable and dropTable take the three locks, in this order.
OwnData(t, from, to) ==
    /\ At(t, from)
    /\ CanOwn(t, data_mutex)
    /\ Take(t, data_mutex, "unique", to)
    /\ UNCHANGED <<catalog, left, failed>>

OwnDict(t, from, to) ==
    /\ At(t, from)
    /\ CanOwn(t, dict_mutex)
    /\ Take(t, dict_mutex, "unique", to)
    /\ UNCHANGED <<catalog, left, failed>>

OwnSchema(t, from, to) ==
    /\ At(t, from)
    /\ CanOwn(t, schema_mutex)
    /\ Take(t, schema_mutex, "unique", to)
    /\ UNCHANGED <<catalog, left, failed>>

\* dropTable and appendArrowTable by name look the table up first.
FindTable(t, from, to) ==
    /\ At(t, from)
    /\ CanShare(t, schema_mutex)
    /\ IF th[t].name \in DOMAIN by_name
       THEN th' = [th EXCEPT ![t].pc = to, ![t].id = by_name[th[t].name]]
       ELSE Return(t)
    /\ UNCHANGED <<catalog, left, failed>>
-----------------------------------------------------------------------------
(* createTable.                                                              *)

\* (mutant of ParamsOk) the name is not looked up
ParamsOkAnyName(name, cols) ==
    \A i \in DOMAIN cols :
        cols[i].share > 0 /\ ~cols[i].array => cols[i].share \in dicts

\* checkNewTableParams: the dictionary of an array is not looked up.
ParamsOk(name, cols) ==
    /\ name \notin DOMAIN by_name
    /\ \A i \in DOMAIN cols :
          cols[i].share > 0 /\ ~cols[i].array => cols[i].share \in dicts

\* (mutant of AddColumn) the number of dictionaries is not limited
AddColumnUnlimited(acc, col) ==
    LET shared == col.share < 0 /\ col.share \in DOMAIN acc.shares
        new == col.share # Plain /\ col.share <= 0 /\ ~shared
        id == IF shared THEN acc.shares[col.share] ELSE IF new THEN acc.next ELSE col.share
    IN  [acc EXCEPT !.cols = Append(@, [array |-> col.array, dict |-> id]),
                    !.new = IF new THEN @ \cup {id} ELSE @,
                    !.next = IF new THEN @ + 1 ELSE @,
                    !.shares = IF new /\ col.share < 0 THEN Put(@, col.share, id) ELSE @]

\* One column: a positive id is that of an existing dictionary, columns with the same
\* negative id share a new one, and 0 stands for a new one.  It throws when there are
\* too many.
AddColumn(acc, col) ==
    LET shared == col.share < 0 /\ col.share \in DOMAIN acc.shares
        new == col.share # Plain /\ col.share <= 0 /\ ~shared
        id == IF shared THEN acc.shares[col.share] ELSE IF new THEN acc.next ELSE col.share
    IN  IF acc.thrown \/ (new /\ acc.next > MaxDictId) THEN [acc EXCEPT !.thrown = TRUE]
        ELSE [acc EXCEPT !.cols = Append(@, [array |-> col.array, dict |-> id]),
                         !.new = IF new THEN @ \cup {id} ELSE @,
                         !.next = IF new THEN @ + 1 ELSE @,
                         !.shares = IF new /\ col.share < 0 THEN Put(@, col.share, id) ELSE @]

NoColumns == [thrown |-> FALSE, cols |-> <<>>, new |-> {}, next |-> next_dict_id,
              shares |-> Empty]

AddColumns(cols) ==
    LET after[i \in 0..Len(cols)] ==
            IF i = 0 THEN NoColumns ELSE AddColumn(after[i - 1], cols[i])
    IN  after[Len(cols)]

\* (mutant of AddToSchema) checkNewTableParams calls getTableInfo, which locks
AddToSchemaLocks(t) ==
    At(t, "create.body") /\ CanShare(t, schema_mutex) /\ ~Holds(t, schema_mutex, "unique") /\ UNCHANGED vars

\* With the three locks: the table and its columns are added to the schema.  When a
\* column throws, what was added stays.
AddToSchema(t) ==
    LET id == next_table_id
        name == th[t].name
        res == AddColumns(th[t].cols)
    IN  /\ At(t, "create.body")
        /\ next_table_id' = id + 1
        /\ IF ~ParamsOk(name, th[t].cols)
           THEN Return(t) /\ UNCHANGED <<schema, dicts, next_dict_id, array_dicts>>
           ELSE /\ table_infos' = Put(table_infos, id, name)
                /\ by_name' = Put(by_name, name, id)
                /\ columns' = Put(columns, id, res.cols)
                /\ dicts' = dicts \cup res.new
                /\ next_dict_id' = res.next
                /\ array_dicts' = array_dicts \cup
                      {c.dict : c \in {d \in Range(res.cols) : d.array}}
                /\ IF res.thrown THEN Return(t)
                   ELSE th' = [th EXCEPT ![t].pc = "create.emplace", ![t].id = id,
                                         ![t].held = {<<data_mutex, "unique">>}]
        /\ UNCHANGED <<tables, left, failed>>

\* Without the locks of dictionaries and schema the table gets its data.
EmplaceTable(t) ==
    /\ At(t, "create.emplace")
    /\ tables' = tables \cup {th[t].id}
    /\ Return(t)
    /\ UNCHANGED <<schema, dicts, next_table_id, next_dict_id, array_dicts, left, failed>>
-----------------------------------------------------------------------------
(* dropTable.                                                                *)

DictsOf(cols) == {c.dict : c \in {d \in Range(cols) : ~d.array /\ d.dict # Plain}}

\* (mutant of DictsToRemove) the columns of other tables are not looked at
DictsToRemoveAll(id) == DictsOf(columns[id])

\* The dictionaries of the table that no other column, of no array, refers to.
DictsToRemove(id) ==
    DictsOf(columns[id]) \ UNION {DictsOf(columns[i]) : i \in DOMAIN columns \ {id}}

\* With the three locks: an unknown id throws, from tables_.at() if from nowhere else.
DropLookup(t) ==
    /\ At(t, "drop.lookup")
    /\ IF th[t].id \in tables THEN Release(t, {}, "drop.table") ELSE Return(t)
    /\ UNCHANGED <<catalog, left, failed>>

\* With the lock of the table too.
DropTable(t) ==
    LET id == th[t].id
    IN  /\ At(t, "drop.table")
        /\ CanOwn(t, TableMutex(id))
        /\ tables' = tables \ {id}
        /\ by_name' = Drop(by_name, table_infos[id])
        /\ table_infos' = Drop(table_infos, id)
        /\ columns' = Drop(columns, id)
        /\ dicts' = dicts \ DictsToRemove(id)
        /\ Return(t)
        /\ UNCHANGED <<next_table_id, next_dict_id, array_dicts, left, failed>>
-----------------------------------------------------------------------------
(* appendArrowTable and fetchBuffer.                                         *)

\* Under the shared data_mutex_: an append to an unknown id throws, a fetch fails
\* CHECK_EQ(tables_.count(...), 1).
ShareData(t, from, to) ==
    /\ At(t, from)
    /\ CanShare(t, data_mutex)
    /\ IF th[t].id \in tables
       THEN Take(t, data_mutex, "shared", to) /\ UNCHANGED failed
       ELSE Return(t) /\ failed' = (from = "fetch")
    /\ UNCHANGED <<catalog, left>>

\* The mutex of the table is taken, and then data_mutex_ released.
OwnTable(t) ==
    /\ At(t, "append.table")
    /\ CanOwn(t, TableMutex(th[t].id))
    /\ th' = [th EXCEPT ![t].held = {<<TableMutex(th[t].id), "unique">>},
                        ![t].pc = "append.dict"]
    /\ UNCHANGED <<catalog, left, failed>>

ShareTable(t) ==
    /\ At(t, "fetch.table")
    /\ CanShare(t, TableMutex(th[t].id))
    /\ th' = [th EXCEPT ![t].held = {<<TableMutex(th[t].id), "shared">>},
                        ![t].pc = "fetch.column"]
    /\ UNCHANGED <<catalog, left, failed>>

ShareDict(t) ==
    /\ At(t, "append.dict")
    /\ CanShare(t, dict_mutex)
    /\ Take(t, dict_mutex, "shared", "append.columns")
    /\ UNCHANGED <<catalog, left, failed>>

\* getColumnInfo for each column, and its dictionary: dicts_.at() throws when there
\* is none.
ImportColumns(t) ==
    LET used == {c.dict : c \in Range(columns[th[t].id])} \ {Plain}
    IN  /\ At(t, "append.columns")
        /\ CanShare(t, schema_mutex)
        /\ IF used \subseteq dicts THEN Release(t, {<<dict_mutex, "shared">>}, "append.commit")
           ELSE Return(t)
        /\ UNCHANGED <<catalog, left, failed>>

\* The rows are added; getColumnInfo and getTableInfo lock the schema.
CommitAppend(t) ==
    /\ At(t, "append.commit")
    /\ CanShare(t, schema_mutex)
    /\ Return(t)
    /\ UNCHANGED <<catalog, left, failed>>

\* getColumnInfo, and the data is copied.
FetchColumn(t) ==
    /\ At(t, "fetch.column")
    /\ CanShare(t, schema_mutex)
    /\ Return(t)
    /\ UNCHANGED <<catalog, left, failed>>
-----------------------------------------------------------------------------
Step(t) ==
    \/ OwnData(t, "create", "create.dict")
    \/ OwnDict(t, "create.dict", "create.schema")
    \/ OwnSchema(t, "create.schema", "create.body")
    \/ AddToSchema(t)
    \/ EmplaceTable(t)
    \/ FindTable(t, "drop.find", "drop")
    \/ OwnData(t, "drop", "drop.dict")
    \/ OwnDict(t, "drop.dict", "drop.schema")
    \/ OwnSchema(t, "drop.schema", "drop.lookup")
    \/ DropLookup(t)
    \/ DropTable(t)
    \/ FindTable(t, "append.find", "append")
    \/ ShareData(t, "append", "append.table")
    \/ OwnTable(t)
    \/ ShareDict(t)
    \/ ImportColumns(t)
    \/ CommitAppend(t)
    \/ ShareData(t, "fetch", "fetch.table")
    \/ ShareTable(t)
    \/ FetchColumn(t)

\* A query fetches from a table whose id it has learned.
Next ==
    \E t \in Threads :
        \/ /\ next_table_id <= MaxTables
           /\ \E name \in Names, cols \in Columns : CallCreate(t, name, cols)
        \/ \E name \in Names, pc \in {"drop.find", "append.find"} : CallByName(t, pc, name)
        \/ \E id \in 1..next_table_id - 1 : CallById(t, "fetch", id)
        \/ Step(t)

Spec == Init /\ [][Next]_vars

\* A thread that may go on does: a lock that is free is given to one that waits.
FairSpec == Spec /\ \A t \in Threads : WF_vars(Step(t))
-----------------------------------------------------------------------------
\* Ids, names and locks are of their sets, no mutex is held unique together with any
\* other hold, and no dictionary gets a number above the limit.
TypeOK ==
    /\ tables \subseteq 1..next_table_id - 1
    /\ DOMAIN table_infos = DOMAIN columns
    /\ dicts \subseteq 1..MaxDictId
    /\ next_dict_id \in 1..MaxDictId + 1
    /\ \A t, u \in Threads : \A h \in th[t].held :
          h[2] = "unique" /\ u # t => \A g \in th[u].held : g[1] # h[1]

\* Whatever the order of creates and drops: the index of names (table_index_by_name_)
\* and the tables of the schema are inverse to each other, every table with data is in
\* the schema, and a name that is taken leads to a table with data, save while the
\* createTable that took it still runs and once the dictionaries ran out.
TablesNamed ==
    /\ DOMAIN by_name = {table_infos[id] : id \in DOMAIN table_infos}
    /\ \A id \in DOMAIN table_infos : by_name[table_infos[id]] = id
    /\ tables \subseteq DOMAIN table_infos
    /\ \A id \in DOMAIN table_infos \ tables :
          \/ next_dict_id > MaxDictId
          \/ \E t \in Threads : th[t].pc = "create.emplace" /\ th[t].id = id

\* Dropping a table never takes a dictionary away from a column of strings of another
\* table that shares it, and a dictionary goes with the last table that uses it.
\* Those that a column of arrays had may stay: dropTable does not look at the element
\* types of arrays.
DictsMatchColumns ==
    LET used == UNION {DictsOf(columns[id]) : id \in DOMAIN columns}
    IN  used \subseteq dicts /\ dicts \subseteq used \cup array_dicts

\* A drop that waits, with the three locks, for a table some other call holds.
DropWaits ==
    \E t, u \in Threads :
        /\ th[t].pc = "drop.table"
        /\ \E h \in th[u].held : h[1] = TableMutex(th[t].id)

\* Every call ends, whatever the others do, unless the process ended or a dropTable
\* met a call on its table between the locks of table and schema: the drop holds the
\* lock of the schema that the other needs to finish and waits for its table.
CallsEnd ==
    \A t \in Threads : th[t].pc # "idle" ~> th[t].pc = "idle" \/ failed \/ DropWaits
=============================================================================
