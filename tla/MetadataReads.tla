----------------------------- MODULE MetadataReads -----------------------------
(***************************************************************************)
(* internal/database/dialect_*.go: what DescribeTable and ListIndexes      *)
(* answer.  They read the database's catalog with several statements, each *)
(* true of the moment it runs, and no transaction holds them together:     *)
(* other clients may change the tables in between.                         *)
(*                                                                         *)
(* A column's name is the sequence of its parts between commas.  An index  *)
(* is [name, cols, unique, primary]; of its columns, Expression stands for *)
(* one that is computed.  A table that is not there has no columns.        *)
(***************************************************************************)
EXTENDS Integers, SequencesExt, FiniteSetsExt, Places

CONSTANTS
    NTables,   \* the tables are 1 .. NTables, in the order of their names
    Schemas,   \* states of the database, [1 .. NTables -> [columns, indexes]]
    MaxChanges \* how often other clients change it during the call

Expression == <<>>

Column == [name : Seq(STRING), key : Nat]
Index  == [name : STRING, cols : Seq(Seq(STRING)), unique : BOOLEAN, primary : BOOLEAN]

\* A table that is not there has no indexes, no two columns or indexes of a table
\* have one name, and the places in its primary key are 1, 2 and so on.
Sound(t) ==
    LET inKey == {n \in DOMAIN t.columns : t.columns[n].key > 0}
    IN  /\ t.columns = <<>> => t.indexes = <<>>
        /\ \A m, n \in DOMAIN t.columns : t.columns[m].name = t.columns[n].name => m = n
        /\ \A m, n \in DOMAIN t.indexes : t.indexes[m].name = t.indexes[n].name => m = n
        /\ {t.columns[n].key : n \in inKey} = 1 .. Cardinality(inKey)

ASSUME MetadataAssumption ==
    /\ NTables \in Nat \ {0} /\ MaxChanges \in Nat
    /\ Schemas \subseteq [1 .. NTables -> [columns : Seq(Column), indexes : Seq(Index)]]
    /\ \A s \in Schemas : \A t \in 1 .. NTables : Sound(s[t])

Everything == 0 \* the argument table is not given

VARIABLES
    dialect, \* mysql, postgres or sqlite
    op,      \* describe or indexes
    target,  \* a table, or Everything for indexes
    schema,  \* the database
    seen,    \* its states since the call began
    pc,      \* the next statement: key, columns, indexes, info, tables, lists, or returned
    key,     \* PrimaryKey
    columns, \* Columns: [name, primary]
    todo,    \* tables whose indexes are still to be read (sqlite)
    list,    \* rows of index_list whose columns are still to be read (sqlite)
    indexes, \* Indexes: [table, name, cols, unique, primary]
    result   \* none, ok, not found, error

vars == <<dialect, op, target, schema, seen, pc, key, columns, todo, list, indexes, result>>
call == <<dialect, op, target>>

\* Only in MySQL indexes of different tables may have one name.
Possible ==
    {s \in Schemas : dialect # "mysql" =>
        \A t, u \in 1 .. NTables : \A m \in DOMAIN s[t].indexes, n \in DOMAIN s[u].indexes :
            s[t].indexes[m].name = s[u].indexes[n].name => t = u}

Init ==
    /\ dialect \in {"mysql", "postgres", "sqlite"} /\ op \in {"describe", "indexes"}
    /\ target \in 1 .. NTables \/ (op = "indexes" /\ target = Everything)
    /\ schema \in Possible /\ seen = <<schema>>
    /\ pc = IF dialect # "sqlite" THEN (IF op = "describe" THEN "key" ELSE "indexes")
            ELSE IF op = "describe" THEN "info"
            ELSE IF target = Everything THEN "tables" ELSE "lists"
    /\ todo = IF pc = "lists" THEN <<target>> ELSE <<>>
    /\ key = <<>> /\ columns = <<>> /\ list = <<>> /\ indexes = <<>> /\ result = "none"

Return(how) == pc' = "returned" /\ result' = how

-----------------------------------------------------------------------------
(* What the statements return of a state of the database.                    *)
Exists(s, t) == s[t].columns # <<>>

\* A column is [name, key]: its place in the primary key, 0 for none.
KeyOf(s, t) ==
    LET cols == s[t].columns
    IN  [p \in 1 .. Cardinality({n \in DOMAIN cols : cols[n].key > 0}) |->
            cols[CHOOSE n \in DOMAIN cols : cols[n].key = p].name]

\* The columns of an index: MySQL has NULL for one that is computed; PostgreSQL
\* leaves it out of a list joined with commas, which the dialect splits.
ColumnsOf(i) ==
    LET named == Chosen(i.cols, {n \in DOMAIN i.cols : i.cols[n] # Expression})
    IN  IF dialect = "postgres"
        THEN LET parts == FlattenSeq(named) IN [n \in DOMAIN parts |-> <<parts[n]>>]
        ELSE named

Entry(t, i, cols) ==
    [table |-> t, name |-> i.name, cols |-> cols, unique |-> i.unique, primary |-> i.primary]

IndexesOf(t) ==
    [n \in DOMAIN schema[t].indexes |->
        Entry(t, schema[t].indexes[n], ColumnsOf(schema[t].indexes[n]))]

-----------------------------------------------------------------------------
(* mysql and postgres                                                        *)
ReadKey ==
    /\ pc = "key"
    /\ key' = KeyOf(schema, target) /\ pc' = "columns"
    /\ UNCHANGED <<call, schema, seen, columns, todo, list, indexes, result>>

ReadColumns ==
    /\ pc = "columns"
    /\ columns' = [n \in DOMAIN schema[target].columns |->
                      LET name == schema[target].columns[n].name
                      IN  [name |-> name, primary |-> name \in ToSet(key)]]
    /\ pc' = "indexes"
    /\ UNCHANGED <<call, schema, seen, key, todo, list, indexes, result>>

Asked == IF target = Everything THEN [t \in 1 .. NTables |-> t] ELSE <<target>>

\* A table without columns is described like any other.
ReadIndexes_NoCheck ==
    /\ pc = "indexes"
    /\ indexes' = FlattenSeq([n \in DOMAIN Asked |-> IndexesOf(Asked[n])])
    /\ Return("ok")
    /\ UNCHANGED <<call, schema, seen, key, columns, todo, list>>

ReadIndexes ==
    /\ pc = "indexes"
    /\ indexes' = FlattenSeq([n \in DOMAIN Asked |-> IndexesOf(Asked[n])])
    /\ Return(IF op = "describe" /\ columns = <<>> THEN "not found" ELSE "ok")
    /\ UNCHANGED <<call, schema, seen, key, columns, todo, list>>

-----------------------------------------------------------------------------
(* sqlite                                                                    *)
\* A column is in the key only if it is its first.
ReadTableInfo_FirstOfKey ==
    /\ pc = "info"
    /\ columns' = [n \in DOMAIN schema[target].columns |->
                      LET c == schema[target].columns[n]
                      IN  [name |-> c.name, primary |-> c.key = 1]]
    /\ key' = Chosen([n \in DOMAIN columns' |-> columns'[n].name],
                     {n \in DOMAIN columns' : columns'[n].primary})
    /\ todo' = <<target>>
    /\ IF columns' = <<>> THEN Return("not found") ELSE pc' = "lists" /\ UNCHANGED result
    /\ UNCHANGED <<call, schema, seen, list, indexes>>

\* The key is collected in the order of the columns.
ReadTableInfo ==
    /\ pc = "info"
    /\ columns' = [n \in DOMAIN schema[target].columns |->
                      LET c == schema[target].columns[n]
                      IN  [name |-> c.name, primary |-> c.key > 0]]
    /\ key' = Chosen([n \in DOMAIN columns' |-> columns'[n].name],
                     {n \in DOMAIN columns' : columns'[n].primary})
    /\ todo' = <<target>>
    /\ IF columns' = <<>> THEN Return("not found") ELSE pc' = "lists" /\ UNCHANGED result
    /\ UNCHANGED <<call, schema, seen, list, indexes>>

\* ListTables, for all indexes.
ReadTables ==
    /\ pc = "tables"
    /\ todo' = Chosen([t \in 1 .. NTables |-> t], {t \in 1 .. NTables : Exists(schema, t)})
    /\ pc' = "lists"
    /\ UNCHANGED <<call, schema, seen, key, columns, list, indexes, result>>

\* index_list of the next table; its rows are read to the end before the next
\* statement.
ReadIndexList ==
    /\ pc = "lists" /\ list = <<>> /\ todo # <<>>
    /\ list' = [n \in DOMAIN schema[Head(todo)].indexes |->
                   Entry(Head(todo), schema[Head(todo)].indexes[n], <<>>)]
    /\ todo' = Tail(todo)
    /\ UNCHANGED <<call, schema, seen, pc, key, columns, indexes, result>>

\* What index_info has under a name, whatever the table.
Named(name) ==
    UNION {{i \in ToSet(schema[t].indexes) : i.name = name} : t \in 1 .. NTables}

ComputedColumn == \E i \in Named(Head(list).name) : Expression \in ToSet(i.cols)

\* The columns are collected in one list for all indexes.
ReadIndexInfo_OneList ==
    /\ pc = "lists" /\ list # <<>> /\ ~ComputedColumn
    /\ LET before == IF indexes = <<>> THEN <<>> ELSE Last(indexes).cols
           cols   == UNION {{<<n, i.cols[n]>> : n \in DOMAIN i.cols} : i \in Named(Head(list).name)}
       IN  indexes' = Append(indexes, [Head(list) EXCEPT !.cols =
                        before \o [n \in {p[1] : p \in cols} |-> (CHOOSE p \in cols : p[1] = n)[2]]])
    /\ list' = Tail(list)
    /\ UNCHANGED <<call, schema, seen, pc, key, columns, todo, result>>

\* An index that is gone has no columns.
ReadIndexInfo ==
    /\ pc = "lists" /\ list # <<>> /\ ~ComputedColumn
    /\ \E cols \in IF Named(Head(list).name) = {} THEN {<<>>}
                   ELSE {i.cols : i \in Named(Head(list).name)} :
          indexes' = Append(indexes, [Head(list) EXCEPT !.cols = cols])
    /\ list' = Tail(list)
    /\ UNCHANGED <<call, schema, seen, pc, key, columns, todo, result>>

\* The name of a computed column is NULL, which Scan does not put in a string.
IndexInfoFails ==
    /\ pc = "lists" /\ list # <<>> /\ ComputedColumn
    /\ Return("error")
    /\ UNCHANGED <<call, schema, seen, key, columns, todo, list, indexes>>

ListsDone ==
    /\ pc = "lists" /\ list = <<>> /\ todo = <<>>
    /\ Return("ok")
    /\ UNCHANGED <<call, schema, seen, key, columns, todo, list, indexes>>

-----------------------------------------------------------------------------
\* A statement or the reading of its rows fails, or the deadline passes.
Fails ==
    /\ pc # "returned"
    /\ Return("error")
    /\ UNCHANGED <<call, schema, seen, key, columns, todo, list, indexes>>

\* Another client changes the tables.
Change ==
    /\ pc # "returned" /\ Len(seen) <= MaxChanges
    /\ schema' \in Possible \ {schema}
    /\ seen' = Append(seen, schema')
    /\ UNCHANGED <<call, pc, key, columns, todo, list, indexes, result>>

Returned == pc = "returned" /\ UNCHANGED vars

Next ==
    \/ ReadKey \/ ReadColumns \/ ReadIndexes
    \/ ReadTableInfo \/ ReadTables \/ ReadIndexList \/ ReadIndexInfo \/ IndexInfoFails \/ ListsDone
    \/ Fails \/ Change \/ Returned

Spec == Init /\ [][Next]_vars

-----------------------------------------------------------------------------
Moments == ToSet(seen)
Same(Part(_)) == \A s, u \in Moments : Part(s) = Part(u)

\* Whatever part of the table the others left alone is described as it is: its
\* columns in their order, and its key with the marks of the columns in it,
\* whatever became of the rest in between.  SQLite's key comes in the order of
\* the columns.
UnchangedIsExact ==
    result = "ok" /\ op = "describe" =>
        LET Names(s)   == [n \in DOMAIN s[target].columns |-> s[target].columns[n].name]
            Key(s)     == KeyOf(s, target)
            Columns(s) == s[target].columns
        IN  /\ Same(Names) => [n \in DOMAIN columns |-> columns[n].name] = Names(schema)
            /\ dialect # "sqlite" /\ Same(Key) => key = Key(schema)
            /\ Same(Columns) =>
                  /\ ToSet(key) = ToSet(Key(schema)) /\ Len(key) = Len(Key(schema))
                  /\ \A n \in DOMAIN columns : columns[n].primary <=> schema[target].columns[n].key > 0

Plain(i) ==
    \A n \in DOMAIN i.cols :
        /\ i.cols[n] # Expression
        /\ dialect = "postgres" => Len(i.cols[n]) = 1

\* An index the others left alone is in the answer, once and with all its
\* columns, whatever became of other indexes and tables; computed columns and
\* names with a comma aside.  An index in the answer was there, on that table,
\* at some moment of the call, and its columns are those an index of that name
\* had at some moment, or none if it was gone when SQLite was asked for them.
IndexesKept ==
    result = "ok" =>
        /\ \A t \in ToSet(Asked) : \A i \in ToSet(schema[t].indexes) :
              Plain(i) /\ (\A s \in Moments : i \in ToSet(s[t].indexes)) =>
                  {e \in ToSet(indexes) : e.table = t /\ e.name = i.name} = {Entry(t, i, i.cols)}
        /\ IsInjective([n \in DOMAIN indexes |-> <<indexes[n].table, indexes[n].name>>])
        /\ \A e \in ToSet(indexes) :
              /\ \E s \in Moments : \E i \in ToSet(s[e.table].indexes) :
                    i.name = e.name /\ i.unique = e.unique /\ i.primary = e.primary
              /\ \/ \E s \in Moments, t \in 1 .. NTables : \E i \in ToSet(s[t].indexes) :
                       i.name = e.name /\ e.cols = ColumnsOf(i)
                 \/ /\ dialect = "sqlite" /\ e.cols = <<>>
                    /\ \E s \in Moments : \A t \in 1 .. NTables :
                          e.name \notin {i.name : i \in ToSet(s[t].indexes)}

\* "table not found" is the answer for a table that was not there at some
\* moment of the call, and a description is one of a table that was; without
\* columns there is none.
FoundIfThere ==
    op = "describe" =>
        /\ result = "not found" => \E s \in Moments : ~Exists(s, target)
        /\ result = "ok" => columns # <<>> /\ \E s \in Moments : Exists(s, target)
=============================================================================
