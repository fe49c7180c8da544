---------------------------- MODULE MetadataProofs ----------------------------
(***************************************************************************)
(* Theorems about MetadataReads, for every set of databases and however    *)
(* often other clients change them during the call.                        *)
(***************************************************************************)
EXTENDS MetadataReads, SequenceFacts

Dialects == {"mysql", "postgres", "sqlite"}
Tables   == 1 .. NTables

-----------------------------------------------------------------------------
(* A description                                                             *)

\* The columns of the target at a moment, marked by the key read before.
MarkedFrom(s) ==
    [n \in DOMAIN s[target].columns |->
        [name |-> s[target].columns[n].name,
         primary |-> s[target].columns[n].name \in ToSet(key)]]

\* The columns of the target with their marks, of one moment.
InfoFrom(s) ==
    [n \in DOMAIN s[target].columns |->
        [name |-> s[target].columns[n].name, primary |-> s[target].columns[n].key > 0]]

MarkedNames ==
    Chosen([n \in DOMAIN columns |-> columns[n].name], {n \in DOMAIN columns : columns[n].primary})

\* mysql and postgres read the key and the columns at two moments, sqlite at one.
InPieces == \E s, u \in Moments : key = KeyOf(s, target) /\ columns = MarkedFrom(u)
AtOnce   == \E s \in Moments : columns = InfoFrom(s) /\ key = MarkedNames

MetadataTypes ==
    /\ dialect \in Dialects /\ op \in {"describe", "indexes"}
    /\ target \in Tables \cup {Everything} /\ (op = "describe" => target \in Tables)
    /\ seen \in Seq(Possible) /\ schema \in Moments
    /\ result \in {"none", "ok", "not found", "error"} /\ (pc # "returned" => result = "none")

\* Which statements a dialect uses for which call.
Statements ==
    /\ pc \in {"key", "columns"} => op = "describe" /\ dialect # "sqlite"
    /\ pc = "indexes" => dialect # "sqlite"
    /\ pc = "info" => op = "describe" /\ dialect = "sqlite"
    /\ pc = "tables" => op = "indexes" /\ target = Everything /\ dialect = "sqlite"
    /\ pc = "lists" => dialect = "sqlite"

Description ==
    /\ pc = "columns" => \E s \in Moments : key = KeyOf(s, target)
    /\ pc = "indexes" /\ op = "describe" => InPieces
    /\ pc = "lists" /\ op = "describe" => AtOnce /\ columns # <<>>
    /\ result = "ok" /\ op = "describe" =>
          columns # <<>> /\ IF dialect = "sqlite" THEN AtOnce ELSE InPieces
    /\ result = "not found" => op = "describe" /\ \E s \in Moments : ~Exists(s, target)

DescribeInv == MetadataTypes /\ Statements /\ Description

\* What is known of a state of the database.
LEMMA StateIs ==
    ASSUME NEW s \in Possible, NEW t \in Tables
    PROVE  /\ s[t] \in [columns : Seq(Column), indexes : Seq(Index)] /\ Sound(s[t])
           /\ s[t].columns \in Seq(Column) /\ s[t].indexes \in Seq(Index)
BY MetadataAssumption DEF Possible, Tables

LEMMA MomentsArePossible == MetadataTypes => Moments \subseteq Possible /\ schema \in Possible
<1> SUFFICES ASSUME MetadataTypes PROVE Moments \subseteq Possible /\ schema \in Possible
  OBVIOUS
<1>1. \A i \in DOMAIN seen : seen[i] \in Possible
  BY LenProperties, ElementOfSeq DEF MetadataTypes
<1> QED BY <1>1 DEF MetadataTypes, Moments, ToSet

\* The moments of the call after a step: another one, or the same.
LEMMA MomentsGrow ==
    ASSUME MetadataTypes, [Next]_vars
    PROVE  /\ Possible' = Possible
           /\ Moments \subseteq Moments' /\ schema' \in Moments' /\ seen' \in Seq(Possible')
           /\ ~Change => schema' = schema /\ seen' = seen /\ Moments' = Moments
<1>1. CASE Change
  <2>1. Possible' = Possible
    BY <1>1 DEF Change, call, Possible
  <2>2. seen' = Append(seen, schema') /\ schema' \in Possible /\ seen \in Seq(Possible)
    BY <1>1 DEF Change, MetadataTypes
  <2>3. seen' \in Seq(Possible) /\ Moments' = Moments \cup {schema'}
    BY <2>2, AppendSet, AppendProperties DEF Moments
  <2> QED BY <1>1, <2>1, <2>3
<1>2. CASE ~Change
  <2>1. schema' = schema /\ seen' = seen /\ dialect' = dialect
    BY <1>2 DEF Next, vars, call, ReadKey, ReadColumns, ReadIndexes, ReadTableInfo, ReadTables,
                ReadIndexList, ReadIndexInfo, IndexInfoFails, ListsDone, Fails, Returned
  <2>2. Possible' = Possible /\ Moments' = Moments
    BY <2>1 DEF Possible, Moments
  <2> QED BY <1>2, <2>1, <2>2 DEF MetadataTypes
<1> QED BY <1>1, <1>2

LEMMA InitDescribe == Init => DescribeInv
<1> SUFFICES ASSUME Init PROVE DescribeInv
  OBVIOUS
<1>1. seen = <<schema>> /\ schema \in Possible
  BY DEF Init
<1>2. seen \in Seq(Possible) /\ Moments = {schema}
  BY <1>1 DEF Moments, ToSet
<1>3. MetadataTypes
  <2>1. pc # "returned" /\ result = "none"
    BY DEF Init
  <2> QED BY <1>2, <2>1 DEF Init, MetadataTypes, Dialects, Tables
<1>4. Statements
  BY DEF Init, Statements
<1>5. Description
  BY DEF Init, Description
<1> QED BY <1>3, <1>4, <1>5 DEF DescribeInv

LEMMA StatementsKept ==
    ASSUME MetadataTypes, Statements, [Next]_vars
    PROVE  MetadataTypes' /\ Statements'
<1>1. UNCHANGED <<dialect, op, target>>
  BY DEF Next, vars, call, ReadKey, ReadColumns, ReadIndexes, ReadTableInfo, ReadTables,
         ReadIndexList, ReadIndexInfo, IndexInfoFails, ListsDone, Fails, Change, Returned
<1>2. result' \in {"none", "ok", "not found", "error"} /\ (pc' # "returned" => result' = "none")
  BY DEF MetadataTypes, Next, vars, Return, ReadKey, ReadColumns, ReadIndexes, ReadTableInfo,
         ReadTables, ReadIndexList, ReadIndexInfo, IndexInfoFails, ListsDone, Fails, Change, Returned
<1>3. MetadataTypes'
  BY <1>1, <1>2, MomentsGrow DEF MetadataTypes
<1>4. Statements'
  BY <1>1 DEF Statements, Next, vars, Return, ReadKey, ReadColumns, ReadIndexes, ReadTableInfo,
         ReadTables, ReadIndexList, ReadIndexInfo, IndexInfoFails, ListsDone, Fails, Change, Returned
<1> QED BY <1>3, <1>4

\* A step that leaves alone what has been read.
LEMMA NothingRead ==
    ASSUME DescribeInv, [Next]_vars, UNCHANGED <<key, columns>>,
           UNCHANGED <<pc, result>> \/ (pc' = "returned" /\ result' = "error")
    PROVE  DescribeInv'
<1>1. MetadataTypes' /\ Statements' /\ Moments \subseteq Moments'
  BY StatementsKept, MomentsGrow DEF DescribeInv
<1>2. UNCHANGED <<dialect, op, target>>
  BY DEF Next, vars, call, ReadKey, ReadColumns, ReadIndexes, ReadTableInfo, ReadTables,
         ReadIndexList, ReadIndexInfo, IndexInfoFails, ListsDone, Fails, Change, Returned
<1>3. (InPieces => InPieces') /\ (AtOnce => AtOnce')
  <2>1. /\ \A s : (MarkedFrom(s)' = MarkedFrom(s)) /\ (InfoFrom(s)' = InfoFrom(s))
        /\ MarkedNames' = MarkedNames
    BY <1>2 DEF MarkedFrom, InfoFrom, MarkedNames
  <2>2. InPieces => InPieces'
    BY <1>1, <1>2, <2>1 DEF InPieces
  <2>3. AtOnce => AtOnce'
    BY <1>1, <1>2, <2>1 DEF AtOnce
  <2> QED BY <2>2, <2>3
<1>4. ASSUME pc = "columns" PROVE \E s \in Moments' : key' = KeyOf(s, target')
  BY <1>1, <1>2, <1>4 DEF DescribeInv, Description
<1>5. ASSUME result = "not found" PROVE op' = "describe" /\ \E s \in Moments' : ~Exists(s, target')
  BY <1>1, <1>2, <1>5 DEF DescribeInv, Description
<1>6. Description'
  <2>1. CASE UNCHANGED <<pc, result>>
    BY <1>1, <1>2, <1>3, <1>4, <1>5, <2>1 DEF DescribeInv, Description
  <2>2. CASE pc' = "returned" /\ result' = "error"
    BY <2>2 DEF Description
  <2> QED BY <2>1, <2>2
<1> QED BY <1>1, <1>6 DEF DescribeInv

LEMMA StepDescribes == DescribeInv /\ [Next]_vars => DescribeInv'
<1> SUFFICES ASSUME DescribeInv, [Next]_vars PROVE DescribeInv'
  OBVIOUS
<1>1. /\ MetadataTypes' /\ Statements' /\ Moments \subseteq Moments'
      /\ ~Change => schema' = schema /\ Moments' = Moments
      /\ schema \in Moments
  BY StatementsKept, MomentsGrow DEF DescribeInv, MetadataTypes
<1>2. CASE ReadKey
  <2>1. key' = KeyOf(schema, target)' /\ pc' = "columns" /\ result' # "ok" /\ result' # "not found"
    BY <1>2 DEF ReadKey, call, DescribeInv, MetadataTypes, KeyOf
  <2> QED BY <1>1, <2>1 DEF DescribeInv, Description, MetadataTypes
<1>3. CASE ReadColumns
  <2>1. /\ pc' = "indexes" /\ result' = "none" /\ target' = target /\ key' = key
        /\ schema' = schema /\ Moments' = Moments
        /\ \E s \in Moments : key = KeyOf(s, target)
    BY <1>3 DEF ReadColumns, call, DescribeInv, MetadataTypes, Description, Moments
  <2>2. columns' = MarkedFrom(schema)'
    BY <1>3, <2>1 DEF ReadColumns, MarkedFrom
  <2>3. InPieces'
    BY <1>1, <2>1, <2>2 DEF InPieces, MetadataTypes
  <2> QED BY <1>1, <2>1, <2>3 DEF DescribeInv, Description
<1>4. CASE ReadIndexes
  <2>1. /\ UNCHANGED <<dialect, op, target, key, columns, seen>> /\ pc = "indexes" /\ pc' = "returned"
        /\ result' = IF op = "describe" /\ columns = <<>> THEN "not found" ELSE "ok"
        /\ dialect # "sqlite"
    BY <1>4 DEF ReadIndexes, Return, call, DescribeInv, Statements
  <2>2. op = "describe" => InPieces
    BY <2>1 DEF DescribeInv, Description
  <2>3. InPieces => InPieces'
    <3>1. \A s : MarkedFrom(s)' = MarkedFrom(s)
      BY <2>1 DEF MarkedFrom
    <3> QED BY <1>1, <2>1, <3>1 DEF InPieces
  <2>4. ASSUME op = "describe", columns = <<>> PROVE \E s \in Moments' : ~Exists(s, target')
    <3>1. PICK u \in Moments : columns = MarkedFrom(u)
      BY <2>2, <2>4 DEF InPieces
    <3>2. u \in Possible /\ target \in Tables
      BY <2>4, MomentsArePossible DEF DescribeInv, MetadataTypes
    <3>3. DOMAIN u[target].columns = {}
      BY <2>4, <3>1 DEF MarkedFrom
    <3>4. u[target].columns = <<>>
      BY <3>2, <3>3, StateIs, NoPlaces
    <3> QED BY <1>1, <2>1, <3>4 DEF Exists
  <2> QED BY <1>1, <2>1, <2>2, <2>3, <2>4 DEF DescribeInv, Description
<1>5. CASE ReadTableInfo
  <2>1. UNCHANGED <<dialect, op, target, schema, seen>> /\ op = "describe" /\ dialect = "sqlite"
    BY <1>5 DEF ReadTableInfo, call, DescribeInv, Statements
  <2>2. columns' = InfoFrom(schema)' /\ key' = MarkedNames'
    BY <1>5, <2>1 DEF ReadTableInfo, InfoFrom, MarkedNames
  <2>3. AtOnce'
    BY <1>1, <2>1, <2>2 DEF AtOnce, MetadataTypes
  <2>4. CASE columns' # <<>>
    <3>1. pc' = "lists" /\ result' = "none"
      BY <1>5, <2>4 DEF ReadTableInfo, DescribeInv, MetadataTypes
    <3> QED BY <1>1, <2>3, <2>4, <3>1 DEF DescribeInv, Description
  <2>5. CASE columns' = <<>>
    <3>1. pc' = "returned" /\ result' = "not found"
      BY <1>5, <2>5 DEF ReadTableInfo, Return
    <3>2. schema \in Possible /\ target \in Tables
      BY <2>1, MomentsArePossible DEF DescribeInv, MetadataTypes
    <3>3. DOMAIN schema[target].columns = {}
      BY <2>1, <2>2, <2>5 DEF InfoFrom
    <3>4. schema[target].columns = <<>>
      BY <3>2, <3>3, StateIs, NoPlaces
    <3> QED BY <1>1, <2>1, <3>1, <3>4 DEF DescribeInv, Description, Exists, MetadataTypes
  <2> QED BY <2>4, <2>5
<1>6. CASE ReadTables
  <2>1. pc' = "lists" /\ op' = "indexes" /\ result' = "none"
    BY <1>6 DEF ReadTables, call, DescribeInv, Statements, MetadataTypes
  <2> QED BY <1>1, <2>1 DEF DescribeInv, Description
<1>7. CASE ReadIndexList \/ ReadIndexInfo \/ IndexInfoFails \/ Fails \/ Change \/ Returned \/ UNCHANGED vars
  <2>1. UNCHANGED <<key, columns>>
    BY <1>7 DEF ReadIndexList, ReadIndexInfo, IndexInfoFails, Fails, Change, Returned, vars
  <2>2. UNCHANGED <<pc, result>> \/ (pc' = "returned" /\ result' = "error")
    <3>1. CASE ReadIndexList \/ ReadIndexInfo \/ Change \/ Returned \/ UNCHANGED vars
      BY <3>1 DEF ReadIndexList, ReadIndexInfo, Change, Returned, vars
    <3>2. CASE IndexInfoFails \/ Fails
      BY <3>2 DEF IndexInfoFails, Fails, Return
    <3> QED BY <1>7, <3>1, <3>2
  <2> QED BY <2>1, <2>2, NothingRead
<1>8. CASE ListsDone
  <2>1. /\ UNCHANGED <<dialect, op, target, key, columns, seen>> /\ pc' = "returned" /\ result' = "ok"
        /\ op = "describe" => AtOnce /\ columns # <<>>
        /\ dialect = "sqlite"
    BY <1>8 DEF ListsDone, Return, call, DescribeInv, Statements, Description
  <2>2. AtOnce => AtOnce'
    <3>1. (\A s : InfoFrom(s)' = InfoFrom(s)) /\ MarkedNames' = MarkedNames
      BY <2>1 DEF InfoFrom, MarkedNames
    <3> QED BY <1>1, <2>1, <3>1 DEF AtOnce
  <2> QED BY <1>1, <2>1, <2>2 DEF DescribeInv, Description
<1> QED BY <1>2, <1>3, <1>4, <1>5, <1>6, <1>7, <1>8 DEF Next

\* The places of the primary key are each held by one column.
LEMMA KeyIs ==
    ASSUME NEW s \in Possible, NEW t \in Tables
    PROVE  LET inKey == {n \in DOMAIN s[t].columns : s[t].columns[n].key > 0}
           IN  /\ ToSet(KeyOf(s, t)) = {s[t].columns[n].name : n \in inKey}
               /\ Len(KeyOf(s, t)) = Cardinality(inKey) /\ IsFiniteSet(inKey)
<1> DEFINE cols  == s[t].columns
           inKey == {n \in DOMAIN cols : cols[n].key > 0}
           k     == Cardinality(inKey)
           f     == [n \in inKey |-> cols[n].key]
           at    == [p \in 1 .. k |-> CHOOSE n \in DOMAIN cols : cols[n].key = p]
<1>1. /\ cols \in Seq(Column) /\ Len(cols) \in Nat /\ DOMAIN cols = 1 .. Len(cols)
      /\ \A n \in DOMAIN cols : cols[n].key \in Nat
      /\ {cols[n].key : n \in inKey} = 1 .. k
  <2>1. cols \in Seq(Column) /\ Sound(s[t])
    BY StateIs
  <2>2. Len(cols) \in Nat /\ DOMAIN cols = 1 .. Len(cols) /\ \A n \in 1 .. Len(cols) : cols[n] \in Column
    <3> HIDE DEF cols
    <3> QED BY <2>1, LenProperties, ElementOfSeq
  <2> QED BY <2>1, <2>2 DEF Sound, Column
<1>2. IsFiniteSet(inKey) /\ k \in Nat
  <2>1. inKey \in SUBSET (1 .. Len(cols)) /\ IsFiniteSet(1 .. Len(cols))
    BY <1>1, CountUpTo
  <2> HIDE DEF inKey
  <2> QED BY <2>1, FS_Subset, FS_CardinalityType
<1>3. f \in Surjection(inKey, 1 .. k)
  <2>1. f \in [inKey -> 1 .. k]
    BY <1>1
  <2>2. \A p \in 1 .. k : \E n \in inKey : f[n] = p
    BY <1>1
  <2> QED BY <2>1, <2>2 DEF Surjection
<1>4. \A m, n \in inKey : cols[m].key = cols[n].key => m = n
  <2>1. IsFiniteSet(1 .. k) /\ Cardinality(1 .. k) = k
    BY <1>2, CountUpTo
  <2>2. f \in Injection(inKey, 1 .. k)
    <3> HIDE DEF f, inKey
    <3> QED BY <1>2, <1>3, <2>1, FS_SurjSameCardinalityImpliesInj
  <2>3. \A m, n \in inKey : f[m] = f[n] => m = n
    <3> HIDE DEF f, inKey
    <3> QED BY <2>2 DEF Injection, IsInjective
  <2> QED BY <2>3
<1>5. KeyOf(s, t) = [p \in 1 .. k |-> cols[at[p]].name]
  <2>1. \A p \in 1 .. k : at[p] = CHOOSE n \in DOMAIN cols : cols[n].key = p
    OBVIOUS
  <2>2. KeyOf(s, t) = [p \in 1 .. k |-> cols[CHOOSE n \in DOMAIN cols : cols[n].key = p].name]
    BY Zenon DEF KeyOf
  <2> HIDE DEF at, cols, k
  <2> QED BY <2>1, <2>2
<1>6. \A p \in 1 .. k : at[p] \in inKey /\ cols[at[p]].key = p
  <2> SUFFICES ASSUME NEW p \in 1 .. k PROVE at[p] \in inKey /\ cols[at[p]].key = p
    OBVIOUS
  <2>1. \E n \in DOMAIN cols : cols[n].key = p
    BY <1>1
  <2>2. at[p] \in DOMAIN cols /\ cols[at[p]].key = p
    BY <2>1
  <2>3. p > 0
    BY <1>2
  <2> HIDE DEF at
  <2> QED BY <2>2, <2>3
<1>7. \A n \in inKey : cols[n].key \in 1 .. k /\ at[cols[n].key] = n
  <2>1. \A n \in inKey : cols[n].key \in 1 .. k
    BY <1>1
  <2> HIDE DEF at, inKey
  <2> QED BY <1>4, <1>6, <2>1
<1> HIDE DEF at, inKey, cols
<1>8. ToSet(KeyOf(s, t)) = {cols[n].name : n \in inKey}
  <2>1. ToSet(KeyOf(s, t)) = {cols[at[p]].name : p \in 1 .. k}
    BY <1>5 DEF ToSet
  <2> QED BY <1>6, <1>7, <2>1
<1>9. Len(KeyOf(s, t)) = k
  <2>1. KeyOf(s, t) = [p \in 1 .. k |-> KeyOf(s, t)[p]]
    BY <1>5
  <2> QED BY <1>2, <2>1, LengthOf
<1> QED BY <1>2, <1>8, <1>9, Zenon DEF cols, inKey, k

LEMMA SameKey ==
    ASSUME NEW r, NEW s, NEW t, r[t].columns = s[t].columns
    PROVE  KeyOf(r, t) = KeyOf(s, t)
<1> DEFINE K(cols) == [p \in 1 .. Cardinality({n \in DOMAIN cols : cols[n].key > 0}) |->
                        cols[CHOOSE n \in DOMAIN cols : cols[n].key = p].name]
<1>1. KeyOf(r, t) = K(r[t].columns) /\ KeyOf(s, t) = K(s[t].columns)
  BY DEF KeyOf
<1> HIDE DEF K
<1> QED BY <1>1

LEMMA FoundInAnswer == DescribeInv => FoundIfThere
<1> SUFFICES ASSUME DescribeInv, op = "describe", result = "ok"
             PROVE  columns # <<>> /\ \E s \in Moments : Exists(s, target)
  BY DEF DescribeInv, Description, FoundIfThere
<1>1. PICK u \in Moments : columns = MarkedFrom(u) \/ columns = InfoFrom(u)
  BY DEF DescribeInv, Description, InPieces, AtOnce
<1>2. columns # <<>>
  BY DEF DescribeInv, Description
<1>3. u[target].columns # <<>>
  BY <1>1, <1>2 DEF MarkedFrom, InfoFrom
<1> QED BY <1>2, <1>3 DEF Exists

LEMMA UnchangedInAnswer == DescribeInv => UnchangedIsExact
<1> SUFFICES ASSUME DescribeInv, result = "ok", op = "describe" PROVE UnchangedIsExact
  BY DEF UnchangedIsExact
<1> DEFINE Names(s) == [n \in DOMAIN s[target].columns |-> s[target].columns[n].name]
           InKey(s) == {n \in DOMAIN s[target].columns : s[target].columns[n].key > 0}
<1>1. /\ schema \in Moments /\ target \in Tables /\ Moments \subseteq Possible
      /\ IF dialect = "sqlite" THEN AtOnce ELSE InPieces
  BY MomentsArePossible DEF DescribeInv, MetadataTypes, Description
<1>2. ASSUME \A s, u \in Moments : Names(s) = Names(u)
      PROVE  [n \in DOMAIN columns |-> columns[n].name] = Names(schema)
  <2>1. PICK u \in Moments : columns = MarkedFrom(u) \/ columns = InfoFrom(u)
    BY <1>1 DEF InPieces, AtOnce
  <2>2. [n \in DOMAIN columns |-> columns[n].name] = Names(u)
    BY <2>1 DEF MarkedFrom, InfoFrom
  <2> HIDE DEF Names
  <2> QED BY <1>1, <1>2, <2>2
<1>3. ASSUME dialect # "sqlite", \A s, u \in Moments : KeyOf(s, target) = KeyOf(u, target)
      PROVE  key = KeyOf(schema, target)
  BY <1>1, <1>3 DEF InPieces
<1>4. ASSUME \A s, u \in Moments : s[target].columns = u[target].columns
      PROVE  /\ ToSet(key) = ToSet(KeyOf(schema, target))
             /\ Len(key) = Len(KeyOf(schema, target))
             /\ \A n \in DOMAIN columns : columns[n].primary <=> schema[target].columns[n].key > 0
  <2> DEFINE cols == schema[target].columns
             ns   == {n \in DOMAIN cols : cols[n].key > 0}
  <2>1. /\ ToSet(KeyOf(schema, target)) = {cols[n].name : n \in ns}
        /\ Len(KeyOf(schema, target)) = Cardinality(ns) /\ IsFiniteSet(ns)
    BY <1>1, KeyIs
  <2>2. cols \in Seq(Column) /\ DOMAIN cols = 1 .. Len(cols) /\ Len(cols) \in Nat /\ Sound(schema[target])
    BY <1>1, StateIs, LenProperties
  <2>3. CASE dialect # "sqlite"
    <3>1. PICK s \in Moments, u \in Moments : key = KeyOf(s, target) /\ columns = MarkedFrom(u)
      BY <1>1, <2>3 DEF InPieces
    <3>2. key = KeyOf(schema, target)
      <4>1. s[target].columns = schema[target].columns
        BY <1>1, <1>4
      <4> QED BY <3>1, <4>1, SameKey
    <3>3. u[target].columns = cols
      BY <1>1, <1>4
    <3>4. \A n \in DOMAIN columns : columns[n].primary <=> cols[n].name \in ToSet(key)
      BY <3>1, <3>3, Zenon DEF MarkedFrom
    <3>5. DOMAIN columns = DOMAIN cols
      BY <3>1, <3>3 DEF MarkedFrom
    <3>6. \A n \in DOMAIN cols : cols[n].name \in ToSet(key) <=> n \in ns
      BY <2>1, <2>2, <3>2 DEF Sound
    <3> QED BY <3>2, <3>4, <3>5, <3>6
  <2>4. CASE dialect = "sqlite"
    <3>1. PICK s \in Moments : columns = InfoFrom(s) /\ key = MarkedNames
      BY <1>1, <2>4 DEF AtOnce
    <3>2. s[target].columns = cols
      BY <1>1, <1>4
    <3>3. /\ DOMAIN columns = DOMAIN cols
          /\ \A n \in DOMAIN cols : columns[n].name = cols[n].name
      BY <3>1, <3>2 DEF InfoFrom
    <3>4. \A n \in DOMAIN columns : columns[n].primary <=> cols[n].key > 0
      BY <3>1, <3>2, Zenon DEF InfoFrom
    <3>5. {n \in DOMAIN columns : columns[n].primary} = ns
      BY <3>3, <3>4
    <3> DEFINE names == [n \in DOMAIN columns |-> columns[n].name]
    <3>6. key = Chosen(names, ns)
      BY <3>1, <3>5 DEF MarkedNames
    <3>7. ns \in SUBSET Int
      BY <2>2
    <3>8. ToSet(key) = {names[n] : n \in ns} /\ Len(key) = Cardinality(ns)
      <4> HIDE DEF names, ns
      <4> QED BY <2>1, <3>6, <3>7, ChosenSet
    <3>9. \A n \in ns : names[n] = cols[n].name
      BY <3>3
    <3>10. {names[n] : n \in ns} = {cols[n].name : n \in ns}
      <4> HIDE DEF names, ns, cols
      <4> QED BY <3>9
    <3> QED BY <2>1, <3>4, <3>8, <3>10
  <2> QED BY <2>3, <2>4
<1> QED BY <1>2, <1>3, <1>4 DEF UnchangedIsExact, Same

\* Whatever the others change during the call, "table not found" is the answer
\* only for a table that was not there at some moment of it, and a description
\* is one of a table that was.
THEOREM FoundTablesWereThere == Spec => []FoundIfThere
<1>1. Spec => []DescribeInv
  BY InitDescribe, StepDescribes, PTL DEF Spec
<1> QED BY <1>1, FoundInAnswer, PTL

\* Whatever the others change during the call, the names of the columns, the key
\* and the marks of the columns in it that they left alone are described exactly,
\* in the three dialects.
THEOREM UnchangedIsDescribed == Spec => []UnchangedIsExact
<1>1. Spec => []DescribeInv
  BY InitDescribe, StepDescribes, PTL DEF Spec
<1> QED BY <1>1, UnchangedInAnswer, PTL

-----------------------------------------------------------------------------
(* The indexes, of one moment: mysql and postgres                            *)

IndexesIn(s, t) ==
    [m \in DOMAIN s[t].indexes |-> Entry(t, s[t].indexes[m], ColumnsOf(s[t].indexes[m]))]

AllIndexesIn(s) == FlattenSeq([n \in DOMAIN Asked |-> IndexesIn(s, Asked[n])])

\* What IndexesKept asks of an entry: an index on the table was so at some
\* moment, and its columns are some index's of that name, or none.
FromSome(e) ==
    /\ e.table \in Tables
    /\ \E s \in Moments : \E i \in ToSet(s[e.table].indexes) :
          i.name = e.name /\ i.unique = e.unique /\ i.primary = e.primary
    /\ \/ \E s \in Moments, t \in Tables : \E i \in ToSet(s[t].indexes) :
             i.name = e.name /\ e.cols = ColumnsOf(i)
       \/ /\ dialect = "sqlite" /\ e.cols = <<>>
          /\ \E s \in Moments : \A t \in Tables :
                e.name \notin {i.name : i \in ToSet(s[t].indexes)}

\* No two entries are of one table and one name.
OncePerName(q) ==
    \A m, n \in DOMAIN q : q[m].table = q[n].table /\ q[m].name = q[n].name => m = n

LEMMA AskedIs ==
    ASSUME target \in Tables \cup {Everything}
    PROVE  /\ Asked \in Seq(Tables) /\ ToSet(Asked) \subseteq Tables
           /\ \A m, n \in DOMAIN Asked : Asked[m] = Asked[n] => m = n
           /\ target = Everything => ToSet(Asked) = Tables
           /\ target \in Tables => Asked = <<target>> /\ ToSet(Asked) = {target}
<1>1. NTables \in Nat /\ Everything \notin Tables
  BY MetadataAssumption DEF Everything, Tables
<1>2. CASE target = Everything
  <2>1. Asked = [t \in 1 .. NTables |-> t]
    BY <1>2 DEF Asked
  <2>2. Asked \in [1 .. NTables -> Tables]
    BY <2>1 DEF Tables
  <2>3. Asked \in Seq(Tables)
    BY <1>1, <2>2, MapIsSeq
  <2> QED BY <1>1, <1>2, <2>1, <2>3 DEF ToSet, Tables
<1>3. CASE target \in Tables
  <2>1. Asked = <<target>>
    BY <1>1, <1>3 DEF Asked
  <2> QED BY <1>1, <1>3, <2>1 DEF ToSet
<1> QED BY <1>2, <1>3

\* The columns of an index with no computed one and, in PostgreSQL, no comma.
LEMMA PlainColumns ==
    ASSUME NEW i \in Index,
           \A n \in DOMAIN i.cols : i.cols[n] # Expression,
           dialect = "postgres" => \A n \in DOMAIN i.cols : Len(i.cols[n]) = 1
    PROVE  ColumnsOf(i) = i.cols
<1> DEFINE cols == i.cols
           named == Chosen(cols, {n \in DOMAIN cols : cols[n] # Expression})
<1>1. cols \in Seq(Seq(STRING)) /\ \A n \in DOMAIN cols : cols[n] # Expression
  BY DEF Index
<1>2. {n \in DOMAIN cols : cols[n] # Expression} = DOMAIN cols
  BY <1>1
<1>3. named = cols
  BY <1>1, <1>2, ChosenAll
<1>4. CASE dialect # "postgres"
  <2>1. ColumnsOf(i) = named
    BY <1>4 DEF ColumnsOf
  <2> QED BY <1>3, <2>1
<1>5. CASE dialect = "postgres"
  <2> DEFINE parts(s) == [n \in DOMAIN FlattenSeq(s) |-> <<FlattenSeq(s)[n]>>]
  <2>1. ColumnsOf(i) = parts(named)
    BY <1>5 DEF ColumnsOf
  <2>2. /\ Len(cols) \in Nat /\ DOMAIN cols = 1 .. Len(cols)
        /\ \A n \in 1 .. Len(cols) : cols[n] \in Seq(STRING) /\ Len(cols[n]) = 1
        /\ cols = [n \in 1 .. Len(cols) |-> cols[n]]
    <3>1. \A n \in DOMAIN cols : Len(cols[n]) = 1
      BY <1>5
    <3> HIDE DEF cols
    <3> QED BY <1>1, <3>1, LenProperties
  <2>3. FlattenSeq(cols) = [n \in 1 .. Len(cols) |-> cols[n][1]]
    <3> HIDE DEF cols
    <3> QED BY <1>1, <2>2, FlattenOnes
  <2>4. parts(cols) = [n \in 1 .. Len(cols) |-> <<cols[n][1]>>]
    BY <2>3
  <2>5. \A s \in Seq(STRING) : Len(s) = 1 => <<s[1]>> = s
    OBVIOUS
  <2>6. \A n \in 1 .. Len(cols) : <<cols[n][1]>> = cols[n]
    <3> HIDE DEF cols
    <3> QED BY <2>2, <2>5
  <2> HIDE DEF cols, named
  <2>7. [n \in 1 .. Len(cols) |-> <<cols[n][1]>>] = [n \in 1 .. Len(cols) |-> cols[n]]
    BY <2>6
  <2>8. parts(named) = parts(cols)
    BY <1>3
  <2> HIDE DEF parts
  <2> QED BY <2>1, <2>2, <2>4, <2>7, <2>8 DEF cols
<1> QED BY <1>4, <1>5

LEMMA EntryOf ==
    ASSUME NEW s, NEW t, NEW m \in DOMAIN s[t].indexes
    PROVE  /\ IndexesIn(s, t)[m] = Entry(t, s[t].indexes[m], ColumnsOf(s[t].indexes[m]))
           /\ IndexesIn(s, t)[m].table = t
           /\ IndexesIn(s, t)[m].name = s[t].indexes[m].name
<1> DEFINE i == s[t].indexes[m]
           c == ColumnsOf(i)
<1>1. IndexesIn(s, t)[m] = Entry(t, i, c)
  BY DEF IndexesIn
<1> HIDE DEF i, c
<1>2. Entry(t, i, c).table = t /\ Entry(t, i, c).name = i.name
  BY DEF Entry
<1> QED BY <1>1, <1>2 DEF i, c

LEMMA AllIndexesAre ==
    ASSUME NEW s \in Possible, target \in Tables \cup {Everything}
    PROVE  /\ \A t \in ToSet(Asked) : \A m \in DOMAIN s[t].indexes :
                 IndexesIn(s, t)[m] \in ToSet(AllIndexesIn(s))
           /\ \A e \in ToSet(AllIndexesIn(s)) :
                 \E t \in ToSet(Asked) : \E m \in DOMAIN s[t].indexes : e = IndexesIn(s, t)[m]
           /\ OncePerName(AllIndexesIn(s))
<1> DEFINE seqs == [n \in DOMAIN Asked |-> IndexesIn(s, Asked[n])]
           S    == UNION {{IndexesIn(s, t)[m] : m \in DOMAIN s[t].indexes} : t \in Tables}
           r    == AllIndexesIn(s)
<1>1. /\ Asked \in Seq(Tables) /\ DOMAIN Asked = 1 .. Len(Asked) /\ Len(Asked) \in Nat
      /\ \A n \in DOMAIN Asked : Asked[n] \in Tables
      /\ \A m, n \in DOMAIN Asked : Asked[m] = Asked[n] => m = n
  BY AskedIs, LenProperties
<1>2. \A t \in Tables : /\ Len(s[t].indexes) \in Nat /\ DOMAIN s[t].indexes = 1 .. Len(s[t].indexes)
                        /\ Sound(s[t])
  BY StateIs, LenProperties
<1>3. \A t \in Tables : /\ IndexesIn(s, t) \in Seq(S) /\ DOMAIN IndexesIn(s, t) = DOMAIN s[t].indexes
                        /\ Len(IndexesIn(s, t)) = Len(s[t].indexes)
  <2> SUFFICES ASSUME NEW t \in Tables
               PROVE  /\ IndexesIn(s, t) \in Seq(S) /\ DOMAIN IndexesIn(s, t) = DOMAIN s[t].indexes
                      /\ Len(IndexesIn(s, t)) = Len(s[t].indexes)
    OBVIOUS
  <2>1. DOMAIN IndexesIn(s, t) = 1 .. Len(s[t].indexes)
    BY <1>2 DEF IndexesIn
  <2>2. \A m \in 1 .. Len(s[t].indexes) : IndexesIn(s, t)[m] \in S
    BY <1>2
  <2>3. IndexesIn(s, t) = [m \in 1 .. Len(s[t].indexes) |-> IndexesIn(s, t)[m]]
    BY <2>1 DEF IndexesIn
  <2> HIDE DEF S
  <2>4. IndexesIn(s, t) \in [1 .. Len(s[t].indexes) -> S]
    BY <2>2, <2>3
  <2> QED BY <1>2, <2>1, <2>4, MapIsSeq
<1>4. seqs \in Seq(Seq(S)) /\ Len(seqs) = Len(Asked)
  <2>1. \A n \in 1 .. Len(Asked) : seqs[n] \in Seq(S)
    BY <1>1, <1>3
  <2>2. seqs \in [1 .. Len(Asked) -> Seq(S)]
    BY <1>1, <2>1
  <2> HIDE DEF S, seqs
  <2> QED BY <1>1, <2>2, MapIsSeq
<1>5. \A n \in 1 .. Len(Asked) : seqs[n] = IndexesIn(s, Asked[n])
  BY <1>1
<1> HIDE DEF S
<1>6. PICK off : Joined(seqs, off, Len(seqs), r) /\ r \in Seq(S)
  <2>1. r = FlattenSeq(seqs)
    BY DEF AllIndexesIn
  <2> HIDE DEF r, seqs
  <2> QED BY <1>4, <2>1, FlattenIs
<1> HIDE DEF seqs, r
<1>7. DOMAIN r = 1 .. off[Len(seqs)]
  BY <1>6, LenProperties DEF Joined
<1>8. ASSUME NEW t \in ToSet(Asked), NEW m \in DOMAIN s[t].indexes
      PROVE  IndexesIn(s, t)[m] \in ToSet(r)
  <2>1. PICK n \in 1 .. Len(Asked) : t = Asked[n]
    BY <1>1 DEF ToSet
  <2>2. m \in 1 .. Len(seqs[n]) /\ seqs[n][m] = IndexesIn(s, t)[m]
    BY <1>1, <1>2, <1>3, <1>5, <2>1
  <2>3. off[n - 1] + m \in 1 .. off[Len(seqs)] /\ r[off[n - 1] + m] = seqs[n][m]
    BY <1>4, <1>6, <2>2 DEF Joined
  <2> QED BY <1>7, <2>2, <2>3 DEF ToSet
<1>9. \A p \in DOMAIN r : \E n \in 1 .. Len(Asked) : \E m \in DOMAIN s[Asked[n]].indexes :
         r[p] = IndexesIn(s, Asked[n])[m] /\ p = off[n - 1] + m
  <2> SUFFICES ASSUME NEW p \in DOMAIN r
               PROVE  \E n \in 1 .. Len(Asked) : \E m \in DOMAIN s[Asked[n]].indexes :
                         r[p] = IndexesIn(s, Asked[n])[m] /\ p = off[n - 1] + m
    OBVIOUS
  <2>1. PICK n \in 1 .. Len(Asked) : \E m \in 1 .. Len(seqs[n]) : p = off[n - 1] + m
    <3>1. \E n \in 1 .. Len(seqs) : \E m \in 1 .. Len(seqs[n]) : p = off[n - 1] + m
      BY <1>6, <1>7 DEF Joined
    <3> QED BY <1>4, <3>1
  <2>4. PICK m \in 1 .. Len(seqs[n]) : p = off[n - 1] + m
    BY <2>1
  <2>2. r[p] = seqs[n][m]
    BY <1>4, <1>6, <2>4 DEF Joined
  <2>3. m \in DOMAIN s[Asked[n]].indexes /\ seqs[n] = IndexesIn(s, Asked[n])
    BY <1>1, <1>2, <1>3, <1>5
  <2> QED BY <2>2, <2>3, <2>4
<1>10. ASSUME NEW e \in ToSet(r)
       PROVE  \E t \in ToSet(Asked) : \E m \in DOMAIN s[t].indexes : e = IndexesIn(s, t)[m]
  BY <1>1, <1>9 DEF ToSet
<1>11. ASSUME NEW p \in DOMAIN r, NEW q \in DOMAIN r, r[p].table = r[q].table, r[p].name = r[q].name
       PROVE  p = q
  <2>1. PICK n \in 1 .. Len(Asked) : \E m \in DOMAIN s[Asked[n]].indexes :
           r[p] = IndexesIn(s, Asked[n])[m] /\ p = off[n - 1] + m
    BY <1>9
  <2>2. PICK m \in DOMAIN s[Asked[n]].indexes : r[p] = IndexesIn(s, Asked[n])[m] /\ p = off[n - 1] + m
    BY <2>1
  <2>3. PICK l \in 1 .. Len(Asked) : \E k \in DOMAIN s[Asked[l]].indexes :
           r[q] = IndexesIn(s, Asked[l])[k] /\ q = off[l - 1] + k
    BY <1>9
  <2>4. PICK k \in DOMAIN s[Asked[l]].indexes : r[q] = IndexesIn(s, Asked[l])[k] /\ q = off[l - 1] + k
    BY <2>3
  <2>5. r[p].table = Asked[n] /\ r[p].name = s[Asked[n]].indexes[m].name
    BY <2>2, EntryOf
  <2>6. r[q].table = Asked[l] /\ r[q].name = s[Asked[l]].indexes[k].name
    BY <2>4, EntryOf
  <2>7. n = l
    BY <1>1, <1>11, <2>5, <2>6
  <2>8. m = k
    <3>1. /\ \A a, b \in DOMAIN s[Asked[n]].indexes :
                s[Asked[n]].indexes[a].name = s[Asked[n]].indexes[b].name => a = b
      BY <1>1, <1>2 DEF Sound
    <3>2. k \in DOMAIN s[Asked[n]].indexes /\ r[q].name = s[Asked[n]].indexes[k].name
      BY <2>6, <2>7
    <3> QED BY <1>11, <2>5, <3>1, <3>2
  <2> QED BY <2>2, <2>4, <2>7, <2>8
<1> QED BY <1>8, <1>10, <1>11 DEF OncePerName, r

Always(t, i) == \A s \in Moments : i \in ToSet(s[t].indexes)

\* What an answer is to be.
Kept ==
    /\ OncePerName(indexes)
    /\ \A e \in ToSet(indexes) : FromSome(e)
    /\ \A t \in ToSet(Asked) : \A i \in ToSet(schema[t].indexes) :
          Plain(i) /\ Always(t, i) => Entry(t, i, i.cols) \in ToSet(indexes)

LEMMA KeptIsExact ==
    ASSUME MetadataTypes, Kept PROVE IndexesKept
<1>1. ASSUME NEW t \in ToSet(Asked), NEW i \in ToSet(schema[t].indexes), Plain(i),
             \A s \in Moments : i \in ToSet(s[t].indexes)
      PROVE  {e \in ToSet(indexes) : e.table = t /\ e.name = i.name} = {Entry(t, i, i.cols)}
  <2> DEFINE x == Entry(t, i, i.cols)
  <2>1. x \in ToSet(indexes)
    BY <1>1 DEF Kept, Always
  <2>2. x.table = t /\ x.name = i.name
    BY DEF Entry
  <2> HIDE DEF x
  <2>3. \A e \in ToSet(indexes) : e.table = t /\ e.name = i.name => e = x
    BY <2>1, <2>2 DEF Kept, OncePerName, ToSet
  <2> QED BY <2>1, <2>2, <2>3 DEF x
<1>2. IsInjective([n \in DOMAIN indexes |-> <<indexes[n].table, indexes[n].name>>])
  BY DEF Kept, OncePerName, IsInjective
<1>3. \A e \in ToSet(indexes) : FromSome(e)
  BY DEF Kept
<1> QED BY <1>1, <1>2, <1>3 DEF IndexesKept, FromSome, Tables

LEMMA OfOneMoment ==
    ASSUME MetadataTypes, NEW s \in Moments, indexes = AllIndexesIn(s)
    PROVE  Kept
<1>1. s \in Possible /\ ToSet(Asked) \subseteq Tables
  BY MomentsArePossible, AskedIs DEF MetadataTypes
<1>2. /\ \A t \in ToSet(Asked) : \A m \in DOMAIN s[t].indexes :
            IndexesIn(s, t)[m] \in ToSet(indexes)
      /\ \A e \in ToSet(indexes) :
            \E t \in ToSet(Asked) : \E m \in DOMAIN s[t].indexes : e = IndexesIn(s, t)[m]
      /\ OncePerName(indexes)
  BY <1>1, AllIndexesAre DEF MetadataTypes
<1>3. ASSUME NEW e \in ToSet(indexes) PROVE FromSome(e)
  <2>1. PICK t \in ToSet(Asked) : \E m \in DOMAIN s[t].indexes : e = IndexesIn(s, t)[m]
    BY <1>2
  <2>2. PICK m \in DOMAIN s[t].indexes : e = IndexesIn(s, t)[m]
    BY <2>1
  <2> DEFINE i == s[t].indexes[m]
  <2>3. e = Entry(t, i, ColumnsOf(i)) /\ i \in ToSet(s[t].indexes) /\ t \in Tables
    BY <1>1, <2>2, EntryOf DEF ToSet
  <2> HIDE DEF i
  <2> DEFINE c == ColumnsOf(i)
  <2>4. c = ColumnsOf(i)
    OBVIOUS
  <2> HIDE DEF c
  <2>5. /\ e.table = t /\ e.name = i.name /\ e.unique = i.unique /\ e.primary = i.primary
        /\ e.cols = c
    BY <2>3, <2>4 DEF Entry
  <2> QED BY <2>3, <2>4, <2>5 DEF FromSome
<1>4. ASSUME NEW t \in ToSet(Asked), NEW i, Plain(i), Always(t, i)
      PROVE  Entry(t, i, i.cols) \in ToSet(indexes)
  <2>1. i \in ToSet(s[t].indexes) /\ t \in Tables /\ s[t].indexes \in Seq(Index)
    BY <1>1, <1>4, StateIs DEF Always
  <2>2. PICK m \in DOMAIN s[t].indexes : i = s[t].indexes[m]
    BY <2>1 DEF ToSet
  <2>3. i \in Index
    BY <2>1, <2>2, LenProperties, ElementOfSeq
  <2>4. ColumnsOf(i) = i.cols
    BY <1>4, <2>3, PlainColumns DEF Plain
  <2> QED BY <1>2, <2>2, <2>4, EntryOf
<1> QED BY <1>2, <1>3, <1>4 DEF Kept

LEMMA OfSomeMoment ==
    MetadataTypes /\ (\E s \in Moments : indexes = AllIndexesIn(s)) => Kept
BY OfOneMoment

-----------------------------------------------------------------------------
(* The indexes, table by table and index by index: sqlite                    *)

Entries ==
    [table : Tables, name : STRING, cols : Seq(Seq(STRING)), unique : BOOLEAN, primary : BOOLEAN]

ReadingTypes == todo \in Seq(Tables) /\ list \in Seq(Entries) /\ indexes \in Seq(Entries)

\* Every table is read once, and what was read of the tables is told apart.
Apart ==
    /\ \A m, n \in DOMAIN todo : todo[m] = todo[n] => m = n
    /\ \A e \in ToSet(list) \cup ToSet(indexes) : e.table \notin ToSet(todo)
    /\ OncePerName(list) /\ OncePerName(indexes)
    /\ \A e \in ToSet(list), f \in ToSet(indexes) : ~(e.table = f.table /\ e.name = f.name)

\* The row of index_list for an index that was there.
IsRow(e) == \E s \in Moments : \E i \in ToSet(s[e.table].indexes) : e = Entry(e.table, i, <<>>)

\* What an index that is always there has become.
Noted(t, i) == Entry(t, i, <<>>) \in ToSet(list) \/ Entry(t, i, i.cols) \in ToSet(indexes)

Reading ==
    /\ ReadingTypes /\ Apart
    /\ \A e \in ToSet(list) : IsRow(e)
    /\ \A e \in ToSet(indexes) : FromSome(e)
    /\ \A t \in ToSet(Asked) \ ToSet(todo) : \A i \in ToSet(schema[t].indexes) :
          Always(t, i) => Noted(t, i)

IndexInv ==
    /\ MetadataTypes /\ Statements
    /\ pc \in {"info", "tables"} => list = <<>> /\ indexes = <<>>
    /\ pc = "lists" => Reading
    /\ result = "ok" => Kept

\* What no step changes, and what only Change does.
LEMMA CallStays ==
    ASSUME MetadataTypes, [Next]_vars
    PROVE  /\ UNCHANGED <<dialect, op, target>> /\ Asked' = Asked
           /\ \A i : ColumnsOf(i)' = ColumnsOf(i)
           /\ Moments \subseteq Moments' /\ schema \in Moments /\ Moments \subseteq Possible
           /\ ~Change => schema' = schema /\ Moments' = Moments
<1>1. UNCHANGED <<dialect, op, target>>
  BY DEF Next, vars, call, ReadKey, ReadColumns, ReadIndexes, ReadTableInfo, ReadTables,
         ReadIndexList, ReadIndexInfo, IndexInfoFails, ListsDone, Fails, Change, Returned
<1>2. Asked' = Asked
  BY <1>1 DEF Asked
<1>3. \A i : ColumnsOf(i)' = ColumnsOf(i)
  BY <1>1 DEF ColumnsOf
<1> QED BY <1>1, <1>2, <1>3, MomentsGrow, MomentsArePossible DEF MetadataTypes

\* An entry of a moment stays one.
LEMMA OriginStays ==
    ASSUME MetadataTypes, [Next]_vars
    PROVE  /\ \A e : IsRow(e) => IsRow(e)'
           /\ \A e : FromSome(e) => FromSome(e)'
           /\ \A t, i : Always(t, i)' => Always(t, i)
<1>1. \A e : IsRow(e) => IsRow(e)'
  BY CallStays DEF IsRow
<1>2. \A e : FromSome(e) => FromSome(e)'
  BY CallStays DEF FromSome
<1> QED BY <1>1, <1>2, CallStays DEF Always

\* In SQLite and PostgreSQL an index of a database is known by its name.
LEMMA OneOfAName ==
    ASSUME dialect # "mysql", NEW s \in Possible, NEW t \in Tables, NEW u \in Tables,
           NEW i \in ToSet(s[t].indexes), NEW j \in ToSet(s[u].indexes), i.name = j.name
    PROVE  t = u /\ i = j
<1>1. PICK m \in DOMAIN s[t].indexes : i = s[t].indexes[m]
  BY DEF ToSet
<1>2. PICK n \in DOMAIN s[u].indexes : j = s[u].indexes[n]
  BY DEF ToSet
<1>3. t = u
  BY <1>1, <1>2 DEF Possible, Tables
<1>4. m = n
  BY <1>1, <1>2, <1>3, StateIs DEF Sound
<1> QED BY <1>1, <1>2, <1>3, <1>4

LEMMA InitIndexes == Init => IndexInv
<1> SUFFICES ASSUME Init PROVE IndexInv
  OBVIOUS
<1>1. MetadataTypes /\ Statements
  BY InitDescribe DEF DescribeInv
<1>2. result = "none" /\ list = <<>> /\ indexes = <<>>
  BY DEF Init
<1>3. ASSUME pc = "lists" PROVE Reading
  <2>1. todo = <<target>> /\ target # Everything /\ target \in Tables
    BY <1>3 DEF Init, Tables
  <2>2. ToSet(list) = {} /\ ToSet(indexes) = {} /\ DOMAIN list = {} /\ DOMAIN indexes = {}
    BY <1>2 DEF ToSet
  <2>3. ReadingTypes
    BY <1>2, <2>1 DEF ReadingTypes
  <2>4. Apart
    BY <2>1, <2>2 DEF Apart, OncePerName
  <2>5. ToSet(Asked) = {target} /\ ToSet(todo) = {target}
    BY <2>1, AskedIs DEF ToSet
  <2> QED BY <2>2, <2>3, <2>4, <2>5 DEF Reading
<1> QED BY <1>1, <1>2, <1>3 DEF IndexInv

\* Another client's change leaves what was read.
LEMMA ChangeReads ==
    ASSUME MetadataTypes, [Next]_vars, Reading, UNCHANGED <<todo, list, indexes>>
    PROVE  Reading'
<1>1. ReadingTypes' /\ Apart'
  <2>1. Tables' = Tables /\ Entries' = Entries
    BY DEF Tables, Entries
  <2> QED BY <2>1 DEF Reading, ReadingTypes, Apart, OncePerName, ToSet
<1>2. ToSet(list)' = ToSet(list) /\ ToSet(indexes)' = ToSet(indexes) /\ ToSet(todo)' = ToSet(todo)
  OBVIOUS
<1>3. (\A e \in ToSet(list) : IsRow(e))' /\ (\A e \in ToSet(indexes) : FromSome(e))'
  BY <1>2, OriginStays DEF Reading
<1>4. ASSUME NEW t \in ToSet(Asked)' \ ToSet(todo)', NEW i, Always(t, i)'
      PROVE  Noted(t, i)'
  <2>1. t \in ToSet(Asked) \ ToSet(todo) /\ Always(t, i)
    BY <1>2, <1>4, CallStays, OriginStays
  <2>2. i \in ToSet(schema[t].indexes)
    BY <2>1, CallStays DEF Always
  <2>3. Noted(t, i)
    BY <2>1, <2>2 DEF Reading
  <2> QED BY <2>3 DEF Noted, Entry
<1> QED BY <1>1, <1>3, <1>4 DEF Reading

LEMMA RowsOf ==
    ASSUME NEW s \in Possible, NEW t \in Tables,
           NEW rows, rows = [n \in DOMAIN s[t].indexes |-> Entry(t, s[t].indexes[n], <<>>)]
    PROVE  /\ rows \in Seq(Entries) /\ OncePerName(rows)
           /\ \A e \in ToSet(rows) : e.table = t
           /\ \A e \in ToSet(rows) : \E i \in ToSet(s[t].indexes) : e = Entry(t, i, <<>>)
           /\ \A i \in ToSet(s[t].indexes) : Entry(t, i, <<>>) \in ToSet(rows)
<1> DEFINE ix == s[t].indexes
<1>1. /\ ix \in Seq(Index) /\ Len(ix) \in Nat /\ DOMAIN ix = 1 .. Len(ix)
      /\ \A n \in DOMAIN ix : ix[n] \in Index
      /\ \A m, n \in DOMAIN ix : ix[m].name = ix[n].name => m = n
  <2>1. ix \in Seq(Index) /\ Sound(s[t])
    BY StateIs
  <2>2. \A m, n \in DOMAIN ix : ix[m].name = ix[n].name => m = n
    BY <2>1 DEF Sound
  <2> HIDE DEF ix
  <2> QED BY <2>1, <2>2, LenProperties, ElementOfSeq
<1>2. rows = [n \in DOMAIN ix |-> Entry(t, ix[n], <<>>)]
  OBVIOUS
<1> HIDE DEF ix
<1>3. \A i \in Index : Entry(t, i, <<>>) \in Entries
  <2>1. <<>> \in Seq(Seq(STRING))
    BY EmptySeq
  <2> QED BY <2>1 DEF Entry, Entries, Index
<1>4. \A i : Entry(t, i, <<>>).table = t /\ Entry(t, i, <<>>).name = i.name
  BY DEF Entry
<1>5. rows \in Seq(Entries)
  <2>1. \A n \in 1 .. Len(ix) : rows[n] \in Entries
    BY <1>1, <1>2, <1>3
  <2>2. rows \in [1 .. Len(ix) -> Entries]
    BY <1>1, <1>2, <2>1
  <2> QED BY <1>1, <2>2, MapIsSeq
<1>6. OncePerName(rows)
  <2>1. \A n \in DOMAIN rows : n \in DOMAIN ix /\ rows[n].name = ix[n].name
    BY <1>2, <1>4
  <2>2. ASSUME NEW m \in DOMAIN rows, NEW n \in DOMAIN rows, rows[m].name = rows[n].name PROVE m = n
    <3>1. m \in DOMAIN ix /\ n \in DOMAIN ix /\ ix[m].name = ix[n].name
      BY <2>1, <2>2
    <3> QED BY <1>1, <3>1
  <2> QED BY <2>2, Zenon DEF OncePerName
<1> QED BY <1>2, <1>4, <1>5, <1>6 DEF ToSet, ix

LEMMA ListRead ==
    ASSUME IndexInv, [Next]_vars, ReadIndexList
    PROVE  Reading'
<1> DEFINE t == Head(todo)
<1>1. /\ Reading /\ MetadataTypes /\ list = <<>> /\ todo # <<>> /\ indexes' = indexes
      /\ list' = [n \in DOMAIN schema[t].indexes |-> Entry(t, schema[t].indexes[n], <<>>)]
      /\ todo' = Tail(todo) /\ schema' = schema /\ Moments' = Moments
  BY CallStays DEF ReadIndexList, IndexInv, Change, Moments
<1>2. ToSet(list) = {}
  BY <1>1 DEF ToSet
<1>3. /\ t \in Tables /\ todo' \in Seq(Tables) /\ ToSet(todo) = {t} \cup ToSet(todo')
      /\ t \notin ToSet(todo') /\ \A m, n \in DOMAIN todo' : todo'[m] = todo'[n] => m = n
  <2>1. todo \in Seq(Tables) /\ todo # <<>> /\ \A m, n \in DOMAIN todo : todo[m] = todo[n] => m = n
    BY <1>1 DEF Reading, ReadingTypes, Apart
  <2>2. /\ Len(todo) \in Nat \ {0} /\ DOMAIN todo = 1 .. Len(todo)
        /\ t = todo[1] /\ t \in Tables /\ todo' \in Seq(Tables)
        /\ DOMAIN todo' = 1 .. Len(todo) - 1
        /\ \A n \in 1 .. Len(todo) - 1 : n + 1 \in DOMAIN todo /\ todo'[n] = todo[n + 1]
        /\ ToSet(todo) = {t} \cup ToSet(todo')
    BY <1>1, <2>1, FirstAndRest
  <2>3. ASSUME t \in ToSet(todo') PROVE FALSE
    <3>1. PICK n \in 1 .. Len(todo) - 1 : todo'[n] = t
      BY <2>2, <2>3 DEF ToSet
    <3>2. n + 1 \in DOMAIN todo /\ 1 \in DOMAIN todo /\ todo[n + 1] = todo[1] /\ n \in Nat \ {0}
      BY <2>2, <3>1
    <3> QED BY <2>1, <3>2
  <2>4. ASSUME NEW m \in DOMAIN todo', NEW n \in DOMAIN todo', todo'[m] = todo'[n] PROVE m = n
    <3>2. m \in 1 .. Len(todo) - 1 /\ n \in 1 .. Len(todo) - 1
      BY <2>2, <2>4
    <3>3. m + 1 \in DOMAIN todo /\ n + 1 \in DOMAIN todo /\ todo[m + 1] = todo[n + 1]
      BY <2>2, <2>4, <3>2
    <3>1. m \in Nat /\ n \in Nat /\ m + 1 = n + 1
      BY <2>1, <2>2, <3>2, <3>3
    <3> QED BY <3>1
  <2> QED BY <2>2, <2>3, <2>4
<1>4. /\ list' \in Seq(Entries) /\ OncePerName(list)'
      /\ \A e \in ToSet(list') : e.table = t
      /\ \A e \in ToSet(list') : \E i \in ToSet(schema[t].indexes) : e = Entry(t, i, <<>>)
      /\ \A i \in ToSet(schema[t].indexes) : Entry(t, i, <<>>) \in ToSet(list')
  <2>1. schema \in Possible
    BY <1>1, MomentsArePossible
  <2>2. OncePerName(list)' <=> OncePerName(list')
    BY DEF OncePerName
  <2>3. t \in Tables /\ list' = [n \in DOMAIN schema[t].indexes |-> Entry(t, schema[t].indexes[n], <<>>)]
    BY <1>1, <1>3
  <2> DEFINE rows == list'
  <2>4. rows = [n \in DOMAIN schema[t].indexes |-> Entry(t, schema[t].indexes[n], <<>>)]
    BY <2>3
  <2> HIDE DEF t, rows
  <2>5. /\ rows \in Seq(Entries) /\ OncePerName(rows)
        /\ \A e \in ToSet(rows) : e.table = t
        /\ \A e \in ToSet(rows) : \E i \in ToSet(schema[t].indexes) : e = Entry(t, i, <<>>)
        /\ \A i \in ToSet(schema[t].indexes) : Entry(t, i, <<>>) \in ToSet(rows)
    BY <2>1, <2>3, <2>4, RowsOf
  <2> QED BY <2>2, <2>5 DEF rows
<1> HIDE DEF t
<1>5. ReadingTypes'
  <2>1. Tables' = Tables /\ Entries' = Entries
    BY DEF Tables, Entries
  <2> QED BY <1>1, <1>3, <1>4, <2>1 DEF Reading, ReadingTypes
<1>6. \A e \in ToSet(indexes) : e.table # t /\ e.table \notin ToSet(todo')
  BY <1>1, <1>3 DEF Reading, Apart
<1>7. Apart'
  <2>1. OncePerName(indexes)'
    BY <1>1 DEF Reading, Apart, OncePerName
  <2> QED BY <1>1, <1>3, <1>4, <1>6, <2>1 DEF Apart
<1>8. (\A e \in ToSet(list) : IsRow(e))'
  BY <1>1, <1>4, CallStays DEF IsRow
<1>9. (\A e \in ToSet(indexes) : FromSome(e))'
  BY <1>1, OriginStays DEF Reading
<1>10. ASSUME NEW u \in ToSet(Asked)' \ ToSet(todo)', NEW i, Always(u, i)'
       PROVE  Noted(u, i)'
  <2>1. u \in ToSet(Asked) /\ u \notin ToSet(todo') /\ Always(u, i) /\ i \in ToSet(schema[u].indexes)
    BY <1>1, <1>10, CallStays, OriginStays DEF Always
  <2>2. CASE u = t
    BY <1>4, <2>1, <2>2 DEF Noted, Entry
  <2>3. CASE u # t
    <3>1. Noted(u, i)
      BY <1>1, <1>3, <2>1, <2>3 DEF Reading
    <3> QED BY <1>1, <1>2, <3>1 DEF Noted, Entry
  <2> QED BY <2>2, <2>3
<1> QED BY <1>5, <1>7, <1>8, <1>9, <1>10 DEF Reading

\* What index_info has under a name, of SQLite: the index of that name.
LEMMA NamedIs ==
    ASSUME MetadataTypes, dialect = "sqlite", NEW name
    PROVE  /\ \A j \in Named(name) : /\ j \in Index /\ j.name = name
                                     /\ \E t \in Tables : j \in ToSet(schema[t].indexes)
           /\ Named(name) = {} => \A t \in Tables : name \notin {i.name : i \in ToSet(schema[t].indexes)}
           /\ \A t \in Tables : \A i \in ToSet(schema[t].indexes) : i.name = name => Named(name) = {i}
<1>1. /\ \A j \in Named(name) : j.name = name /\ \E t \in Tables : j \in ToSet(schema[t].indexes)
      /\ \A t \in Tables : \A i \in ToSet(schema[t].indexes) : i.name = name => i \in Named(name)
  BY DEF Named, Tables
<1>2. \A t \in Tables : \A j \in ToSet(schema[t].indexes) : j \in Index
  <2> SUFFICES ASSUME NEW t \in Tables, NEW j \in ToSet(schema[t].indexes) PROVE j \in Index
    OBVIOUS
  <2>1. schema[t].indexes \in Seq(Index)
    BY MomentsArePossible, StateIs
  <2> QED BY <2>1, LenProperties, ElementOfSeq DEF ToSet
<1>3. ASSUME NEW t \in Tables, NEW i \in ToSet(schema[t].indexes), i.name = name PROVE Named(name) = {i}
  <2>1. \A j \in Named(name) : j = i
    BY <1>1, <1>3, MomentsArePossible, OneOfAName
  <2> QED BY <1>1, <1>3, <2>1
<1> QED BY <1>1, <1>2, <1>3

LEMMA InfoRead ==
    ASSUME IndexInv, [Next]_vars, ReadIndexInfo
    PROVE  Reading'
<1> DEFINE e == Head(list)
<1>1. /\ Reading /\ MetadataTypes /\ list # <<>> /\ todo' = todo /\ ~ComputedColumn
      /\ list' = Tail(list) /\ schema' = schema /\ Moments' = Moments /\ dialect = "sqlite"
      /\ schema \in Moments
  BY CallStays DEF ReadIndexInfo, IndexInv, Statements, Change, Moments, MetadataTypes
<1>2. PICK cols \in IF Named(e.name) = {} THEN {<<>>} ELSE {i.cols : i \in Named(e.name)} :
         indexes' = Append(indexes, [e EXCEPT !.cols = cols])
  BY DEF ReadIndexInfo
<1> DEFINE f == [e EXCEPT !.cols = cols]
<1>3. /\ list \in Seq(Entries) /\ list # <<>> /\ indexes \in Seq(Entries) /\ indexes' = Append(indexes, f)
  BY <1>1, <1>2 DEF Reading, ReadingTypes
<1>4. /\ Len(list) \in Nat \ {0} /\ DOMAIN list = 1 .. Len(list)
      /\ e = list[1] /\ e \in Entries /\ list' \in Seq(Entries)
      /\ DOMAIN list' = 1 .. Len(list) - 1
      /\ \A n \in 1 .. Len(list) - 1 : n + 1 \in DOMAIN list /\ list'[n] = list[n + 1]
      /\ ToSet(list) = {e} \cup ToSet(list')
  BY <1>1, <1>3, FirstAndRest
<1>5. IsRow(e)
  BY <1>1, <1>4 DEF Reading
<1>6. \/ Named(e.name) = {} /\ cols = <<>>
      \/ \E j \in Named(e.name) : cols = j.cols
  BY <1>2
<1> HIDE DEF e
<1>7. cols \in Seq(Seq(STRING))
  <2>1. <<>> \in Seq(Seq(STRING))
    BY EmptySeq
  <2>2. \A j \in Named(e.name) : j \in Index
    BY <1>1, NamedIs
  <2>3. \A j \in Index : j.cols \in Seq(Seq(STRING))
    BY DEF Index
  <2> QED BY <1>6, <2>1, <2>2, <2>3
<1>8. /\ f \in Entries /\ f.table = e.table /\ f.name = e.name /\ f.unique = e.unique
      /\ f.primary = e.primary /\ f.cols = cols /\ e.table \in Tables
  BY <1>4, <1>7 DEF Entries
<1>9. FromSome(f)
  <2>1. \E s \in Moments : \E i \in ToSet(s[f.table].indexes) :
           i.name = f.name /\ i.unique = f.unique /\ i.primary = f.primary
    <3>1. PICK s \in Moments : \E i \in ToSet(s[e.table].indexes) : e = Entry(e.table, i, <<>>)
      BY <1>5 DEF IsRow
    <3>2. PICK i \in ToSet(s[e.table].indexes) : e = Entry(e.table, i, <<>>)
      BY <3>1
    <3>3. i.name = e.name /\ i.unique = e.unique /\ i.primary = e.primary
      BY <3>2 DEF Entry
    <3> HIDE DEF f
    <3> QED BY <1>8, <3>2, <3>3
  <2>2. CASE Named(e.name) = {} /\ cols = <<>>
    <3>1. \A t \in Tables : e.name \notin {i.name : i \in ToSet(schema[t].indexes)}
      BY <1>1, <2>2, NamedIs
    <3> HIDE DEF f
    <3> QED BY <1>1, <1>8, <2>1, <2>2, <3>1 DEF FromSome
  <2>3. ASSUME NEW j \in Named(e.name), cols = j.cols PROVE FromSome(f)
    <3>1. j \in Index /\ j.name = e.name /\ \E t \in Tables : j \in ToSet(schema[t].indexes)
      BY <1>1, NamedIs
    <3>2. Expression \notin ToSet(j.cols)
      BY <1>1 DEF ComputedColumn, e
    <3>3. ColumnsOf(j) = j.cols
      BY <1>1, <3>1, <3>2, PlainColumns DEF ToSet
    <3> HIDE DEF f
    <3> QED BY <1>1, <1>8, <2>1, <2>3, <3>1, <3>3 DEF FromSome
  <2> QED BY <1>6, <2>2, <2>3
<1> HIDE DEF f
<1>10. ToSet(indexes') = ToSet(indexes) \cup {f} /\ indexes' \in Seq(Entries)
  BY <1>3, <1>8, AppendSet, AppendProperties
<1>11. ReadingTypes'
  <2>1. Tables' = Tables /\ Entries' = Entries
    BY DEF Tables, Entries
  <2> QED BY <1>1, <1>4, <1>10, <2>1 DEF Reading, ReadingTypes
<1>12. Apart'
  <2>1. /\ OncePerName(list) /\ OncePerName(indexes)
        /\ \A g \in ToSet(list) \cup ToSet(indexes) : g.table \notin ToSet(todo)
        /\ \A g \in ToSet(list), h \in ToSet(indexes) : ~(g.table = h.table /\ g.name = h.name)
        /\ \A m, n \in DOMAIN todo : todo[m] = todo[n] => m = n
    BY <1>1 DEF Reading, Apart
  <2>2. ASSUME NEW m \in DOMAIN list', NEW n \in DOMAIN list',
               list'[m].table = list'[n].table, list'[m].name = list'[n].name
        PROVE  m = n
    <3>1. m \in 1 .. Len(list) - 1 /\ n \in 1 .. Len(list) - 1
      BY <1>4, <2>2
    <3>2. /\ m + 1 \in DOMAIN list /\ n + 1 \in DOMAIN list
          /\ list[m + 1].table = list[n + 1].table /\ list[m + 1].name = list[n + 1].name
      BY <1>4, <2>2, <3>1
    <3>3. m + 1 = n + 1
      BY <2>1, <3>2 DEF OncePerName
    <3> QED BY <1>4, <3>1, <3>3
  <2>3. \A g \in ToSet(list') : ~(g.table = e.table /\ g.name = e.name)
    <3> SUFFICES ASSUME NEW g \in ToSet(list'), g.table = e.table, g.name = e.name PROVE FALSE
      OBVIOUS
    <3>1. PICK n \in 1 .. Len(list) - 1 : g = list'[n]
      BY <1>4 DEF ToSet
    <3>2. n + 1 \in DOMAIN list /\ g = list[n + 1] /\ 1 \in DOMAIN list /\ n + 1 # 1
      BY <1>4, <3>1
    <3> QED BY <1>4, <2>1, <3>2 DEF OncePerName
  <2>4. ASSUME NEW m \in DOMAIN indexes', NEW n \in DOMAIN indexes',
               indexes'[m].table = indexes'[n].table, indexes'[m].name = indexes'[n].name
        PROVE  m = n
    <3> DEFINE N == Len(indexes)
    <3>1. /\ N \in Nat /\ DOMAIN indexes = 1 .. N /\ DOMAIN indexes' = 1 .. N + 1
          /\ \A k \in 1 .. N : indexes'[k] = indexes[k]
          /\ indexes'[N + 1] = f
      <4>1. /\ Len(indexes') = N + 1 /\ \A k \in 1 .. N : indexes'[k] = indexes[k]
            /\ indexes'[N + 1] = f
        BY <1>3, <1>8, AppendProperties
      <4>2. N \in Nat /\ DOMAIN indexes = 1 .. N
        BY <1>3, LenProperties
      <4>3. DOMAIN indexes' = 1 .. Len(indexes')
        BY <1>10, LenProperties
      <4> QED BY <4>1, <4>2, <4>3
    <3> HIDE DEF N
    <3>2. \A k \in 1 .. N : ~(indexes[k].table = f.table /\ indexes[k].name = f.name)
      <4> SUFFICES ASSUME NEW k \in 1 .. N PROVE ~(indexes[k].table = f.table /\ indexes[k].name = f.name)
        OBVIOUS
      <4>1. indexes[k] \in ToSet(indexes) /\ e \in ToSet(list)
        BY <1>4, <3>1 DEF ToSet
      <4> QED BY <1>8, <2>1, <4>1
    <3>3. \A k \in 1 .. N + 1 : k \in 1 .. N \/ k = N + 1
      BY <3>1
    <3>4. CASE m \in 1 .. N /\ n \in 1 .. N
      BY <2>1, <2>4, <3>1, <3>4 DEF OncePerName
    <3>5. CASE m \in 1 .. N /\ n = N + 1
      BY <2>4, <3>1, <3>2, <3>5
    <3>6. CASE m = N + 1 /\ n \in 1 .. N
      BY <2>4, <3>1, <3>2, <3>6
    <3>7. m \in 1 .. N + 1 /\ n \in 1 .. N + 1
      BY <2>4, <3>1
    <3> QED BY <3>3, <3>4, <3>5, <3>6, <3>7
  <2>5. \A g \in ToSet(list') \cup ToSet(indexes') : g.table \notin ToSet(todo)
    BY <1>4, <1>8, <1>10, <2>1
  <2>6. \A g \in ToSet(list'), h \in ToSet(indexes') : ~(g.table = h.table /\ g.name = h.name)
    BY <1>4, <1>8, <1>10, <2>1, <2>3
  <2> QED BY <1>1, <2>1, <2>2, <2>4, <2>5, <2>6 DEF Apart, OncePerName
<1>13. (\A g \in ToSet(list) : IsRow(g))' /\ (\A g \in ToSet(indexes) : FromSome(g))'
  BY <1>1, <1>4, <1>9, <1>10, OriginStays DEF Reading
<1>14. ASSUME NEW u \in ToSet(Asked)' \ ToSet(todo)', NEW i, Always(u, i)'
       PROVE  Noted(u, i)'
  <2>1. /\ u \in ToSet(Asked) /\ u \notin ToSet(todo) /\ Always(u, i)
        /\ i \in ToSet(schema[u].indexes)
    BY <1>1, <1>14, CallStays, OriginStays DEF Always
  <2>2. CASE Entry(u, i, <<>>) = e
    <3>1. e.table = u /\ e.name = i.name
      BY <2>2 DEF Entry
    <3>2. Named(e.name) = {i}
      BY <1>1, <1>8, <2>1, <3>1, NamedIs
    <3>3. cols = i.cols
      BY <1>6, <3>2
    <3>4. f = Entry(u, i, i.cols)
      BY <2>2, <3>3 DEF f, Entry
    <3> QED BY <1>10, <3>4 DEF Noted, Entry
  <2>3. CASE Entry(u, i, <<>>) # e
    <3>1. Noted(u, i)
      BY <1>1, <2>1 DEF Reading
    <3> QED BY <1>4, <1>10, <2>3, <3>1 DEF Noted, Entry
  <2> QED BY <2>2, <2>3
<1> QED BY <1>11, <1>12, <1>13, <1>14 DEF Reading

\* The tables of the database, before the first index_list.
LEMMA TablesRead ==
    ASSUME IndexInv, [Next]_vars, ReadTables
    PROVE  Reading'
<1> DEFINE ns == {t \in 1 .. NTables : Exists(schema, t)}
<1>1. /\ MetadataTypes /\ list = <<>> /\ indexes = <<>> /\ list' = <<>> /\ indexes' = <<>>
      /\ schema' = schema /\ Moments' = Moments /\ schema \in Moments /\ schema \in Possible
      /\ todo' = Chosen([t \in 1 .. NTables |-> t], ns)
  BY CallStays, MomentsArePossible DEF ReadTables, IndexInv, Change, Moments
<1>2. ns \in SUBSET Int /\ ns \subseteq 1 .. NTables /\ IsFiniteSet(ns)
  <2>1. NTables \in Nat /\ IsFiniteSet(1 .. NTables)
    BY MetadataAssumption, CountUpTo
  <2>2. ns \subseteq 1 .. NTables
    OBVIOUS
  <2>3. 1 .. NTables \subseteq Int
    OBVIOUS
  <2> HIDE DEF ns
  <2> QED BY <2>1, <2>2, <2>3, FS_Subset
<1> HIDE DEF ns
<1> DEFINE k  == Cardinality(ns)
           at == Ordered(ns)
<1>3. /\ k \in Nat /\ at \in [1 .. k -> ns]
      /\ \A i, j \in 1 .. k : i < j => at[i] < at[j]
      /\ \A n \in ns : \E i \in 1 .. k : at[i] = n
  BY <1>2, OrderedIs
<1>4. todo' = [i \in 1 .. k |-> [t \in 1 .. NTables |-> t][at[i]]]
  BY <1>1 DEF Chosen
<1> HIDE DEF k, at
<1>5. todo' = [i \in 1 .. k |-> at[i]]
  BY <1>2, <1>3, <1>4
<1>6. /\ todo' \in Seq(Tables) /\ ToSet(todo') = ns
      /\ \A m, n \in DOMAIN todo' : todo'[m] = todo'[n] => m = n
  <2>1. todo' \in [1 .. k -> Tables]
    BY <1>2, <1>3, <1>5 DEF Tables
  <2>2. todo' \in Seq(Tables)
    BY <1>3, <2>1, MapIsSeq
  <2>3. ToSet(todo') = ns
    BY <1>3, <1>5 DEF ToSet
  <2>4. ASSUME NEW m \in 1 .. k, NEW n \in 1 .. k, at[m] = at[n] PROVE m = n
    <3>3. at[m] \in ns /\ at[n] \in ns
      BY <1>3
    <3>4. \A x \in ns : x \in Int
      BY <1>2
    <3>5. m \in Int /\ n \in Int
      BY <1>3
    <3>1. m \in Int /\ n \in Int /\ at[m] \in Int /\ at[n] \in Int
      BY <3>3, <3>4, <3>5
    <3>2. ~(at[m] < at[n]) /\ ~(at[n] < at[m])
      BY <2>4, <3>1
    <3> QED BY <1>3, <3>1, <3>2
  <2> QED BY <1>5, <2>2, <2>3, <2>4
<1>7. ReadingTypes'
  <2>1. Tables' = Tables /\ Entries' = Entries
    BY DEF Tables, Entries
  <2> QED BY <1>1, <1>6, <2>1, EmptySeq DEF ReadingTypes
<1>8. ToSet(list') = {} /\ ToSet(indexes') = {} /\ DOMAIN list' = {} /\ DOMAIN indexes' = {}
  BY <1>1 DEF ToSet
<1>9. Apart'
  BY <1>6, <1>8 DEF Apart, OncePerName
<1>10. ASSUME NEW u \in ToSet(Asked)' \ ToSet(todo)', NEW i, Always(u, i)' PROVE FALSE
  <2>1. u \in Tables /\ u \notin ns
    BY <1>1, <1>6, <1>10, AskedIs, CallStays DEF MetadataTypes
  <2>2. schema[u].columns = <<>>
    BY <2>1 DEF ns, Exists, Tables
  <2>3. schema[u].indexes = <<>>
    BY <1>1, <2>1, <2>2, StateIs DEF Sound
  <2>4. i \in ToSet(schema[u].indexes)
    BY <1>1, <1>10 DEF Always
  <2> QED BY <2>3, <2>4 DEF ToSet
<1> QED BY <1>7, <1>8, <1>9, <1>10 DEF Reading

LEMMA InfoOfTable ==
    ASSUME IndexInv, [Next]_vars, ReadTableInfo, pc' = "lists"
    PROVE  Reading'
<1>1. /\ MetadataTypes /\ list = <<>> /\ indexes = <<>> /\ list' = <<>> /\ indexes' = <<>>
      /\ todo' = <<target>> /\ target \in Tables /\ target' = target
  BY CallStays DEF ReadTableInfo, IndexInv, MetadataTypes, Statements
<1>2. ToSet(list') = {} /\ ToSet(indexes') = {} /\ DOMAIN list' = {} /\ DOMAIN indexes' = {}
  BY <1>1 DEF ToSet
<1>3. ReadingTypes'
  <2>1. Tables' = Tables /\ Entries' = Entries
    BY DEF Tables, Entries
  <2> QED BY <1>1, <2>1, EmptySeq DEF ReadingTypes
<1>4. Apart'
  BY <1>1, <1>2 DEF Apart, OncePerName
<1>5. ToSet(Asked)' = {target} /\ ToSet(todo)' = {target}
  BY <1>1, AskedIs, CallStays DEF ToSet
<1> QED BY <1>2, <1>3, <1>4, <1>5 DEF Reading

LEMMA KeptStays ==
    ASSUME MetadataTypes, [Next]_vars, Kept, UNCHANGED <<schema, seen, indexes>>
    PROVE  Kept'
<1>1. ToSet(indexes)' = ToSet(indexes) /\ OncePerName(indexes)' /\ ToSet(Asked)' = ToSet(Asked)
  BY CallStays DEF OncePerName, Kept
<1>2. (\A e \in ToSet(indexes) : FromSome(e))'
  BY <1>1, OriginStays DEF Kept
<1>3. ASSUME NEW t \in ToSet(Asked), NEW i \in ToSet(schema'[t].indexes), Plain(i)', Always(t, i)'
      PROVE  Entry(t, i, i.cols) \in ToSet(indexes)
  <2>1. Plain(i) /\ Always(t, i) /\ i \in ToSet(schema[t].indexes)
    BY <1>3, CallStays, OriginStays DEF Plain
  <2> QED BY <2>1 DEF Kept
<1> QED BY <1>1, <1>2, <1>3 DEF Kept, Entry

LEMMA StepIndexes == IndexInv /\ [Next]_vars => IndexInv'
<1> SUFFICES ASSUME IndexInv, [Next]_vars PROVE IndexInv'
  OBVIOUS
<1>1. /\ MetadataTypes /\ Statements /\ MetadataTypes' /\ Statements'
      /\ pc # "returned" => result = "none"
      /\ ~Change => schema' = schema /\ Moments' = Moments
  BY StatementsKept, CallStays DEF IndexInv, MetadataTypes
<1>2. CASE ReadKey \/ ReadColumns
  <2>1. pc' \in {"columns", "indexes"} /\ result' # "ok"
    BY <1>1, <1>2 DEF ReadKey, ReadColumns
  <2> QED BY <1>1, <2>1 DEF IndexInv
<1>3. CASE ReadIndexes
  <2>1. pc' = "returned" /\ dialect' = dialect /\ schema' = schema /\ schema \in Moments
    BY <1>3, CallStays DEF ReadIndexes, Return, call, IndexInv
  <2>2. indexes' = FlattenSeq([n \in DOMAIN Asked |-> IndexesOf(Asked[n])])
    BY <1>3 DEF ReadIndexes
  <2>3. \A t : IndexesOf(t) = IndexesIn(schema, t)
    BY DEF IndexesOf, IndexesIn
  <2>4. indexes' = AllIndexesIn(schema)
    BY <2>2, <2>3 DEF AllIndexesIn
  <2>5. AllIndexesIn(schema)' = AllIndexesIn(schema)
    <3>1. Asked' = Asked /\ \A i : ColumnsOf(i)' = ColumnsOf(i)
      BY <1>1, CallStays
    <3>2. \A t : IndexesIn(schema, t)' = IndexesIn(schema, t)
      BY <2>1, <3>1 DEF IndexesIn, Entry
    <3> QED BY <3>1, <3>2 DEF AllIndexesIn
  <2>6. (schema \in Moments)'
    BY <1>1 DEF MetadataTypes
  <2>7. Kept'
    <3>1. (MetadataTypes /\ (\E s \in Moments : indexes = AllIndexesIn(s)) => Kept)'
      BY OfSomeMoment, PTL
    <3> QED BY <1>1, <2>4, <2>5, <2>6, <3>1
  <2> QED BY <1>1, <2>1, <2>7 DEF IndexInv
<1>4. CASE ReadTableInfo
  <2>1. pc' \notin {"info", "tables"} /\ result' # "ok"
    BY <1>1, <1>4 DEF ReadTableInfo, Return
  <2> QED BY <1>1, <1>4, <2>1, InfoOfTable DEF IndexInv
<1>5. CASE ReadTables \/ ReadIndexList \/ ReadIndexInfo
  <2>1. pc' = "lists" /\ result' # "ok" /\ Reading'
    BY <1>1, <1>5, TablesRead, ListRead, InfoRead DEF ReadTables, ReadIndexList, ReadIndexInfo
  <2> QED BY <1>1, <2>1 DEF IndexInv
<1>6. CASE IndexInfoFails \/ Fails
  <2>1. pc' = "returned" /\ result' = "error"
    BY <1>6 DEF IndexInfoFails, Fails, Return
  <2> QED BY <1>1, <2>1 DEF IndexInv
<1>7. CASE ListsDone
  <2>1. /\ pc' = "returned" /\ UNCHANGED <<schema, seen, indexes>>
        /\ Reading /\ list = <<>> /\ todo = <<>>
    BY <1>7 DEF ListsDone, Return, IndexInv
  <2>2. ToSet(list) = {} /\ ToSet(todo) = {}
    BY <2>1 DEF ToSet
  <2>3. OncePerName(indexes) /\ \A e \in ToSet(indexes) : FromSome(e)
    BY <2>1 DEF Reading, Apart
  <2>4. \A t \in ToSet(Asked) : \A i \in ToSet(schema[t].indexes) :
           Always(t, i) => Entry(t, i, i.cols) \in ToSet(indexes)
    BY <2>1, <2>2 DEF Reading, Noted
  <2>5. Kept
    BY <2>3, <2>4 DEF Kept
  <2> QED BY <1>1, <2>1, <2>5, KeptStays DEF IndexInv
<1>8. CASE Change
  <2>1. /\ pc' = pc /\ result' # "ok" /\ UNCHANGED <<todo, list, indexes>>
    BY <1>1, <1>8 DEF Change
  <2> QED BY <1>1, <2>1, ChangeReads DEF IndexInv
<1>9. CASE Returned \/ UNCHANGED vars
  <2>1. UNCHANGED <<pc, result, schema, seen, todo, list, indexes>>
    BY <1>9 DEF Returned, vars
  <2>2. Reading => Reading'
    BY <1>1, <2>1, ChangeReads
  <2>3. Kept => Kept'
    BY <1>1, <2>1, KeptStays
  <2> QED BY <1>1, <2>1, <2>2, <2>3 DEF IndexInv
<1> QED BY <1>2, <1>3, <1>4, <1>5, <1>6, <1>7, <1>8, <1>9 DEF Next

\* An index the others left alone is in the answer once, with all its columns,
\* and no index is made up, in the three dialects and however many changes there
\* are between the statements.
THEOREM IndexesAreKept == Spec => []IndexesKept
<1>1. Spec => []IndexInv
  BY InitIndexes, StepIndexes, PTL DEF Spec
<1>2. IndexInv => IndexesKept
  <2> SUFFICES ASSUME IndexInv PROVE IndexesKept
    OBVIOUS
  <2>1. CASE result = "ok"
    BY <2>1, KeptIsExact DEF IndexInv
  <2>2. CASE result # "ok"
    BY <2>2 DEF IndexesKept
  <2> QED BY <2>1, <2>2
<1> QED BY <1>1, <1>2, PTL
=============================================================================
