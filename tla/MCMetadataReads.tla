---------------------------- MODULE MCMetadataReads ----------------------------
(***************************************************************************)
(* The databases TLC tries: two tables with up to three columns and two    *)
(* indexes, keys in and out of the order of the columns, an index that     *)
(* goes from one table to the other, one name on both tables, computed     *)
(* columns and a comma.                                                    *)
(***************************************************************************)
EXTENDS MetadataReads

Col(name, place) == [name |-> name, key |-> place]
A == <<"a">>
B == <<"b">>
AB == <<"a", "b">>
MakeIndex(name, cols, unique, primary) ==
    [name |-> name, cols |-> cols, unique |-> unique, primary |-> primary]
Table(columns_, indexes_) == [columns |-> columns_, indexes |-> indexes_]

NoTable == Table(<<>>, <<>>)
I1 == MakeIndex("i1", <<A>>, FALSE, FALSE)
I2 == MakeIndex("i2", <<B, A>>, TRUE, FALSE)
PK == MakeIndex("pk", <<B, A>>, TRUE, TRUE)

First == {
    NoTable,
    Table(<<Col(A, 0), Col(B, 0)>>, <<I1, I2>>),
    Table(<<Col(A, 0), Col(B, 0)>>, <<MakeIndex("i1", <<B>>, TRUE, FALSE)>>),
    Table(<<Col(A, 0), Col(B, 0)>>, <<I2>>),
    Table(<<Col(A, 2), Col(B, 1)>>, <<I1, PK>>),
    Table(<<Col(A, 1), Col(AB, 0)>>, <<I1, MakeIndex("i3", <<AB, A>>, FALSE, FALSE)>>),
    Table(<<Col(B, 1)>>, <<MakeIndex("i4", <<B, Expression>>, FALSE, FALSE)>>)}
Second == {
    NoTable,
    Table(<<Col(A, 1)>>, <<MakeIndex("j", <<A>>, TRUE, FALSE)>>),
    Table(<<Col(A, 1)>>, <<MakeIndex("pk", <<A>>, TRUE, TRUE)>>)}
Moved == <<Table(<<Col(A, 0), Col(B, 0)>>, <<I1>>), Table(<<Col(A, 1), Col(B, 0)>>, <<I2>>)>>

AllSchemas == {<<t, u>> : t \in First, u \in Second} \cup {Moved}
=============================================================================
