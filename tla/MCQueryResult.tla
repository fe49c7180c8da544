---------------------------- MODULE MCQueryResult ----------------------------
(***************************************************************************)
(* The results TLC tries: up to three rows of two columns.                 *)
(***************************************************************************)
EXTENDS QueryResult, SequencesExt

Num(n)  == [kind |-> "num", text |-> <<>>, num |-> n]
Text(b) == [kind |-> "text", text |-> b, num |-> 0]
Null    == [kind |-> "null", text |-> <<>>, num |-> 0]
NaN     == [kind |-> "nan", text |-> <<>>, num |-> 0]

\* Exact is 8: -9 and 9 are rounded, 37 is beyond four times that.
Simple == {Num(1), Num(-8), Num(-9), Num(37), Null, NaN}
Texts == {Text(b) : b \in SeqOf({"a", "L", "c"}, 5)}

\* Few cells and many rows, or one row and every text.
Long  == [columns : {<<"x", "y">>, <<"x", "x">>},
          rows : SeqOf({<<Num(1), Num(n)>> : n \in {2, -9}} \cup {<<Null, Text(<<"a", "L", "c", "a">>)>>,
                       <<Num(3), NaN>>, <<Null, Num(4)>>}, 3)]
Wide  == [columns : {<<"x", "y">>}, rows : {<<<<c, t>>>> : c \in Simple, t \in Texts}]
AllTables == Long \cup Wide
SomeAsked == {0, 1, 2, 3}
=============================================================================
