----------------------------- MODULE QueryResult -----------------------------
(***************************************************************************)
(* The way of a result from the database to the client:                    *)
(* internal/database/service.go, the row loop of Query with its limit and  *)
(* its cells, then the handler's jsonutil.ToMap, which encodes the result  *)
(* and reads it back as generic JSON.                                      *)
(*                                                                         *)
(* A text is a sequence of bytes: "a" is a character of one byte, "L" and  *)
(* "c" are the two bytes of another; any other order is not UTF-8.  A      *)
(* number is an int64 or a uint64: read back from JSON it is a float64,    *)
(* which has every integer from -Exact to Exact (2^53), every second one   *)
(* to twice that, every fourth one to four times that, and so on.          *)
(***************************************************************************)
EXTENDS Integers, Sequences, FiniteSetsExt

CONSTANTS
    Tables,        \* the results a statement may have, [columns, rows]
    Asked,         \* the values of the argument max_rows, 0 if it is not given
    MaxResultRows, \* Config.MaxResultRows
    MaxCellBytes,  \* Config.MaxCellBytes
    Exact

\* A cell of a result; only text and num kinds use their text and num.
Bytes == {"a", "L", "c"}
Steps == {2^k : k \in 1..11}
Numbers == -2^11 * Exact .. 2^11 * Exact
Cells == [kind : {"text", "num", "null", "nan"}, text : Seq(Bytes), num : Numbers]

ASSUME ResultAssumption ==
    /\ MaxResultRows \in Nat \ {0} /\ MaxCellBytes \in Nat \ {0} /\ Exact \in Nat
    /\ Asked \subseteq Int
    /\ \A t \in Tables :
          /\ Len(t.rows) \in Nat /\ DOMAIN t.rows = 1 .. Len(t.rows)
          /\ Len(t.columns) \in Nat /\ DOMAIN t.columns = 1 .. Len(t.columns)
          /\ \A n \in DOMAIN t.rows : t.rows[n] \in [DOMAIN t.columns -> Cells]

VARIABLES
    table,     \* what the database has for the statement
    max,       \* req.MaxRows
    pc,        \* in the row loop, after it (limit, end), or returned
    fetched,   \* how often rows.Next returned true
    broken,    \* rows.Err: the iteration ended with an error
    rows,      \* result.Rows
    truncated, \* result.Truncated
    reply      \* none, error, or the structured content

vars == <<table, max, pc, fetched, broken, rows, truncated, reply>>

-----------------------------------------------------------------------------
(* Cells                                                                     *)
BadAt(b, n) ==
    \/ b[n] = "L" /\ ~(n < Len(b) /\ b[n + 1] = "c")
    \/ b[n] = "c" /\ ~(n > 1 /\ b[n - 1] = "L")

\* utf8.Valid
Valid(b) == \A n \in DOMAIN b : ~BadAt(b, n)

\* Cut at the limit, in the middle of a character too.
CutText_Bytes(b) ==
    IF Len(b) <= MaxCellBytes THEN b ELSE SubSeq(b, 1, MaxCellBytes) \o <<"...">>

\* truncateUTF8: from the limit back to the first valid prefix.
CutText(b) ==
    LET cut == Max({0} \cup {n \in 1 .. MaxCellBytes : Valid(SubSeq(b, 1, n))})
    IN  IF Len(b) <= MaxCellBytes THEN b
        ELSE IF cut = 0 THEN <<>>
        ELSE SubSeq(b, 1, cut) \o <<"...">>

IsCut(cell) == cell.kind = "text" /\ Len(cell.text) > MaxCellBytes

\* normalizeCellValue
Cell(cell) == IF cell.kind = "text" THEN [cell EXCEPT !.text = CutText(@)] ELSE cell

\* A row is a map: of two columns with one name the last is kept.
Row(columns, values) ==
    [name \in {columns[j] : j \in DOMAIN columns} |->
        Cell(values[Max({j \in DOMAIN columns : columns[j] = name})])]

CutRow(values) == \E j \in DOMAIN values : IsCut(values[j])

\* The float64 nearest to n, the even one of two that are as near.
Rounded(n) ==
    IF n \in -Exact .. Exact THEN n
    ELSE LET step == Min({s \in Steps : n \in -s * Exact .. s * Exact})
             q == n \div step
             r == n % step
         IN  IF 2 * r < step \/ (2 * r = step /\ q % 2 = 0) THEN q * step ELSE (q + 1) * step

\* encoding/json: a byte that is not UTF-8 becomes the replacement character, a
\* number is read back as a float64, a NaN has no encoding.
Encoded(cell) ==
    CASE cell.kind = "text" ->
            [cell EXCEPT !.text = [n \in DOMAIN @ |-> IF BadAt(@, n) THEN "?" ELSE @[n]]]
      [] cell.kind = "num"  -> [cell EXCEPT !.num = Rounded(@)]
      [] OTHER              -> cell

\* A result that cannot be encoded becomes an empty map.
ToMap(rs, cut) ==
    IF \E n \in DOMAIN rs : \E name \in DOMAIN rs[n] : rs[n][name].kind = "nan"
    THEN [status |-> "empty", rows |-> <<>>, truncated |-> FALSE]
    ELSE [status |-> "ok", truncated |-> cut,
          rows |-> [n \in DOMAIN rs |-> [name \in DOMAIN rs[n] |-> Encoded(rs[n][name])]]]

NoReply == [status |-> "none", rows |-> <<>>, truncated |-> FALSE]
Failure == [status |-> "error", rows |-> <<>>, truncated |-> FALSE]

-----------------------------------------------------------------------------
(* The row loop.                                                             *)
Init ==
    /\ table \in Tables /\ max \in Asked
    /\ pc = "loop" /\ fetched = 0 /\ broken = FALSE
    /\ rows = <<>> /\ truncated = FALSE /\ reply = NoReply

Limit == IF max <= 0 \/ max > MaxResultRows THEN MaxResultRows ELSE max

\* The row's map is made once, outside the loop.
FetchRow_Shared ==
    /\ pc = "loop" /\ fetched < Len(table.rows) /\ Len(rows) < Limit
    /\ fetched' = fetched + 1
    /\ rows' = [n \in 1 .. fetched + 1 |-> Row(table.columns, table.rows[fetched + 1])]
    /\ truncated' = (truncated \/ CutRow(table.rows[fetched + 1]))
    /\ UNCHANGED <<table, max, pc, broken, reply>>

FetchRow ==
    /\ pc = "loop" /\ fetched < Len(table.rows) /\ Len(rows) < Limit
    /\ fetched' = fetched + 1
    /\ rows' = Append(rows, Row(table.columns, table.rows[fetched + 1]))
    /\ truncated' = (truncated \/ CutRow(table.rows[fetched + 1]))
    /\ UNCHANGED <<table, max, pc, broken, reply>>

\* There is a row more than the limit.
OverLimit ==
    /\ pc = "loop" /\ fetched < Len(table.rows) /\ Len(rows) >= Limit
    /\ fetched' = fetched + 1 /\ pc' = "limit" /\ truncated' = TRUE
    /\ UNCHANGED <<table, max, broken, rows, reply>>

Exhausted ==
    /\ pc = "loop" /\ fetched = Len(table.rows)
    /\ pc' = "end"
    /\ UNCHANGED <<table, max, fetched, broken, rows, truncated, reply>>

\* The connection is lost, the deadline passes or the client goes away: Next
\* returns false, or Err reports it although the loop was left at the limit.
Interrupted ==
    /\ pc \in {"loop", "limit"} /\ ~broken
    /\ broken' = TRUE /\ pc' = "limit"
    /\ UNCHANGED <<table, max, fetched, rows, truncated, reply>>

\* rows.Columns or rows.Scan fails.
Fail ==
    /\ pc = "loop" /\ Len(rows) < Limit /\ (fetched = 0 \/ fetched < Len(table.rows))
    /\ pc' = "returned" /\ reply' = Failure
    /\ UNCHANGED <<table, max, fetched, broken, rows, truncated>>

\* rows.Err is not asked.
Return_NoErr ==
    /\ pc \in {"limit", "end"}
    /\ pc' = "returned" /\ reply' = ToMap(rows, truncated)
    /\ UNCHANGED <<table, max, fetched, broken, rows, truncated>>

Return ==
    /\ pc \in {"limit", "end"}
    /\ pc' = "returned"
    /\ reply' = IF broken THEN Failure ELSE ToMap(rows, truncated)
    /\ UNCHANGED <<table, max, fetched, broken, rows, truncated>>

Returned == pc = "returned" /\ UNCHANGED vars

Next ==
    FetchRow \/ OverLimit \/ Exhausted \/ Interrupted \/ Fail \/ Return \/ Returned

Spec == Init /\ [][Next]_vars

-----------------------------------------------------------------------------
Smaller(m, n) == IF m < n THEN m ELSE n

\* A result that is not an error has the rows of the database up to the limit,
\* and says that it is cut exactly when rows or parts of cells are missing: an
\* iteration that broke off is never passed as a complete result.
CutIsTold ==
    reply.status = "ok" =>
        /\ Len(reply.rows) = Smaller(Len(table.rows), Limit)
        /\ reply.truncated <=>
              \/ Len(table.rows) > Limit
              \/ \E n \in 1 .. Len(reply.rows) : CutRow(table.rows[n])

\* Of the columns of one name a row shows the last.
Shown(columns, j) == \A l \in DOMAIN columns : columns[l] = columns[j] => l <= j

\* The text a client is given for b: its first characters, every one whole,
\* within the limit and less than one character short of it.
WholeCharacters ==
    \A n \in DOMAIN reply.rows : \A j \in DOMAIN table.columns :
        LET stored == table.rows[n][j]
            given  == reply.rows[n][table.columns[j]].text
            kept   == Cardinality({m \in DOMAIN given : given[m] # "..."})
        IN  stored.kind = "text" /\ Valid(stored.text) /\ Shown(table.columns, j)
            => /\ \A m \in DOMAIN given : given[m] # "?"
               /\ SubSeq(given, 1, kept) = SubSeq(stored.text, 1, kept)
               /\ kept <= MaxCellBytes
               /\ kept >= Smaller(Len(stored.text), MaxCellBytes - 1)

\* The cells JSON can carry as they are: a null, a text that is UTF-8 and not too
\* long, an integer a float64 has.
Plain(cell) ==
    \/ cell.kind = "null"
    \/ cell.kind = "text" /\ Valid(cell.text) /\ Len(cell.text) <= MaxCellBytes
    \/ cell.kind = "num" /\ cell.num \in -Exact .. Exact

\* A NaN is among the cells to be given.
HasNaN ==
    \E n \in 1 .. Smaller(Len(table.rows), Limit) : \E j \in DOMAIN table.columns :
        Shown(table.columns, j) /\ table.rows[n][j].kind = "nan"

\* tools/db_query.yml 5, the rows are returned as structured JSON: unless one of
\* them has a NaN, a result that is not an error has the rows up to the limit,
\* and every plain cell is in its row, under its column's name, as the database
\* gave it, whatever the cells beside it are.
RowsDelivered ==
    /\ reply.status \in {"none", "error", "ok"} \/ HasNaN
    /\ reply.status = "ok" =>
          /\ Len(reply.rows) = Smaller(Len(table.rows), Limit)
          /\ \A n \in DOMAIN reply.rows : \A j \in DOMAIN table.columns :
                Shown(table.columns, j) /\ Plain(table.rows[n][j])
                    => reply.rows[n][table.columns[j]] = table.rows[n][j]

\* The same promise without the exception: what is not an error has the rows.
\* With a NaN in a cell it does not hold, and the client is not told.
RowsReturned ==
    reply.status \notin {"none", "error"} =>
        reply.status = "ok" /\ Len(reply.rows) = Smaller(Len(table.rows), Limit)
=============================================================================
