--------------------------- MODULE QueryResultProofs ---------------------------
(***************************************************************************)
(* Theorems about QueryResult, for every table, row limit, cell limit and  *)
(* set of arguments.                                                       *)
(***************************************************************************)
EXTENDS QueryResult, SequenceFacts

\* A cell of one of the first n rows is cut.
CutUpTo(n) == \E m \in 1 .. n : CutRow(table.rows[m])

RowSet == {Row(table.columns, table.rows[n]) : n \in DOMAIN table.rows}

ResultTypes ==
    /\ table \in Tables /\ max \in Asked
    /\ pc \in {"loop", "limit", "end", "returned"}
    /\ fetched \in Nat /\ broken \in BOOLEAN /\ truncated \in BOOLEAN
    /\ rows \in Seq(RowSet)

\* In the loop the rows are those fetched so far, and none is missing.
Complete ==
    /\ ~broken /\ Len(rows) <= Limit /\ Len(rows) <= Len(table.rows)
    /\ truncated <=> CutUpTo(Len(rows))

RowLoop ==
    /\ pc = "loop" => Complete /\ fetched = Len(rows)
    /\ pc = "end"  => Complete /\ Len(rows) = Len(table.rows)
    /\ pc = "limit" /\ ~broken => Len(rows) = Limit /\ Limit < Len(table.rows) /\ truncated

ResultInv == ResultTypes /\ RowLoop /\ CutIsTold

LEMMA LimitType == ResultTypes => Limit \in Nat \ {0} /\ Len(table.rows) \in Nat
BY ResultAssumption DEF ResultTypes, Limit

\* What ToMap makes of rows, if it makes anything of them, has as many rows and
\* the same mark.
LEMMA ToMapKeeps ==
    ASSUME NEW S, NEW rs \in Seq(S), NEW cut, ToMap(rs, cut).status = "ok"
    PROVE  Len(ToMap(rs, cut).rows) = Len(rs) /\ ToMap(rs, cut).truncated = cut
<1> DEFINE Out == [n \in DOMAIN rs |-> [name \in DOMAIN rs[n] |-> Encoded(rs[n][name])]]
<1>1. ToMap(rs, cut) = [status |-> "ok", truncated |-> cut, rows |-> Out]
  BY DEF ToMap
<1>2. Len(rs) \in Nat /\ DOMAIN rs = 1 .. Len(rs)
  BY LenProperties
<1>3. Len(Out) = Len(rs)
  <2> HIDE DEF Out
  <2>1. Out = [n \in 1 .. Len(rs) |-> Out[n]]
    BY <1>2 DEF Out
  <2> QED BY <2>1, <1>2, LengthOf
<1> QED BY <1>1, <1>3

LEMMA InitResult == Init => ResultInv
<1> SUFFICES ASSUME Init PROVE ResultInv
  OBVIOUS
<1>1. ResultTypes
  <2>1. rows \in Seq(RowSet)
    BY EmptySeq DEF Init
  <2> QED BY <2>1 DEF Init, ResultTypes
<1>2. Len(rows) = 0
  BY EmptySeq DEF Init
<1>3. RowLoop
  BY <1>1, <1>2, LimitType DEF Init, RowLoop, Complete, CutUpTo
<1>4. CutIsTold
  BY DEF Init, CutIsTold, NoReply
<1> QED BY <1>1, <1>3, <1>4 DEF ResultInv

LEMMA FetchKeeps == ASSUME ResultInv, FetchRow PROVE ResultInv'
<1> DEFINE row == Row(table.columns, table.rows[fetched + 1])
<1>1. /\ table \in Tables /\ fetched \in Nat /\ rows \in Seq(RowSet)
      /\ pc = "loop" /\ fetched = Len(rows) /\ fetched < Len(table.rows) /\ Len(rows) < Limit
      /\ Complete /\ rows' = Append(rows, row)
      /\ UNCHANGED <<table, max, pc, broken, reply>>
  BY DEF ResultInv, ResultTypes, RowLoop, FetchRow
<1>2. Len(table.rows) \in Nat /\ Limit \in Nat /\ DOMAIN table.rows = 1 .. Len(table.rows)
  BY <1>1, LimitType, ResultAssumption DEF ResultInv
<1>3. row \in RowSet /\ RowSet' = RowSet
  BY <1>1, <1>2 DEF RowSet
<1>4. rows' \in Seq(RowSet') /\ Len(rows') = Len(rows) + 1
  <2> HIDE DEF row
  <2> QED BY <1>1, <1>3, AppendProperties
<1>5. ResultTypes'
  BY <1>1, <1>4 DEF ResultInv, ResultTypes, FetchRow
<1>6. Limit' = Limit
  BY <1>1 DEF Limit
<1>7. truncated' <=> CutUpTo(Len(rows))'
  <2>1. truncated' <=> CutUpTo(Len(rows)) \/ CutRow(table.rows[fetched + 1])
    BY <1>1 DEF FetchRow, Complete, ResultInv, ResultTypes
  <2>2. CutUpTo(Len(rows))' <=> \E m \in 1 .. Len(rows) + 1 : CutRow(table.rows[m])
    BY <1>1, <1>4 DEF CutUpTo, CutRow, IsCut
  <2>3. Len(rows) \in Nat /\ Len(rows) + 1 = fetched + 1
    BY <1>1
  <2>4. 1 .. Len(rows) + 1 = (1 .. Len(rows)) \cup {Len(rows) + 1}
    BY <2>3
  <2> QED BY <2>1, <2>2, <2>3, <2>4 DEF CutUpTo
<1>8. RowLoop'
  <2>1. Len(rows') <= Limit' /\ Len(rows') <= Len(table.rows') /\ ~broken'
    BY <1>1, <1>2, <1>4, <1>6 DEF Complete
  <2>2. fetched' = Len(rows')
    BY <1>1, <1>4 DEF FetchRow
  <2> QED BY <1>1, <1>7, <2>1, <2>2 DEF RowLoop, Complete
<1>9. CutIsTold'
  BY <1>1, <1>6 DEF ResultInv, CutIsTold, Smaller, CutRow, IsCut
<1> QED BY <1>5, <1>8, <1>9 DEF ResultInv

\* A step that leaves the rows, the table and the argument alone.
LEMMA SameRows ==
    ASSUME UNCHANGED <<table, max, rows>>
    PROVE  /\ RowSet' = RowSet /\ Limit' = Limit
           /\ truncated' = truncated /\ broken' = broken => (Complete' <=> Complete)
           /\ UNCHANGED reply => (CutIsTold' <=> CutIsTold)
BY DEF RowSet, Limit, Complete, CutUpTo, CutIsTold, Smaller, CutRow, IsCut, Row, Cell, CutText

\* The loop is left, or goes wrong, before anything is returned.
LEMMA LeaveKeeps ==
    ASSUME ResultInv, OverLimit \/ Exhausted \/ Interrupted \/ Fail
    PROVE  ResultInv'
<1>1. UNCHANGED <<table, max, rows>>
  BY DEF OverLimit, Exhausted, Interrupted, Fail
<1>2. ResultTypes'
  <2>1. RowSet' = RowSet
    BY <1>1, SameRows
  <2>2. fetched' \in Nat
    BY DEF ResultInv, ResultTypes, OverLimit, Exhausted, Interrupted, Fail
  <2>3. broken' \in BOOLEAN /\ truncated' \in BOOLEAN
    BY Zenon DEF ResultInv, ResultTypes, OverLimit, Exhausted, Interrupted, Fail
  <2>4. pc' \in {"loop", "limit", "end", "returned"}
    BY DEF OverLimit, Exhausted, Interrupted, Fail
  <2> QED BY <1>1, <2>1, <2>2, <2>3, <2>4 DEF ResultInv, ResultTypes
<1>3. RowLoop'
  <2>1. CASE OverLimit
    <3>1. Len(rows) = Limit /\ Limit < Len(table.rows)
      BY <2>1, LimitType, LenProperties DEF ResultInv, ResultTypes, RowLoop, Complete, OverLimit
    <3> QED BY <2>1, <3>1, <1>1, SameRows DEF RowLoop, OverLimit
  <2>2. CASE Exhausted
    BY <2>2, <1>1, SameRows DEF ResultInv, RowLoop, Exhausted
  <2>3. CASE Interrupted
    BY <2>3 DEF ResultInv, ResultTypes, RowLoop, Interrupted
  <2>4. CASE Fail
    BY <2>4 DEF RowLoop, Fail
  <2> QED BY <2>1, <2>2, <2>3, <2>4
<1>4. CutIsTold'
  <2>1. CASE Fail
    BY <2>1 DEF Fail, Failure, CutIsTold
  <2>2. CASE OverLimit \/ Exhausted \/ Interrupted
    BY <2>2, <1>1, SameRows DEF ResultInv, OverLimit, Exhausted, Interrupted
  <2> QED BY <2>1, <2>2
<1> QED BY <1>2, <1>3, <1>4 DEF ResultInv

LEMMA ReturnKeeps == ASSUME ResultInv, Return PROVE ResultInv'
<1>1. UNCHANGED <<table, max, rows, fetched, broken, truncated>> /\ pc' = "returned"
  BY DEF Return
<1>2. ResultTypes'
  BY <1>1, SameRows DEF ResultInv, ResultTypes
<1>3. RowLoop'
  BY <1>1 DEF RowLoop
<1>4. CutIsTold'
  <2>1. SUFFICES ASSUME reply'.status = "ok" PROVE CutIsTold'
    BY DEF CutIsTold
  <2>2. ~broken /\ reply' = ToMap(rows, truncated)
    BY <2>1 DEF Return, Failure
  <2>3. Len(reply'.rows) = Len(rows) /\ reply'.truncated = truncated
    BY <2>1, <2>2, ToMapKeeps DEF ResultInv, ResultTypes
  <2>4. Len(rows) \in Nat /\ Len(table.rows) \in Nat /\ Limit \in Nat
    BY LimitType, LenProperties DEF ResultInv, ResultTypes
  <2>5. CASE pc = "end"
    <3>1. /\ Len(rows) = Len(table.rows) /\ Len(rows) <= Limit
          /\ truncated <=> CutUpTo(Len(rows))
      BY <2>5 DEF ResultInv, RowLoop, Complete
    <3>2. Len(rows) = Smaller(Len(table.rows), Limit) /\ ~(Len(table.rows) > Limit)
      BY <2>4, <3>1 DEF Smaller
    <3> QED BY <1>1, <2>3, <3>1, <3>2, SameRows DEF CutIsTold, CutUpTo, Smaller, CutRow, IsCut
  <2>6. CASE pc = "limit"
    <3>1. Len(rows) = Limit /\ Limit < Len(table.rows) /\ truncated
      BY <2>2, <2>6 DEF ResultInv, RowLoop
    <3>2. Len(rows) = Smaller(Len(table.rows), Limit) /\ Len(table.rows) > Limit
      BY <2>4, <3>1 DEF Smaller
    <3> QED BY <1>1, <2>3, <3>1, <3>2, SameRows DEF CutIsTold, Smaller
  <2> QED BY <2>5, <2>6 DEF Return
<1> QED BY <1>2, <1>3, <1>4 DEF ResultInv

LEMMA StepKeeps == ResultInv /\ [Next]_vars => ResultInv'
<1> SUFFICES ASSUME ResultInv, [Next]_vars PROVE ResultInv'
  OBVIOUS
<1>1. CASE UNCHANGED vars
  <2>1. ResultTypes' /\ CutIsTold'
    BY <1>1, SameRows DEF vars, ResultInv, ResultTypes
  <2>2. RowLoop'
    BY <1>1, SameRows DEF vars, ResultInv, RowLoop
  <2> QED BY <2>1, <2>2 DEF ResultInv
<1>2. CASE Next
  BY <1>1, <1>2, FetchKeeps, LeaveKeeps, ReturnKeeps DEF Next, Returned
<1> QED BY <1>1, <1>2

\* Whatever the table, the limits and the moment a row iteration breaks off, a
\* result that is not an error has the rows up to the limit and is marked as
\* truncated exactly when rows or parts of cells are missing.
THEOREM TruncationIsTold == Spec => []CutIsTold
<1>1. Spec => []ResultInv
  BY InitResult, StepKeeps, PTL DEF Spec
<1>2. ResultInv => CutIsTold
  BY DEF ResultInv
<1> QED BY <1>1, <1>2, PTL

-----------------------------------------------------------------------------
(* Cells                                                                     *)

\* In a text that is UTF-8 a truncation at the limit or one byte before it is
\* between two characters.
LEMMA CutIs ==
    ASSUME NEW b \in Seq(Bytes), Valid(b), Len(b) > MaxCellBytes
    PROVE  \E cut \in Nat :
              /\ cut <= MaxCellBytes /\ cut >= MaxCellBytes - 1
              /\ Valid(SubSeq(b, 1, cut))
              /\ CutText(b) = IF cut = 0 THEN <<>> ELSE SubSeq(b, 1, cut) \o <<"...">>
<1> DEFINE M == MaxCellBytes
           S == {0} \cup {n \in 1 .. M : Valid(SubSeq(b, 1, n))}
<1>1. /\ M \in Nat \ {0} /\ Len(b) \in Nat /\ DOMAIN b = 1 .. Len(b)
      /\ \A i \in 1 .. Len(b) : b[i] \in Bytes
  BY ResultAssumption, LenProperties
<1>2. ASSUME NEW n \in 0 .. M
      PROVE  /\ SubSeq(b, 1, n) \in Seq(Bytes) /\ Len(SubSeq(b, 1, n)) = n
             /\ DOMAIN SubSeq(b, 1, n) = 1 .. n
             /\ \A i \in 1 .. n : SubSeq(b, 1, n)[i] = b[i]
  <2>1. n \in Int /\ 1 \in Int /\ \A i \in 1 .. n : b[i] \in Bytes
    BY <1>1, <1>2
  <2>2. /\ SubSeq(b, 1, n) \in Seq(Bytes)
        /\ Len(SubSeq(b, 1, n)) = IF 1 <= n THEN n - 1 + 1 ELSE 0
        /\ \A i \in 1 .. n - 1 + 1 : SubSeq(b, 1, n)[i] = b[1 + i - 1]
    BY <2>1, SubSeqProperties
  <2> QED BY <2>2, <1>2, LenProperties
<1>3. Valid(SubSeq(b, 1, 0))
  BY <1>1, <1>2 DEF Valid
<1>4. M \in S \/ M - 1 \in S
  <2>1. CASE b[M] = "L"
    <3>1. M > 1 => b[M - 1] # "L"
      <4>1. ASSUME M > 1, b[M - 1] = "L" PROVE FALSE
        <5>1. M - 1 \in DOMAIN b /\ (M - 1) + 1 = M
          BY <1>1, <4>1
        <5>2. ~BadAt(b, M - 1)
          BY <5>1 DEF Valid
        <5> QED BY <2>1, <4>1, <5>1, <5>2 DEF BadAt
      <4> QED BY <4>1
    <3>2. Valid(SubSeq(b, 1, M - 1))
      BY <1>1, <1>2, <3>1 DEF Valid, BadAt
    <3> QED BY <1>1, <3>2
  <2>2. CASE b[M] # "L"
    <3>1. Valid(SubSeq(b, 1, M))
      BY <1>1, <1>2, <2>2 DEF Valid, BadAt
    <3> QED BY <1>1, <3>1
  <2> QED BY <2>1, <2>2
<1>5. S \subseteq 0 .. M
  BY <1>1
<1>6. \E x \in S : (\A y \in S : x >= y) /\ x >= M - 1
  BY <1>1, <1>4, <1>5
<1>7. Max(S) \in S /\ \A y \in S : Max(S) >= y
  BY <1>6 DEF Max
<1>8. Max(S) \in 0 .. M /\ Max(S) >= M - 1
  BY <1>1, <1>4, <1>5, <1>7
<1>9. Valid(SubSeq(b, 1, Max(S)))
  BY <1>3, <1>7
<1>10. CutText(b) = IF Max(S) = 0 THEN <<>> ELSE SubSeq(b, 1, Max(S)) \o <<"...">>
  BY <1>1 DEF CutText
<1> HIDE DEF S
<1>11. Max(S) \in Nat
  BY <1>1, <1>8
<1> QED BY <1>8, <1>9, <1>10, <1>11

\* A text that is UTF-8 and short enough passes as it is.
LEMMA ShortText ==
    ASSUME NEW cell \in Cells, cell.kind = "text", Valid(cell.text), ~IsCut(cell)
    PROVE  Encoded(Cell(cell)) = cell
<1>1. cell.text \in Seq(Bytes) /\ Len(cell.text) <= MaxCellBytes
  BY ResultAssumption, LenProperties DEF Cells, IsCut
<1>2. CutText(cell.text) = cell.text
  BY <1>1 DEF CutText
<1>3. cell = [kind |-> cell.kind, text |-> cell.text, num |-> cell.num]
  BY DEF Cells
<1>4. Cell(cell) = cell
  BY <1>2, <1>3 DEF Cell, Cells
<1>5. [n \in DOMAIN cell.text |-> IF BadAt(cell.text, n) THEN "?" ELSE cell.text[n]] = cell.text
  BY <1>1, LenProperties DEF Valid
<1>6. Encoded(cell) = [cell EXCEPT !.text = cell.text]
  BY <1>5 DEF Encoded
<1> QED BY <1>4, <1>6 DEF Cells

\* What a client is given for a text longer than the limit: the bytes up to the
\* cut and the mark.
LEMMA LongText ==
    ASSUME NEW cell \in Cells, cell.kind = "text", Valid(cell.text), IsCut(cell)
    PROVE  \E cut \in Nat :
              LET given == Encoded(Cell(cell)).text
              IN  /\ cut <= MaxCellBytes /\ cut >= MaxCellBytes - 1
                  /\ \/ cut = 0 /\ given = <<>>
                     \/ /\ given \in [1 .. cut + 1 -> Bytes \cup {"..."}]
                        /\ given[cut + 1] = "..."
                        /\ \A n \in 1 .. cut : given[n] = cell.text[n]
<1> DEFINE b == cell.text
           t == CutText(b)
           given == Encoded(Cell(cell)).text
<1>1. b \in Seq(Bytes) /\ Len(b) > MaxCellBytes /\ MaxCellBytes \in Nat
  BY ResultAssumption DEF Cells, IsCut
<1>2. PICK cut \in Nat :
              /\ cut <= MaxCellBytes /\ cut >= MaxCellBytes - 1
              /\ Valid(SubSeq(b, 1, cut))
              /\ t = IF cut = 0 THEN <<>> ELSE SubSeq(b, 1, cut) \o <<"...">>
  BY <1>1, CutIs
<1>3. given = [n \in DOMAIN t |-> IF BadAt(t, n) THEN "?" ELSE t[n]]
  <2>1. Cell(cell) = [cell EXCEPT !.text = t]
    BY DEF Cell
  <2>2. Cell(cell).kind = "text" /\ Cell(cell).text = t /\ Cell(cell) = [kind |-> "text", text |-> t, num |-> cell.num]
    BY <2>1 DEF Cells
  <2> HIDE DEF t
  <2>3. Encoded(Cell(cell)) = [Cell(cell) EXCEPT !.text = [n \in DOMAIN t |-> IF BadAt(t, n) THEN "?" ELSE t[n]]]
    BY <2>2 DEF Encoded
  <2> QED BY <2>2, <2>3
<1>4. CASE cut = 0
  <2>1. t = <<>> /\ DOMAIN t = {}
    BY <1>2, <1>4
  <2>2. given = <<>>
    BY <1>3, <2>1
  <2> QED BY <1>2, <1>4, <2>2
<1>5. CASE cut # 0
  <2> DEFINE s == SubSeq(b, 1, cut)
             B == Bytes \cup {"..."}
  <2>1. /\ s \in Seq(Bytes) /\ Len(s) = cut /\ \A i \in 1 .. cut : s[i] = b[i] /\ b[i] \in Bytes
    <3>1. cut \in Int /\ 1 \in Int /\ cut <= Len(b) /\ Len(b) \in Nat
      BY <1>1, <1>2, LenProperties
    <3>2. \A i \in 1 .. cut : b[i] \in Bytes
      BY <1>1, <3>1, LenProperties
    <3>3. /\ s \in Seq(Bytes)
          /\ Len(s) = IF 1 <= cut THEN cut - 1 + 1 ELSE 0
          /\ \A i \in 1 .. cut - 1 + 1 : s[i] = b[1 + i - 1]
      BY <3>1, <3>2, SubSeqProperties
    <3> QED BY <1>5, <3>2, <3>3
  <2>2. s \in Seq(B) /\ <<"...">> \in Seq(B) /\ Len(<<"...">>) = 1 /\ <<"...">>[1] = "..."
    <3>1. s \in Seq(B)
      <4> HIDE DEF s
      <4> QED BY <2>1, SeqMonotonic
    <3> QED BY <3>1
  <2>3. t = s \o <<"...">>
    BY <1>2, <1>5
  <2>4. /\ t \in Seq(B) /\ Len(t) = cut + 1
        /\ \A i \in 1 .. cut + 1 : t[i] = IF i <= cut THEN s[i] ELSE <<"...">>[i - cut]
    <3> HIDE DEF s, t
    <3> QED BY <2>1, <2>2, <2>3, ConcatProperties
  <2>5. /\ DOMAIN t = 1 .. cut + 1 /\ t[cut + 1] = "..."
        /\ \A i \in 1 .. cut : t[i] = b[i] /\ t[i] = s[i] /\ t[i] \in Bytes
    <3> HIDE DEF s, t
    <3> QED BY <2>1, <2>2, <2>4, <1>5, LenProperties
  <2>6. \A n \in 1 .. cut + 1 : ~BadAt(t, n)
    <3>1. \A n \in 1 .. cut : ~BadAt(s, n)
      BY <1>2, <2>1, LenProperties DEF Valid
    <3> HIDE DEF s, t
    <3>2. ~BadAt(t, cut + 1)
      BY <2>5 DEF BadAt
    <3>3. ASSUME NEW n \in 1 .. cut, BadAt(t, n) PROVE FALSE
      <4>1. /\ n + 1 \in 1 .. cut + 1 /\ t[n] = s[n] /\ n < Len(t)
            /\ n < cut => n + 1 \in 1 .. cut /\ t[n + 1] = s[n + 1]
            /\ n > 1 => n - 1 \in 1 .. cut /\ t[n - 1] = s[n - 1]
        BY <2>4, <2>5
      <4>2. ~BadAt(s, n)
        BY <3>1
      <4> QED BY <2>1, <3>3, <4>1, <4>2 DEF BadAt
    <3>4. \A n \in 1 .. cut + 1 : n \in 1 .. cut \/ n = cut + 1
      OBVIOUS
    <3> QED BY <3>2, <3>3, <3>4
  <2>7. given = [n \in 1 .. cut + 1 |-> t[n]]
    <3> HIDE DEF s, t, given
    <3> QED BY <1>3, <2>5, <2>6
  <2>8. given \in [1 .. cut + 1 -> B]
    <3> HIDE DEF s, t, given
    <3> QED BY <2>5, <2>7
  <2> HIDE DEF s, t, given
  <2>9. given[cut + 1] = "..." /\ \A n \in 1 .. cut : given[n] = b[n]
    BY <1>2, <2>5, <2>7
  <2> QED BY <1>2, <2>8, <2>9 DEF given
<1> QED BY <1>4, <1>5

\* Of the columns of one name, the row's map holds the cell of the last.
LEMMA OwnCell ==
    ASSUME NEW columns, NEW values, NEW j \in DOMAIN columns, DOMAIN columns \subseteq Int,
           Shown(columns, j)
    PROVE  /\ columns[j] \in DOMAIN Row(columns, values)
           /\ Row(columns, values)[columns[j]] = Cell(values[j])
<1> DEFINE S == {l \in DOMAIN columns : columns[l] = columns[j]}
<1>1. j \in S /\ S \subseteq Int /\ \A l \in S : j >= l
  BY DEF Shown
<1>2. Max(S) = j
  <2> HIDE DEF S
  <2> QED BY <1>1 DEF Max
<1>3. Row(columns, values) =
        [name \in {columns[l] : l \in DOMAIN columns} |->
            Cell(values[Max({l \in DOMAIN columns : columns[l] = name})])]
  BY DEF Row
<1> QED BY <1>2, <1>3

\* Every name of the map is that of a column, and there is a last one of it.
LEMMA LastColumn ==
    ASSUME NEW columns, NEW N \in Nat, DOMAIN columns = 1 .. N, NEW values,
           NEW name \in DOMAIN Row(columns, values)
    PROVE  \E j \in DOMAIN columns : columns[j] = name /\ Shown(columns, j)
<1> DEFINE R == {k \in 0 .. N - 1 : columns[N - k] = name}
<1>1. PICK i \in DOMAIN columns : columns[i] = name
  BY DEF Row
<1>2. N - i \in R /\ R \in SUBSET Nat
  BY <1>1
<1>3. PICK k \in R : \A m \in R : k <= m
  <2> HIDE DEF R
  <2> QED BY <1>2, Least
<1>4. N - k \in DOMAIN columns /\ columns[N - k] = name
  BY <1>3
<1>5. ASSUME NEW l \in DOMAIN columns, columns[l] = name PROVE l <= N - k
  <2>1. N - l \in R /\ l \in 1 .. N
    BY <1>5
  <2>2. k <= N - l /\ k \in 0 .. N - 1
    BY <1>3, <2>1
  <2> QED BY <2>1, <2>2
<1> QED BY <1>4, <1>5 DEF Shown

-----------------------------------------------------------------------------
(* What the client is given.                                                 *)

\* The rows collected are those of the database from the first on, and no more
\* than were asked for.
Collected ==
    /\ Len(rows) <= Len(table.rows) /\ Len(rows) <= Limit
    /\ \A n \in 1 .. Len(rows) : rows[n] = Row(table.columns, table.rows[n])

\* The reply is made of the rows collected, with one decision.
Replied ==
    \/ reply = NoReply \/ reply = Failure
    \/ pc = "returned" /\ reply = ToMap(rows, truncated)

DeliverInv == ResultInv /\ Collected /\ Replied

LEMMA InitDeliver == Init => DeliverInv
<1> SUFFICES ASSUME Init PROVE DeliverInv
  OBVIOUS
<1>1. ResultInv
  BY InitResult
<1>2. Len(rows) = 0 /\ Len(table.rows) \in Nat
  BY <1>1, LimitType, EmptySeq DEF Init, ResultInv
<1>3. Limit \in Nat
  BY <1>1, LimitType DEF ResultInv
<1> QED BY <1>1, <1>2, <1>3 DEF DeliverInv, Collected, Replied, Init

LEMMA StepDelivers == DeliverInv /\ [Next]_vars => DeliverInv'
<1> SUFFICES ASSUME DeliverInv, [Next]_vars PROVE DeliverInv'
  OBVIOUS
<1>1. ResultInv /\ ResultInv'
  BY StepKeeps DEF DeliverInv
<1>2. CASE FetchRow
  <2> DEFINE row == Row(table.columns, table.rows[fetched + 1])
  <2>1. /\ rows \in Seq(RowSet) /\ fetched = Len(rows) /\ fetched < Len(table.rows)
        /\ table \in Tables /\ fetched \in Nat /\ pc = "loop" /\ pc' = pc
        /\ rows' = Append(rows, row) /\ UNCHANGED <<table, max, reply>>
        /\ Len(rows) < Limit /\ Limit \in Nat
    BY <1>1, <1>2, LimitType DEF ResultInv, ResultTypes, RowLoop, FetchRow
  <2>2. Len(table.rows) \in Nat /\ DOMAIN table.rows = 1 .. Len(table.rows)
    BY <2>1, ResultAssumption
  <2>3. row \in RowSet
    BY <2>1, <2>2 DEF RowSet
  <2>4. /\ Len(rows') = Len(rows) + 1 /\ rows'[Len(rows) + 1] = row
        /\ \A n \in 1 .. Len(rows) : rows'[n] = rows[n]
    <3> HIDE DEF row
    <3> QED BY <2>1, <2>3, AppendProperties
  <2>5. Collected'
    <3>1. Len(rows') <= Len(table'.rows) /\ Len(rows') <= Limit'
      <4>1. Limit' = Limit /\ Len(rows) \in Nat
        BY <2>1, LenProperties DEF Limit
      <4> QED BY <2>1, <2>2, <2>4, <4>1
    <3>2. ASSUME NEW n \in 1 .. Len(rows') PROVE rows'[n] = Row(table.columns, table.rows[n])
      <4>1. CASE n \in 1 .. Len(rows)
        BY <4>1, <2>4 DEF DeliverInv, Collected
      <4>2. CASE n = Len(rows) + 1
        BY <4>2, <2>1, <2>4
      <4> QED BY <4>1, <4>2, <2>1, <2>4
    <3> QED BY <3>1, <3>2, <2>1 DEF Collected
  <2>6. Replied'
    BY <2>1 DEF DeliverInv, Replied
  <2> QED BY <1>1, <2>5, <2>6 DEF DeliverInv
<1>3. CASE UNCHANGED <<table, max, rows>>
  <2>1. Collected'
    BY <1>3 DEF DeliverInv, Collected, Limit
  <2>2. CASE UNCHANGED reply /\ pc # "returned"
    BY <1>1, <2>1, <2>2 DEF DeliverInv, Replied
  <2>3. CASE UNCHANGED <<reply, pc, truncated>>
    BY <1>1, <1>3, <2>1, <2>3 DEF DeliverInv, Replied
  <2>4. CASE Fail
    BY <1>1, <2>1, <2>4 DEF DeliverInv, Replied, Fail
  <2>5. CASE Return
    BY <1>1, <2>1, <2>5 DEF DeliverInv, Replied, Return
  <2> QED BY <2>2, <2>3, <2>4, <2>5 DEF Next, FetchRow, OverLimit, Exhausted, Interrupted, Returned, vars
<1> QED BY <1>2, <1>3 DEF Next, OverLimit, Exhausted, Interrupted, Fail, Return, Returned, vars

\* A row of a reply: each cell of it is the encoding of the one collected.
LEMMA GivenRow ==
    ASSUME DeliverInv, NEW n \in DOMAIN reply.rows
    PROVE  /\ n \in 1 .. Len(rows) /\ n \in DOMAIN table.rows /\ reply.status = "ok"
           /\ rows[n] = Row(table.columns, table.rows[n])
           /\ \A name \in DOMAIN rows[n] : reply.rows[n][name] = Encoded(rows[n][name])
<1> DEFINE Out == [m \in DOMAIN rows |-> [name \in DOMAIN rows[m] |-> Encoded(rows[m][name])]]
<1>1. DOMAIN NoReply.rows = {} /\ DOMAIN Failure.rows = {}
  BY DEF NoReply, Failure
<1>2. reply = ToMap(rows, truncated)
  BY <1>1 DEF DeliverInv, Replied
<1>3. reply = [status |-> "ok", truncated |-> truncated, rows |-> Out]
  BY <1>2 DEF ToMap
<1>4. rows \in Seq(RowSet) /\ DOMAIN rows = 1 .. Len(rows)
  BY LenProperties DEF DeliverInv, ResultInv, ResultTypes
<1>5. n \in 1 .. Len(rows) /\ reply.rows[n] = [name \in DOMAIN rows[n] |-> Encoded(rows[n][name])]
  <2> HIDE DEF Out
  <2>1. n \in DOMAIN Out
    BY <1>3
  <2> QED BY <1>3, <1>4, <2>1 DEF Out
<1>6. Len(rows) \in Nat /\ Len(rows) <= Len(table.rows) /\ Len(table.rows) \in Nat
      /\ DOMAIN table.rows = 1 .. Len(table.rows)
  BY <1>4, LenProperties, LimitType, ResultAssumption DEF DeliverInv, ResultInv, ResultTypes, Collected
<1> QED BY <1>3, <1>5, <1>6 DEF DeliverInv, Collected

\* A cell of a reply, of the last column of its name.
LEMMA GivenCell ==
    ASSUME DeliverInv, NEW n \in DOMAIN reply.rows, NEW j \in DOMAIN table.columns,
           Shown(table.columns, j)
    PROVE  /\ table.rows[n][j] \in Cells
           /\ reply.rows[n][table.columns[j]] = Encoded(Cell(table.rows[n][j]))
<1>1. table \in Tables /\ n \in DOMAIN table.rows /\ rows[n] = Row(table.columns, table.rows[n])
  BY GivenRow DEF DeliverInv, ResultInv, ResultTypes
<1>2. DOMAIN table.columns \subseteq Int /\ table.rows[n] \in [DOMAIN table.columns -> Cells]
  BY <1>1, ResultAssumption
<1>3. /\ table.columns[j] \in DOMAIN rows[n]
      /\ rows[n][table.columns[j]] = Cell(table.rows[n][j])
  BY <1>1, <1>2, OwnCell
<1>4. reply.rows[n][table.columns[j]] = Encoded(rows[n][table.columns[j]])
  BY <1>3, GivenRow
<1> QED BY <1>2, <1>3, <1>4

LEMMA CharactersWhole == DeliverInv => WholeCharacters
<1> SUFFICES ASSUME DeliverInv,
                    NEW n \in DOMAIN reply.rows, NEW j \in DOMAIN table.columns,
                    table.rows[n][j].kind = "text", Valid(table.rows[n][j].text),
                    Shown(table.columns, j)
             PROVE  LET given == reply.rows[n][table.columns[j]].text
                        kept  == Cardinality({m \in DOMAIN given : given[m] # "..."})
                        b     == table.rows[n][j].text
                    IN  /\ \A m \in DOMAIN given : given[m] # "?"
                        /\ SubSeq(given, 1, kept) = SubSeq(b, 1, kept)
                        /\ kept <= MaxCellBytes /\ kept >= Smaller(Len(b), MaxCellBytes - 1)
  BY DEF WholeCharacters
<1> DEFINE cell  == table.rows[n][j]
           b     == cell.text
           given == reply.rows[n][table.columns[j]].text
           KeptSet == {m \in DOMAIN given : given[m] # "..."}
           kept  == Cardinality(KeptSet)
<1>1. cell \in Cells /\ given = Encoded(Cell(cell)).text /\ cell.kind = "text" /\ Valid(b)
  BY GivenCell
<1>2. /\ b \in Seq(Bytes) /\ Len(b) \in Nat /\ DOMAIN b = 1 .. Len(b)
      /\ \A i \in 1 .. Len(b) : b[i] \in Bytes
      /\ MaxCellBytes \in Nat \ {0}
  <2>1. b \in Seq(Bytes)
    BY <1>1 DEF Cells
  <2> HIDE DEF b
  <2> QED BY <2>1, ResultAssumption, LenProperties
<1> HIDE DEF cell, given
<1>3. CASE ~IsCut(cell)
  <2>1. given = b /\ Len(b) <= MaxCellBytes
    BY <1>1, <1>3, <1>2, ShortText DEF IsCut
  <2>2. KeptSet = 1 .. Len(b) /\ \A m \in DOMAIN given : given[m] # "?"
    BY <1>2, <2>1 DEF Bytes
  <2>3. kept = Len(b)
    <3>1. Cardinality(1 .. Len(b)) = IF 1 > Len(b) THEN 0 ELSE Len(b) - 1 + 1
      <4>1. 1 \in Int /\ Len(b) \in Int
        BY <1>2
      <4> HIDE DEF b
      <4> QED BY <4>1, FS_Interval
    <3> HIDE DEF KeptSet
    <3> QED BY <2>2, <1>2, <3>1
  <2>4. kept <= MaxCellBytes /\ kept >= Smaller(Len(b), MaxCellBytes - 1)
    <3> HIDE DEF kept, b
    <3> QED BY <1>2, <2>1, <2>3 DEF Smaller
  <2>5. SubSeq(given, 1, kept) = SubSeq(b, 1, kept)
    <3> HIDE DEF kept, b
    <3> QED BY <2>1
  <2> HIDE DEF kept
  <2> QED BY <2>2, <2>4, <2>5 DEF cell, given, kept
<1>4. CASE IsCut(cell)
  <2>1. PICK cut \in Nat :
           /\ cut <= MaxCellBytes /\ cut >= MaxCellBytes - 1
           /\ \/ cut = 0 /\ given = <<>>
              \/ /\ given \in [1 .. cut + 1 -> Bytes \cup {"..."}]
                 /\ given[cut + 1] = "..."
                 /\ \A m \in 1 .. cut : given[m] = b[m]
    BY <1>1, <1>4, LongText
  <2>2. Len(b) > MaxCellBytes
    BY <1>4 DEF IsCut
  <2>3. KeptSet = 1 .. cut /\ \A m \in DOMAIN given : given[m] # "?"
    <3>1. CASE cut = 0 /\ given = <<>>
      BY <3>1
    <3>2. CASE /\ given \in [1 .. cut + 1 -> Bytes \cup {"..."}]
               /\ given[cut + 1] = "..."
               /\ \A m \in 1 .. cut : given[m] = b[m]
      <4>1. /\ DOMAIN given = 1 .. cut + 1 /\ given[cut + 1] = "..."
            /\ \A m \in 1 .. cut + 1 : m \in 1 .. cut \/ m = cut + 1
        BY <3>2
      <4>2. cut <= Len(b)
        BY <1>2, <2>1, <2>2
      <4>3. \A m \in 1 .. cut : given[m] \in Bytes /\ m \in 1 .. cut + 1
        BY <1>2, <3>2, <4>2
      <4>4. "..." \notin Bytes /\ "?" \notin Bytes /\ "?" # "..."
        BY DEF Bytes
      <4>5. cut + 1 \notin 1 .. cut
        OBVIOUS
      <4> HIDE DEF b
      <4> QED BY <4>1, <4>3, <4>4, <4>5
    <3> QED BY <3>1, <3>2, <2>1
  <2>4. kept = cut
    <3>1. Cardinality(1 .. cut) = IF 1 > cut THEN 0 ELSE cut - 1 + 1
      BY FS_Interval
    <3> HIDE DEF KeptSet
    <3> QED BY <2>3, <3>1
  <2>5. SubSeq(given, 1, cut) = SubSeq(b, 1, cut)
    <3>1. \A m \in 1 .. cut : given[m] = b[m] /\ b[m] \in Bytes
      BY <1>2, <2>1, <2>2
    <3>2. /\ SubSeq(given, 1, cut) \in Seq(Bytes) /\ SubSeq(b, 1, cut) \in Seq(Bytes)
          /\ Len(SubSeq(given, 1, cut)) = IF 1 <= cut THEN cut - 1 + 1 ELSE 0
          /\ Len(SubSeq(b, 1, cut)) = IF 1 <= cut THEN cut - 1 + 1 ELSE 0
          /\ \A m \in 1 .. cut - 1 + 1 :
                SubSeq(given, 1, cut)[m] = given[1 + m - 1] /\ SubSeq(b, 1, cut)[m] = b[1 + m - 1]
      <4>1. \A m \in 1 .. cut : given[m] \in Bytes
        BY <3>1
      <4>2. 1 \in Int /\ cut \in Int
        OBVIOUS
      <4> HIDE DEF b
      <4> QED BY <3>1, <4>1, <4>2, SubSeqProperties
    <3>3. /\ Len(SubSeq(given, 1, cut)) = cut /\ Len(SubSeq(b, 1, cut)) = cut
          /\ \A m \in 1 .. cut : SubSeq(given, 1, cut)[m] = SubSeq(b, 1, cut)[m]
      BY <3>1, <3>2
    <3> QED BY <3>2, <3>3, SeqEqual
  <2>6. /\ \A m \in DOMAIN given : given[m] # "?"
        /\ SubSeq(given, 1, kept) = SubSeq(b, 1, kept)
    BY <2>3, <2>4, <2>5
  <2>7. kept <= MaxCellBytes /\ kept >= Smaller(Len(b), MaxCellBytes - 1)
    <3> HIDE DEF kept, b
    <3> QED BY <1>2, <2>1, <2>2, <2>4 DEF Smaller
  <2> QED BY <2>6, <2>7 DEF cell, given
<1> QED BY <1>3, <1>4

\* A plain cell is given as it is.
LEMMA PlainCell ==
    ASSUME NEW cell \in Cells, Plain(cell)
    PROVE  Encoded(Cell(cell)) = cell
<1>1. CASE cell.kind = "text"
  <2>1. Valid(cell.text) /\ ~IsCut(cell)
    <3>1. cell.text \in Seq(Bytes)
      BY DEF Cells
    <3>2. Len(cell.text) \in Nat /\ MaxCellBytes \in Nat
      BY <3>1, LenProperties, ResultAssumption
    <3> QED BY <1>1, <3>2 DEF Plain, IsCut
  <2> QED BY <1>1, <2>1, ShortText
<1>2. CASE cell.kind = "num"
  <2>1. /\ cell.num \in -Exact .. Exact
        /\ cell = [kind |-> cell.kind, text |-> cell.text, num |-> cell.num]
    BY <1>2 DEF Plain, Cells
  <2>2. Cell(cell) = cell /\ Rounded(cell.num) = cell.num
    BY <1>2, <2>1 DEF Cell, Rounded
  <2> QED BY <1>2, <2>1, <2>2 DEF Encoded
<1>3. CASE cell.kind \notin {"text", "num"}
  BY <1>3 DEF Cell, Encoded
<1> QED BY <1>1, <1>2, <1>3

LEMMA PlainDelivered == DeliverInv => RowsDelivered
<1> SUFFICES ASSUME DeliverInv PROVE RowsDelivered
  OBVIOUS
<1>1. table \in Tables /\ rows \in Seq(RowSet) /\ CutIsTold /\ Collected
  BY DEF DeliverInv, ResultInv, ResultTypes
<1>2. /\ Len(table.rows) \in Nat /\ DOMAIN table.rows = 1 .. Len(table.rows)
      /\ Len(table.columns) \in Nat /\ DOMAIN table.columns = 1 .. Len(table.columns)
      /\ Len(rows) \in Nat /\ DOMAIN rows = 1 .. Len(rows) /\ Limit \in Nat
  BY <1>1, ResultAssumption, LenProperties, LimitType DEF DeliverInv, ResultInv
<1>3. ASSUME reply.status \notin {"none", "error", "ok"} PROVE HasNaN
  <2>1. reply = ToMap(rows, truncated)
    BY <1>3 DEF DeliverInv, Replied, NoReply, Failure
  <2>2. PICK n \in DOMAIN rows : \E name \in DOMAIN rows[n] : rows[n][name].kind = "nan"
    BY <1>3, <2>1 DEF ToMap
  <2> PICK name \in DOMAIN rows[n] : rows[n][name].kind = "nan"
    BY <2>2
  <2>3. rows[n] = Row(table.columns, table.rows[n]) /\ n \in 1 .. Smaller(Len(table.rows), Limit)
    BY <1>1, <1>2 DEF Collected, Smaller
  <2>4. PICK j \in DOMAIN table.columns : table.columns[j] = name /\ Shown(table.columns, j)
    BY <1>2, <2>3, LastColumn
  <2>5. rows[n][name] = Cell(table.rows[n][j])
    <3>1. DOMAIN table.columns \subseteq Int
      BY <1>2
    <3> QED BY <2>3, <2>4, <3>1, OwnCell
  <2>6. table.rows[n][j] \in Cells
    <3>1. n \in DOMAIN table.rows
      BY <1>2, <2>3 DEF Smaller
    <3> QED BY <1>1, <3>1, ResultAssumption
  <2>7. table.rows[n][j].kind = "nan"
    BY <2>5, <2>6 DEF Cell, Cells
  <2> QED BY <2>3, <2>4, <2>7 DEF HasNaN
<1>4. ASSUME reply.status = "ok" PROVE Len(reply.rows) = Smaller(Len(table.rows), Limit)
  BY <1>1, <1>4 DEF CutIsTold
<1>5. ASSUME NEW n \in DOMAIN reply.rows, NEW j \in DOMAIN table.columns,
             Shown(table.columns, j), Plain(table.rows[n][j])
      PROVE  reply.rows[n][table.columns[j]] = table.rows[n][j]
  BY <1>5, GivenCell, PlainCell
<1> QED BY <1>3, <1>4, <1>5 DEF RowsDelivered

\* Whatever the bytes of a text and the limit of a cell: of a text that is UTF-8
\* a client is given whole characters only, the first ones of it, within the
\* limit and less than one character short of it.
THEOREM TextStaysWhole == Spec => []WholeCharacters
<1>1. Spec => []DeliverInv
  BY InitDeliver, StepDelivers, PTL DEF Spec
<1> QED BY <1>1, CharactersWhole, PTL

\* For every table: a result that is not an error has its rows up to the limit,
\* unless one has a NaN, and in them every null, every UTF-8 text within the
\* cell limit and every integer from -Exact to Exact is in its row and column
\* as the database gave it.
THEOREM PlainResultsArrive == Spec => []RowsDelivered
<1>1. Spec => []DeliverInv
  BY InitDeliver, StepDelivers, PTL DEF Spec
<1> QED BY <1>1, PlainDelivered, PTL
=============================================================================
