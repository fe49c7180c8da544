---------------------------- MODULE SqlClassifier ----------------------------
(***************************************************************************)
(* internal/database/sql_classifier.go: the text of a statement is read    *)
(* once, character by character, with one set of rules for the three       *)
(* dialects; comments are cut out, one statement is let through, and its   *)
(* first word decides which tool may run it.                               *)
(*                                                                         *)
(* A character of the model is a quote, a comment mark, a blank, a         *)
(* semicolon, or a whole word: "a" and "b" stand for words and letters the *)
(* classifier has no list for.  Two words without anything between them    *)
(* are one longer word.                                                    *)
(* A quote is the same value as the state inside it.                       *)
(***************************************************************************)
EXTENDS Integers, SequencesExt, FiniteSetsExt

CONSTANT Texts \* the statements a client may send, sequences of characters

ASSUME ClassifierAssumption == Texts \subseteq Seq(STRING)

VARIABLES
    input,      \* the text
    i,          \* position of the scan
    state,      \* inside what: default, a kind of comment, or the open quote
    builder,    \* what is kept
    verdict,    \* none while scanning, then an error or the statement's kind
    normalized  \* the text to send, when there is a kind

vars == <<input, i, state, builder, verdict, normalized>>

Escaping == {"single", "double"} \* the quotes in which a backslash escapes
Quotes   == Escaping \cup {"backtick"}
Blanks   == {"space", "newline"}
Queries == {"select", "show", "describe", "desc", "explain", "pragma", "with"}
Execs   == {"insert", "update", "delete", "replace"}
DDLs    == {"create", "alter", "drop", "truncate", "rename"}
Letters == Queries \cup Execs \cup DDLs \cup {"a", "b"}
Kinds   == {"query", "exec", "ddl"}
Errors  == {"unterminated", "empty", "multiple", "unsupported"}

-----------------------------------------------------------------------------
(* From the scanned text to the verdict.                                     *)
\* s without the members of cut at its ends; TrimRight cuts at the right only.
TrimRight(s, cut) == SubSeq(s, 1, Max({0} \cup {n \in DOMAIN s : s[n] \notin cut}))
TrimSpace(s) ==
    SubSeq(s, Min({Len(s) + 1} \cup {n \in DOMAIN s : s[n] \notin Blanks}),
              Len(TrimRight(s, Blanks)))

\* The blanks before a final semicolon stay.
Trimmed_Once(s) == TrimRight(TrimSpace(s), {";"})

Trimmed(s) == TrimSpace(TrimRight(TrimSpace(s), {";"}))

\* The second scan knows quotes and escapes, and no comments.  quote[n] is the
\* quote open before character n, skip[n] that the character is escaped.
HasMultipleStatements(s) ==
    LET open[n \in 1..Len(s)] ==
            IF n = 1 THEN [quote |-> "no", skip |-> FALSE]
            ELSE LET o == open[n - 1]
                     c == s[n - 1]
                 IN  IF o.skip THEN [o EXCEPT !.skip = FALSE]
                     ELSE IF o.quote \in Escaping /\ c = "backslash" THEN [o EXCEPT !.skip = TRUE]
                     ELSE IF o.quote = "no" /\ c \in Quotes THEN [o EXCEPT !.quote = c]
                     ELSE IF o.quote = c THEN [o EXCEPT !.quote = "no"]
                     ELSE o
    IN  \E n \in DOMAIN s : s[n] = ";" /\ open[n].quote = "no"

\* The first run of letters, wherever it stands.
FirstKeyword(s) ==
    LET start == Min({Len(s) + 1} \cup {n \in DOMAIN s : s[n] \in Letters})
        end   == Min({Len(s) + 1} \cup {n \in start..Len(s) : s[n] \notin Letters})
    IN  SubSeq(s, start, end - 1)

KindOf(keyword) ==
    IF keyword = <<>> THEN "empty"
    ELSE IF Len(keyword) > 1 THEN "unsupported"
    ELSE CASE keyword[1] \in Queries -> "query"
           [] keyword[1] \in Execs   -> "exec"
           [] keyword[1] \in DDLs    -> "ddl"
           [] OTHER                  -> "unsupported"

\* The verdict on what a scan kept, if it ended outside comments and quotes.
Judge(s) ==
    CASE s = <<>>                 -> "empty"
      [] HasMultipleStatements(s) -> "multiple"
      [] OTHER                    -> KindOf(FirstKeyword(s))

-----------------------------------------------------------------------------
(* The scan of normalizeStatement.                                           *)
Init ==
    /\ input \in Texts
    /\ i = 1 /\ state = "default" /\ builder = <<>>
    /\ verdict = "none" /\ normalized = <<>>

ch   == input[i]
next == IF i < Len(input) THEN input[i + 1] ELSE "end"

Scanning(s) == verdict = "none" /\ i <= Len(input) /\ state = s

\* Goes on n characters later in state s, having kept the characters kept.
Go(s, kept, n) ==
    /\ state' = s /\ builder' = builder \o kept /\ i' = i + n
    /\ UNCHANGED <<input, verdict, normalized>>

\* The star of an opening is read again: a slash after it ends the comment.
Default_OneStep ==
    /\ Scanning("default")
    /\ CASE ch \in Quotes          -> Go(ch, <<ch>>, 1)
         [] ch = "-" /\ next = "-" -> Go("line", <<>>, 2)
         [] ch = "#"               -> Go("line", <<>>, 1)
         [] ch = "/" /\ next = "*" -> Go("block", <<>>, 1)
         [] OTHER                  -> Go("default", <<ch>>, 1)

Default ==
    /\ Scanning("default")
    /\ CASE ch \in Quotes          -> Go(ch, <<ch>>, 1)
         [] ch = "-" /\ next = "-" -> Go("line", <<>>, 2)
         [] ch = "#"               -> Go("line", <<>>, 1)
         [] ch = "/" /\ next = "*" -> Go("block", <<>>, 2)
         [] OTHER                  -> Go("default", <<ch>>, 1)

Quoted ==
    \E q \in Escaping :
        /\ Scanning(q)
        /\ IF ch = "backslash" /\ i < Len(input) THEN Go(q, <<ch, next>>, 2)
           ELSE Go(IF ch = q THEN "default" ELSE q, <<ch>>, 1)

Backtick ==
    /\ Scanning("backtick")
    /\ Go(IF ch = "backtick" THEN "default" ELSE "backtick", <<ch>>, 1)

\* The end of a line comment goes with it.
LineComment_NoNewline ==
    /\ Scanning("line")
    /\ Go(IF ch = "newline" THEN "default" ELSE "line", <<>>, 1)

LineComment ==
    /\ Scanning("line")
    /\ IF ch = "newline" THEN Go("default", <<ch>>, 1) ELSE Go("line", <<>>, 1)

BlockComment ==
    /\ Scanning("block")
    /\ IF ch = "*" /\ next = "/" THEN Go("default", <<>>, 2) ELSE Go("block", <<>>, 1)

Ended ==
    /\ verdict = "none" /\ i > Len(input)
    /\ verdict' = IF state \in Quotes \cup {"block"} THEN "unterminated"
                  ELSE Judge(Trimmed(builder))
    /\ normalized' = IF verdict' \in Kinds THEN Trimmed(builder) ELSE <<>>
    /\ UNCHANGED <<input, i, state, builder>>

Classified == verdict # "none" /\ UNCHANGED vars

Next ==
    Default \/ Quoted \/ Backtick \/ LineComment \/ BlockComment \/ Ended \/ Classified

Spec == Init /\ [][Next]_vars

-----------------------------------------------------------------------------
(* How a text divides into quoted texts, comments and single characters,     *)
(* said without scanning, for any set of rules: the classifier's own or a    *)
(* dialect's.                                                                *)
Own == [hash |-> TRUE, escape |-> TRUE, blankDash |-> FALSE]

\* "#" starts a comment in MySQL only, a backslash escapes in MySQL only, and
\* MySQL takes "--" for a comment only before a blank or at the end.
Dialects == [mysql      |-> [hash |-> TRUE, escape |-> TRUE, blankDash |-> TRUE],
             postgresql |-> [hash |-> FALSE, escape |-> FALSE, blankDash |-> FALSE],
             sqlite     |-> [hash |-> FALSE, escape |-> FALSE, blankDash |-> FALSE]]

\* What begins with character j of t, not counting what is before it.
Begins(R, t, j) ==
    LET Is(n, S) == j + n <= Len(t) /\ t[j + n] \in S
    IN  CASE Is(0, Quotes)                                    -> "quoted"
          [] Is(0, {"#"}) /\ R.hash                           -> "line"
          [] /\ Is(0, {"-"}) /\ Is(1, {"-"})
             /\ R.blankDash /\ j + 2 <= Len(t) => Is(2, Blanks) -> "line"
          [] Is(0, {"/"}) /\ Is(1, {"*"})                     -> "block"
          [] OTHER                                            -> "char"

\* Character m follows an odd number of backslashes inside the quote opened at j.
Escaped(R, t, j, m) ==
    /\ R.escape /\ t[j] \in Escaping
    /\ Cardinality({n \in j + 1 .. m - 1 :
                       \A x \in n .. m - 1 : t[x] = "backslash"}) % 2 = 1

\* Where it may end; nowhere if it is not terminated.
Ends(R, t, j) ==
    CASE Begins(R, t, j) = "quoted" ->
            {m \in j + 1 .. Len(t) : t[m] = t[j] /\ ~Escaped(R, t, j, m)}
      [] Begins(R, t, j) = "line"   ->
            {m \in j .. Len(t) : m = Len(t) \/ t[m + 1] = "newline"}
      [] Begins(R, t, j) = "block"  ->
            {m \in j + 3 .. Len(t) : t[m - 1] = "*" /\ t[m] = "/"}
      [] OTHER                      -> {j}

\* The division of t from left to right, from each of its characters on.
Divisions(R, t) ==
    LET from[j \in 1 .. Len(t) + 1] ==
            IF j > Len(t) THEN <<>>
            ELSE IF Ends(R, t, j) = {} THEN <<[kind |-> "open", text |-> SubSeq(t, j, Len(t))]>>
            ELSE LET e == Min(Ends(R, t, j))
                 IN  <<[kind |-> Begins(R, t, j), text |-> SubSeq(t, j, e)]>> \o from[e + 1]
    IN  from

Pieces(R, t) == Divisions(R, t)[1]

Comment(p) == p.kind \in {"line", "block"}
Blank(p)   == p.kind = "char" /\ p.text[1] \in Blanks

\* The text without its comments, and the classifier's answer by this account.
Kept(t) ==
    LET P == Pieces(Own, t)
    IN  FlattenSeq([n \in DOMAIN P |-> IF Comment(P[n]) THEN <<>> ELSE P[n].text])
Open(t) == \E p \in ToSet(Pieces(Own, t)) : p.kind = "open"
Expected(t) == IF Open(t) THEN "unterminated" ELSE Judge(Trimmed(Kept(t)))

\* Piece q continues the word or the quoted text of the piece p before it.
Joins(p, q) ==
    /\ p.kind = q.kind
    /\ \/ q.kind = "char" /\ {p.text[1], q.text[1]} \subseteq Letters
       \/ q.kind = "quoted" /\ q.text[1] = p.text[1]

\* The words, quoted texts and marks a database with rules R reads in t: each
\* piece that is no comment or blank, and whether it continues the one before.
Reading(R, t) ==
    LET P == Pieces(R, t)
        marks == [n \in DOMAIN P |->
                     IF Comment(P[n]) \/ Blank(P[n]) THEN <<>>
                     ELSE <<[piece |-> P[n], joined |-> n > 1 /\ Joins(P[n - 1], P[n])]>>]
    IN  TrimRight(FlattenSeq(marks),
                  {[piece |-> [kind |-> "char", text |-> <<";">>], joined |-> FALSE]})

\* A block comment between two characters that are no blanks: without it they
\* stand side by side.
Glues(t) ==
    LET P == Pieces(Own, t)
    IN  \E n \in 2 .. Len(P) - 1 :
            P[n].kind = "block" /\ ~Blank(P[n - 1]) /\ ~Blank(P[n + 1])

-----------------------------------------------------------------------------
\* The scan with its lookahead and skipped characters finds exactly the quoted
\* texts and comments the text has: what is sent is the text without comments,
\* and the verdict is on that, whatever stands in quotes and comments.
CutsComments ==
    verdict # "none" =>
        /\ verdict = Expected(input)
        /\ verdict \in Kinds => normalized = Trimmed(Kept(input))

\* The text that is sent is one the classifier leaves alone and judges the
\* same, unless cutting out a comment joined its neighbours.
Settled ==
    verdict \in Kinds /\ ~Glues(input) =>
        /\ Expected(normalized) = verdict
        /\ Trimmed(Kept(normalized)) = normalized

\* A database that divides the text as the classifier does reads in what it is
\* sent what the client wrote, unless cutting out a comment joined neighbours.
WordsKept ==
    \A d \in DOMAIN Dialects :
        /\ verdict \in Kinds
        /\ Pieces(Dialects[d], input) = Pieces(Own, input)
        /\ ~Glues(input)
        => Reading(Dialects[d], normalized) = Reading(Dialects[d], input)

\* README.md 210: the tools take the target database's native SQL and do not
\* rewrite it for a dialect: the database reads what the client wrote.
NotRewritten ==
    \A d \in DOMAIN Dialects :
        verdict \in Kinds => Reading(Dialects[d], normalized) = Reading(Dialects[d], input)
=============================================================================
