--------------------------- MODULE ClassifierProofs ---------------------------
(***************************************************************************)
(* Proofs about SqlClassifier: the scan cuts out the comments the text has *)
(* by the account without a scan, and nothing else, for every text; a      *)
(* database that divides the text as the classifier does reads in what is  *)
(* sent what the client wrote; and what is sent would be sent again as it  *)
(* is.                                                                     *)
(***************************************************************************)
EXTENDS SqlClassifier, SequenceFacts

Text  == Seq(STRING)
Piece == [kind : {"quoted", "line", "block", "char", "open"}, text : Text]

LEMMA TextsAssociate ==
    \A r, s, t \in Text : (r \o s) \o t = r \o (s \o t)
BY ConcatAssociative, SMTT(30) DEF Text

-----------------------------------------------------------------------------
(* The division of a text, from a character on                               *)

\* What the division from j on is, by rules R and given f, that from each later
\* character on.
Divide(R, t, f, j) ==
    IF j > Len(t) THEN <<>>
    ELSE IF Ends(R, t, j) = {} THEN <<[kind |-> "open", text |-> SubSeq(t, j, Len(t))]>>
    ELSE LET e == Min(Ends(R, t, j))
         IN  <<[kind |-> Begins(R, t, j), text |-> SubSeq(t, j, e)]>> \o f[e + 1]

\* A quoted text or comment ends where it begins or later, at the first end.
LEMMA EndsIs ==
    ASSUME NEW R, NEW t \in Text, NEW j \in 1 .. Len(t)
    PROVE  /\ Len(t) \in Nat /\ Ends(R, t, j) \subseteq j .. Len(t)
           /\ Ends(R, t, j) # {} =>
                 /\ Min(Ends(R, t, j)) \in Ends(R, t, j)
                 /\ \A y \in Ends(R, t, j) : Min(Ends(R, t, j)) <= y
<1> DEFINE E == Ends(R, t, j)
<1>1. Len(t) \in Nat /\ j \in Nat
  BY LenProperties DEF Text
<1>2. E \subseteq j .. Len(t)
  <2>1. CASE Begins(R, t, j) = "quoted"
    BY <1>1, <2>1 DEF Ends
  <2>2. CASE Begins(R, t, j) = "line"
    BY <1>1, <2>2 DEF Ends
  <2>3. CASE Begins(R, t, j) = "block"
    BY <1>1, <2>3 DEF Ends
  <2>4. CASE Begins(R, t, j) \notin {"quoted", "line", "block"}
    BY <1>1, <2>4 DEF Ends
  <2> QED BY <2>1, <2>2, <2>3, <2>4
<1> HIDE DEF E
<1>3. ASSUME E # {} PROVE Min(E) \in E /\ \A y \in E : Min(E) <= y
  <2>1. E \in SUBSET Nat
    BY <1>1, <1>2
  <2>2. \E x \in E : \A y \in E : x <= y
    BY <1>3, <2>1, Least
  <2> QED BY <2>2 DEF Min
<1> QED BY <1>1, <1>2, <1>3 DEF E

LEMMA BeginsIs ==
    ASSUME NEW R, NEW t, NEW j
    PROVE  Begins(R, t, j) \in {"quoted", "line", "block", "char"}
BY DEF Begins

LEMMA PartIsText ==
    ASSUME NEW t \in Text, NEW j \in 1 .. Len(t), NEW e \in 0 .. Len(t)
    PROVE  SubSeq(t, j, e) \in Text
<1>1. Len(t) \in Nat /\ \A k \in 1 .. Len(t) : t[k] \in STRING
  BY LenProperties DEF Text
<1>2. j \in Int /\ e \in Int /\ \A k \in j .. e : t[k] \in STRING
  BY <1>1
<1> QED BY <1>2, SubSeqProperties DEF Text

\* The piece at the front.
First(R, t, j) ==
    IF Ends(R, t, j) = {} THEN [kind |-> "open", text |-> SubSeq(t, j, Len(t))]
    ELSE [kind |-> Begins(R, t, j), text |-> SubSeq(t, j, Min(Ends(R, t, j)))]

LEMMA FirstIs ==
    ASSUME NEW R, NEW t \in Text, NEW j \in 1 .. Len(t)
    PROVE  First(R, t, j) \in Piece /\ <<First(R, t, j)>> \in Seq(Piece)
<1>1. Len(t) \in Nat /\ Len(t) \in 0 .. Len(t)
  BY LenProperties DEF Text
<1>2. CASE Ends(R, t, j) = {}
  <2>1. SubSeq(t, j, Len(t)) \in Text
    BY <1>1, PartIsText
  <2>2. First(R, t, j) = [kind |-> "open", text |-> SubSeq(t, j, Len(t))]
    BY <1>2 DEF First
  <2> QED BY <2>1, <2>2 DEF Piece
<1>3. CASE Ends(R, t, j) # {}
  <2>1. Min(Ends(R, t, j)) \in 0 .. Len(t)
    BY <1>1, <1>3, EndsIs
  <2>2. SubSeq(t, j, Min(Ends(R, t, j))) \in Text
    BY <2>1, PartIsText
  <2>3. Begins(R, t, j) \in {"quoted", "line", "block", "char"}
    BY BeginsIs
  <2> QED BY <1>3, <2>2, <2>3 DEF First, Piece
<1> QED BY <1>2, <1>3

LEMMA DivideIs ==
    ASSUME NEW R, NEW t \in Text, NEW j \in 1 .. Len(t), NEW f,
           \A k \in j + 1 .. Len(t) + 1 : f[k] \in Seq(Piece)
    PROVE  Divide(R, t, f, j) \in Seq(Piece)
<1>1. Len(t) \in Nat /\ ~(j > Len(t))
  BY LenProperties DEF Text
<1>2. <<First(R, t, j)>> \in Seq(Piece)
  BY FirstIs
<1>3. CASE Ends(R, t, j) = {}
  BY <1>1, <1>2, <1>3 DEF Divide, First
<1>4. CASE Ends(R, t, j) # {}
  <2>1. Min(Ends(R, t, j)) + 1 \in j + 1 .. Len(t) + 1
    BY <1>1, <1>4, EndsIs
  <2>2. f[Min(Ends(R, t, j)) + 1] \in Seq(Piece)
    BY <2>1
  <2>3. Divide(R, t, f, j) = <<First(R, t, j)>> \o f[Min(Ends(R, t, j)) + 1]
    BY <1>1, <1>4 DEF Divide, First
  <2> QED BY <1>2, <2>2, <2>3, ConcatProperties
<1> QED BY <1>3, <1>4

\* The division from a character on looks at that from later characters only.
LEMMA DivideSame ==
    ASSUME NEW R, NEW t \in Text, NEW j \in 1 .. Len(t) + 1, NEW f, NEW g,
           \A k \in j + 1 .. Len(t) + 1 : f[k] = g[k]
    PROVE  Divide(R, t, f, j) = Divide(R, t, g, j)
<1>1. Len(t) \in Nat
  BY LenProperties DEF Text
<1>2. CASE j > Len(t)
  BY <1>2 DEF Divide
<1>3. CASE j <= Len(t)
  <2>1. j \in 1 .. Len(t)
    BY <1>1, <1>3
  <2>2. Ends(R, t, j) # {} => Min(Ends(R, t, j)) \in j .. Len(t)
    BY <2>1, EndsIs
  <2>3. \A e \in j .. Len(t) : f[e + 1] = g[e + 1]
    <3>1. \A e \in j .. Len(t) : e + 1 \in j + 1 .. Len(t) + 1
      BY <1>1, <2>1
    <3> QED BY <3>1
  <2> QED BY <2>2, <2>3 DEF Divide
<1> QED BY <1>1, <1>2, <1>3

\* The recursive function in the definition of Divisions exists.
LEMMA DivisionsIs ==
    ASSUME NEW R, NEW t \in Text
    PROVE  \A j \in 1 .. Len(t) + 1 :
              /\ Divisions(R, t)[j] \in Seq(Piece)
              /\ Divisions(R, t)[j] = Divide(R, t, Divisions(R, t), j)
<1> DEFINE N == Len(t)
<1>1. N \in Nat
  BY LenProperties DEF Text
\* The divisions of the last n characters.
<1> DEFINE Ending(n) == N + 1 - n .. N + 1
           Good == {n \in 0 .. N : \E f : \A j \in Ending(n) : f[j] = Divide(R, t, f, j)}
<1>2. 0 \in Good
  <2> DEFINE f == [j \in Ending(0) |-> <<>>]
  <2>1. \A j \in Ending(0) : f[j] = <<>> /\ j > Len(t)
    BY <1>1
  <2> HIDE DEF f
  <2>2. \A j \in Ending(0) : f[j] = Divide(R, t, f, j)
    BY <2>1 DEF Divide
  <2> HIDE DEF Ending, N
  <2>3. 0 \in 0 .. N
    BY <1>1
  <2> QED BY <2>2, <2>3
<1>3. ASSUME NEW n \in Good, n \in 0 .. N - 1 PROVE n + 1 \in Good
  <2>1. PICK g : \A j \in Ending(n) : g[j] = Divide(R, t, g, j)
    OBVIOUS
  <2> DEFINE m == N - n
             f == [j \in Ending(n + 1) |-> IF j = m THEN Divide(R, t, g, m) ELSE g[j]]
  <2>2. /\ m \in 1 .. N /\ Ending(n + 1) = {m} \cup Ending(n) /\ m \notin Ending(n) /\ n + 1 \in 0 .. N
        /\ m + 1 .. N + 1 = Ending(n)
    BY <1>1, <1>3
  <2> HIDE DEF m, Ending, N
  <2>3. ASSUME NEW h, \A k \in Ending(n) : h[k] = g[k], NEW j \in Ending(n + 1)
        PROVE  Divide(R, t, h, j) = Divide(R, t, g, j)
    <3>1. j \in 1 .. N + 1 /\ j + 1 .. N + 1 \subseteq Ending(n)
      BY <1>1, <1>3, <2>2 DEF Ending
    <3> QED BY <2>3, <3>1, DivideSame DEF N
  <2>4. \A k \in Ending(n) : f[k] = g[k]
    BY <2>2
  <2>5. f[m] = Divide(R, t, g, m)
    BY <2>2
  <2> HIDE DEF f
  <2>6. \A j \in Ending(n + 1) : f[j] = Divide(R, t, f, j)
    <3> SUFFICES ASSUME NEW j \in Ending(n + 1) PROVE f[j] = Divide(R, t, g, j)
      BY <2>3, <2>4
    <3>1. CASE j = m
      BY <2>5, <3>1
    <3>2. CASE j \in Ending(n)
      BY <2>1, <2>4, <3>2
    <3> QED BY <2>2, <3>1, <3>2
  <2> QED BY <2>2, <2>6
<1> HIDE DEF Good, Ending, N
<1>4. 0 .. N \subseteq Good
  BY <1>1, <1>2, <1>3, UpTo
<1>5. N \in Good /\ Ending(N) = 1 .. N + 1
  BY <1>1, <1>4 DEF Ending
<1>6. PICK f : \A j \in 1 .. N + 1 : f[j] = Divide(R, t, f, j)
  BY <1>5 DEF Good
<1> DEFINE from[j \in 1 .. N + 1] ==
               IF j > Len(t) THEN <<>>
               ELSE IF Ends(R, t, j) = {} THEN <<[kind |-> "open", text |-> SubSeq(t, j, Len(t))]>>
               ELSE LET e == Min(Ends(R, t, j))
                    IN  <<[kind |-> Begins(R, t, j), text |-> SubSeq(t, j, e)]>> \o from[e + 1]
\* It divides by the rule.
<1>7. \A j \in 1 .. N + 1 : from[j] = Divide(R, t, from, j)
  <2> DEFINE Rule(h) == h = [j \in 1 .. N + 1 |->
                 IF j > Len(t) THEN <<>>
                 ELSE IF Ends(R, t, j) = {} THEN <<[kind |-> "open", text |-> SubSeq(t, j, Len(t))]>>
                 ELSE LET e == Min(Ends(R, t, j))
                      IN  <<[kind |-> Begins(R, t, j), text |-> SubSeq(t, j, e)]>> \o h[e + 1]]
             h == [j \in 1 .. N + 1 |-> f[j]]
  <2>1. Rule(h)
    <3>1. \A j \in 1 .. N + 1 : h[j] = f[j]
      OBVIOUS
    <3>2. h = [j \in 1 .. N + 1 |-> h[j]]
      OBVIOUS
    <3> HIDE DEF h
    <3>3. \A j \in 1 .. N + 1 : h[j] = Divide(R, t, h, j)
      <4> SUFFICES ASSUME NEW j \in 1 .. N + 1 PROVE h[j] = Divide(R, t, h, j)
        OBVIOUS
      <4>1. \A k \in j + 1 .. N + 1 : h[k] = f[k]
        BY <1>1, <3>1
      <4>2. Divide(R, t, h, j) = Divide(R, t, f, j)
        BY <4>1, DivideSame DEF N
      <4> QED BY <1>6, <3>1, <4>2
    <3> QED BY <3>2, <3>3 DEF Divide
  <2> HIDE DEF h
  <2>2. Rule(from)
    BY <2>1
  <2> HIDE DEF from
  <2> QED BY <2>2 DEF Divide
<1>8. Divisions(R, t) = from
  BY DEF Divisions, N
<1> HIDE DEF from
<1> DEFINE Typed == {n \in 0 .. N : \A j \in Ending(n) : from[j] \in Seq(Piece)}
<1>9. 0 \in Typed
  <2>1. \A j \in Ending(0) : j \in 1 .. N + 1 /\ j > Len(t)
    BY <1>1 DEF Ending, N
  <2>2. \A j \in Ending(0) : from[j] = <<>>
    BY <1>7, <2>1 DEF Divide
  <2>3. <<>> \in Seq(Piece) /\ 0 \in 0 .. N
    BY <1>1, EmptySeq
  <2> QED BY <2>2, <2>3
<1>10. ASSUME NEW n \in Typed, n \in 0 .. N - 1 PROVE n + 1 \in Typed
  <2>1. PICK m : m = N - n
    OBVIOUS
  <2>2. /\ m \in 1 .. N /\ Ending(n + 1) = {m} \cup Ending(n) /\ n + 1 \in 0 .. N
        /\ m + 1 .. N + 1 = Ending(n) /\ m \in 1 .. N + 1
    BY <1>1, <1>10, <2>1 DEF Ending
  <2>3. \A k \in m + 1 .. N + 1 : from[k] \in Seq(Piece)
    BY <2>2
  <2>4. from[m] \in Seq(Piece)
    <3>1. Divide(R, t, from, m) \in Seq(Piece)
      BY <2>2, <2>3, DivideIs DEF N
    <3> QED BY <1>7, <2>2, <3>1
  <2> QED BY <2>2, <2>4
<1> HIDE DEF Typed
<1>11. 0 .. N \subseteq Typed
  BY <1>1, <1>9, <1>10, UpTo
<1>12. \A j \in 1 .. N + 1 : from[j] \in Seq(Piece)
  BY <1>1, <1>5, <1>11 DEF Typed
<1> QED BY <1>7, <1>8, <1>12 DEF N

-----------------------------------------------------------------------------
(* What is kept of the text from a character on, and whether it is open      *)

KeptOf(P) == FlattenSeq([n \in DOMAIN P |-> IF Comment(P[n]) THEN <<>> ELSE P[n].text])
OpenOf(P) == \E p \in ToSet(P) : p.kind = "open"

Rest(t, j)   == KeptOf(Divisions(Own, t)[j])
OpenAt(t, j) == OpenOf(Divisions(Own, t)[j])

\* From the first character on.
LEMMA Whole ==
    ASSUME NEW t \in Text
    PROVE  Rest(t, 1) = Kept(t) /\ (OpenAt(t, 1) <=> Open(t))
BY DEF Rest, OpenAt, KeptOf, OpenOf, Kept, Open, Pieces

\* What is kept of pieces.
LEMMA TextsIs ==
    ASSUME NEW P \in Seq(Piece)
    PROVE  /\ [n \in DOMAIN P |-> IF Comment(P[n]) THEN <<>> ELSE P[n].text] \in Seq(Text)
           /\ Len([n \in DOMAIN P |-> IF Comment(P[n]) THEN <<>> ELSE P[n].text]) = Len(P)
           /\ KeptOf(P) \in Text
<1> DEFINE texts == [n \in DOMAIN P |-> IF Comment(P[n]) THEN <<>> ELSE P[n].text]
<1>1. Len(P) \in Nat /\ DOMAIN P = 1 .. Len(P) /\ \A n \in 1 .. Len(P) : P[n] \in Piece
  BY LenProperties
<1>2. <<>> \in Text
  BY EmptySeq DEF Text
<1>3. texts \in [1 .. Len(P) -> Text]
  BY <1>1, <1>2 DEF Piece
<1> HIDE DEF texts
<1>4. texts \in Seq(Text) /\ Len(texts) = Len(P)
  BY <1>1, <1>3, MapIsSeq
<1>5. FlattenSeq(texts) \in Text
  BY <1>4, FlattenIs DEF Text
<1> QED BY <1>4, <1>5 DEF texts, KeptOf

LEMMA NoPieces == KeptOf(<<>>) = <<>> /\ ~OpenOf(<<>>)
<1>1. DOMAIN <<>> = {} /\ <<>> \in Seq(Piece)
  BY EmptySeq
<1>2. ToSet(<<>>) = {}
  BY <1>1 DEF ToSet
<1>3. [n \in DOMAIN <<>> |-> IF Comment(<<>>[n]) THEN <<>> ELSE <<>>[n].text] = <<>>
  BY <1>1
<1>4. FlattenSeq(<<>>) = <<>>
  <2>1. Len(<<>>) = 0
    BY EmptySeq
  <2> QED BY <2>1 DEF FlattenSeq
<1> QED BY <1>2, <1>3, <1>4 DEF KeptOf, OpenOf

\* One piece before others.
LEMMA OnePiece ==
    ASSUME NEW p \in Piece, NEW P \in Seq(Piece)
    PROVE  /\ KeptOf(<<p>> \o P) = (IF Comment(p) THEN <<>> ELSE p.text) \o KeptOf(P)
           /\ OpenOf(<<p>> \o P) <=> p.kind = "open" \/ OpenOf(P)
<1> DEFINE one == <<p>>
           A == one \o P
           text(q) == IF Comment(q) THEN <<>> ELSE q.text
           texts(Q) == [n \in DOMAIN Q |-> IF Comment(Q[n]) THEN <<>> ELSE Q[n].text]
<1>1. one \in Seq(Piece) /\ Len(one) = 1 /\ one[1] = p /\ DOMAIN one = 1 .. 1
  OBVIOUS
<1>2. /\ Len(P) \in Nat /\ DOMAIN P = 1 .. Len(P)
      /\ \A n \in 1 .. Len(P) : P[n] \in Piece
  BY LenProperties
<1> HIDE DEF one
<1>3. /\ A \in Seq(Piece) /\ Len(A) = 1 + Len(P)
      /\ \A n \in 1 .. 1 + Len(P) : A[n] = IF n <= 1 THEN one[n] ELSE P[n - 1]
  <2>1. /\ one \o P \in Seq(Piece) /\ Len(one \o P) = Len(one) + Len(P)
        /\ \A n \in 1 .. Len(one) + Len(P) :
              (one \o P)[n] = IF n <= Len(one) THEN one[n] ELSE P[n - Len(one)]
    BY <1>1, ConcatProperties
  <2> QED BY <1>1, <2>1
<1> HIDE DEF A
<1>4. DOMAIN A = 1 .. Len(P) + 1
  BY <1>2, <1>3, LenProperties
<1>5. /\ A[1] = p /\ \A n \in 1 .. Len(P) : A[n + 1] = P[n]
  <2>1. A[1] = p
    BY <1>1, <1>2, <1>3
  <2>2. ASSUME NEW n \in 1 .. Len(P) PROVE A[n + 1] = P[n]
    <3>1. PICK m \in 1 .. 1 + Len(P) : m = n + 1
      BY <1>2
    <3>2. A[m] = P[m - 1] /\ m - 1 = n
      BY <1>2, <1>3, <3>1
    <3> QED BY <3>1, <3>2
  <2> QED BY <2>1, <2>2
<1>6. KeptOf(A) = text(p) \o KeptOf(P)
  <2>1. texts(A) \in Seq(Text) /\ Len(texts(A)) = Len(A) /\ texts(P) \in Seq(Text) /\ Len(texts(P)) = Len(P)
    BY <1>3, TextsIs
  <2>2. text(p) \in Text
    <3>1. <<>> \in Text
      BY EmptySeq DEF Text
    <3> QED BY <3>1 DEF Piece
  <2>3. texts(A)[1] = text(p)
    BY <1>2, <1>4, <1>5
  <2>4. \A n \in 1 .. Len(P) : texts(A)[n + 1] = texts(P)[n]
    <3> SUFFICES ASSUME NEW n \in 1 .. Len(P) PROVE texts(A)[n + 1] = texts(P)[n]
      OBVIOUS
    <3>1. n + 1 \in DOMAIN A /\ n \in DOMAIN P /\ A[n + 1] = P[n]
      BY <1>2, <1>4, <1>5
    <3> QED BY <3>1
  <2>5. Len(texts(A)) = Len(texts(P)) + 1
    BY <1>2, <1>3, <2>1
  <2>6. PICK a, b, c : a = texts(A) /\ b = texts(P) /\ c = text(p)
    OBVIOUS
  <2>7. /\ a \in Seq(Seq(STRING)) /\ b \in Seq(Seq(STRING)) /\ c \in Seq(STRING)
        /\ Len(a) = Len(b) + 1 /\ a[1] = c /\ \A n \in 1 .. Len(b) : a[n + 1] = b[n]
    <3> HIDE DEF texts, text
    <3> QED BY <2>1, <2>2, <2>3, <2>4, <2>5, <2>6 DEF Text
  <2>8. FlattenSeq(a) = c \o FlattenSeq(b)
    BY ONLY <2>7, FlattenMore
  <2> QED BY <2>6, <2>8 DEF KeptOf
<1>7. OpenOf(A) <=> p.kind = "open" \/ OpenOf(P)
  <2>1. ToSet(A) = {A[n] : n \in 1 .. Len(P) + 1} /\ ToSet(P) = {P[n] : n \in 1 .. Len(P)}
    BY <1>2, <1>4 DEF ToSet
  <2>2. \A n \in 1 .. Len(P) + 1 : n = 1 \/ \E k \in 1 .. Len(P) : n = k + 1
    <3> SUFFICES ASSUME NEW n \in 1 .. Len(P) + 1, n # 1 PROVE \E k \in 1 .. Len(P) : n = k + 1
      OBVIOUS
    <3>1. n - 1 \in 1 .. Len(P) /\ n = (n - 1) + 1
      BY <1>2
    <3> QED BY <3>1
  <2>3. 1 \in 1 .. Len(P) + 1 /\ \A n \in 1 .. Len(P) : n + 1 \in 1 .. Len(P) + 1
    BY <1>2
  <2>4. ToSet(A) = {p} \cup ToSet(P)
    <3>1. \A q \in ToSet(A) : q \in {p} \cup ToSet(P)
      BY <1>5, <2>1, <2>2
    <3>2. p \in ToSet(A) /\ \A q \in ToSet(P) : q \in ToSet(A)
      BY <1>5, <2>1, <2>3
    <3> QED BY <3>1, <3>2
  <2> QED BY <2>4 DEF OpenOf
<1> QED BY <1>6, <1>7 DEF A, one

\* What begins at j is kept or cut out, and the rest follows.
LEMMA RestIs ==
    ASSUME NEW t \in Text, NEW j \in 1 .. Len(t)
    PROVE  /\ Rest(t, j) \in Text
           /\ Ends(Own, t, j) = {} => OpenAt(t, j)
           /\ \A e \in Ends(Own, t, j) :
                 (\A y \in Ends(Own, t, j) : e <= y) =>
                    /\ Rest(t, j) = (IF Begins(Own, t, j) \in {"line", "block"} THEN <<>>
                                     ELSE SubSeq(t, j, e)) \o Rest(t, e + 1)
                    /\ OpenAt(t, j) <=> OpenAt(t, e + 1)
<1> DEFINE f == Divisions(Own, t)
           E == Ends(Own, t, j)
<1>1. Len(t) \in Nat /\ ~(j > Len(t)) /\ j \in 1 .. Len(t) + 1
  BY LenProperties DEF Text
<1>2. \A k \in 1 .. Len(t) + 1 : f[k] \in Seq(Piece) /\ f[k] = Divide(Own, t, f, k)
  BY DivisionsIs
<1>3. E \subseteq j .. Len(t) /\ (E # {} => Min(E) \in E /\ \A y \in E : Min(E) <= y)
  BY EndsIs
<1>4. First(Own, t, j) \in Piece
  BY FirstIs
<1>5. Rest(t, j) \in Text
  BY <1>1, <1>2, TextsIs DEF Rest
<1>6. ASSUME E = {} PROVE OpenAt(t, j)
  <2>1. f[j] = <<First(Own, t, j)>> /\ First(Own, t, j).kind = "open"
    BY <1>1, <1>2, <1>6 DEF Divide, First
  <2>2. <<First(Own, t, j)>>[1] = First(Own, t, j) /\ 1 \in DOMAIN <<First(Own, t, j)>>
    OBVIOUS
  <2>3. First(Own, t, j) \in ToSet(f[j])
    BY <2>1, <2>2 DEF ToSet
  <2> QED BY <2>1, <2>3 DEF OpenAt, OpenOf
<1>7. ASSUME NEW e \in E, \A y \in E : e <= y
      PROVE  /\ Rest(t, j) = (IF Begins(Own, t, j) \in {"line", "block"} THEN <<>>
                              ELSE SubSeq(t, j, e)) \o Rest(t, e + 1)
             /\ OpenAt(t, j) <=> OpenAt(t, e + 1)
  <2>1. Min(E) = e /\ e + 1 \in 1 .. Len(t) + 1
    BY <1>1, <1>3, <1>7
  <2> DEFINE p == First(Own, t, j)
  <2>2. p = [kind |-> Begins(Own, t, j), text |-> SubSeq(t, j, e)]
    BY <2>1 DEF First
  <2>3. f[j] = <<p>> \o f[e + 1]
    BY <1>1, <1>2, <2>1 DEF Divide, First
  <2>4. f[e + 1] \in Seq(Piece)
    BY <1>2, <2>1
  <2>5. /\ p.kind = Begins(Own, t, j) /\ p.text = SubSeq(t, j, e) /\ p.kind # "open"
    <3> HIDE DEF p
    <3>1. p.kind = Begins(Own, t, j) /\ p.text = SubSeq(t, j, e)
      BY <2>2
    <3>2. Begins(Own, t, j) \in {"quoted", "line", "block", "char"}
      BY BeginsIs
    <3> QED BY <3>1, <3>2
  <2>6. p \in Piece
    BY <1>4
  <2> HIDE DEF p, f
  <2>7. /\ KeptOf(<<p>> \o f[e + 1]) = (IF Comment(p) THEN <<>> ELSE p.text) \o KeptOf(f[e + 1])
        /\ OpenOf(<<p>> \o f[e + 1]) <=> p.kind = "open" \/ OpenOf(f[e + 1])
    BY <2>4, <2>6, OnePiece
  <2> QED BY <2>3, <2>5, <2>7 DEF Rest, OpenAt, Comment, f
<1> QED BY <1>5, <1>6, <1>7

\* Nothing is kept after the last character.
LEMMA RestEnds ==
    ASSUME NEW t \in Text
    PROVE  Rest(t, Len(t) + 1) = <<>> /\ ~OpenAt(t, Len(t) + 1)
<1>1. Len(t) \in Nat /\ Len(t) + 1 \in 1 .. Len(t) + 1 /\ Len(t) + 1 > Len(t)
  BY LenProperties DEF Text
<1>2. Divisions(Own, t)[Len(t) + 1] = <<>>
  BY <1>1, DivisionsIs DEF Divide
<1> QED BY <1>2, NoPieces DEF Rest, OpenAt

-----------------------------------------------------------------------------
(* What begins at a character, and where it ends                             *)

\* The classifier's own rules.
LEMMA OwnRules ==
    ASSUME NEW t \in Text, NEW j \in 1 .. Len(t)
    PROVE  Begins(Own, t, j) =
               IF t[j] \in Quotes THEN "quoted"
               ELSE IF t[j] = "#" \/ (t[j] = "-" /\ j < Len(t) /\ t[j + 1] = "-") THEN "line"
               ELSE IF t[j] = "/" /\ j < Len(t) /\ t[j + 1] = "*" THEN "block"
               ELSE "char"
<1>1. Len(t) \in Nat /\ j \in Nat /\ j + 0 = j /\ j + 0 <= Len(t) /\ (j + 1 <= Len(t) <=> j < Len(t))
  BY LenProperties DEF Text
<1>2. Own.hash = TRUE /\ Own.blankDash = FALSE
  BY DEF Own
<1> DEFINE Is(n, S) == j + n <= Len(t) /\ t[j + n] \in S
<1>3. /\ Is(0, Quotes) <=> t[j] \in Quotes
      /\ Is(0, {"#"}) <=> t[j] = "#"
      /\ Is(0, {"-"}) /\ Is(1, {"-"}) <=> t[j] = "-" /\ j < Len(t) /\ t[j + 1] = "-"
      /\ Is(0, {"/"}) /\ Is(1, {"*"}) <=> t[j] = "/" /\ j < Len(t) /\ t[j + 1] = "*"
  BY <1>1
<1>4. Begins(Own, t, j) =
          CASE Is(0, Quotes)                  -> "quoted"
            [] Is(0, {"#"}) /\ TRUE           -> "line"
            [] /\ Is(0, {"-"}) /\ Is(1, {"-"})
               /\ FALSE /\ j + 2 <= Len(t) => Is(2, Blanks) -> "line"
            [] Is(0, {"/"}) /\ Is(1, {"*"})   -> "block"
            [] OTHER                          -> "char"
  BY <1>2 DEF Begins
<1>5. t[j] \in Quotes => t[j] \notin {"#", "-", "/"}
  BY DEF Quotes, Escaping
<1> HIDE DEF Is
<1> QED BY <1>3, <1>4, <1>5

LEMMA OneChar ==
    ASSUME NEW t \in Text, NEW j \in 1 .. Len(t)
    PROVE  SubSeq(t, j, j) = <<t[j]>> /\ <<t[j]>> \in Text
<1>1. Len(t) \in Nat /\ j \in Int /\ j - 1 < j /\ j - 1 \in Int /\ j \in j .. Len(t) /\ t[j] \in STRING
  BY LenProperties DEF Text
<1>2. <<t[j]>> \in Seq(STRING)
  BY <1>1
<1>3. SubSeq(t, j, j) = SubSeq(t, j, j - 1) \o <<t[j]>>
  BY <1>1, SubSeqRecursiveSecond DEF Text
<1>4. SubSeq(t, j, j - 1) = <<>>
  BY <1>1, SubSeqEmpty
<1>5. <<>> \o <<t[j]>> = <<t[j]>>
  BY <1>2, ConcatEmptySeq
<1> QED BY <1>2, <1>3, <1>4, <1>5 DEF Text

\* A quoted text grows by a character.
LEMMA LongerPart ==
    ASSUME NEW t \in Text, NEW j \in 1 .. Len(t), NEW m \in j .. Len(t)
    PROVE  SubSeq(t, j, m) = SubSeq(t, j, m - 1) \o <<t[m]>>
BY SubSeqRecursiveSecond DEF Text

\* Whether a character in a quoted text is escaped: the first is not, and one
\* after a backslash is if the backslash is not.
LEMMA EscapedBy ==
    ASSUME NEW R, NEW t \in Text, NEW j \in 1 .. Len(t)
    PROVE  /\ ~Escaped(R, t, j, j + 1)
           /\ \A m \in j + 1 .. Len(t) :
                 Escaped(R, t, j, m + 1) <=>
                    R.escape /\ t[j] \in Escaping /\ t[m] = "backslash" /\ ~Escaped(R, t, j, m)
<1> DEFINE Run(m) == {n \in j + 1 .. m - 1 : \A x \in n .. m - 1 : t[x] = "backslash"}
<1>1. Len(t) \in Nat /\ j \in Nat
  BY LenProperties DEF Text
<1>3. \A m \in Int : Escaped(R, t, j, m) <=> R.escape /\ t[j] \in Escaping /\ Cardinality(Run(m)) % 2 = 1
  BY DEF Escaped
<1>4. Cardinality(Run(j + 1)) = 0
  <2>1. Run(j + 1) = {}
    BY <1>1
  <2> QED BY <2>1, FS_EmptySet
<1>5. ASSUME NEW m \in j + 1 .. Len(t)
      PROVE  /\ Cardinality(Run(m)) \in Nat
             /\ Cardinality(Run(m + 1)) = IF t[m] = "backslash" THEN Cardinality(Run(m)) + 1 ELSE 0
  <2>1. IsFiniteSet(Run(m)) /\ m \notin Run(m)
    <3>1. IsFiniteSet(j + 1 .. m - 1)
      BY <1>1, FS_Interval
    <3>2. Run(m) \subseteq j + 1 .. m - 1
      OBVIOUS
    <3>3. IsFiniteSet(Run(m))
      BY <3>1, <3>2, FS_Subset
    <3>4. m \notin Run(m)
      BY <1>1
    <3> QED BY <3>3, <3>4
  <2>2. CASE t[m] = "backslash"
    <3>1. Run(m + 1) = Run(m) \cup {m}
      <4>1. ASSUME NEW n \in Run(m + 1) PROVE n \in Run(m) \cup {m}
        BY <1>1
      <4>2. ASSUME NEW n \in Run(m) PROVE n \in Run(m + 1)
        <5>1. n \in j + 1 .. m /\ m + 1 - 1 = m /\ \A x \in n .. m : x = m \/ x \in n .. m - 1
          BY <1>1
        <5> QED BY <2>2, <5>1
      <4>3. m \in Run(m + 1)
        <5>1. m \in j + 1 .. m + 1 - 1 /\ \A x \in m .. m + 1 - 1 : x = m
          BY <1>1
        <5> QED BY <2>2, <5>1
      <4> HIDE DEF Run
      <4> QED BY <4>1, <4>2, <4>3
    <3> HIDE DEF Run
    <3> QED BY <2>1, <2>2, <3>1, FS_AddElement, FS_CardinalityType
  <2>3. CASE t[m] # "backslash"
    <3>1. Run(m + 1) = {}
      <4>1. ASSUME NEW n \in Run(m + 1) PROVE FALSE
        <5>1. m \in n .. m + 1 - 1
          BY <1>1
        <5> QED BY <2>3, <5>1
      <4> HIDE DEF Run
      <4> QED BY <4>1
    <3> HIDE DEF Run
    <3> QED BY <2>1, <2>3, <3>1, FS_EmptySet, FS_CardinalityType
  <2> QED BY <2>2, <2>3
<1> HIDE DEF Run
<1>6. ~Escaped(R, t, j, j + 1)
  BY <1>1, <1>3, <1>4
<1>7. ASSUME NEW m \in j + 1 .. Len(t)
      PROVE  Escaped(R, t, j, m + 1) <=>
                R.escape /\ t[j] \in Escaping /\ t[m] = "backslash" /\ ~Escaped(R, t, j, m)
  <2>1. m \in Int /\ m + 1 \in Int
    BY <1>1
  <2>2. PICK c \in Nat : c = Cardinality(Run(m))
    BY <1>5
  <2>3. (c + 1) % 2 = 1 <=> ~(c % 2 = 1)
    OBVIOUS
  <2>4. Cardinality(Run(m + 1)) = IF t[m] = "backslash" THEN c + 1 ELSE 0
    BY <1>5, <2>2
  <2> QED BY <1>3, <2>1, <2>2, <2>3, <2>4
<1> QED BY <1>6, <1>7

LEMMA EscapedIs ==
    ASSUME NEW t \in Text, NEW j \in 1 .. Len(t)
    PROVE  /\ ~Escaped(Own, t, j, j + 1)
           /\ \A m \in j + 1 .. Len(t) :
                 Escaped(Own, t, j, m + 1) <=>
                    t[j] \in Escaping /\ t[m] = "backslash" /\ ~Escaped(Own, t, j, m)
<1>1. Own.escape = TRUE
  BY DEF Own
<1> QED BY <1>1, EscapedBy

-----------------------------------------------------------------------------
(* The scan                                                                  *)

\* With b kept before character k of t: what the rules keep from k on completes it.
Outside(t, k, b) ==
    /\ b \in Text /\ b \o Rest(t, k) = Kept(t)
    /\ OpenAt(t, k) <=> Open(t)

\* At character k inside what began at j, with b kept: not past its first end.
InQuote(t, k, b, q) ==
    \E j \in 1 .. k - 1 :
        /\ t[j] = q
        /\ \A m \in Ends(Own, t, j) : m >= k
        /\ k <= Len(t) => ~Escaped(Own, t, j, k)
        /\ \E p \in Text : Outside(t, j, p) /\ b = p \o SubSeq(t, j, k - 1)
InLine(t, k, b) ==
    \E j \in 1 .. k - 1 :
        /\ Begins(Own, t, j) = "line"
        /\ \A m \in Ends(Own, t, j) : m >= k - 1
        /\ Outside(t, j, b)
InBlock(t, k, b) ==
    \E j \in 1 .. k - 2 :
        /\ Begins(Own, t, j) = "block"
        /\ \A m \in Ends(Own, t, j) : m > k
        /\ Outside(t, j, b)

\* The scan of t, at character k in state s with b kept.
Scans(t, k, s, b) ==
    /\ t \in Text /\ k \in 1 .. Len(t) + 1
    /\ s \in Quotes \cup {"default", "line", "block"}
    /\ s = "default" => Outside(t, k, b)
    /\ s \in Quotes => InQuote(t, k, b, s)
    /\ s = "line" => InLine(t, k, b)
    /\ s = "block" => InBlock(t, k, b)

\* Past what begins at j, or in it to the end.
LEMMA Past ==
    ASSUME NEW t \in Text, NEW j \in 1 .. Len(t), NEW b, Outside(t, j, b),
           NEW e \in Ends(Own, t, j), \A y \in Ends(Own, t, j) : e <= y
    PROVE  /\ Begins(Own, t, j) \in {"line", "block"} => Outside(t, e + 1, b)
           /\ Begins(Own, t, j) \notin {"line", "block"} => Outside(t, e + 1, b \o SubSeq(t, j, e))
<1>1. /\ Rest(t, j) = (IF Begins(Own, t, j) \in {"line", "block"} THEN <<>> ELSE SubSeq(t, j, e)) \o Rest(t, e + 1)
      /\ OpenAt(t, j) <=> OpenAt(t, e + 1)
  BY RestIs
<1>2. Len(t) \in Nat /\ e \in 0 .. Len(t) /\ e + 1 \in 1 .. Len(t) + 1
  BY EndsIs
<1>3. SubSeq(t, j, e) \in Text
  BY <1>2, PartIsText
<1>4. Rest(t, e + 1) \in Text
  <2>1. Divisions(Own, t)[e + 1] \in Seq(Piece)
    BY <1>2, DivisionsIs
  <2> QED BY <2>1, TextsIs DEF Rest
<1>5. CASE Begins(Own, t, j) \in {"line", "block"}
  <2>1. <<>> \o Rest(t, e + 1) = Rest(t, e + 1)
    BY <1>4, ConcatEmptySeq DEF Text
  <2> QED BY <1>1, <1>5, <2>1 DEF Outside
<1>6. CASE Begins(Own, t, j) \notin {"line", "block"}
  <2>1. PICK p, r : p = SubSeq(t, j, e) /\ r = Rest(t, e + 1)
    OBVIOUS
  <2>2. b \in Text /\ p \in Text /\ r \in Text
    BY <1>3, <1>4, <2>1 DEF Outside
  <2>3. (b \o p) \o r = b \o (p \o r)
    BY ONLY <2>2, TextsAssociate, ZenonT(40)
  <2>4. b \o p \in Text
    BY <2>2, ConcatProperties DEF Text
  <2>5. Rest(t, j) = p \o r
    BY <1>1, <1>6, <2>1
  <2>6. (b \o p) \o r = Kept(t)
    BY <2>3, <2>5 DEF Outside
  <2> QED BY <1>1, <1>6, <2>1, <2>4, <2>6 DEF Outside
<1> QED BY <1>5, <1>6

LEMMA NoEnd ==
    ASSUME NEW t \in Text, NEW j \in 1 .. Len(t), NEW b, Outside(t, j, b), Ends(Own, t, j) = {}
    PROVE  Open(t)
BY RestIs DEF Outside

\* Outside, at a character.
LEMMA DefaultKeeps ==
    ASSUME NEW t, NEW k, NEW b, Scans(t, k, "default", b), k <= Len(t)
    PROVE  /\ t[k] \in Quotes => Scans(t, k + 1, t[k], b \o <<t[k]>>)
           /\ t[k] = "-" /\ k < Len(t) /\ t[k + 1] = "-" => Scans(t, k + 2, "line", b)
           /\ t[k] = "#" => Scans(t, k + 1, "line", b)
           /\ t[k] = "/" /\ k < Len(t) /\ t[k + 1] = "*" => Scans(t, k + 2, "block", b)
           /\ Begins(Own, t, k) = "char" => Scans(t, k + 1, "default", b \o <<t[k]>>)
<1>1. /\ t \in Text /\ Len(t) \in Nat /\ k \in 1 .. Len(t) /\ k \in Nat /\ k + 1 \in 1 .. Len(t) + 1
      /\ Outside(t, k, b)
  <2>1. t \in Text /\ k \in 1 .. Len(t) + 1 /\ Outside(t, k, b)
    BY DEF Scans
  <2>2. Len(t) \in Nat
    BY <2>1, LenProperties DEF Text
  <2> QED BY <2>1, <2>2
<1>2. Begins(Own, t, k) =
          IF t[k] \in Quotes THEN "quoted"
          ELSE IF t[k] = "#" \/ (t[k] = "-" /\ k < Len(t) /\ t[k + 1] = "-") THEN "line"
          ELSE IF t[k] = "/" /\ k < Len(t) /\ t[k + 1] = "*" THEN "block"
          ELSE "char"
  BY <1>1, OwnRules
<1>3. /\ "default" \notin Quotes /\ "line" \notin Quotes /\ "block" \notin Quotes
      /\ "#" \notin Quotes /\ "-" \notin Quotes /\ "/" \notin Quotes
  BY DEF Quotes, Escaping
<1>4. SubSeq(t, k, k) = <<t[k]>>
  BY <1>1, OneChar
<1>5. ASSUME t[k] \in Quotes PROVE Scans(t, k + 1, t[k], b \o <<t[k]>>)
  <2>1. \A m \in Ends(Own, t, k) : m >= k + 1
    BY <1>1, <1>2, <1>5 DEF Ends
  <2>2. ~Escaped(Own, t, k, k + 1)
    BY <1>1, EscapedIs
  <2>3. k \in 1 .. (k + 1) - 1 /\ (k + 1) - 1 = k /\ b \in Text
    BY <1>1 DEF Outside
  <2>4. InQuote(t, k + 1, b \o <<t[k]>>, t[k])
    BY <1>1, <1>4, <2>1, <2>2, <2>3 DEF InQuote
  <2> QED BY <1>1, <1>3, <1>5, <2>4 DEF Scans
<1>6. ASSUME t[k] = "-", k < Len(t), t[k + 1] = "-" PROVE Scans(t, k + 2, "line", b)
  <2>1. Begins(Own, t, k) = "line"
    BY <1>2, <1>3, <1>6
  <2>2. \A m \in Ends(Own, t, k) : m >= k + 1
    <3> SUFFICES ASSUME NEW m \in Ends(Own, t, k) PROVE m >= k + 1
      OBVIOUS
    <3>1. m \in k .. Len(t) /\ (m = Len(t) \/ t[m + 1] = "newline")
      BY <2>1 DEF Ends
    <3>2. m # k
      BY <1>1, <1>6, <3>1
    <3> QED BY <1>1, <3>1, <3>2
  <2>3. k + 2 \in 1 .. Len(t) + 1 /\ k \in 1 .. (k + 2) - 1 /\ (k + 2) - 1 = k + 1
    BY <1>1, <1>6
  <2>4. InLine(t, k + 2, b)
    BY <1>1, <2>1, <2>2, <2>3 DEF InLine
  <2> QED BY <1>1, <1>3, <2>3, <2>4 DEF Scans
<1>7. ASSUME t[k] = "#" PROVE Scans(t, k + 1, "line", b)
  <2>1. Begins(Own, t, k) = "line"
    BY <1>2, <1>3, <1>7
  <2>2. \A m \in Ends(Own, t, k) : m >= k
    BY <1>1, EndsIs
  <2>3. k \in 1 .. (k + 1) - 1 /\ (k + 1) - 1 = k
    BY <1>1
  <2>4. InLine(t, k + 1, b)
    BY <1>1, <2>1, <2>2, <2>3 DEF InLine
  <2> QED BY <1>1, <1>3, <2>4 DEF Scans
<1>8. ASSUME t[k] = "/", k < Len(t), t[k + 1] = "*" PROVE Scans(t, k + 2, "block", b)
  <2>1. Begins(Own, t, k) = "block"
    BY <1>2, <1>3, <1>8
  <2>2. \A m \in Ends(Own, t, k) : m > k + 2
    BY <1>1, <2>1 DEF Ends
  <2>3. k + 2 \in 1 .. Len(t) + 1 /\ k \in 1 .. (k + 2) - 2
    BY <1>1, <1>8
  <2>4. InBlock(t, k + 2, b)
    BY <1>1, <2>1, <2>2, <2>3 DEF InBlock
  <2> QED BY <1>1, <1>3, <2>3, <2>4 DEF Scans
<1>9. ASSUME Begins(Own, t, k) = "char" PROVE Scans(t, k + 1, "default", b \o <<t[k]>>)
  <2>1. Ends(Own, t, k) = {k}
    BY <1>9 DEF Ends
  <2>2. k \in Ends(Own, t, k) /\ \A y \in Ends(Own, t, k) : k <= y
    BY <1>1, <2>1
  <2>3. Outside(t, k + 1, b \o SubSeq(t, k, k))
    BY <1>1, <1>9, <2>2, Past
  <2> QED BY <1>1, <1>3, <1>4, <2>3 DEF Scans
<1> QED BY <1>5, <1>6, <1>7, <1>8, <1>9

\* In a quoted text, at a character.
LEMMA QuotedKeeps ==
    ASSUME NEW t, NEW k, NEW b, NEW q \in Quotes, Scans(t, k, q, b), k <= Len(t)
    PROVE  /\ q \in Escaping /\ t[k] = "backslash" /\ k < Len(t) =>
                 Scans(t, k + 2, q, b \o <<t[k], t[k + 1]>>)
           /\ ~(q \in Escaping /\ t[k] = "backslash" /\ k < Len(t)) =>
                 Scans(t, k + 1, IF t[k] = q THEN "default" ELSE q, b \o <<t[k]>>)
<1>0. q \notin {"default", "line", "block", "backslash"}
  BY DEF Quotes, Escaping
<1>1. t \in Text /\ Len(t) \in Nat /\ k \in 1 .. Len(t) /\ k \in Nat /\ InQuote(t, k, b, q)
  <2>1. t \in Text /\ k \in 1 .. Len(t) + 1 /\ InQuote(t, k, b, q)
    BY DEF Scans
  <2>2. Len(t) \in Nat
    BY <2>1, LenProperties DEF Text
  <2> QED BY <2>1, <2>2
<1>2. PICK j \in 1 .. k - 1 :
        /\ t[j] = q
        /\ \A m \in Ends(Own, t, j) : m >= k
        /\ k <= Len(t) => ~Escaped(Own, t, j, k)
        /\ \E p \in Text : Outside(t, j, p) /\ b = p \o SubSeq(t, j, k - 1)
  BY <1>1 DEF InQuote
<1>3. PICK p \in Text : Outside(t, j, p) /\ b = p \o SubSeq(t, j, k - 1)
  BY <1>2
<1>4. j \in 1 .. Len(t) /\ j \in Nat /\ k \in j .. Len(t) /\ k \in j + 1 .. Len(t) /\ k - 1 \in 0 .. Len(t)
      /\ k + 1 \in 1 .. Len(t) + 1
  BY <1>1
<1>5. Begins(Own, t, j) = "quoted"
  BY <1>1, <1>2, <1>4, OwnRules
<1>6. \A m \in Ends(Own, t, j) : m \in j + 1 .. Len(t) /\ t[m] = q /\ ~Escaped(Own, t, j, m)
  BY <1>2, <1>5 DEF Ends
<1>7. \A m \in j + 1 .. Len(t) : t[m] = q /\ ~Escaped(Own, t, j, m) => m \in Ends(Own, t, j)
  BY <1>2, <1>5 DEF Ends
<1>8. ~Escaped(Own, t, j, k)
  BY <1>2
<1>9. \A m \in j + 1 .. Len(t) :
        Escaped(Own, t, j, m + 1) <=> q \in Escaping /\ t[m] = "backslash" /\ ~Escaped(Own, t, j, m)
  BY <1>1, <1>2, <1>4, EscapedIs
\* What is kept with the character.
<1>10. \A m \in j .. Len(t) : p \o SubSeq(t, j, m) = (p \o SubSeq(t, j, m - 1)) \o <<t[m]>>
  <2> SUFFICES ASSUME NEW m \in j .. Len(t)
               PROVE  p \o SubSeq(t, j, m) = (p \o SubSeq(t, j, m - 1)) \o <<t[m]>>
    OBVIOUS
  <2>1. m \in 1 .. Len(t) /\ m - 1 \in 0 .. Len(t)
    BY <1>1, <1>4
  <2>2. PICK r, c : r = SubSeq(t, j, m - 1) /\ c = <<t[m]>>
    OBVIOUS
  <2>3. p \in Text /\ r \in Text /\ c \in Text
    BY <1>1, <1>4, <2>1, <2>2, PartIsText, OneChar
  <2>4. (p \o r) \o c = p \o (r \o c)
    BY ONLY <2>3, TextsAssociate, ZenonT(40)
  <2>5. SubSeq(t, j, m) = r \o c
    BY <1>1, <1>4, <2>2, LongerPart
  <2> QED BY <2>2, <2>4, <2>5
<1>11. b \o <<t[k]>> = p \o SubSeq(t, j, k)
  BY <1>3, <1>4, <1>10
<1>12. ASSUME q \in Escaping, t[k] = "backslash", k < Len(t)
       PROVE  Scans(t, k + 2, q, b \o <<t[k], t[k + 1]>>)
  <2>1. PICK n \in j + 1 .. Len(t) : n = k + 1
    BY <1>1, <1>4, <1>12
  <2>2. n \in j .. Len(t) /\ n - 1 = k /\ k + 2 = n + 1 /\ n + 1 \in 1 .. Len(t) + 1 /\ n \in Nat
    BY <1>1, <1>4, <2>1
  <2>3. b \o <<t[k], t[k + 1]>> = p \o SubSeq(t, j, n)
    <3>1. p \o SubSeq(t, j, n) = (p \o SubSeq(t, j, k)) \o <<t[n]>>
      BY <1>10, <2>2
    <3>2. PICK c, d : c = <<t[k]>> /\ d = <<t[n]>>
      OBVIOUS
    <3>3. b \in Text /\ c \in Text /\ d \in Text
      <4>1. c \in Text /\ d \in Text
        <5>1. k \in 1 .. Len(t) /\ n \in 1 .. Len(t)
          BY <1>1, <1>4, <2>1
        <5> QED BY <1>1, <3>2, <5>1, OneChar
      <4>2. SubSeq(t, j, k - 1) \in Text
        BY <1>1, <1>4, PartIsText
      <4>3. b \in Text
        BY <1>3, <4>2, ConcatProperties DEF Text
      <4> QED BY <4>1, <4>3
    <3>4. (b \o c) \o d = b \o (c \o d)
      BY ONLY <3>3, TextsAssociate, ZenonT(40)
    <3>5. <<t[k], t[n]>> = c \o d
      BY <3>2
    <3> QED BY <1>11, <2>1, <3>1, <3>2, <3>4, <3>5
  <2>4. Escaped(Own, t, j, n)
    BY <1>4, <1>8, <1>9, <1>12, <2>1
  <2>5. ~Escaped(Own, t, j, n + 1)
    BY <1>9, <2>4
  <2>6. \A m \in Ends(Own, t, j) : m >= n + 1
    <3> SUFFICES ASSUME NEW m \in Ends(Own, t, j) PROVE m >= n + 1
      OBVIOUS
    <3>1. m >= k /\ m \in Nat
      BY <1>2, <1>4, <1>6
    <3>2. m # k /\ m # n
      BY <1>0, <1>6, <1>12, <2>4
    <3> QED BY <1>1, <2>1, <3>1, <3>2
  <2>7. j \in 1 .. (n + 1) - 1 /\ (n + 1) - 1 = n
    BY <2>1, <1>4, <2>2
  <2>8. InQuote(t, n + 1, p \o SubSeq(t, j, n), q)
    BY <1>2, <1>3, <2>5, <2>6, <2>7 DEF InQuote
  <2> QED BY <1>0, <1>1, <2>2, <2>3, <2>8 DEF Scans
<1>13. ASSUME ~(q \in Escaping /\ t[k] = "backslash" /\ k < Len(t)), t[k] = q
       PROVE  Scans(t, k + 1, "default", b \o <<t[k]>>)
  <2>1. k \in Ends(Own, t, j)
    BY <1>4, <1>7, <1>8, <1>13
  <2>2. \A m \in Ends(Own, t, j) : k <= m
    BY <1>1, <1>2, <1>4, <1>6
  <2>3. Outside(t, k + 1, p \o SubSeq(t, j, k))
    BY <1>1, <1>3, <1>4, <1>5, <2>1, <2>2, Past
  <2>4. "default" \notin Quotes
    BY DEF Quotes, Escaping
  <2> QED BY <1>1, <1>4, <1>11, <2>3, <2>4 DEF Scans
<1>14. ASSUME ~(q \in Escaping /\ t[k] = "backslash" /\ k < Len(t)), t[k] # q
       PROVE  Scans(t, k + 1, q, b \o <<t[k]>>)
  <2>1. k + 1 <= Len(t) => ~Escaped(Own, t, j, k + 1)
    BY <1>1, <1>4, <1>9, <1>14
  <2>2. \A m \in Ends(Own, t, j) : m >= k + 1
    <3> SUFFICES ASSUME NEW m \in Ends(Own, t, j) PROVE m >= k + 1
      OBVIOUS
    <3>1. m >= k /\ m \in Nat /\ m # k
      BY <1>2, <1>4, <1>6, <1>14
    <3> QED BY <1>1, <3>1
  <2>3. j \in 1 .. (k + 1) - 1 /\ (k + 1) - 1 = k
    BY <1>1, <1>4
  <2>4. InQuote(t, k + 1, p \o SubSeq(t, j, k), q)
    BY <1>2, <1>3, <2>1, <2>2, <2>3 DEF InQuote
  <2> QED BY <1>0, <1>1, <1>4, <1>11, <2>4 DEF Scans
<1> QED BY <1>12, <1>13, <1>14

\* In a line comment, at a character.
LEMMA LineKeeps ==
    ASSUME NEW t, NEW k, NEW b, Scans(t, k, "line", b), k <= Len(t)
    PROVE  /\ t[k] = "newline" => Scans(t, k + 1, "default", b \o <<t[k]>>)
           /\ t[k] # "newline" => Scans(t, k + 1, "line", b)
<1>0. "line" \notin Quotes /\ "default" \notin Quotes /\ "newline" \notin Quotes
  BY DEF Quotes, Escaping
<1>1. t \in Text /\ Len(t) \in Nat /\ k \in 1 .. Len(t) /\ k \in Nat /\ InLine(t, k, b)
  <2>1. t \in Text /\ k \in 1 .. Len(t) + 1 /\ InLine(t, k, b)
    BY DEF Scans
  <2>2. Len(t) \in Nat
    BY <2>1, LenProperties DEF Text
  <2> QED BY <2>1, <2>2
<1>2. PICK j \in 1 .. k - 1 :
        /\ Begins(Own, t, j) = "line"
        /\ \A m \in Ends(Own, t, j) : m >= k - 1
        /\ Outside(t, j, b)
  BY <1>1 DEF InLine
<1>3. j \in 1 .. Len(t) /\ k - 1 \in j .. Len(t) /\ k - 1 # Len(t) /\ (k - 1) + 1 = k /\ k + 1 \in 1 .. Len(t) + 1
  BY <1>1
<1>4. Ends(Own, t, j) = {m \in j .. Len(t) : m = Len(t) \/ t[m + 1] = "newline"}
  BY <1>2 DEF Ends
<1>5. ASSUME t[k] = "newline" PROVE Scans(t, k + 1, "default", b \o <<t[k]>>)
  <2>1. k - 1 \in Ends(Own, t, j)
    BY <1>3, <1>4, <1>5
  <2>2. \A y \in Ends(Own, t, j) : k - 1 <= y
    BY <1>1, <1>2, <1>3, <1>4
  <2>3. Outside(t, (k - 1) + 1, b)
    BY <1>1, <1>2, <1>3, <2>1, <2>2, Past
  <2>4. Scans(t, k, "default", b)
    BY <1>0, <1>1, <1>3, <2>3 DEF Scans
  <2>5. Begins(Own, t, k) = "char"
    BY <1>0, <1>1, <1>5, OwnRules
  <2> QED BY <2>4, <2>5, DefaultKeeps
<1>6. ASSUME t[k] # "newline" PROVE Scans(t, k + 1, "line", b)
  <2>1. \A m \in Ends(Own, t, j) : m >= k
    <3> SUFFICES ASSUME NEW m \in Ends(Own, t, j) PROVE m >= k
      OBVIOUS
    <3>1. m \in j .. Len(t) /\ m >= k - 1 /\ (m = Len(t) \/ t[m + 1] = "newline")
      BY <1>2, <1>4
    <3>2. m # k - 1
      BY <1>3, <1>6, <3>1
    <3> QED BY <1>1, <1>3, <3>1, <3>2
  <2>2. j \in 1 .. (k + 1) - 1 /\ (k + 1) - 1 = k
    BY <1>1, <1>3
  <2>3. InLine(t, k + 1, b)
    BY <1>2, <2>1, <2>2 DEF InLine
  <2> QED BY <1>0, <1>1, <1>3, <2>3 DEF Scans
<1> QED BY <1>5, <1>6

\* In a block comment, at a character.
LEMMA BlockKeeps ==
    ASSUME NEW t, NEW k, NEW b, Scans(t, k, "block", b), k <= Len(t)
    PROVE  /\ t[k] = "*" /\ k < Len(t) /\ t[k + 1] = "/" => Scans(t, k + 2, "default", b)
           /\ ~(t[k] = "*" /\ k < Len(t) /\ t[k + 1] = "/") => Scans(t, k + 1, "block", b)
<1>0. "block" \notin Quotes /\ "default" \notin Quotes
  BY DEF Quotes, Escaping
<1>1. t \in Text /\ Len(t) \in Nat /\ k \in 1 .. Len(t) /\ k \in Nat /\ InBlock(t, k, b)
  <2>1. t \in Text /\ k \in 1 .. Len(t) + 1 /\ InBlock(t, k, b)
    BY DEF Scans
  <2>2. Len(t) \in Nat
    BY <2>1, LenProperties DEF Text
  <2> QED BY <2>1, <2>2
<1>2. PICK j \in 1 .. k - 2 :
        /\ Begins(Own, t, j) = "block"
        /\ \A m \in Ends(Own, t, j) : m > k
        /\ Outside(t, j, b)
  BY <1>1 DEF InBlock
<1>3. j \in 1 .. Len(t) /\ j + 2 <= k /\ k + 1 \in 1 .. Len(t) + 1 /\ (k + 1) - 1 = k /\ (k + 1) + 1 = k + 2
  BY <1>1
<1>4. Ends(Own, t, j) = {m \in j + 3 .. Len(t) : t[m - 1] = "*" /\ t[m] = "/"}
  BY <1>2 DEF Ends
<1>5. ASSUME t[k] = "*", k < Len(t), t[k + 1] = "/" PROVE Scans(t, k + 2, "default", b)
  <2>1. k + 1 \in j + 3 .. Len(t) /\ k + 2 \in 1 .. Len(t) + 1
    BY <1>1, <1>3, <1>5
  <2>2. k + 1 \in Ends(Own, t, j)
    BY <1>3, <1>4, <1>5, <2>1
  <2>3. \A y \in Ends(Own, t, j) : k + 1 <= y
    BY <1>1, <1>2, <1>3, <1>4
  <2>4. Outside(t, (k + 1) + 1, b)
    BY <1>1, <1>2, <1>3, <2>2, <2>3, Past
  <2> QED BY <1>0, <1>1, <1>3, <2>1, <2>4 DEF Scans
<1>6. ASSUME ~(t[k] = "*" /\ k < Len(t) /\ t[k + 1] = "/") PROVE Scans(t, k + 1, "block", b)
  <2>1. \A m \in Ends(Own, t, j) : m > k + 1
    <3> SUFFICES ASSUME NEW m \in Ends(Own, t, j) PROVE m > k + 1
      OBVIOUS
    <3>1. m \in j + 3 .. Len(t) /\ m > k /\ t[m - 1] = "*" /\ t[m] = "/"
      BY <1>2, <1>4
    <3>2. m = k + 1 => m - 1 = k /\ k < Len(t)
      BY <1>1, <1>3, <3>1
    <3>3. m # k + 1
      BY <1>6, <3>1, <3>2
    <3> QED BY <1>1, <1>3, <3>1, <3>3
  <2>2. j \in 1 .. (k + 1) - 2
    BY <1>1, <1>3
  <2>3. InBlock(t, k + 1, b)
    BY <1>2, <2>1, <2>2 DEF InBlock
  <2> QED BY <1>0, <1>1, <1>3, <2>3 DEF Scans
<1> QED BY <1>5, <1>6

\* After the last character.
LEMMA ScanEnds ==
    ASSUME NEW t, NEW k, NEW s, NEW b, Scans(t, k, s, b), k > Len(t)
    PROVE  /\ s \in Quotes \cup {"block"} => Open(t)
           /\ s \notin Quotes \cup {"block"} => ~Open(t) /\ b = Kept(t)
<1>1. t \in Text /\ Len(t) \in Nat /\ k = Len(t) + 1 /\ k - 1 = Len(t)
  <2>1. t \in Text /\ k \in 1 .. Len(t) + 1
    BY DEF Scans
  <2>2. Len(t) \in Nat
    BY <2>1, LenProperties DEF Text
  <2> QED BY <2>1, <2>2
<1>2. s \in Quotes \cup {"default", "line", "block"}
  BY DEF Scans
\* Nothing is left.
<1>3. ASSUME Outside(t, k, b) PROVE ~Open(t) /\ b = Kept(t)
  <2>1. Rest(t, k) = <<>> /\ ~OpenAt(t, k)
    BY <1>1, RestEnds
  <2>2. b \o <<>> = b
    BY <1>3, ConcatEmptySeq DEF Outside, Text
  <2> QED BY <1>3, <2>1, <2>2 DEF Outside
<1>4. ASSUME s \in Quotes PROVE Open(t)
  <2>1. PICK j \in 1 .. k - 1 : /\ \A m \in Ends(Own, t, j) : m >= k
                                /\ \E p \in Text : Outside(t, j, p)
    BY <1>4 DEF Scans, InQuote
  <2>2. j \in 1 .. Len(t)
    BY <1>1
  <2>3. Ends(Own, t, j) = {}
    BY <1>1, <2>1, <2>2, EndsIs
  <2> QED BY <1>1, <2>1, <2>2, <2>3, NoEnd
<1>5. ASSUME s = "block" PROVE Open(t)
  <2>1. PICK j \in 1 .. k - 2 : (\A m \in Ends(Own, t, j) : m > k) /\ Outside(t, j, b)
    BY <1>5 DEF Scans, InBlock
  <2>2. j \in 1 .. Len(t)
    BY <1>1
  <2>3. Ends(Own, t, j) = {}
    BY <1>1, <2>1, <2>2, EndsIs
  <2> QED BY <1>1, <2>1, <2>2, <2>3, NoEnd
<1>6. ASSUME s = "line" PROVE Outside(t, k, b)
  <2>1. PICK j \in 1 .. k - 1 : /\ Begins(Own, t, j) = "line"
                                /\ \A m \in Ends(Own, t, j) : m >= k - 1
                                /\ Outside(t, j, b)
    BY <1>6 DEF Scans, InLine
  <2>2. j \in 1 .. Len(t)
    BY <1>1
  <2>3. Len(t) \in Ends(Own, t, j)
    BY <1>1, <2>1, <2>2 DEF Ends
  <2>4. \A y \in Ends(Own, t, j) : Len(t) <= y
    BY <1>1, <2>1, <2>2, EndsIs
  <2> QED BY <1>1, <2>1, <2>2, <2>3, <2>4, Past
<1>7. ASSUME s = "default" PROVE Outside(t, k, b)
  BY <1>7 DEF Scans
<1> QED BY <1>2, <1>3, <1>4, <1>5, <1>6, <1>7

-----------------------------------------------------------------------------
(* Every step of the scan                                                    *)

ScanInv ==
    /\ verdict = "none" => Scans(input, i, state, builder)
    /\ CutsComments

\* Init establishes it.
LEMMA ScanInit == Init => ScanInv
<1> SUFFICES ASSUME Init PROVE ScanInv
  OBVIOUS
<1>1. input \in Text /\ i = 1 /\ state = "default" /\ builder = <<>> /\ verdict = "none"
  BY ClassifierAssumption DEF Init, Text
<1>2. Len(input) \in Nat /\ 1 \in 1 .. Len(input) + 1
  BY <1>1, LenProperties DEF Text
<1>3. Rest(input, 1) \in Text /\ <<>> \in Text
  <2>1. Divisions(Own, input)[1] \in Seq(Piece)
    BY <1>1, <1>2, DivisionsIs
  <2> QED BY <2>1, TextsIs, EmptySeq DEF Rest, Text
<1>4. <<>> \o Rest(input, 1) = Rest(input, 1)
  BY <1>3, ConcatEmptySeq DEF Text
<1>5. Outside(input, 1, <<>>)
  BY <1>1, <1>3, <1>4, Whole DEF Outside
<1>6. "default" \notin Quotes
  BY DEF Quotes, Escaping
<1>7. Scans(input, 1, "default", <<>>)
  BY <1>1, <1>2, <1>5, <1>6 DEF Scans
<1> QED BY <1>1, <1>7 DEF ScanInv, CutsComments

LEMMA KeptIsText ==
    ASSUME NEW t, NEW k, NEW s \in {"default", "line", "block"}, NEW b, Scans(t, k, s, b)
    PROVE  b \in Text
BY DEF Scans, InLine, InBlock, Outside

LEMMA ScanStep == ScanInv /\ [Next]_vars => ScanInv'
<1> SUFFICES ASSUME ScanInv, [Next]_vars PROVE ScanInv'
  OBVIOUS
<1> USE DEF ch, next
\* A step that goes on scanning.
<1>1. ASSUME input' = input, verdict' = "none", Scans(input, i', state', builder')
      PROVE  ScanInv'
  BY <1>1 DEF ScanInv, CutsComments
<1>2. ASSUME NEW s, NEW kept, NEW n, verdict = "none", Go(s, kept, n), Scans(input, i + n, s, builder \o kept)
      PROVE  ScanInv'
  BY <1>1, <1>2 DEF Go
<1>3. ASSUME NEW s, NEW n, verdict = "none", Go(s, <<>>, n), Scans(input, i + n, s, builder), builder \in Text
      PROVE  ScanInv'
  <2>1. builder \o <<>> = builder
    BY <1>3, ConcatEmptySeq DEF Text
  <2> QED BY <1>2, <1>3, <2>1
<1>4. ASSUME NEW s, Scanning(s)
      PROVE  verdict = "none" /\ Scans(input, i, s, builder) /\ i <= Len(input)
  BY <1>4 DEF Scanning, ScanInv
<1>5. CASE Default
  <2>1. Scans(input, i, "default", builder) /\ verdict = "none" /\ i <= Len(input)
    BY <1>4, <1>5 DEF Default
  <2>2. /\ ch \in Quotes => Scans(input, i + 1, ch, builder \o <<ch>>)
        /\ ch = "-" /\ next = "-" => Scans(input, i + 2, "line", builder)
        /\ ch = "#" => Scans(input, i + 1, "line", builder)
        /\ ch = "/" /\ next = "*" => Scans(input, i + 2, "block", builder)
        /\ Begins(Own, input, i) = "char" => Scans(input, i + 1, "default", builder \o <<ch>>)
    BY <2>1, DefaultKeeps
  <2>3. builder \in Text
    BY <2>1, KeptIsText
  <2>4. CASE ch \in Quotes
    <3>1. Go(ch, <<ch>>, 1)
      BY <1>5, <2>4 DEF Default, Quotes, Escaping
    <3> QED BY <1>2, <2>1, <2>2, <2>4, <3>1
  <2>5. CASE ch = "-" /\ next = "-"
    <3>1. Go("line", <<>>, 2)
      BY <1>5, <2>5 DEF Default, Quotes, Escaping
    <3> QED BY <1>3, <2>1, <2>2, <2>3, <2>5, <3>1
  <2>6. CASE ch = "#"
    <3>1. Go("line", <<>>, 1)
      BY <1>5, <2>6 DEF Default, Quotes, Escaping
    <3> QED BY <1>3, <2>1, <2>2, <2>3, <2>6, <3>1
  <2>7. CASE ch = "/" /\ next = "*"
    <3>1. Go("block", <<>>, 2)
      BY <1>5, <2>7 DEF Default, Quotes, Escaping
    <3> QED BY <1>3, <2>1, <2>2, <2>3, <2>7, <3>1
  <2>8. CASE ch \notin Quotes /\ ~(ch = "-" /\ next = "-") /\ ch # "#" /\ ~(ch = "/" /\ next = "*")
    <3>1. Go("default", <<ch>>, 1)
      BY <1>5, <2>8 DEF Default
    <3>2. input \in Text /\ i \in 1 .. Len(input)
      <4>1. input \in Text /\ i \in 1 .. Len(input) + 1
        BY <2>1 DEF Scans
      <4>2. Len(input) \in Nat
        BY <4>1, LenProperties DEF Text
      <4> QED BY <2>1, <4>1, <4>2
    <3>3. Begins(Own, input, i) = "char"
      BY <2>8, <3>2, OwnRules
    <3> QED BY <1>2, <2>1, <2>2, <3>1, <3>3
  <2> QED BY <2>4, <2>5, <2>6, <2>7, <2>8
<1>6. ASSUME NEW q \in Quotes, Scanning(q),
             IF q \in Escaping /\ ch = "backslash" /\ i < Len(input) THEN Go(q, <<ch, next>>, 2)
             ELSE Go(IF ch = q THEN "default" ELSE q, <<ch>>, 1)
      PROVE  ScanInv'
  <2>1. Scans(input, i, q, builder) /\ verdict = "none" /\ i <= Len(input)
    BY <1>4, <1>6
  <2>2. CASE q \in Escaping /\ ch = "backslash" /\ i < Len(input)
    <3>1. Go(q, <<ch, next>>, 2) /\ next = input[i + 1]
      BY <1>6, <2>2
    <3>2. Scans(input, i + 2, q, builder \o <<ch, input[i + 1]>>)
      BY <2>1, <2>2, QuotedKeeps
    <3> QED BY <1>2, <2>1, <3>1, <3>2
  <2>3. CASE ~(q \in Escaping /\ ch = "backslash" /\ i < Len(input))
    <3>1. Go(IF ch = q THEN "default" ELSE q, <<ch>>, 1)
      BY <1>6, <2>3
    <3>2. Scans(input, i + 1, IF ch = q THEN "default" ELSE q, builder \o <<ch>>)
      BY <2>1, <2>3, QuotedKeeps
    <3> QED BY <1>2, <2>1, <3>1, <3>2
  <2> QED BY <2>2, <2>3
<1>7. CASE Quoted
  <2>1. PICK q \in Escaping :
           /\ Scanning(q)
           /\ IF ch = "backslash" /\ i < Len(input) THEN Go(q, <<ch, next>>, 2)
              ELSE Go(IF ch = q THEN "default" ELSE q, <<ch>>, 1)
    BY <1>7 DEF Quoted
  <2>2. q \in Quotes
    BY DEF Quotes
  <2> QED BY <1>6, <2>1, <2>2
<1>8. CASE Backtick
  <2>1. "backtick" \in Quotes /\ "backtick" \notin Escaping
    BY DEF Quotes, Escaping
  <2> QED BY <1>6, <1>8, <2>1 DEF Backtick
<1>9. CASE LineComment
  <2>1. Scans(input, i, "line", builder) /\ verdict = "none" /\ i <= Len(input)
    BY <1>4, <1>9 DEF LineComment
  <2>2. builder \in Text
    BY <2>1, KeptIsText
  <2>3. CASE ch = "newline"
    <3>1. Go("default", <<ch>>, 1)
      BY <1>9, <2>3 DEF LineComment
    <3>2. Scans(input, i + 1, "default", builder \o <<ch>>)
      BY <2>1, <2>3, LineKeeps
    <3> QED BY <1>2, <2>1, <3>1, <3>2
  <2>4. CASE ch # "newline"
    <3>1. Go("line", <<>>, 1)
      BY <1>9, <2>4 DEF LineComment
    <3>2. Scans(input, i + 1, "line", builder)
      BY <2>1, <2>4, LineKeeps
    <3> QED BY <1>3, <2>1, <2>2, <3>1, <3>2
  <2> QED BY <2>3, <2>4
<1>10. CASE BlockComment
  <2>1. Scans(input, i, "block", builder) /\ verdict = "none" /\ i <= Len(input)
    BY <1>4, <1>10 DEF BlockComment
  <2>2. builder \in Text
    BY <2>1, KeptIsText
  <2>3. next = "/" <=> i < Len(input) /\ input[i + 1] = "/"
    OBVIOUS
  <2>4. CASE ch = "*" /\ next = "/"
    <3>1. Go("default", <<>>, 2)
      BY <1>10, <2>4 DEF BlockComment
    <3>2. Scans(input, i + 2, "default", builder)
      BY <2>1, <2>3, <2>4, BlockKeeps
    <3> QED BY <1>3, <2>1, <2>2, <3>1, <3>2
  <2>5. CASE ~(ch = "*" /\ next = "/")
    <3>1. Go("block", <<>>, 1)
      BY <1>10, <2>5 DEF BlockComment
    <3>2. Scans(input, i + 1, "block", builder)
      BY <2>1, <2>3, <2>5, BlockKeeps
    <3> QED BY <1>3, <2>1, <2>2, <3>1, <3>2
  <2> QED BY <2>4, <2>5
<1>11. CASE Ended
  <2>1. Scans(input, i, state, builder) /\ verdict = "none" /\ i > Len(input)
    BY <1>11 DEF Ended, ScanInv
  <2>2. /\ state \in Quotes \cup {"block"} => Open(input)
        /\ state \notin Quotes \cup {"block"} => ~Open(input) /\ builder = Kept(input)
    BY <2>1, ScanEnds
  <2>3. UNCHANGED <<input, i, state, builder>>
    BY <1>11 DEF Ended
  <2>4. verdict' = Expected(input)
    BY <1>11, <2>2 DEF Ended, Expected
  <2>5. verdict' \in Kinds => normalized' = Trimmed(Kept(input))
    <3>1. "unterminated" \notin Kinds
      BY DEF Kinds
    <3> QED BY <1>11, <2>2, <3>1 DEF Ended
  <2> QED BY <2>1, <2>3, <2>4, <2>5 DEF ScanInv, CutsComments
<1>12. CASE UNCHANGED vars
  BY <1>12 DEF ScanInv, CutsComments, vars
<1> QED BY <1>5, <1>7, <1>8, <1>9, <1>10, <1>11, <1>12 DEF Next, Classified

\* Every text is answered by the account without a scan, and what is sent is
\* the text without its comments.
THEOREM CommentsAreCut == Spec => []CutsComments
<1>1. ScanInv => CutsComments
  BY DEF ScanInv
<1> QED BY <1>1, ScanInit, ScanStep, PTL DEF Spec

-----------------------------------------------------------------------------
(* Texts that agree from a character on are divided alike                    *)

\* The division from j on is the piece that begins at j, and the division from
\* the character after it on.
LEMMA StepIs ==
    ASSUME NEW R, NEW t \in Text, NEW j \in 1 .. Len(t)
    PROVE  /\ Ends(R, t, j) = {} => Divisions(R, t)[j] = <<First(R, t, j)>> /\ First(R, t, j).kind = "open"
           /\ Ends(R, t, j) # {} =>
                 LET e == Min(Ends(R, t, j))
                 IN  /\ e \in Ends(R, t, j) /\ e \in j .. Len(t) /\ e + 1 \in j + 1 .. Len(t) + 1
                     /\ First(R, t, j) = [kind |-> Begins(R, t, j), text |-> SubSeq(t, j, e)]
                     /\ Divisions(R, t)[j] = <<First(R, t, j)>> \o Divisions(R, t)[e + 1]
<1> DEFINE f == Divisions(R, t)
           E == Ends(R, t, j)
<1>1. Len(t) \in Nat /\ ~(j > Len(t)) /\ j \in 1 .. Len(t) + 1 /\ j \in Nat
  BY LenProperties DEF Text
<1>2. f[j] = Divide(R, t, f, j)
  BY <1>1, DivisionsIs
<1>3. E \subseteq j .. Len(t) /\ (E # {} => Min(E) \in E)
  BY EndsIs
<1> HIDE DEF f
<1>4. ASSUME E = {} PROVE f[j] = <<First(R, t, j)>> /\ First(R, t, j).kind = "open"
  BY <1>1, <1>2, <1>4 DEF Divide, First
<1>5. ASSUME E # {}
      PROVE  /\ Min(E) \in j .. Len(t) /\ Min(E) + 1 \in j + 1 .. Len(t) + 1
             /\ First(R, t, j) = [kind |-> Begins(R, t, j), text |-> SubSeq(t, j, Min(E))]
             /\ f[j] = <<First(R, t, j)>> \o f[Min(E) + 1]
  <2>1. Min(E) \in j .. Len(t) /\ Min(E) + 1 \in j + 1 .. Len(t) + 1
    BY <1>1, <1>3, <1>5
  <2> QED BY <1>1, <1>2, <1>5, <2>1 DEF Divide, First
<1> QED BY <1>3, <1>4, <1>5 DEF f

\* An end that is not after any other is the first.
LEMMA FirstEnd ==
    ASSUME NEW R, NEW t \in Text, NEW j \in 1 .. Len(t),
           NEW e \in Ends(R, t, j), \A y \in Ends(R, t, j) : e <= y
    PROVE  Min(Ends(R, t, j)) = e
<1> DEFINE E == Ends(R, t, j)
<1>1. j \in Int /\ Len(t) \in Int
  BY LenProperties DEF Text
<1>2. E \subseteq j .. Len(t) /\ Min(E) \in E /\ \A y \in E : Min(E) <= y
  BY EndsIs
<1>3. Min(E) \in Int /\ e \in Int /\ Min(E) <= e /\ e <= Min(E)
  BY <1>1, <1>2
<1> QED BY <1>3

\* After the last character there is nothing.
LEMMA LastIs ==
    ASSUME NEW R, NEW t \in Text
    PROVE  Divisions(R, t)[Len(t) + 1] = <<>>
<1>1. Len(t) \in Nat /\ Len(t) + 1 \in 1 .. Len(t) + 1 /\ Len(t) + 1 > Len(t)
  BY LenProperties DEF Text
<1>2. Divisions(R, t)[Len(t) + 1] = Divide(R, t, Divisions(R, t), Len(t) + 1)
  BY <1>1, DivisionsIs
<1> QED BY <1>1, <1>2 DEF Divide

\* Whether a character is escaped depends on those from the quote to it.
LEMMA EscapedAlike ==
    ASSUME NEW R, NEW a \in Text, NEW b \in Text, NEW n \in Nat,
           NEW x \in 1 .. Len(a), NEW y \in 1 .. Len(b), x + n <= Len(a), y + n <= Len(b),
           \A k \in 0 .. n : a[x + k] = b[y + k]
    PROVE  \A k \in 0 .. n : Escaped(R, a, x, x + k + 1) <=> Escaped(R, b, y, y + k + 1)
<1> DEFINE Q == {k \in 0 .. n : Escaped(R, a, x, x + k + 1) <=> Escaped(R, b, y, y + k + 1)}
<1>1. Len(a) \in Nat /\ Len(b) \in Nat /\ x \in Nat /\ y \in Nat
  BY LenProperties DEF Text
<1>2. 0 \in Q
  <2>1. x + 0 + 1 = x + 1 /\ y + 0 + 1 = y + 1 /\ 0 \in 0 .. n
    BY <1>1
  <2>2. ~Escaped(R, a, x, x + 1) /\ ~Escaped(R, b, y, y + 1)
    BY EscapedBy
  <2> QED BY <2>1, <2>2
<1>3. ASSUME NEW k \in Q, k \in 0 .. n - 1 PROVE k + 1 \in Q
  <2>1. PICK l, m, o : l = k + 1 /\ m = x + l /\ o = y + l
    OBVIOUS
  <2>2. /\ l \in 0 .. n /\ m \in x + 1 .. Len(a) /\ o \in y + 1 .. Len(b)
        /\ x + k + 1 = m /\ y + k + 1 = o /\ x + l + 1 = m + 1 /\ y + l + 1 = o + 1
    BY <1>1, <1>3, <2>1
  <2>3. /\ Escaped(R, a, x, m + 1) <=> R.escape /\ a[x] \in Escaping /\ a[m] = "backslash" /\ ~Escaped(R, a, x, m)
        /\ Escaped(R, b, y, o + 1) <=> R.escape /\ b[y] \in Escaping /\ b[o] = "backslash" /\ ~Escaped(R, b, y, o)
    BY <2>2, EscapedBy
  <2>4. a[m] = b[o] /\ a[x] = b[y]
    <3>1. 0 \in 0 .. n /\ x + 0 = x /\ y + 0 = y
      BY <1>1
    <3> QED BY <2>1, <2>2, <3>1
  <2>5. Escaped(R, a, x, m) <=> Escaped(R, b, y, o)
    BY <1>3, <2>2
  <2> QED BY <2>1, <2>2, <2>3, <2>4, <2>5
<1> HIDE DEF Q
<1>4. 0 .. n \subseteq Q
  BY <1>2, <1>3, UpTo
<1> QED BY <1>4 DEF Q

\* Text v ends with text s, after n characters.
EndsWith(v, s, n) ==
    /\ v \in Text /\ s \in Text /\ n \in Nat /\ Len(v) = n + Len(s)
    /\ \A k \in 1 .. Len(s) : v[n + k] = s[k]

\* The character k places after j.
LEMMA PlaceAlike ==
    ASSUME NEW v, NEW s, NEW n, EndsWith(v, s, n), NEW j \in 1 .. Len(s), NEW k \in Nat
    PROVE  /\ n + j + k <= Len(v) <=> j + k <= Len(s)
           /\ j + k <= Len(s) => v[n + j + k] = s[j + k]
<1>1. Len(s) \in Nat /\ Len(v) = n + Len(s) /\ n \in Nat
  BY LenProperties DEF EndsWith, Text
<1>2. PICK m : m = j + k
  OBVIOUS
<1>3. m \in Int /\ n + j + k = n + m /\ m >= 1
  BY <1>1, <1>2
<1>4. m <= Len(s) => v[n + m] = s[m]
  BY <1>1, <1>3 DEF EndsWith
<1> QED BY <1>1, <1>2, <1>3, <1>4

\* The same begins at the same character of both.
LEMMA BeginsAlike ==
    ASSUME NEW R, NEW v, NEW s, NEW n, EndsWith(v, s, n), NEW j \in 1 .. Len(s)
    PROVE  Begins(R, v, n + j) = Begins(R, s, j)
<1> DEFINE Is(k, S)  == n + j + k <= Len(v) /\ v[n + j + k] \in S
           Has(k, S) == j + k <= Len(s) /\ s[j + k] \in S
<1>1. \A k \in {0, 1, 2} : \A S : Is(k, S) <=> Has(k, S)
  BY PlaceAlike
<1>2. n + j + 2 <= Len(v) <=> j + 2 <= Len(s)
  BY PlaceAlike
<1>3. Begins(R, v, n + j) =
          CASE Is(0, Quotes)                  -> "quoted"
            [] Is(0, {"#"}) /\ R.hash         -> "line"
            [] /\ Is(0, {"-"}) /\ Is(1, {"-"})
               /\ R.blankDash /\ n + j + 2 <= Len(v) => Is(2, Blanks) -> "line"
            [] Is(0, {"/"}) /\ Is(1, {"*"})   -> "block"
            [] OTHER                          -> "char"
  BY DEF Begins
<1>4. Begins(R, s, j) =
          CASE Has(0, Quotes)                 -> "quoted"
            [] Has(0, {"#"}) /\ R.hash        -> "line"
            [] /\ Has(0, {"-"}) /\ Has(1, {"-"})
               /\ R.blankDash /\ j + 2 <= Len(s) => Has(2, Blanks) -> "line"
            [] Has(0, {"/"}) /\ Has(1, {"*"}) -> "block"
            [] OTHER                          -> "char"
  BY DEF Begins
<1> HIDE DEF Is, Has
<1> QED BY <1>1, <1>2, <1>3, <1>4

\* And it may end at the same characters of both.
LEMMA EndsAlike ==
    ASSUME NEW R, NEW v, NEW s, NEW n, EndsWith(v, s, n), NEW j \in 1 .. Len(s)
    PROVE  Ends(R, v, n + j) = {n + e : e \in Ends(R, s, j)}
<1> DEFINE J == n + j
<1>1. /\ Len(s) \in Nat /\ Len(v) = n + Len(s) /\ n \in Nat /\ v \in Text /\ s \in Text
      /\ J \in 1 .. Len(v) /\ j \in Nat
  BY LenProperties DEF EndsWith, Text
<1>2. \A k \in 1 .. Len(s) : v[n + k] = s[k]
  BY DEF EndsWith
<1>3. v[J] = s[j]
  BY <1>2
<1>4. Begins(R, v, J) = Begins(R, s, j)
  BY BeginsAlike
\* It is enough to see that the places of v that are ends are those of s.
<1>5. ASSUME \A e \in j .. Len(s) : n + e \in Ends(R, v, J) <=> e \in Ends(R, s, j)
      PROVE  Ends(R, v, J) = {n + e : e \in Ends(R, s, j)}
  <2>1. Ends(R, v, J) \subseteq J .. Len(v) /\ Ends(R, s, j) \subseteq j .. Len(s)
    BY <1>1, EndsIs
  <2>2. \A m \in J .. Len(v) : \E e \in j .. Len(s) : m = n + e
    <3> SUFFICES ASSUME NEW m \in J .. Len(v) PROVE \E e \in j .. Len(s) : m = n + e
      OBVIOUS
    <3>1. m - n \in j .. Len(s) /\ m = n + (m - n)
      BY <1>1
    <3> QED BY <3>1
  <2> HIDE DEF J
  <2> QED BY <1>5, <2>1, <2>2
<1>6. CASE Begins(R, s, j) = "quoted"
  <2>1. \A e \in j + 1 .. Len(s) : Escaped(R, v, J, n + e) <=> Escaped(R, s, j, e)
    <3> SUFFICES ASSUME NEW e \in j + 1 .. Len(s)
                 PROVE  Escaped(R, v, J, n + e) <=> Escaped(R, s, j, e)
      OBVIOUS
    <3>1. PICK l : l = e - j - 1
      OBVIOUS
    <3>2. l \in Nat /\ J + l <= Len(v) /\ j + l <= Len(s) /\ J + l + 1 = n + e /\ j + l + 1 = e /\ l \in 0 .. l
      BY <1>1, <3>1
    <3>3. \A k \in 0 .. l : v[J + k] = s[j + k]
      <4> SUFFICES ASSUME NEW k \in 0 .. l PROVE v[J + k] = s[j + k]
        OBVIOUS
      <4>1. k \in Nat /\ j + k <= Len(s)
        BY <1>1, <3>2
      <4> QED BY <4>1, PlaceAlike
    <3> HIDE DEF J
    <3>4. \A k \in 0 .. l : Escaped(R, v, J, J + k + 1) <=> Escaped(R, s, j, j + k + 1)
      BY ONLY <1>1, <3>2, <3>3, j \in 1 .. Len(s), EscapedAlike
    <3>5. Escaped(R, v, J, J + l + 1) <=> Escaped(R, s, j, j + l + 1)
      BY <3>2, <3>4
    <3> QED BY <3>2, <3>5
  <2>2. /\ Ends(R, v, J) = {m \in J + 1 .. Len(v) : v[m] = v[J] /\ ~Escaped(R, v, J, m)}
        /\ Ends(R, s, j) = {m \in j + 1 .. Len(s) : s[m] = s[j] /\ ~Escaped(R, s, j, m)}
    BY <1>4, <1>6 DEF Ends
  <2>3. \A e \in j .. Len(s) : /\ n + e \in J + 1 .. Len(v) <=> e \in j + 1 .. Len(s)
                               /\ v[n + e] = s[e]
    BY <1>1, <1>2
  <2> HIDE DEF J
  <2>4. \A e \in j .. Len(s) : n + e \in Ends(R, v, J) <=> e \in Ends(R, s, j)
    BY <1>3, <2>1, <2>2, <2>3
  <2> QED BY <1>5, <2>4 DEF J
<1>7. CASE Begins(R, s, j) = "line"
  <2>1. /\ Ends(R, v, J) = {m \in J .. Len(v) : m = Len(v) \/ v[m + 1] = "newline"}
        /\ Ends(R, s, j) = {m \in j .. Len(s) : m = Len(s) \/ s[m + 1] = "newline"}
    BY <1>4, <1>7 DEF Ends
  <2>2. ASSUME NEW e \in j .. Len(s)
        PROVE  /\ n + e \in J .. Len(v) /\ (n + e = Len(v) <=> e = Len(s))
               /\ e # Len(s) => v[n + e + 1] = s[e + 1]
    <3>1. n + e \in J .. Len(v) /\ (n + e = Len(v) <=> e = Len(s))
      BY <1>1
    <3>2. e # Len(s) => e + 1 \in 1 .. Len(s) /\ n + (e + 1) = n + e + 1
      BY <1>1
    <3> QED BY <1>2, <3>1, <3>2
  <2> HIDE DEF J
  <2>3. \A e \in j .. Len(s) : n + e \in Ends(R, v, J) <=> e \in Ends(R, s, j)
    BY <2>1, <2>2
  <2> QED BY <1>5, <2>3 DEF J
<1>8. CASE Begins(R, s, j) = "block"
  <2>1. /\ Ends(R, v, J) = {m \in J + 3 .. Len(v) : v[m - 1] = "*" /\ v[m] = "/"}
        /\ Ends(R, s, j) = {m \in j + 3 .. Len(s) : s[m - 1] = "*" /\ s[m] = "/"}
    BY <1>4, <1>8 DEF Ends
  <2>2. ASSUME NEW e \in j .. Len(s)
        PROVE  /\ n + e \in J + 3 .. Len(v) <=> e \in j + 3 .. Len(s)
               /\ v[n + e] = s[e]
               /\ e \in j + 3 .. Len(s) => v[(n + e) - 1] = s[e - 1]
    <3>1. n + e \in J + 3 .. Len(v) <=> e \in j + 3 .. Len(s)
      BY <1>1
    <3>2. e \in 1 .. Len(s)
      BY <1>1
    <3>3. e \in j + 3 .. Len(s) => e - 1 \in 1 .. Len(s) /\ n + (e - 1) = (n + e) - 1
      BY <1>1
    <3> QED BY <1>2, <3>1, <3>2, <3>3
  <2> HIDE DEF J
  <2>3. ASSUME NEW e \in j .. Len(s) PROVE n + e \in Ends(R, v, J) <=> e \in Ends(R, s, j)
    <3>1. n + e \in Ends(R, v, J) <=> n + e \in J + 3 .. Len(v) /\ v[(n + e) - 1] = "*" /\ v[n + e] = "/"
      BY <2>1
    <3>2. e \in Ends(R, s, j) <=> e \in j + 3 .. Len(s) /\ s[e - 1] = "*" /\ s[e] = "/"
      BY <2>1
    <3> QED BY <2>2, <3>1, <3>2
  <2> QED BY <1>5, <2>3 DEF J
<1>9. CASE Begins(R, s, j) = "char"
  <2>1. Ends(R, v, J) = {J} /\ Ends(R, s, j) = {j}
    BY <1>4, <1>9 DEF Ends
  <2> QED BY <2>1
<1> QED BY <1>6, <1>7, <1>8, <1>9, BeginsIs

\* What a text is divided into from a character on depends on what follows.
LEMMA TailAlike ==
    ASSUME NEW R, NEW v, NEW s, NEW n, EndsWith(v, s, n)
    PROVE  \A j \in 1 .. Len(s) + 1 : Divisions(R, v)[n + j] = Divisions(R, s)[j]
<1> DEFINE N == Len(s)
           Q == {k \in 0 .. N : \A j \in N + 1 - k .. N + 1 : Divisions(R, v)[n + j] = Divisions(R, s)[j]}
<1>1. N \in Nat /\ Len(v) = n + N /\ n \in Nat /\ v \in Text /\ s \in Text
  BY LenProperties DEF EndsWith, Text
<1>2. \A k \in 1 .. N : v[n + k] = s[k]
  BY DEF EndsWith
<1>3. 0 \in Q
  <2>1. N + 1 - 0 = N + 1 /\ n + (N + 1) = Len(v) + 1 /\ 0 \in 0 .. N /\ N + 1 .. N + 1 = {N + 1}
    BY <1>1
  <2>2. Divisions(R, v)[Len(v) + 1] = <<>> /\ Divisions(R, s)[N + 1] = <<>>
    BY <1>1, LastIs
  <2> QED BY <2>1, <2>2
<1>4. ASSUME NEW k \in Q, k \in 0 .. N - 1 PROVE k + 1 \in Q
  <2>1. PICK j : j = N - k
    OBVIOUS
  <2>2. /\ j \in 1 .. N /\ k + 1 \in 0 .. N /\ n + j \in 1 .. Len(v)
        /\ N + 1 - (k + 1) .. N + 1 = {j} \cup (N + 1 - k .. N + 1)
        /\ N + 1 - k .. N + 1 = j + 1 .. N + 1
    BY <1>1, <1>4, <2>1
  <2>3. \A m \in j + 1 .. N + 1 : Divisions(R, v)[n + m] = Divisions(R, s)[m]
    BY <1>4, <2>2
  <2>4. Ends(R, v, n + j) = {n + e : e \in Ends(R, s, j)} /\ Begins(R, v, n + j) = Begins(R, s, j)
    BY <2>2, EndsAlike, BeginsAlike
\* A part of both.
  <2>5. \A e \in j .. N : SubSeq(v, n + j, n + e) = SubSeq(s, j, e)
    <3> SUFFICES ASSUME NEW e \in j .. N PROVE SubSeq(v, n + j, n + e) = SubSeq(s, j, e)
      OBVIOUS
    <3>1. PICK x, l : x = j - 1 /\ l = e - x
      OBVIOUS
    <3>2. /\ x \in Nat /\ l \in Nat /\ n + x \in Nat /\ x + 1 = j /\ x + l = e
          /\ (n + x) + 1 = n + j /\ (n + x) + l = n + e
      BY <1>1, <2>2, <3>1
    <3>3. /\ SubSeq(v, n + j, n + e) = [m \in 1 .. l |-> v[(n + x) + m]]
          /\ SubSeq(s, j, e) = [m \in 1 .. l |-> s[x + m]]
      <4>1. SubSeq(v, (n + x) + 1, (n + x) + l) = [m \in 1 .. l |-> v[(n + x) + m]]
        <5>1. PICK y \in Nat : y = n + x
          BY ONLY <3>2
        <5>2. SubSeq(v, y + 1, y + l) = [m \in 1 .. l |-> v[y + m]]
          BY ONLY <3>2, PartOf
        <5> QED BY ONLY <5>1, <5>2
      <4>2. SubSeq(s, x + 1, x + l) = [m \in 1 .. l |-> s[x + m]]
        BY ONLY <3>2, PartOf
      <4> QED BY <3>2, <4>1, <4>2
    <3>4. \A m \in 1 .. l : x + m \in 1 .. N /\ n + (x + m) = (n + x) + m
      BY <1>1, <3>2
    <3>5. \A m \in 1 .. l : v[(n + x) + m] = s[x + m]
      BY <1>2, <3>4
    <3> QED BY <3>3, <3>5
  <2>6. Divisions(R, v)[n + j] = Divisions(R, s)[j]
    <3>1. CASE Ends(R, s, j) = {}
      <4>1. Ends(R, v, n + j) = {}
        BY <2>4, <3>1
      <4>2. SubSeq(v, n + j, Len(v)) = SubSeq(s, j, N)
        BY <1>1, <2>2, <2>5
      <4>3. First(R, v, n + j) = First(R, s, j)
        BY <3>1, <4>1, <4>2 DEF First
      <4>4. Divisions(R, v)[n + j] = <<First(R, v, n + j)>>
        BY ONLY <1>1, <2>2, <4>1, StepIs
      <4>5. Divisions(R, s)[j] = <<First(R, s, j)>>
        BY ONLY <1>1, <2>2, <3>1, StepIs
      <4> QED BY <4>3, <4>4, <4>5
    <3>2. CASE Ends(R, s, j) # {}
      <4>1. PICK e : e = Min(Ends(R, s, j))
        OBVIOUS
      <4>2. /\ e \in Ends(R, s, j) /\ e \in j .. N /\ e + 1 \in j + 1 .. N + 1
            /\ First(R, s, j) = [kind |-> Begins(R, s, j), text |-> SubSeq(s, j, e)]
            /\ Divisions(R, s)[j] = <<First(R, s, j)>> \o Divisions(R, s)[e + 1]
        BY <1>1, <2>2, <3>2, <4>1, StepIs
      <4>3. /\ Ends(R, s, j) \subseteq Int /\ e \in Int /\ n + e + 1 = n + (e + 1)
            /\ \A y \in Ends(R, s, j) : e <= y
        <5>1. Ends(R, s, j) \subseteq j .. N /\ \A y \in Ends(R, s, j) : e <= y
          BY <1>1, <2>2, <3>2, <4>1, EndsIs
        <5> QED BY <1>1, <2>2, <4>2, <5>1
      <4>4. n + e \in Ends(R, v, n + j) /\ \A y \in Ends(R, v, n + j) : n + e <= y
        BY <1>1, <2>4, <4>2, <4>3
      <4>5. Min(Ends(R, v, n + j)) = n + e /\ Ends(R, v, n + j) # {}
        BY <1>1, <2>2, <4>4, FirstEnd
      <4>6. /\ First(R, v, n + j) = [kind |-> Begins(R, v, n + j), text |-> SubSeq(v, n + j, n + e)]
            /\ Divisions(R, v)[n + j] = <<First(R, v, n + j)>> \o Divisions(R, v)[n + e + 1]
        <5>1. PICK l \in 1 .. Len(v) : l = n + j
          BY <2>2
        <5>2. PICK m : m = n + e
          OBVIOUS
        <5>3. Min(Ends(R, v, l)) = m /\ Ends(R, v, l) # {}
          BY <4>5, <5>1, <5>2
        <5>4. /\ First(R, v, l) = [kind |-> Begins(R, v, l), text |-> SubSeq(v, l, m)]
              /\ Divisions(R, v)[l] = <<First(R, v, l)>> \o Divisions(R, v)[m + 1]
          BY <1>1, <5>3, StepIs
        <5> QED BY <5>1, <5>2, <5>4
      <4> QED BY <2>3, <2>4, <2>5, <4>2, <4>3, <4>6
    <3> QED BY <3>1, <3>2
  <2> QED BY <2>2, <2>3, <2>6
<1> HIDE DEF Q
<1>5. 0 .. N \subseteq Q
  BY <1>1, <1>3, <1>4, UpTo
<1>6. N \in Q /\ N + 1 - N .. N + 1 = 1 .. N + 1
  BY <1>1, <1>5
<1> QED BY <1>6 DEF Q

\* A text put before another.
LEMMA Before ==
    ASSUME NEW x \in Text, NEW s \in Text
    PROVE  /\ x \o s \in Text /\ EndsWith(x \o s, s, Len(x)) /\ Len(x) \in Nat
           /\ \A k \in 1 .. Len(x) : (x \o s)[k] = x[k]
<1>1. Len(x) \in Nat /\ Len(s) \in Nat
  BY LenProperties DEF Text
<1>2. /\ x \o s \in Text /\ Len(x \o s) = Len(x) + Len(s)
      /\ \A k \in 1 .. Len(x) + Len(s) : (x \o s)[k] = IF k <= Len(x) THEN x[k] ELSE s[k - Len(x)]
  BY ConcatProperties DEF Text
<1>3. \A k \in 1 .. Len(x) : (x \o s)[k] = x[k]
  BY <1>1, <1>2
<1>4. \A k \in 1 .. Len(s) : (x \o s)[Len(x) + k] = s[k]
  <2> SUFFICES ASSUME NEW k \in 1 .. Len(s) PROVE (x \o s)[Len(x) + k] = s[k]
    OBVIOUS
  <2>1. PICK m \in 1 .. Len(x) + Len(s) : m = Len(x) + k /\ ~(m <= Len(x)) /\ m - Len(x) = k
    BY <1>1
  <2> QED BY <1>2, <2>1
<1> QED BY <1>1, <1>2, <1>3, <1>4 DEF EndsWith

\* The part of a text from a character on.
LEMMA After ==
    ASSUME NEW v \in Text, NEW n \in 0 .. Len(v)
    PROVE  SubSeq(v, n + 1, Len(v)) \in Text /\ EndsWith(v, SubSeq(v, n + 1, Len(v)), n)
<1>1. Len(v) \in Nat /\ n + 1 \in 1 .. Len(v) + 1 /\ n \in Nat /\ n + 1 \in Nat
  BY LenProperties DEF Text
<1>2. PICK l \in Nat : l = Len(v) - n
  BY <1>1
<1>3. Len(v) = n + l
  BY <1>1, <1>2
<1>4. SubSeq(v, n + 1, n + l) = [k \in 1 .. l |-> v[n + k]]
  BY <1>1, PartOf
<1> DEFINE s == SubSeq(v, n + 1, Len(v))
<1>5. s = [k \in 1 .. l |-> v[n + k]]
  BY <1>3, <1>4
<1> HIDE DEF s
<1>6. \A k \in 1 .. l : v[n + k] \in STRING
  <2>1. \A k \in 1 .. l : n + k \in 1 .. Len(v)
    BY <1>1, <1>3
  <2> QED BY <2>1, ElementOfSeq DEF Text
<1>7. s \in [1 .. l -> STRING]
  BY <1>5, <1>6
<1>8. s \in Text /\ Len(s) = l
  BY <1>7, MapIsSeq DEF Text
<1> QED BY <1>1, <1>3, <1>5, <1>8 DEF s, EndsWith

\* A part of a text from a character to another.
LEMMA PartPlaces ==
    ASSUME NEW t \in Text, NEW j \in 1 .. Len(t), NEW e \in j .. Len(t)
    PROVE  /\ SubSeq(t, j, e) \in Text /\ Len(SubSeq(t, j, e)) = (e - j) + 1
           /\ \A k \in 1 .. (e - j) + 1 : SubSeq(t, j, e)[k] = t[(j - 1) + k]
<1>1. Len(t) \in Nat /\ j \in Nat /\ e \in Nat
  BY LenProperties DEF Text
<1>2. PICK x \in Nat, l \in Nat : x + 1 = j /\ x + l = e /\ l = (e - j) + 1 /\ x = j - 1
  <2>1. j - 1 \in Nat /\ (j - 1) + 1 = j /\ (e - j) + 1 \in Nat /\ (j - 1) + ((e - j) + 1) = e
    BY <1>1
  <2> QED BY <2>1
<1> DEFINE s == SubSeq(t, j, e)
<1>3. s = [k \in 1 .. l |-> t[x + k]]
  <2>1. SubSeq(t, x + 1, x + l) = [k \in 1 .. l |-> t[x + k]]
    BY ONLY x \in Nat, l \in Nat, PartOf
  <2> QED BY <1>2, <2>1
<1> HIDE DEF s
<1>4. \A k \in 1 .. l : t[x + k] \in STRING
  <2>1. \A k \in 1 .. l : x + k \in 1 .. Len(t)
    BY <1>1, <1>2
  <2> QED BY <2>1, ElementOfSeq DEF Text
<1>5. s \in [1 .. l -> STRING]
  BY <1>3, <1>4
<1>6. s \in Text /\ Len(s) = l
  BY <1>5, MapIsSeq DEF Text
<1> QED BY <1>2, <1>3, <1>6 DEF s

\* What any rules say of a character, as far as they agree.
LEMMA AnyRules ==
    ASSUME NEW R, NEW t \in Text, NEW j \in 1 .. Len(t)
    PROVE  /\ Begins(R, t, j) = "quoted" <=> t[j] \in Quotes
           /\ /\ t[j] \notin Quotes /\ t[j] # "#"
              /\ ~(t[j] = "-" /\ j < Len(t) /\ t[j + 1] = "-")
              /\ ~(t[j] = "/" /\ j < Len(t) /\ t[j + 1] = "*")
              => Begins(R, t, j) = "char"
<1>1. Len(t) \in Nat /\ j \in Nat /\ j <= Len(t) /\ j + 0 = j /\ (j + 1 <= Len(t) <=> j < Len(t))
  BY LenProperties DEF Text
<1> DEFINE Is(n, S) == j + n <= Len(t) /\ t[j + n] \in S
<1>2. /\ Is(0, Quotes) <=> t[j] \in Quotes
      /\ Is(0, {"#"}) <=> t[j] = "#"
      /\ Is(0, {"-"}) /\ Is(1, {"-"}) <=> t[j] = "-" /\ j < Len(t) /\ t[j + 1] = "-"
      /\ Is(0, {"/"}) /\ Is(1, {"*"}) <=> t[j] = "/" /\ j < Len(t) /\ t[j + 1] = "*"
  BY <1>1
<1>3. Begins(R, t, j) =
          CASE Is(0, Quotes)                  -> "quoted"
            [] Is(0, {"#"}) /\ R.hash         -> "line"
            [] /\ Is(0, {"-"}) /\ Is(1, {"-"})
               /\ R.blankDash /\ j + 2 <= Len(t) => Is(2, Blanks) -> "line"
            [] Is(0, {"/"}) /\ Is(1, {"*"})   -> "block"
            [] OTHER                          -> "char"
  BY DEF Begins
<1>4. t[j] \in Quotes => t[j] \notin {"#", "-", "/"}
  BY DEF Quotes, Escaping
<1> HIDE DEF Is
<1> QED BY <1>2, <1>3, <1>4

\* A character before a text it makes no comment with.
LEMMA CharAhead ==
    ASSUME NEW R, NEW c, NEW x \in Text, NEW s \in Text, x = <<c>>,
           c \notin Quotes, c # "#",
           c = "-" /\ s # <<>> => s[1] # "-", c = "/" /\ s # <<>> => s[1] # "*"
    PROVE  Divisions(R, x \o s)[1] = <<[kind |-> "char", text |-> x]>> \o Divisions(R, s)[1]
<1> DEFINE v == x \o s
<1>1. Len(x) = 1 /\ x[1] = c /\ Len(s) \in Nat /\ (Len(s) > 0 => s # <<>>)
  BY LenProperties, EmptySeq DEF Text
<1>2. v \in Text /\ EndsWith(v, s, 1) /\ v[1] = c
  <2>1. /\ x \o s \in Text /\ EndsWith(x \o s, s, Len(x))
        /\ \A k \in 1 .. Len(x) : (x \o s)[k] = x[k]
    BY ONLY x \in Text, s \in Text, Before
  <2>2. 1 \in 1 .. Len(x)
    BY <1>1
  <2> QED BY <1>1, <2>1, <2>2
<1>3. Len(v) = 1 + Len(s) /\ 1 \in 1 .. Len(v) /\ (1 < Len(v) => s # <<>> /\ v[1 + 1] = s[1])
  <2>1. Len(v) = 1 + Len(s) /\ \A k \in 1 .. Len(s) : v[1 + k] = s[k]
    BY <1>2 DEF EndsWith
  <2> QED BY <1>1, <2>1
<1> HIDE DEF v
<1>4. Begins(R, v, 1) = "char"
  BY <1>2, <1>3, AnyRules
<1>5. Ends(R, v, 1) = {1} /\ Min({1}) = 1
  BY <1>4 DEF Ends, Min
<1>6. SubSeq(v, 1, 1) = x
  BY <1>2, <1>3, OneChar
<1>7. Divisions(R, v)[1] = <<[kind |-> "char", text |-> x]>> \o Divisions(R, v)[1 + 1]
  <2>1. Ends(R, v, 1) # {} /\ Min(Ends(R, v, 1)) = 1
    BY <1>5
  <2>2. /\ First(R, v, 1) = [kind |-> Begins(R, v, 1), text |-> SubSeq(v, 1, Min(Ends(R, v, 1)))]
        /\ Divisions(R, v)[1] = <<First(R, v, 1)>> \o Divisions(R, v)[Min(Ends(R, v, 1)) + 1]
    BY ONLY <1>2, <1>3, <2>1, StepIs
  <2> QED BY <1>4, <1>6, <2>1, <2>2
<1>8. Divisions(R, v)[1 + 1] = Divisions(R, s)[1]
  BY <1>1, <1>2, TailAlike
<1> QED BY <1>7, <1>8 DEF v

\* A quoted text before a text.
LEMMA QuotedAhead ==
    ASSUME NEW R, NEW t \in Text, NEW j \in 1 .. Len(t), t[j] \in Quotes, Ends(R, t, j) # {},
           NEW x, x = SubSeq(t, j, Min(Ends(R, t, j))), NEW s \in Text
    PROVE  Divisions(R, x \o s)[1] = <<[kind |-> "quoted", text |-> x]>> \o Divisions(R, s)[1]
<1> DEFINE v == x \o s
<1>1. PICK e : e = Min(Ends(R, t, j))
  OBVIOUS
<1>2. Len(t) \in Nat /\ j \in Nat /\ e \in j .. Len(t) /\ e \in Nat
      /\ e \in Ends(R, t, j) /\ \A y \in Ends(R, t, j) : e <= y
  BY <1>1, EndsIs
<1>3. Begins(R, t, j) = "quoted"
  BY AnyRules
<1>4. /\ Ends(R, t, j) = {m \in j + 1 .. Len(t) : t[m] = t[j] /\ ~Escaped(R, t, j, m)}
  BY <1>3 DEF Ends
<1>5. PICK d \in Nat : d = e - j /\ j + d = e /\ d > 0
  BY <1>2, <1>4
<1>6. /\ x \in Text /\ Len(x) = d + 1
      /\ \A k \in 1 .. d + 1 : x[k] = t[(j - 1) + k]
  <2>1. /\ SubSeq(t, j, e) \in Text /\ Len(SubSeq(t, j, e)) = (e - j) + 1
        /\ \A k \in 1 .. (e - j) + 1 : SubSeq(t, j, e)[k] = t[(j - 1) + k]
    BY <1>2, PartPlaces
  <2> QED BY <1>1, <1>5, <2>1
<1>7. v \in Text /\ EndsWith(v, s, d + 1) /\ \A k \in 1 .. d + 1 : v[k] = x[k]
  <2>1. /\ x \o s \in Text /\ EndsWith(x \o s, s, Len(x))
        /\ \A k \in 1 .. Len(x) : (x \o s)[k] = x[k]
    BY ONLY <1>6, s \in Text, Before
  <2> QED BY <1>6, <2>1
<1> HIDE DEF v
<1>8. Len(s) \in Nat /\ Len(v) = d + 1 + Len(s) /\ 1 \in 1 .. Len(v) /\ 1 + d <= Len(v)
  BY <1>7, LenProperties DEF EndsWith, Text
<1>9. \A k \in 0 .. d : v[1 + k] = t[j + k]
  <2> SUFFICES ASSUME NEW k \in 0 .. d PROVE v[1 + k] = t[j + k]
    OBVIOUS
  <2>1. PICK m \in 1 .. d + 1 : m = 1 + k /\ (j - 1) + m = j + k
    BY <1>2
  <2> QED BY <1>6, <1>7, <2>1
<1>10. v[1] = t[j]
  <2>1. 0 \in 0 .. d /\ 1 + 0 = 1 /\ j + 0 = j
    BY <1>2
  <2> QED BY <1>9, <2>1
<1>11. Begins(R, v, 1) = "quoted"
  BY <1>7, <1>8, <1>10, AnyRules
<1>12. Ends(R, v, 1) = {m \in 1 + 1 .. Len(v) : v[m] = v[1] /\ ~Escaped(R, v, 1, m)}
  BY <1>11 DEF Ends
<1>13. \A k \in 0 .. d : Escaped(R, v, 1, 1 + k + 1) <=> Escaped(R, t, j, j + k + 1)
  <2>1. /\ d \in Nat /\ v \in Text /\ 1 \in 1 .. Len(v) /\ 1 + d <= Len(v) /\ j + d <= Len(t)
    BY <1>2, <1>5, <1>7, <1>8
  <2> QED BY ONLY t \in Text, j \in 1 .. Len(t), <1>9, <2>1, EscapedAlike
\* The characters it has are ends of one where they are of the other.
<1>14. \A k \in 1 .. d : 1 + k \in Ends(R, v, 1) <=> j + k \in Ends(R, t, j)
  <2> SUFFICES ASSUME NEW k \in 1 .. d PROVE 1 + k \in Ends(R, v, 1) <=> j + k \in Ends(R, t, j)
    OBVIOUS
  <2>1. PICK l \in 0 .. d : l = k - 1 /\ 1 + l + 1 = 1 + k /\ j + l + 1 = j + k
    BY <1>2
  <2>2. Escaped(R, v, 1, 1 + k) <=> Escaped(R, t, j, j + k)
    BY <1>13, <2>1
  <2>3. 1 + k \in 1 + 1 .. Len(v) /\ j + k \in j + 1 .. Len(t) /\ k \in 0 .. d
    BY <1>2, <1>5, <1>8
  <2>4. v[1 + k] = t[j + k]
    BY <1>9, <2>3
  <2> QED BY <1>4, <1>10, <1>12, <2>2, <2>3, <2>4
<1>15. 1 + d \in Ends(R, v, 1)
  <2>1. d \in 1 .. d
    BY <1>5
  <2> QED BY <1>2, <1>5, <1>14, <2>1
<1>16. \A y \in Ends(R, v, 1) : 1 + d <= y
  <2> SUFFICES ASSUME NEW y \in Ends(R, v, 1), ~(1 + d <= y) PROVE FALSE
    OBVIOUS
  <2>1. y \in 2 .. Len(v)
    BY <1>12
  <2>2. PICK k \in 1 .. d - 1 : y = 1 + k
    <3>1. y - 1 \in 1 .. d - 1 /\ y = 1 + (y - 1)
      BY <1>8, <2>1
    <3> QED BY <3>1
  <2>3. j + k \in Ends(R, t, j) /\ j + k < e
    BY <1>2, <1>5, <1>14, <2>2
  <2> QED BY <1>2, <2>3
<1>17. Min(Ends(R, v, 1)) = 1 + d /\ Ends(R, v, 1) # {}
  BY <1>7, <1>8, <1>15, <1>16, FirstEnd
<1>18. SubSeq(v, 1, 1 + d) = x
  <2>1. 1 + d \in 1 .. Len(v) /\ ((1 + d) - 1) + 1 = d + 1 /\ 1 - 1 = 0 /\ \A k \in 1 .. d + 1 : 0 + k = k
    BY <1>8
  <2>2. PICK p : p = SubSeq(v, 1, 1 + d)
    OBVIOUS
  <2>3. p \in Text /\ Len(p) = d + 1 /\ \A k \in 1 .. d + 1 : p[k] = v[k]
    <3>1. /\ p \in Text /\ Len(p) = ((1 + d) - 1) + 1
          /\ \A k \in 1 .. ((1 + d) - 1) + 1 : p[k] = v[(1 - 1) + k]
      BY <1>7, <1>8, <2>1, <2>2, PartPlaces
    <3> QED BY <2>1, <3>1
  <2>4. \A k \in 1 .. d + 1 : p[k] = x[k]
    BY <1>7, <2>3
  <2>5. p \in Seq(STRING) /\ x \in Seq(STRING) /\ Len(p) = Len(x) /\ \A k \in 1 .. Len(p) : p[k] = x[k]
    BY <1>6, <2>3, <2>4 DEF Text
  <2>6. p = x
    BY ONLY <2>5, SeqEqual
  <2> QED BY <2>2, <2>6
<1>19. Divisions(R, v)[1] = <<[kind |-> "quoted", text |-> x]>> \o Divisions(R, v)[1 + d + 1]
  <2>1. /\ First(R, v, 1) = [kind |-> Begins(R, v, 1), text |-> SubSeq(v, 1, Min(Ends(R, v, 1)))]
        /\ Divisions(R, v)[1] = <<First(R, v, 1)>> \o Divisions(R, v)[Min(Ends(R, v, 1)) + 1]
    BY <1>7, <1>8, <1>17, StepIs
  <2> QED BY <1>11, <1>17, <1>18, <2>1
<1>20. Divisions(R, v)[1 + d + 1] = Divisions(R, s)[1]
  <2>1. 1 \in 1 .. Len(s) + 1 /\ (d + 1) + 1 = 1 + d + 1
    BY <1>8
  <2>2. Divisions(R, v)[(d + 1) + 1] = Divisions(R, s)[1]
    BY <1>7, <2>1, TailAlike
  <2> QED BY <2>1, <2>2
<1> QED BY <1>19, <1>20 DEF v

-----------------------------------------------------------------------------
(* What the pieces of a text say, from the first on                          *)

\* Neither comment nor open.
Plain(P) == \A n \in 1 .. Len(P) : P[n].kind \in {"char", "quoted"}

\* Nothing can continue it: a blank, or what stands for nothing before a piece.
Quiet(p) == Blank(p) \/ p.kind = "open"

GluesIn(P) ==
    \E n \in 2 .. Len(P) - 1 :
        P[n].kind = "block" /\ ~Quiet(P[n - 1]) /\ ~Blank(P[n + 1])

\* What is read of piece q after piece p, and of pieces P after p; the gap does
\* for p where nothing is before.
Mark         == [piece : Piece, joined : BOOLEAN]
MarkOf(p, q) == IF Comment(q) \/ Blank(q) THEN <<>> ELSE <<[piece |-> q, joined |-> Joins(p, q)]>>
Marks(p, P)  == FlattenSeq([n \in DOMAIN P |-> MarkOf(IF n = 1 THEN p ELSE P[n - 1], P[n])])
Gap          == [kind |-> "open", text |-> <<>>]
Semicolon    == [piece |-> [kind |-> "char", text |-> <<";">>], joined |-> FALSE]

\* One piece before others.
LEMMA PlainMore ==
    ASSUME NEW q \in Piece, NEW P \in Seq(Piece)
    PROVE  Plain(<<q>> \o P) <=> q.kind \in {"char", "quoted"} /\ Plain(P)
<1> DEFINE A == <<q>> \o P
<1>1. Len(P) \in Nat /\ Len(A) = Len(P) + 1 /\ A[1] = q /\ \A n \in 1 .. Len(P) : A[n + 1] = P[n]
  BY FrontIs
<1> HIDE DEF A
<1>2. 1 \in 1 .. Len(A) /\ \A n \in 1 .. Len(P) : n + 1 \in 1 .. Len(A)
  BY <1>1
<1>3. \A n \in 1 .. Len(A) : n = 1 \/ \E k \in 1 .. Len(P) : n = k + 1
  <2> SUFFICES ASSUME NEW n \in 1 .. Len(A), n # 1 PROVE \E k \in 1 .. Len(P) : n = k + 1
    OBVIOUS
  <2>1. n - 1 \in 1 .. Len(P) /\ n = (n - 1) + 1
    BY <1>1
  <2> QED BY <2>1
<1>4. ASSUME Plain(A) PROVE q.kind \in {"char", "quoted"} /\ Plain(P)
  BY <1>1, <1>2, <1>4 DEF Plain
<1>5. ASSUME q.kind \in {"char", "quoted"}, Plain(P) PROVE Plain(A)
  <2> SUFFICES ASSUME NEW n \in 1 .. Len(A) PROVE A[n].kind \in {"char", "quoted"}
    BY DEF Plain
  <2>1. CASE n = 1
    BY <1>1, <1>5, <2>1
  <2>2. CASE n # 1
    <3>1. PICK k \in 1 .. Len(P) : n = k + 1
      BY <1>3, <2>2
    <3>2. A[n] = P[k]
      BY <1>1, <3>1
    <3> QED BY <1>5, <3>2 DEF Plain
  <2> QED BY <2>1, <2>2
<1> QED BY <1>4, <1>5 DEF A

\* A block comment that glues is the second piece or glues what is after the first.
LEMMA GluesMore ==
    ASSUME NEW p \in Piece, NEW q \in Piece, NEW P \in Seq(Piece)
    PROVE  GluesIn(<<p>> \o (<<q>> \o P)) <=>
              \/ GluesIn(<<q>> \o P)
              \/ q.kind = "block" /\ P # <<>> /\ ~Quiet(p) /\ ~Blank(P[1])
<1> DEFINE B == <<q>> \o P
           A == <<p>> \o B
<1>1. /\ Len(P) \in Nat /\ B \in Seq(Piece) /\ Len(B) = Len(P) + 1 /\ B[1] = q
      /\ \A n \in 1 .. Len(P) : B[n + 1] = P[n]
  BY FrontIs
<1> HIDE DEF B
<1>2. Len(A) = Len(B) + 1 /\ A[1] = p /\ \A n \in 1 .. Len(B) : A[n + 1] = B[n]
  BY <1>1, FrontIs
<1> HIDE DEF A
<1>3. P # <<>> <=> Len(P) >= 1
  BY <1>1, EmptySeq
\* The second piece, and those after it.
<1> DEFINE At(Q, n) == Q[n].kind = "block" /\ ~Quiet(Q[n - 1]) /\ ~Blank(Q[n + 1])
<1>4. ASSUME P # <<>> PROVE At(A, 2) <=> q.kind = "block" /\ ~Quiet(p) /\ ~Blank(P[1])
  <2>1. 1 \in 1 .. Len(B) /\ 2 \in 1 .. Len(B) /\ 1 \in 1 .. Len(P) /\ 1 + 1 = 2 /\ 2 + 1 = 3 /\ 2 - 1 = 1
    BY <1>1, <1>3, <1>4
  <2>2. A[2] = q /\ A[3] = P[1] /\ A[2 - 1] = p /\ A[2 + 1] = P[1]
    BY <1>1, <1>2, <2>1
  <2> QED BY <2>2
<1>5. ASSUME NEW n \in 2 .. Len(B) - 1 PROVE At(A, n + 1) <=> At(B, n)
  <2>1. PICK m, l : m = n + 1 /\ l = n - 1
    OBVIOUS
  <2>2. /\ n \in 1 .. Len(B) /\ m \in 1 .. Len(B) /\ l \in 1 .. Len(B) /\ l + 1 = n /\ m - 1 = n
    BY <1>1, <2>1
  <2>3. A[m] = B[n] /\ A[m + 1] = B[m] /\ A[n] = B[l]
    BY <1>2, <2>1, <2>2
  <2>4. A[m - 1] = B[n - 1] /\ A[m + 1] = B[n + 1]
    BY <2>1, <2>2, <2>3
  <2> QED BY <2>1, <2>3, <2>4
<1>6. ASSUME GluesIn(A) PROVE GluesIn(B) \/ (q.kind = "block" /\ P # <<>> /\ ~Quiet(p) /\ ~Blank(P[1]))
  <2>1. PICK n \in 2 .. Len(A) - 1 : At(A, n)
    BY <1>6 DEF GluesIn
  <2>2. CASE n = 2
    <3>1. P # <<>>
      BY <1>1, <1>2, <1>3, <2>1, <2>2
    <3> QED BY <1>4, <2>1, <2>2, <3>1
  <2>3. CASE n # 2
    <3>1. PICK k \in 2 .. Len(B) - 1 : n = k + 1
      <4>1. n - 1 \in 2 .. Len(B) - 1 /\ n = (n - 1) + 1
        BY <1>1, <1>2, <2>1, <2>3
      <4> QED BY <4>1
    <3>2. At(B, k)
      BY <1>5, <2>1, <3>1
    <3> QED BY <3>2 DEF GluesIn
  <2> QED BY <2>2, <2>3
<1>7. ASSUME GluesIn(B) PROVE GluesIn(A)
  <2>1. PICK n \in 2 .. Len(B) - 1 : At(B, n)
    BY <1>7 DEF GluesIn
  <2>2. n + 1 \in 2 .. Len(A) - 1 /\ At(A, n + 1)
    BY <1>1, <1>2, <1>5, <2>1
  <2> QED BY <2>2 DEF GluesIn
<1>8. ASSUME q.kind = "block", P # <<>>, ~Quiet(p), ~Blank(P[1]) PROVE GluesIn(A)
  <2>1. 2 \in 2 .. Len(A) - 1 /\ At(A, 2)
    BY <1>1, <1>2, <1>3, <1>4, <1>8
  <2> QED BY <2>1 DEF GluesIn
<1> QED BY <1>6, <1>7, <1>8 DEF A, B

\* A piece alone has no comment that glues.
LEMMA GluesNone ==
    ASSUME NEW p \in Piece
    PROVE  ~GluesIn(<<p>> \o <<>>)
<1>1. <<>> \in Seq(Piece) /\ Len(<<>>) = 0
  BY EmptySeq
<1>2. Len(<<p>> \o <<>>) = 0 + 1
  BY <1>1, FrontIs
<1> QED BY <1>2 DEF GluesIn

\* What is read of one piece is a mark or nothing.
LEMMA MarkIs ==
    ASSUME NEW p, NEW q \in Piece
    PROVE  MarkOf(p, q) \in Seq(Mark)
<1>1. <<>> \in Seq(Mark)
  BY EmptySeq
<1>2. Joins(p, q) \in BOOLEAN
  BY DEF Joins
<1>3. [piece |-> q, joined |-> Joins(p, q)] \in Mark
  BY <1>2 DEF Mark
<1>4. <<[piece |-> q, joined |-> Joins(p, q)]>> \in Seq(Mark)
  BY <1>3
<1> QED BY <1>1, <1>4 DEF MarkOf

\* What is read of pieces are marks.
LEMMA MarksIs ==
    ASSUME NEW p, NEW P \in Seq(Piece)
    PROVE  /\ Marks(p, P) \in Seq(Mark)
           /\ [n \in DOMAIN P |-> MarkOf(IF n = 1 THEN p ELSE P[n - 1], P[n])] \in Seq(Seq(Mark))
           /\ Len([n \in DOMAIN P |-> MarkOf(IF n = 1 THEN p ELSE P[n - 1], P[n])]) = Len(P)
<1> DEFINE m == [n \in DOMAIN P |-> MarkOf(IF n = 1 THEN p ELSE P[n - 1], P[n])]
<1>1. Len(P) \in Nat /\ DOMAIN P = 1 .. Len(P) /\ \A n \in 1 .. Len(P) : P[n] \in Piece
  BY LenProperties
<1>2. m \in [1 .. Len(P) -> Seq(Mark)]
  BY <1>1, MarkIs
<1> HIDE DEF m
<1>3. m \in Seq(Seq(Mark)) /\ Len(m) = Len(P)
  BY <1>1, <1>2, MapIsSeq
<1>4. FlattenSeq(m) \in Seq(Mark)
  BY ONLY <1>3, FlattenIs
<1> QED BY <1>3, <1>4 DEF m, Marks

\* What is read of pieces is what is read of the first, then of the others.
LEMMA MarksMore ==
    ASSUME NEW p, NEW q \in Piece, NEW P \in Seq(Piece)
    PROVE  Marks(p, <<q>> \o P) = MarkOf(p, q) \o Marks(q, P)
<1> DEFINE A == <<q>> \o P
           m(x, Q) == [n \in DOMAIN Q |-> MarkOf(IF n = 1 THEN x ELSE Q[n - 1], Q[n])]
<1>1. /\ Len(P) \in Nat /\ A \in Seq(Piece) /\ Len(A) = Len(P) + 1 /\ A[1] = q
      /\ \A n \in 1 .. Len(P) : A[n + 1] = P[n]
  BY FrontIs
<1> HIDE DEF A
<1>2. /\ m(p, A) \in Seq(Seq(Mark)) /\ Len(m(p, A)) = Len(A)
      /\ m(q, P) \in Seq(Seq(Mark)) /\ Len(m(q, P)) = Len(P)
  <2>1. A \in Seq(Piece)
    BY <1>1
  <2>2. m(p, A) \in Seq(Seq(Mark)) /\ Len(m(p, A)) = Len(A)
    BY ONLY <2>1, MarksIs
  <2>3. m(q, P) \in Seq(Seq(Mark)) /\ Len(m(q, P)) = Len(P)
    BY ONLY P \in Seq(Piece), MarksIs
  <2> QED BY ONLY <2>2, <2>3
<1>3. DOMAIN A = 1 .. Len(P) + 1 /\ DOMAIN P = 1 .. Len(P)
  BY <1>1, LenProperties
<1>4. m(p, A)[1] = MarkOf(p, q)
  BY <1>1, <1>3
<1>5. \A k \in 1 .. Len(P) : m(p, A)[k + 1] = m(q, P)[k]
  <2> SUFFICES ASSUME NEW k \in 1 .. Len(P) PROVE m(p, A)[k + 1] = m(q, P)[k]
    OBVIOUS
  <2>1. PICK n : n = k + 1
    OBVIOUS
  <2>2. n \in DOMAIN A /\ n # 1 /\ n - 1 = k /\ A[n] = P[k]
    BY <1>1, <1>3, <2>1
  <2>3. A[k] = IF k = 1 THEN q ELSE P[k - 1]
    <3>1. CASE k = 1
      BY <1>1, <3>1
    <3>2. CASE k # 1
      <4>1. PICK l \in 1 .. Len(P) : l = k - 1 /\ l + 1 = k
        BY <1>1, <3>2
      <4>2. A[k] = P[l]
        BY <1>1, <4>1
      <4> QED BY <3>2, <4>1, <4>2
    <3> QED BY <3>1, <3>2
  <2>4. m(p, A)[n] = MarkOf(A[k], P[k])
    BY <2>2
  <2>5. m(q, P)[k] = MarkOf(IF k = 1 THEN q ELSE P[k - 1], P[k])
    BY <1>3
  <2> QED BY <2>1, <2>3, <2>4, <2>5
<1>6. PICK a, b, c : a = m(p, A) /\ b = m(q, P) /\ c = MarkOf(p, q)
  OBVIOUS
<1> HIDE DEF m
<1>7. /\ a \in Seq(Seq(Mark)) /\ b \in Seq(Seq(Mark)) /\ c \in Seq(Mark)
      /\ Len(a) = Len(b) + 1 /\ a[1] = c /\ \A k \in 1 .. Len(b) : a[k + 1] = b[k]
  BY <1>1, <1>2, <1>4, <1>5, <1>6, MarkIs
<1>8. FlattenSeq(a) = c \o FlattenSeq(b)
  BY ONLY <1>7, FlattenMore
<1> QED BY <1>6, <1>8 DEF Marks, A, m

\* Nothing is read of no pieces.
LEMMA MarksNone ==
    ASSUME NEW p
    PROVE  Marks(p, <<>>) = <<>>
<1>1. DOMAIN <<>> = {} /\ <<>> \in Seq(Piece) /\ Len(<<>>) = 0
  BY EmptySeq
<1>2. [n \in DOMAIN <<>> |-> MarkOf(IF n = 1 THEN p ELSE <<>>[n - 1], <<>>[n])] = <<>>
  BY <1>1
<1>3. FlattenSeq(<<>>) = <<>>
  BY <1>1 DEF FlattenSeq
<1> QED BY <1>2, <1>3 DEF Marks

-----------------------------------------------------------------------------
(* What is kept of a text is divided into the pieces that were kept          *)

\* What begins at j has an end, and is kept or cut out.
LEMMA Goes ==
    ASSUME NEW t \in Text, NEW j \in 1 .. Len(t), ~OpenAt(t, j)
    PROVE  /\ Ends(Own, t, j) # {}
           /\ LET e == Min(Ends(Own, t, j))
              IN  /\ e \in j .. Len(t) /\ e + 1 \in j + 1 .. Len(t) + 1 /\ e + 1 \in 1 .. Len(t) + 1
                  /\ ~OpenAt(t, e + 1)
                  /\ First(Own, t, j) \in Piece
                  /\ First(Own, t, j) = [kind |-> Begins(Own, t, j), text |-> SubSeq(t, j, e)]
                  /\ First(Own, t, j).text[1] = t[j]
                  /\ Divisions(Own, t)[e + 1] \in Seq(Piece)
                  /\ Divisions(Own, t)[j] = <<First(Own, t, j)>> \o Divisions(Own, t)[e + 1]
                  /\ Rest(t, e + 1) \in Text
                  /\ Begins(Own, t, j) \in {"line", "block"} => Rest(t, j) = Rest(t, e + 1)
                  /\ Begins(Own, t, j) \notin {"line", "block"} =>
                        Rest(t, j) = SubSeq(t, j, e) \o Rest(t, e + 1)
<1>1. Ends(Own, t, j) # {}
  BY RestIs
<1>2. PICK e : e = Min(Ends(Own, t, j))
  OBVIOUS
<1>3. Len(t) \in Nat /\ j \in Nat
  BY LenProperties DEF Text
<1>4. e \in Ends(Own, t, j) /\ \A y \in Ends(Own, t, j) : e <= y
  BY <1>1, <1>2, EndsIs
<1>5. /\ e \in j .. Len(t) /\ e + 1 \in j + 1 .. Len(t) + 1
      /\ First(Own, t, j) = [kind |-> Begins(Own, t, j), text |-> SubSeq(t, j, e)]
      /\ Divisions(Own, t)[j] = <<First(Own, t, j)>> \o Divisions(Own, t)[e + 1]
  BY <1>1, <1>2, StepIs
<1>6. e + 1 \in 1 .. Len(t) + 1
  BY <1>3, <1>5
<1>7. /\ Rest(t, j) = (IF Begins(Own, t, j) \in {"line", "block"} THEN <<>> ELSE SubSeq(t, j, e)) \o Rest(t, e + 1)
      /\ ~OpenAt(t, e + 1)
  BY <1>4, RestIs
<1>8. Divisions(Own, t)[e + 1] \in Seq(Piece)
  BY <1>6, DivisionsIs
<1>9. Rest(t, e + 1) \in Text
  BY <1>8, TextsIs DEF Rest
<1>10. First(Own, t, j) \in Piece
  BY FirstIs
<1>11. SubSeq(t, j, e)[1] = t[j]
  <2>1. 1 \in 1 .. (e - j) + 1 /\ (j - 1) + 1 = j
    BY <1>3, <1>5
  <2>2. SubSeq(t, j, e)[1] = t[(j - 1) + 1]
    BY <1>5, <2>1, PartPlaces
  <2> QED BY <2>1, <2>2
<1>12. First(Own, t, j).text[1] = t[j]
  BY <1>5, <1>11
<1>13. Begins(Own, t, j) \in {"line", "block"} => Rest(t, j) = Rest(t, e + 1)
  <2>1. <<>> \o Rest(t, e + 1) = Rest(t, e + 1)
    BY <1>9, ConcatEmptySeq DEF Text
  <2> QED BY <1>7, <2>1
<1> QED BY <1>1, <1>2, <1>5, <1>6, <1>7, <1>8, <1>9, <1>10, <1>12, <1>13

\* Where what is kept begins.
LEMMA KeptFirst ==
    ASSUME NEW t \in Text, NEW j \in 1 .. Len(t), ~OpenAt(t, j),
           Begins(Own, t, j) \notin {"line", "block"}
    PROVE  Rest(t, j) # <<>> /\ Rest(t, j)[1] = t[j]
<1>1. PICK e : e = Min(Ends(Own, t, j))
  OBVIOUS
<1>2. /\ e \in j .. Len(t) /\ Rest(t, e + 1) \in Text /\ Rest(t, j) = SubSeq(t, j, e) \o Rest(t, e + 1)
  BY <1>1, Goes
<1>3. Len(t) \in Nat /\ j \in Nat
  BY LenProperties DEF Text
<1>4. PICK x : x = SubSeq(t, j, e)
  OBVIOUS
<1>5. x \in Text /\ 1 \in 1 .. Len(x) /\ x[1] = t[j]
  <2>1. 1 \in 1 .. (e - j) + 1 /\ (j - 1) + 1 = j
    BY <1>2, <1>3
  <2>2. x \in Text /\ Len(x) = (e - j) + 1 /\ x[1] = t[(j - 1) + 1]
    BY <1>2, <1>4, <2>1, PartPlaces
  <2> QED BY <2>1, <2>2
<1>6. /\ x \o Rest(t, e + 1) \in Text /\ (x \o Rest(t, e + 1))[1] = x[1]
      /\ Len(x \o Rest(t, e + 1)) = Len(x) + Len(Rest(t, e + 1))
  BY <1>2, <1>5, Before DEF EndsWith
<1>7. Len(Rest(t, e + 1)) \in Nat
  BY <1>2, LenProperties DEF Text
<1>8. x \o Rest(t, e + 1) # <<>>
  BY <1>5, <1>6, <1>7, EmptySeq
<1> QED BY <1>2, <1>4, <1>5, <1>6, <1>8

\* A line comment is the end of the text, or a newline that is kept follows it.
LEMMA LineFirst ==
    ASSUME NEW t \in Text, NEW j \in 1 .. Len(t), ~OpenAt(t, j), Begins(Own, t, j) = "line"
    PROVE  LET e == Min(Ends(Own, t, j))
           IN  \/ e = Len(t) /\ Rest(t, j) = <<>>
               \/ e < Len(t) /\ t[e + 1] = "newline" /\ Rest(t, j)[1] = "newline"
<1>1. PICK e : e = Min(Ends(Own, t, j))
  OBVIOUS
<1>2. /\ e \in j .. Len(t) /\ ~OpenAt(t, e + 1) /\ Rest(t, j) = Rest(t, e + 1) /\ e \in Ends(Own, t, j)
  BY <1>1, Goes, EndsIs
<1>3. Len(t) \in Nat /\ j \in Nat
  BY LenProperties DEF Text
<1>4. e = Len(t) \/ t[e + 1] = "newline"
  BY <1>2 DEF Ends
<1>5. CASE e = Len(t)
  BY <1>1, <1>2, <1>5, RestEnds
<1>6. CASE e # Len(t)
  <2>1. e + 1 \in 1 .. Len(t) /\ e < Len(t) /\ t[e + 1] = "newline"
    BY <1>2, <1>3, <1>4, <1>6
  <2>2. "newline" \notin Quotes
    BY DEF Quotes, Escaping
  <2>3. Begins(Own, t, e + 1) = "char"
    BY <2>1, <2>2, AnyRules
  <2>4. Rest(t, e + 1)[1] = t[e + 1]
    BY <1>2, <2>1, <2>3, KeptFirst
  <2> QED BY <1>1, <1>2, <2>1, <2>4
<1> QED BY <1>5, <1>6

\* Divisions that are the same go on the same.
LEMMA SameStep ==
    ASSUME NEW R, NEW t \in Text, NEW j \in 1 .. Len(t), ~OpenAt(t, j),
           Divisions(R, t)[j] = Divisions(Own, t)[j]
    PROVE  /\ Ends(R, t, j) # {} /\ Min(Ends(R, t, j)) = Min(Ends(Own, t, j))
           /\ Divisions(R, t)[Min(Ends(Own, t, j)) + 1] = Divisions(Own, t)[Min(Ends(Own, t, j)) + 1]
           /\ Begins(R, t, j) = Begins(Own, t, j)
<1> DEFINE D(Q) == Divisions(Q, t)
<1>1. PICK e : e = Min(Ends(Own, t, j))
  OBVIOUS
<1>2. /\ e \in j .. Len(t) /\ First(Own, t, j) \in Piece
      /\ First(Own, t, j) = [kind |-> Begins(Own, t, j), text |-> SubSeq(t, j, e)]
      /\ D(Own)[e + 1] \in Seq(Piece)
      /\ D(Own)[j] = <<First(Own, t, j)>> \o D(Own)[e + 1]
  BY <1>1, Goes
<1>3. Len(t) \in Nat /\ j \in Nat
  BY LenProperties DEF Text
<1>4. D(Own)[j][1] = First(Own, t, j) /\ First(Own, t, j).kind # "open"
  <2>1. (<<First(Own, t, j)>> \o D(Own)[e + 1])[1] = First(Own, t, j)
    BY <1>2, FrontIs
  <2>2. Begins(Own, t, j) # "open" /\ First(Own, t, j).kind = Begins(Own, t, j)
    <3>1. First(Own, t, j).kind = Begins(Own, t, j)
      BY ONLY <1>2
    <3> QED BY <3>1, BeginsIs
  <2> QED BY <1>2, <2>1, <2>2
<1>5. Ends(R, t, j) # {}
  <2> SUFFICES ASSUME Ends(R, t, j) = {} PROVE FALSE
    OBVIOUS
  <2>1. D(R)[j] = <<First(R, t, j)>> /\ First(R, t, j).kind = "open"
    BY StepIs
  <2>2. <<First(R, t, j)>>[1] = First(R, t, j)
    OBVIOUS
  <2> QED BY <1>4, <2>1, <2>2
<1>6. PICK d : d = Min(Ends(R, t, j))
  OBVIOUS
<1>7. /\ d \in j .. Len(t) /\ d + 1 \in 1 .. Len(t) + 1
      /\ First(R, t, j) = [kind |-> Begins(R, t, j), text |-> SubSeq(t, j, d)]
      /\ D(R)[j] = <<First(R, t, j)>> \o D(R)[d + 1]
  <2>1. /\ d \in j .. Len(t)
        /\ First(R, t, j) = [kind |-> Begins(R, t, j), text |-> SubSeq(t, j, d)]
        /\ D(R)[j] = <<First(R, t, j)>> \o D(R)[d + 1]
    BY <1>5, <1>6, StepIs
  <2> QED BY <1>3, <2>1
<1>8. First(R, t, j) \in Piece /\ D(R)[d + 1] \in Seq(Piece)
  BY <1>7, FirstIs, DivisionsIs
<1>9. First(R, t, j) = First(Own, t, j)
  <2>1. (<<First(R, t, j)>> \o D(R)[d + 1])[1] = First(R, t, j)
    BY <1>8, FrontIs
  <2> QED BY <1>4, <1>7, <2>1
<1>10. Begins(R, t, j) = Begins(Own, t, j) /\ SubSeq(t, j, d) = SubSeq(t, j, e)
  <2>1. First(R, t, j).kind = Begins(R, t, j) /\ First(R, t, j).text = SubSeq(t, j, d)
    BY ONLY <1>7
  <2>2. First(Own, t, j).kind = Begins(Own, t, j) /\ First(Own, t, j).text = SubSeq(t, j, e)
    BY ONLY <1>2
  <2> QED BY <1>9, <2>1, <2>2
<1>11. d = e
  <2>1. Len(SubSeq(t, j, d)) = (d - j) + 1
    BY <1>7, PartPlaces
  <2>2. Len(SubSeq(t, j, e)) = (e - j) + 1
    BY <1>2, PartPlaces
  <2> QED BY <1>2, <1>3, <1>7, <1>10, <2>1, <2>2
<1>12. D(R)[e + 1] = D(Own)[e + 1]
  <2>1. PICK a, b, q : a = D(R)[e + 1] /\ b = D(Own)[e + 1] /\ q = First(Own, t, j)
    OBVIOUS
  <2>2. a \in Seq(Piece) /\ b \in Seq(Piece) /\ q \in Piece /\ <<q>> \o a = <<q>> \o b
    BY <1>2, <1>7, <1>8, <1>9, <1>11, <2>1
  <2>3. a = b
    BY <2>2, SameRest
  <2> QED BY <2>1, <2>3
<1> QED BY <1>1, <1>5, <1>6, <1>10, <1>11, <1>12

\* The pieces of a text, as its division from the first character on.
LEMMA PiecesIs ==
    ASSUME NEW R, NEW t \in Text
    PROVE  Pieces(R, t) \in Seq(Piece) /\ Pieces(R, t) = Divisions(R, t)[1]
<1>1. 1 \in 1 .. Len(t) + 1
  BY LenProperties DEF Text
<1> QED BY <1>1, DivisionsIs DEF Pieces

\* The first of the pieces from j on.
LEMMA FirstOf ==
    ASSUME NEW t \in Text, NEW j \in 1 .. Len(t), ~OpenAt(t, j)
    PROVE  /\ Divisions(Own, t)[j] # <<>> /\ Divisions(Own, t)[j][1] = First(Own, t, j)
           /\ Comment(First(Own, t, j)) <=> Begins(Own, t, j) \in {"line", "block"}
           /\ Blank(First(Own, t, j)) <=> t[j] \in Blanks
           /\ t[j] \in Blanks => Begins(Own, t, j) = "char"
<1>1. PICK e : e = Min(Ends(Own, t, j))
  OBVIOUS
<1>2. PICK q, T : q = First(Own, t, j) /\ T = Divisions(Own, t)[e + 1]
  OBVIOUS
<1>3. /\ q \in Piece /\ T \in Seq(Piece) /\ Divisions(Own, t)[j] = <<q>> \o T
      /\ q = [kind |-> Begins(Own, t, j), text |-> SubSeq(t, j, e)] /\ q.text[1] = t[j]
  BY <1>1, <1>2, Goes
<1>4. Len(<<q>> \o T) = Len(T) + 1 /\ Len(T) \in Nat /\ (<<q>> \o T)[1] = q
  BY <1>3, FrontIs
<1>5. <<q>> \o T # <<>>
  BY <1>4, EmptySeq
<1>6. q.kind = Begins(Own, t, j)
  BY <1>3
<1>7. t[j] \in Blanks => Begins(Own, t, j) = "char"
  <2>1. t[j] \in Blanks => t[j] \notin Quotes /\ t[j] # "#" /\ t[j] # "-" /\ t[j] # "/"
    BY DEF Blanks, Quotes, Escaping
  <2> QED BY <2>1, AnyRules
<1> QED BY <1>2, <1>3, <1>4, <1>5, <1>6, <1>7 DEF Comment, Blank

\* A blank is continued by nothing.
LEMMA QuietJoins ==
    ASSUME NEW p, NEW q, Quiet(p)
    PROVE  Joins(p, q) = FALSE
<1>1. p.kind = "open" \/ (p.kind = "char" /\ p.text[1] \notin Letters)
  BY DEF Quiet, Blank, Blanks, Letters, Queries, Execs, DDLs
<1> QED BY <1>1 DEF Joins

\* Where a comment is cut out after a piece, what follows is read as after it.
LEMMA CutOut ==
    ASSUME NEW p \in Piece, NEW c \in Piece, NEW T \in Seq(Piece), Comment(c), ~Comment(p),
           ~GluesIn(<<p>> \o (<<c>> \o T)), c.kind = "line" /\ T # <<>> => Blank(T[1])
    PROVE  ~GluesIn(<<p>> \o T) /\ Marks(c, T) = Marks(p, T)
<1>1. CASE T = <<>>
  BY <1>1, GluesNone, MarksNone
<1>2. CASE T # <<>>
  <2>1. PICK q \in Piece, U \in Seq(Piece) : T = <<q>> \o U
    BY <1>2, FirstBefore
  <2>2. T[1] = q
    BY <2>1, FrontIs
  <2>3. c.kind = "block" => Quiet(p) \/ Blank(q)
    BY <1>2, <2>2, GluesMore
  <2>4. ~GluesIn(<<c>> \o (<<q>> \o U))
    BY <2>1, GluesMore
  <2>5. ~Quiet(c)
    BY DEF Comment, Blank, Quiet
  <2>6. ~GluesIn(<<q>> \o U) /\ (q.kind = "block" /\ U # <<>> => Blank(U[1]))
    BY <2>4, <2>5, GluesMore
  <2>7. ~GluesIn(<<p>> \o (<<q>> \o U))
    BY <2>6, GluesMore
\* A piece after a comment continues none, nor does one after a blank.
  <2>8. MarkOf(c, q) = MarkOf(p, q)
    <3>1. CASE Comment(q) \/ Blank(q)
      BY <3>1 DEF MarkOf
    <3>2. CASE ~Comment(q) /\ ~Blank(q)
      <4>1. c.kind = "block"
        BY <1>2, <2>2, <3>2 DEF Comment
      <4>2. Quiet(p)
        BY <2>3, <3>2, <4>1
      <4>3. ~Joins(c, q)
        BY <3>2, <4>1 DEF Joins, Comment
      <4>4. ~Joins(p, q)
        BY <4>2, QuietJoins
      <4>5. Joins(c, q) = FALSE /\ Joins(p, q) = FALSE
        BY <4>3, <4>4 DEF Joins
      <4> QED BY <4>5 DEF MarkOf
    <3> QED BY <3>1, <3>2
  <2>9. Marks(c, T) = Marks(p, T)
    <3>1. Marks(c, <<q>> \o U) = MarkOf(c, q) \o Marks(q, U)
      BY ONLY q \in Piece, U \in Seq(Piece), MarksMore
    <3>2. Marks(p, <<q>> \o U) = MarkOf(p, q) \o Marks(q, U)
      BY ONLY q \in Piece, U \in Seq(Piece), MarksMore
    <3> QED BY <2>1, <2>8, <3>1, <3>2
  <2> QED BY <2>1, <2>7, <2>9
<1> QED BY <1>1, <1>2

\* Rules R find no comment in a text and nothing open, nor do the classifier's.
Sound(R, s) == Plain(Pieces(R, s)) /\ Pieces(R, s) = Pieces(Own, s)

\* The text kept from j on is divided into the pieces kept, and they are read
\* as before, after any piece with which no comment glues.
Stays(R, t, j) ==
    ~OpenAt(t, j) /\ Divisions(R, t)[j] = Divisions(Own, t)[j] =>
        \A p \in Piece :
            ~Comment(p) /\ ~GluesIn(<<p>> \o Divisions(Own, t)[j]) =>
                /\ Sound(R, Rest(t, j))
                /\ Marks(p, Divisions(Own, t)[j]) = Marks(p, Pieces(R, Rest(t, j)))

\* A comment is cut out.
LEMMA CommentStays ==
    ASSUME NEW R, NEW t \in Text, NEW j \in 1 .. Len(t),
           \A m \in j + 1 .. Len(t) + 1 : Stays(R, t, m), Begins(Own, t, j) \in {"line", "block"}
    PROVE  Stays(R, t, j)
<1> SUFFICES ASSUME ~OpenAt(t, j), Divisions(R, t)[j] = Divisions(Own, t)[j],
                    NEW p \in Piece, ~Comment(p), ~GluesIn(<<p>> \o Divisions(Own, t)[j])
             PROVE  /\ Sound(R, Rest(t, j))
                    /\ Marks(p, Divisions(Own, t)[j]) = Marks(p, Pieces(R, Rest(t, j)))
  BY DEF Stays
<1>1. PICK e : e = Min(Ends(Own, t, j))
  OBVIOUS
<1>2. PICK c, T : c = First(Own, t, j) /\ T = Divisions(Own, t)[e + 1]
  OBVIOUS
<1>3. /\ e \in j .. Len(t) /\ e + 1 \in j + 1 .. Len(t) + 1 /\ e + 1 \in 1 .. Len(t) + 1
      /\ ~OpenAt(t, e + 1)
      /\ c \in Piece /\ c.kind = Begins(Own, t, j) /\ T \in Seq(Piece)
      /\ Divisions(Own, t)[j] = <<c>> \o T
      /\ Rest(t, j) = Rest(t, e + 1)
  <2>1. First(Own, t, j).kind = Begins(Own, t, j)
    <3>1. First(Own, t, j) = [kind |-> Begins(Own, t, j), text |-> SubSeq(t, j, e)]
      BY <1>1, Goes
    <3> QED BY ONLY <3>1
  <2> QED BY <1>1, <1>2, <2>1, Goes
<1>4. Divisions(R, t)[e + 1] = T
  BY <1>1, <1>2, SameStep
<1>5. Comment(c)
  BY <1>3 DEF Comment
<1>6. c.kind = "line" /\ T # <<>> => Blank(T[1])
  <2> SUFFICES ASSUME c.kind = "line", T # <<>> PROVE Blank(T[1])
    OBVIOUS
  <2>1. \/ e = Len(t)
        \/ e < Len(t) /\ t[e + 1] = "newline"
    BY <1>1, <1>3, LineFirst
  <2>2. e # Len(t)
    BY <1>2, LastIs
  <2>3. e + 1 \in 1 .. Len(t) /\ t[e + 1] = "newline"
    <3>1. Len(t) \in Nat /\ e \in Int
      BY <1>3, LenProperties DEF Text
    <3> QED BY <1>3, <2>1, <2>2, <3>1
  <2>4. T[1] = First(Own, t, e + 1) /\ (Blank(First(Own, t, e + 1)) <=> t[e + 1] \in Blanks)
    BY <1>2, <1>3, <2>3, FirstOf
  <2> QED BY <2>3, <2>4 DEF Blanks
<1>7. ~GluesIn(<<p>> \o T) /\ Marks(c, T) = Marks(p, T)
  BY <1>3, <1>5, <1>6, CutOut
<1>8. Sound(R, Rest(t, e + 1)) /\ Marks(p, T) = Marks(p, Pieces(R, Rest(t, e + 1)))
  BY <1>2, <1>3, <1>4, <1>7 DEF Stays
<1>9. Marks(p, <<c>> \o T) = Marks(c, T)
  <2>1. Marks(p, <<c>> \o T) = MarkOf(p, c) \o Marks(c, T)
    BY <1>3, MarksMore
  <2>2. MarkOf(p, c) = <<>>
    BY <1>5 DEF MarkOf
  <2>3. Marks(c, T) \in Seq(Mark)
    BY <1>3, MarksIs
  <2>4. <<>> \o Marks(c, T) = Marks(c, T)
    BY <2>3, ConcatEmptySeq
  <2> QED BY <2>1, <2>2, <2>4
<1> QED BY <1>3, <1>7, <1>8, <1>9

\* The character after a "-" or "/" that makes no comment is not made one that
\* does by what is cut out.
LEMMA NoMark ==
    ASSUME NEW t \in Text, NEW j \in 1 .. Len(t), ~OpenAt(t, j), ~OpenAt(t, j + 1),
           Rest(t, j + 1) # <<>>, t[j] \notin Blanks,
           ~GluesIn(<<First(Own, t, j)>> \o Divisions(Own, t)[j + 1]),
           NEW b, b \notin Blanks, j < Len(t) => t[j + 1] # b
    PROVE  Rest(t, j + 1)[1] # b
<1>1. Len(t) \in Nat /\ j \in Nat
  BY LenProperties DEF Text
<1>2. j # Len(t)
  BY RestEnds
<1>3. PICK k \in 1 .. Len(t) : k = j + 1
  BY <1>1, <1>2
<1>4. t[k] # b /\ ~OpenAt(t, k) /\ Rest(t, k) # <<>>
  BY <1>1, <1>2, <1>3
<1>5. CASE Begins(Own, t, k) \notin {"line", "block"}
  <2>1. Rest(t, k)[1] = t[k]
    BY <1>4, <1>5, KeptFirst
  <2> QED BY <1>3, <1>4, <2>1
<1>6. CASE Begins(Own, t, k) = "line"
  <2>1. Rest(t, k)[1] = "newline"
    BY <1>4, <1>6, LineFirst
  <2> QED BY <1>3, <2>1 DEF Blanks
<1>7. CASE Begins(Own, t, k) = "block"
  <2>1. PICK e : e = Min(Ends(Own, t, k))
    OBVIOUS
  <2>2. PICK p, c, T : p = First(Own, t, j) /\ c = First(Own, t, k) /\ T = Divisions(Own, t)[e + 1]
    OBVIOUS
  <2>3. /\ e \in k .. Len(t) /\ ~OpenAt(t, e + 1)
        /\ c \in Piece /\ c.kind = "block" /\ T \in Seq(Piece)
        /\ Divisions(Own, t)[k] = <<c>> \o T
        /\ Rest(t, k) = Rest(t, e + 1)
    <3>1. /\ e \in k .. Len(t) /\ ~OpenAt(t, e + 1)
          /\ First(Own, t, k) \in Piece
          /\ First(Own, t, k) = [kind |-> Begins(Own, t, k), text |-> SubSeq(t, k, e)]
          /\ Divisions(Own, t)[e + 1] \in Seq(Piece)
          /\ Divisions(Own, t)[k] = <<First(Own, t, k)>> \o Divisions(Own, t)[e + 1]
          /\ Begins(Own, t, k) \in {"line", "block"} => Rest(t, k) = Rest(t, e + 1)
      BY ONLY t \in Text, k \in 1 .. Len(t), <1>4, <2>1, Goes
    <3> QED BY <1>7, <2>2, <3>1
  <2>4. e # Len(t)
    BY <1>4, <2>3, RestEnds
  <2>5. PICK l \in 1 .. Len(t) : l = e + 1
    <3>1. e + 1 \in 1 .. Len(t)
      BY <1>1, <2>3, <2>4
    <3> QED BY <3>1
  <2>6. /\ Divisions(Own, t)[l] # <<>> /\ Divisions(Own, t)[l][1] = First(Own, t, l)
        /\ Blank(First(Own, t, l)) <=> t[l] \in Blanks
        /\ t[l] \in Blanks => Begins(Own, t, l) = "char"
    BY <2>3, <2>5, FirstOf
  <2>7. p \in Piece /\ ~Quiet(p)
    <3>1. Blank(First(Own, t, j)) <=> t[j] \in Blanks
      BY FirstOf
    <3>2. First(Own, t, j) \in Piece
      BY FirstIs
    <3>3. First(Own, t, j).kind # "open"
      <4>1. First(Own, t, j) = [kind |-> Begins(Own, t, j), text |-> SubSeq(t, j, Min(Ends(Own, t, j)))]
        BY Goes
      <4>2. First(Own, t, j).kind = Begins(Own, t, j)
        BY ONLY <4>1
      <4> QED BY <4>2, BeginsIs
    <3> QED BY <2>2, <3>1, <3>2, <3>3 DEF Quiet
  <2>8. Blank(T[1])
    <3>1. T # <<>> /\ ~GluesIn(<<p>> \o (<<c>> \o T))
      BY <1>3, <2>2, <2>3, <2>5, <2>6
    <3> QED BY <2>3, <2>7, <3>1, GluesMore
  <2>9. t[l] \in Blanks /\ Begins(Own, t, l) = "char"
    BY <2>2, <2>5, <2>6, <2>8
  <2>10. Rest(t, l)[1] = t[l]
    BY <2>3, <2>5, <2>9, KeptFirst
  <2> QED BY <1>3, <2>3, <2>5, <2>9, <2>10
<1> QED BY <1>5, <1>6, <1>7

\* A piece that is kept is found again before what is kept after it.
LEMMA FoundAgain ==
    ASSUME NEW R, NEW t \in Text, NEW j \in 1 .. Len(t),
           ~OpenAt(t, j), Divisions(R, t)[j] = Divisions(Own, t)[j],
           Begins(Own, t, j) \notin {"line", "block"}, NEW e, e = Min(Ends(Own, t, j)),
           ~GluesIn(<<First(Own, t, j)>> \o Divisions(Own, t)[e + 1])
    PROVE  Pieces(R, Rest(t, j)) = <<First(Own, t, j)>> \o Pieces(R, Rest(t, e + 1))
<1>1. PICK q, s : q = First(Own, t, j) /\ s = Rest(t, e + 1)
  OBVIOUS
<1>2. /\ e \in j .. Len(t) /\ ~OpenAt(t, e + 1)
      /\ q \in Piece /\ q = [kind |-> Begins(Own, t, j), text |-> SubSeq(t, j, e)]
      /\ s \in Text /\ Rest(t, j) = SubSeq(t, j, e) \o s
  BY <1>1, Goes
<1>3. Ends(R, t, j) # {} /\ Min(Ends(R, t, j)) = e
  BY SameStep
<1>4. Begins(Own, t, j) \in {"quoted", "char"}
  BY BeginsIs
<1>5. Pieces(R, s) = Divisions(R, s)[1] /\ Pieces(R, Rest(t, j)) = Divisions(R, SubSeq(t, j, e) \o s)[1]
  BY <1>2 DEF Pieces
<1>6. CASE Begins(Own, t, j) = "quoted"
  <2>1. t[j] \in Quotes
    BY <1>6, AnyRules
  <2>2. PICK x : x = SubSeq(t, j, Min(Ends(R, t, j)))
    OBVIOUS
  <2>3. Divisions(R, x \o s)[1] = <<[kind |-> "quoted", text |-> x]>> \o Divisions(R, s)[1]
    BY ONLY t \in Text, j \in 1 .. Len(t), <1>2, <1>3, <2>1, <2>2, QuotedAhead
  <2> QED BY <1>1, <1>2, <1>3, <1>5, <1>6, <2>2, <2>3
<1>7. CASE Begins(Own, t, j) = "char"
  <2>1. e = j
    <3>1. Ends(Own, t, j) = {j}
      BY <1>7 DEF Ends
    <3>2. e \in Ends(Own, t, j)
      BY <3>1, EndsIs
    <3> QED BY <3>1, <3>2
  <2>2. PICK x, c : x = SubSeq(t, j, j) /\ c = t[j]
    OBVIOUS
  <2>3. x \in Text /\ x = <<c>>
    BY <2>2, OneChar
  <2>4. /\ c \notin Quotes /\ c # "#"
        /\ ~(c = "-" /\ j < Len(t) /\ t[j + 1] = "-")
        /\ ~(c = "/" /\ j < Len(t) /\ t[j + 1] = "*")
    BY <1>7, <2>2, OwnRules
  <2>5. /\ s = Rest(t, j + 1) /\ ~OpenAt(t, j + 1)
        /\ ~GluesIn(<<First(Own, t, j)>> \o Divisions(Own, t)[j + 1])
    BY <1>1, <1>2, <2>1
  <2>6. "-" \notin Blanks /\ "/" \notin Blanks /\ "*" \notin Blanks
    BY DEF Blanks
  <2>7. c = "-" /\ s # <<>> => s[1] # "-"
    BY <2>2, <2>4, <2>5, <2>6, NoMark
  <2>8. c = "/" /\ s # <<>> => s[1] # "*"
    BY <2>2, <2>4, <2>5, <2>6, NoMark
  <2>9. Divisions(R, x \o s)[1] = <<[kind |-> "char", text |-> x]>> \o Divisions(R, s)[1]
    BY <1>2, <2>3, <2>4, <2>7, <2>8, CharAhead
  <2> QED BY <1>1, <1>2, <1>5, <1>7, <2>1, <2>2, <2>9
<1> QED BY <1>4, <1>6, <1>7

\* A piece that is no comment is kept.
LEMMA PieceStays ==
    ASSUME NEW R, NEW t \in Text, NEW j \in 1 .. Len(t),
           \A m \in j + 1 .. Len(t) + 1 : Stays(R, t, m), Begins(Own, t, j) \notin {"line", "block"}
    PROVE  Stays(R, t, j)
<1> SUFFICES ASSUME ~OpenAt(t, j), Divisions(R, t)[j] = Divisions(Own, t)[j],
                    NEW p \in Piece, ~Comment(p), ~GluesIn(<<p>> \o Divisions(Own, t)[j])
             PROVE  /\ Sound(R, Rest(t, j))
                    /\ Marks(p, Divisions(Own, t)[j]) = Marks(p, Pieces(R, Rest(t, j)))
  BY DEF Stays
<1>1. PICK e : e = Min(Ends(Own, t, j))
  OBVIOUS
<1>2. PICK q, T, s : q = First(Own, t, j) /\ T = Divisions(Own, t)[e + 1] /\ s = Rest(t, e + 1)
  OBVIOUS
<1>3. /\ e + 1 \in j + 1 .. Len(t) + 1 /\ ~OpenAt(t, e + 1)
      /\ q \in Piece /\ q.kind = Begins(Own, t, j) /\ T \in Seq(Piece) /\ s \in Text
      /\ Divisions(Own, t)[j] = <<q>> \o T
  <2>1. First(Own, t, j).kind = Begins(Own, t, j)
    <3>1. First(Own, t, j) = [kind |-> Begins(Own, t, j), text |-> SubSeq(t, j, e)]
      BY <1>1, Goes
    <3> QED BY ONLY <3>1
  <2>2. /\ e + 1 \in j + 1 .. Len(t) + 1 /\ ~OpenAt(t, e + 1)
        /\ q \in Piece /\ T \in Seq(Piece) /\ s \in Text
        /\ Divisions(Own, t)[j] = <<q>> \o T
    BY <1>1, <1>2, Goes
  <2> QED BY <1>2, <2>1, <2>2
<1>4. Divisions(R, t)[e + 1] = T
  BY <1>1, <1>2, SameStep
<1>5. q.kind \in {"char", "quoted"} /\ ~Comment(q)
  BY <1>3, BeginsIs DEF Comment
<1>6. ~GluesIn(<<q>> \o T)
  BY <1>3, GluesMore
<1>7. Sound(R, s) /\ Marks(q, T) = Marks(q, Pieces(R, s))
  BY <1>2, <1>3, <1>4, <1>5, <1>6 DEF Stays
<1>8. Pieces(R, s) \in Seq(Piece)
  BY <1>3, PiecesIs
<1>9. Pieces(R, Rest(t, j)) = <<q>> \o Pieces(R, s) /\ Pieces(Own, Rest(t, j)) = <<q>> \o Pieces(Own, s)
  BY <1>1, <1>2, <1>6, FoundAgain
<1>10. Plain(<<q>> \o Pieces(R, s))
  BY <1>3, <1>5, <1>7, <1>8, PlainMore DEF Sound
<1>11. Marks(p, <<q>> \o T) = MarkOf(p, q) \o Marks(q, T)
  BY ONLY <1>3, MarksMore
<1>12. Marks(p, <<q>> \o Pieces(R, s)) = MarkOf(p, q) \o Marks(q, Pieces(R, s))
  BY ONLY <1>3, <1>8, MarksMore
<1> QED BY <1>3, <1>7, <1>9, <1>10, <1>11, <1>12 DEF Sound

\* And so from every character on.
LEMMA AllStays ==
    ASSUME NEW R, NEW t \in Text
    PROVE  Stays(R, t, 1)
<1> DEFINE N == Len(t)
           Q == {k \in 0 .. N : \A j \in N + 1 - k .. N + 1 : Stays(R, t, j)}
<1>1. N \in Nat
  BY LenProperties DEF Text
<1>2. 0 \in Q
  <2>1. Stays(R, t, N + 1)
    <3>1. Divisions(Own, t)[N + 1] = <<>> /\ Rest(t, N + 1) = <<>>
      BY LastIs, RestEnds
    <3>2. <<>> \in Text /\ Len(<<>>) + 1 = 1
      BY EmptySeq DEF Text
    <3>3. Pieces(R, <<>>) = <<>> /\ Pieces(Own, <<>>) = <<>>
      BY <3>2, LastIs, PiecesIs
    <3>4. Plain(<<>>)
      BY <3>2 DEF Plain
    <3> QED BY <3>1, <3>3, <3>4 DEF Stays, Sound
  <2>2. \A j \in N + 1 - 0 .. N + 1 : j = N + 1
    BY <1>1
  <2>3. 0 \in 0 .. N
    BY <1>1
  <2> HIDE DEF N
  <2> QED BY <2>1, <2>2, <2>3
<1>3. ASSUME NEW k \in Q, k \in 0 .. N - 1 PROVE k + 1 \in Q
  <2>1. PICK j : j = N - k
    OBVIOUS
  <2>2. /\ j \in 1 .. N /\ k + 1 \in 0 .. N
        /\ N + 1 - (k + 1) .. N + 1 = {j} \cup (N + 1 - k .. N + 1)
        /\ N + 1 - k .. N + 1 = j + 1 .. N + 1
    BY <1>1, <1>3, <2>1
  <2>3. \A m \in j + 1 .. N + 1 : Stays(R, t, m)
    BY <1>3, <2>2
  <2>4. Stays(R, t, j)
    BY <2>2, <2>3, CommentStays, PieceStays
  <2> QED BY <2>2, <2>3, <2>4
<1> HIDE DEF Q
<1>4. 0 .. N \subseteq Q
  BY <1>1, <1>2, <1>3, UpTo
<1>5. N \in Q /\ 1 \in N + 1 - N .. N + 1
  BY <1>1, <1>4
<1> QED BY <1>5 DEF Q

\* What stands for nothing before a piece is a piece nothing continues.
LEMMA GapIs == Gap \in Piece /\ ~Comment(Gap) /\ Quiet(Gap)
<1>1. <<>> \in Text
  BY EmptySeq DEF Text
<1> QED BY <1>1 DEF Gap, Piece, Comment, Quiet

\* What a database reads in a text, by its marks.
LEMMA ReadingIs ==
    ASSUME NEW R, NEW t \in Text
    PROVE  Reading(R, t) = TrimRight(Marks(Gap, Pieces(R, t)), {Semicolon})
<1>1. PICK P : P = Pieces(R, t)
  OBVIOUS
<1>2. ASSUME NEW q PROVE Joins(Gap, q) = FALSE
  BY GapIs, QuietJoins
<1>3. ASSUME NEW n \in DOMAIN P
      PROVE  (IF Comment(P[n]) \/ Blank(P[n]) THEN <<>>
              ELSE <<[piece |-> P[n], joined |-> n > 1 /\ Joins(P[n - 1], P[n])]>>)
             = MarkOf(IF n = 1 THEN Gap ELSE P[n - 1], P[n])
  <2>1. CASE n = 1
    <3>1. (n > 1 /\ Joins(P[n - 1], P[n])) = FALSE
      BY <2>1
    <3>2. Joins(Gap, P[n]) = FALSE
      BY <1>2
    <3> QED BY <2>1, <3>1, <3>2 DEF MarkOf
  <2>2. CASE n # 1
    <3>1. n > 1
      BY <1>1, <2>2, PiecesIs, LenProperties
    <3>2. (n > 1 /\ Joins(P[n - 1], P[n])) = Joins(P[n - 1], P[n])
      BY <3>1 DEF Joins
    <3> QED BY <2>2, <3>2 DEF MarkOf
  <2> QED BY <2>1, <2>2
<1> QED BY <1>1, <1>3 DEF Reading, Marks, Semicolon

\* What is kept of a text in which no comment glues is read as the text is.
LEMMA KeptStays ==
    ASSUME NEW R, NEW t \in Text, ~Open(t), ~Glues(t), Pieces(R, t) = Pieces(Own, t)
    PROVE  Sound(R, Kept(t)) /\ Reading(R, Kept(t)) = Reading(R, t)
<1>1. PICK P : P = Pieces(Own, t)
  OBVIOUS
<1>2. P \in Seq(Piece) /\ P = Divisions(Own, t)[1] /\ P = Divisions(R, t)[1]
  BY <1>1, PiecesIs
<1>3. ~OpenAt(t, 1) /\ Rest(t, 1) = Kept(t)
  BY Whole
<1>4. Gap \in Piece /\ ~Comment(Gap) /\ Quiet(Gap)
  BY GapIs
<1>5. ~GluesIn(P)
  BY <1>1 DEF Glues, GluesIn, Quiet
<1>6. ~GluesIn(<<Gap>> \o P)
  <2>1. CASE P = <<>>
    BY <1>4, <2>1, GluesNone
  <2>2. CASE P # <<>>
    <3>1. P \in Seq(Piece)
      BY <1>2
    <3>2. PICK q \in Piece, U \in Seq(Piece) : P = <<q>> \o U
      BY ONLY <2>2, <3>1, FirstBefore
    <3> QED BY <1>4, <1>5, <3>2, GluesMore
  <2> QED BY <2>1, <2>2
<1>7. Sound(R, Rest(t, 1)) /\ Marks(Gap, P) = Marks(Gap, Pieces(R, Rest(t, 1)))
  BY <1>2, <1>3, <1>4, <1>6, AllStays DEF Stays
<1>8. Kept(t) \in Text
  <2>1. Rest(t, 1) \in Text
    BY <1>2, TextsIs DEF Rest
  <2> QED BY <1>3, <2>1
<1> QED BY <1>1, <1>3, <1>7, <1>8, ReadingIs

-----------------------------------------------------------------------------
(* Blanks and semicolons at the ends can be cut                              *)

\* After a blank nothing is continued.
LEMMA AfterBlank ==
    ASSUME NEW p \in Piece, NEW q \in Piece, Quiet(p), Quiet(q), NEW P \in Seq(Piece)
    PROVE  Marks(p, P) = Marks(q, P)
<1>1. ASSUME NEW r \in Piece PROVE MarkOf(p, r) = MarkOf(q, r)
  <2>1. Joins(p, r) = FALSE /\ Joins(q, r) = FALSE
    BY QuietJoins
  <2> QED BY <2>1 DEF MarkOf
<1>2. CASE P = <<>>
  BY <1>2, MarksNone
<1>3. CASE P # <<>>
  <2>1. PICK r \in Piece, U \in Seq(Piece) : P = <<r>> \o U
    BY <1>3, FirstBefore
  <2>2. Marks(p, <<r>> \o U) = MarkOf(p, r) \o Marks(r, U)
    BY MarksMore
  <2>3. Marks(q, <<r>> \o U) = MarkOf(q, r) \o Marks(r, U)
    BY MarksMore
  <2> QED BY <1>1, <2>1, <2>2, <2>3
<1> QED BY <1>2, <1>3

\* A blank or a semicolon outside quotes and comments is a piece.
LEMMA EndPiece ==
    ASSUME NEW R, NEW t \in Text, NEW j \in 1 .. Len(t), t[j] \in Blanks \cup {";"}
    PROVE  /\ Begins(R, t, j) = "char"
           /\ Divisions(R, t)[j] = <<[kind |-> "char", text |-> <<t[j]>>]>> \o Divisions(R, t)[j + 1]
           /\ [kind |-> "char", text |-> <<t[j]>>] \in Piece
           /\ Divisions(R, t)[j + 1] \in Seq(Piece)
<1>1. t[j] \notin Quotes /\ t[j] # "#" /\ t[j] # "-" /\ t[j] # "/"
  BY DEF Blanks, Quotes, Escaping
<1>2. Begins(R, t, j) = "char"
  BY <1>1, AnyRules
<1>3. Ends(R, t, j) = {j}
  BY <1>2 DEF Ends
<1>4. Ends(R, t, j) # {} /\ Min(Ends(R, t, j)) = j
  BY <1>3, EndsIs
<1>5. /\ First(R, t, j) = [kind |-> Begins(R, t, j), text |-> SubSeq(t, j, j)]
      /\ Divisions(R, t)[j] = <<First(R, t, j)>> \o Divisions(R, t)[j + 1]
  BY <1>4, StepIs
<1>6. SubSeq(t, j, j) = <<t[j]>>
  BY OneChar
<1>7. First(R, t, j) \in Piece
  BY FirstIs
<1>8. j + 1 \in 1 .. Len(t) + 1
  <2>1. PICK N : N = Len(t)
    OBVIOUS
  <2>2. N \in Nat /\ j \in 1 .. N
    BY <2>1, LenProperties DEF Text
  <2>3. j + 1 \in 1 .. N + 1
    BY ONLY <2>2
  <2> QED BY <2>1, <2>3
<1> QED BY <1>2, <1>5, <1>6, <1>7, <1>8, DivisionsIs

\* Blanks before a text.
LEMMA CutBlanks ==
    ASSUME NEW R, NEW v \in Text, NEW n \in 0 .. Len(v), \A k \in 1 .. n : v[k] \in Blanks,
           Sound(R, v)
    PROVE  /\ Sound(R, SubSeq(v, n + 1, Len(v)))
           /\ Reading(R, SubSeq(v, n + 1, Len(v))) = Reading(R, v)
<1> DEFINE D(r, j) == Divisions(r, v)[j]
           Q == {k \in 0 .. n : /\ Plain(D(R, k + 1)) /\ D(R, k + 1) = D(Own, k + 1)
                                /\ Marks(Gap, D(R, k + 1)) = Marks(Gap, D(R, 1))}
<1>1. Len(v) \in Nat /\ n \in Nat
  BY LenProperties DEF Text
<1>2. Gap \in Piece /\ Quiet(Gap)
  BY GapIs
<1>3. 0 \in Q
  <2>1. 0 + 1 = 1 /\ 0 \in 0 .. n
    BY <1>1
  <2>2. Plain(D(R, 1)) /\ D(R, 1) = D(Own, 1)
    BY PiecesIs DEF Sound
  <2> HIDE DEF D
  <2> QED BY <2>1, <2>2
<1>4. ASSUME NEW k \in Q, k \in 0 .. n - 1 PROVE k + 1 \in Q
  <2>1. PICK j : j = k + 1
    OBVIOUS
  <2>2. j \in 1 .. n /\ j \in 1 .. Len(v) /\ j \in 0 .. n
    BY <1>1, <1>4, <2>1
  <2>3. v[j] \in Blanks
    BY <2>2
  <2>4. PICK c : c = [kind |-> "char", text |-> <<v[j]>>]
    OBVIOUS
  <2>5. c \in Piece /\ D(R, j) = <<c>> \o D(R, j + 1) /\ D(R, j + 1) \in Seq(Piece)
    BY <2>2, <2>3, <2>4, EndPiece
  <2>6. D(Own, j) = <<c>> \o D(Own, j + 1) /\ D(Own, j + 1) \in Seq(Piece)
    BY <2>2, <2>3, <2>4, EndPiece
  <2>7. Blank(c) /\ Quiet(c)
    <3>1. c.kind = "char" /\ c.text[1] = v[j]
      BY <2>4
    <3> QED BY <2>3, <3>1 DEF Blank, Quiet
  <2>8. Plain(D(R, j)) /\ D(R, j) = D(Own, j) /\ Marks(Gap, D(R, j)) = Marks(Gap, D(R, 1))
    BY <2>1
  <2> HIDE DEF D
  <2>9. Plain(D(R, j + 1)) /\ D(R, j + 1) = D(Own, j + 1)
    BY <2>5, <2>6, <2>8, PlainMore, SameRest
  <2>10. Marks(Gap, D(R, j + 1)) = Marks(Gap, D(R, j))
    <3>1. Marks(Gap, <<c>> \o D(R, j + 1)) = MarkOf(Gap, c) \o Marks(c, D(R, j + 1))
      BY ONLY <2>5, MarksMore
    <3>2. MarkOf(Gap, c) = <<>>
      BY <2>7 DEF MarkOf
    <3>3. Marks(c, D(R, j + 1)) = Marks(Gap, D(R, j + 1)) /\ Marks(c, D(R, j + 1)) \in Seq(Mark)
      BY <1>2, <2>5, <2>7, AfterBlank, MarksIs
    <3>4. <<>> \o Marks(c, D(R, j + 1)) = Marks(c, D(R, j + 1))
      BY <3>3, ConcatEmptySeq
    <3> QED BY <2>5, <3>1, <3>2, <3>3, <3>4
  <2> QED BY <2>1, <2>2, <2>8, <2>9, <2>10
<1> HIDE DEF Q
<1>5. 0 .. n \subseteq Q
  BY <1>1, <1>3, <1>4, UpTo
<1>6. /\ Plain(D(R, n + 1)) /\ D(R, n + 1) = D(Own, n + 1)
      /\ Marks(Gap, D(R, n + 1)) = Marks(Gap, D(R, 1))
  BY <1>1, <1>5 DEF Q
<1>7. PICK s : s = SubSeq(v, n + 1, Len(v))
  OBVIOUS
<1>8. s \in Text /\ EndsWith(v, s, n) /\ 1 \in 1 .. Len(s) + 1
  <2>1. s \in Text /\ EndsWith(v, s, n)
    BY <1>7, After
  <2>2. Len(s) \in Nat
    BY <2>1, LenProperties DEF Text
  <2> QED BY <2>1, <2>2
<1>9. D(R, n + 1) = Pieces(R, s) /\ D(Own, n + 1) = Pieces(Own, s)
  BY <1>8, TailAlike DEF Pieces
<1>10. D(R, 1) = Pieces(R, v)
  BY DEF Pieces
<1> HIDE DEF D
<1> QED BY <1>6, <1>7, <1>8, <1>9, <1>10, ReadingIs DEF Sound

\* The first m characters of a text.
LEMMA ShortIs ==
    ASSUME NEW v \in Text, NEW m \in 0 .. Len(v)
    PROVE  /\ SubSeq(v, 1, m) \in Text /\ Len(SubSeq(v, 1, m)) = m /\ Len(v) \in Nat
           /\ \A k \in 1 .. m : SubSeq(v, 1, m)[k] = v[k]
<1>1. Len(v) \in Nat
  BY LenProperties DEF Text
<1> QED BY <1>1, PrefixIs DEF Text

\* Text v is s and a blank or semicolon.
CutAt(v, s) ==
    /\ v \in Text /\ s \in Text /\ Len(v) = Len(s) + 1
    /\ \A k \in 1 .. Len(s) : s[k] = v[k]
    /\ v[Len(v)] \in Blanks \cup {";"}

\* Without the blank or semicolon at its end, the text before begins with the
\* same piece.
LEMMA CutStep ==
    ASSUME NEW R, NEW v, NEW s, CutAt(v, s),
           NEW j \in 1 .. Len(s), Begins(Own, v, j) \in {"quoted", "char"},
           Begins(R, v, j) = Begins(Own, v, j), Ends(R, v, j) # {},
           NEW e, e = Min(Ends(R, v, j))
    PROVE  /\ e \in j .. Len(s)
           /\ Divisions(R, s)[j] = <<First(R, v, j)>> \o Divisions(R, s)[e + 1]
<1>0. PICK N, M : N = Len(v) /\ M = Len(s)
  OBVIOUS
<1>1. /\ v \in Text /\ s \in Text /\ M \in Nat /\ N = M + 1 /\ j \in 1 .. M /\ j \in 1 .. N /\ j \in Nat
      /\ s[j] = v[j]
  <2>1. v \in Text /\ s \in Text /\ N = M + 1 /\ j \in 1 .. M /\ s[j] = v[j]
    BY <1>0 DEF CutAt
  <2>2. M \in Nat
    BY <1>0, <2>1, LenProperties DEF Text
  <2> QED BY ONLY <2>1, <2>2
<1>6. (\A k \in 1 .. M : s[k] = v[k]) /\ v[N] \in Blanks \cup {";"}
  BY <1>0 DEF CutAt
<1>2. /\ e \in Ends(R, v, j) /\ e \in j .. N /\ \A y \in Ends(R, v, j) : e <= y
      /\ First(R, v, j) = [kind |-> Begins(R, v, j), text |-> SubSeq(v, j, e)]
  BY <1>0, <1>1, StepIs, EndsIs
\* It is enough that it begins and ends at the same places.
<1>3. ASSUME e # N, Begins(R, s, j) = Begins(R, v, j), Ends(R, s, j) = Ends(R, v, j)
      PROVE  /\ e \in j .. M
             /\ Divisions(R, s)[j] = <<First(R, v, j)>> \o Divisions(R, s)[e + 1]
  <2>1. e \in j .. M
    BY <1>0, <1>1, <1>2, <1>3
  <2>2. /\ First(R, s, j) = [kind |-> Begins(R, s, j), text |-> SubSeq(s, j, e)]
        /\ Divisions(R, s)[j] = <<First(R, s, j)>> \o Divisions(R, s)[e + 1]
    BY <1>0, <1>1, <1>3, StepIs
  <2>3. SubSeq(s, j, e) = SubSeq(v, j, e)
    <3>1. PICK a, b : a = SubSeq(s, j, e) /\ b = SubSeq(v, j, e)
      OBVIOUS
    <3>2. PICK l : l = (e - j) + 1
      OBVIOUS
    <3>3. a \in Text /\ Len(a) = l /\ \A k \in 1 .. l : a[k] = s[(j - 1) + k]
      BY <1>0, <1>1, <2>1, <3>1, <3>2, PartPlaces
    <3>4. b \in Text /\ Len(b) = l /\ \A k \in 1 .. l : b[k] = v[(j - 1) + k]
      <4>1. v \in Text /\ j \in 1 .. Len(v) /\ e \in j .. Len(v)
        BY <1>0, <1>1, <1>2
      <4> QED BY ONLY <4>1, <3>1, <3>2, PartPlaces
    <3>5. \A k \in 1 .. l : (j - 1) + k \in 1 .. M
      BY <1>1, <2>1, <3>2
    <3>6. \A k \in 1 .. Len(a) : a[k] = b[k]
      BY <1>6, <3>3, <3>4, <3>5
    <3>7. a = b
      BY <3>3, <3>4, <3>6, SeqEqual DEF Text
    <3> QED BY <3>1, <3>7
  <2> QED BY <1>2, <1>3, <2>1, <2>2, <2>3
<1>4. CASE Begins(Own, v, j) = "quoted"
  <2>1. v[j] \in Quotes /\ Begins(R, v, j) = "quoted" /\ Begins(R, s, j) = "quoted"
    BY <1>0, <1>1, <1>4, AnyRules
  <2>2. /\ Ends(R, v, j) = {m \in j + 1 .. N : v[m] = v[j] /\ ~Escaped(R, v, j, m)}
        /\ Ends(R, s, j) = {m \in j + 1 .. M : s[m] = s[j] /\ ~Escaped(R, s, j, m)}
    BY <1>0, <2>1 DEF Ends
  <2>3. v[N] # v[j]
    BY <1>6, <2>1 DEF Quotes, Escaping, Blanks
  <2>4. ASSUME NEW m \in j + 1 .. M PROVE Escaped(R, v, j, m) <=> Escaped(R, s, j, m)
    <3>1. PICK n : n = (m - j) - 1
      OBVIOUS
    <3>2. n \in Nat /\ j + n <= N /\ j + n <= M /\ (j + n) + 1 = m /\ n \in 0 .. n
      BY <1>1, <3>1
    <3>3. \A k \in 0 .. n : v[j + k] = s[j + k]
      <4>1. \A k \in 0 .. n : j + k \in 1 .. M
        BY <1>1, <3>2
      <4> QED BY <4>1, <1>6
    <3>4. \A k \in 0 .. n : Escaped(R, v, j, j + k + 1) <=> Escaped(R, s, j, j + k + 1)
      <4>1. /\ v \in Text /\ s \in Text /\ n \in Nat /\ j \in 1 .. Len(v) /\ j \in 1 .. Len(s)
            /\ j + n <= Len(v) /\ j + n <= Len(s)
        BY <1>0, <1>1, <3>2
      <4> QED BY ONLY <4>1, <3>3, EscapedAlike
    <3> QED BY <3>2, <3>4
  <2>5. \A m \in j + 1 .. N : m = N \/ m \in j + 1 .. M
    BY <1>1
  <2>6. \A m \in j + 1 .. M : m \in j + 1 .. N /\ s[m] = v[m]
    <3>1. \A m \in j + 1 .. M : m \in j + 1 .. N /\ m \in 1 .. M
      BY ONLY <1>1
    <3> QED BY <1>6, <3>1
  <2>7. \A m \in Ends(R, v, j) : m \in Ends(R, s, j)
    BY <1>1, <2>2, <2>3, <2>4, <2>5, <2>6
  <2>8. \A m \in Ends(R, s, j) : m \in Ends(R, v, j)
    BY <1>1, <2>2, <2>4, <2>6
  <2>9. e # N
    BY <1>2, <2>2, <2>3
  <2> QED BY <1>0, <1>3, <2>1, <2>7, <2>8, <2>9
<1>5. CASE Begins(Own, v, j) = "char"
  <2>1. /\ v[j] \notin Quotes /\ v[j] # "#"
        /\ ~(v[j] = "-" /\ j < N /\ v[j + 1] = "-")
        /\ ~(v[j] = "/" /\ j < N /\ v[j + 1] = "*")
    BY <1>0, <1>1, <1>5, OwnRules
  <2>2. j < M => s[j + 1] = v[j + 1] /\ j < N
    <3>1. j < M => j + 1 \in 1 .. M /\ j < N
      BY ONLY <1>1
    <3> QED BY <1>6, <3>1
  <2>3. Begins(R, s, j) = "char"
    BY <1>0, <1>1, <2>1, <2>2, AnyRules
  <2>4. Ends(R, s, j) = {j} /\ Ends(R, v, j) = {j}
    BY <1>5, <2>3 DEF Ends
  <2>5. e # N
    BY <1>1, <1>2, <2>4
  <2> QED BY <1>0, <1>3, <1>5, <2>3, <2>4, <2>5
<1> QED BY <1>4, <1>5

\* Pieces of which none is a comment or open.
LEMMA PlainClosed ==
    ASSUME NEW P \in Seq(Piece), Plain(P)
    PROVE  ~OpenOf(P)
<1>1. Len(P) \in Nat /\ DOMAIN P = 1 .. Len(P)
  BY LenProperties
<1>2. ToSet(P) = {P[n] : n \in 1 .. Len(P)}
  BY <1>1 DEF ToSet
<1> QED BY <1>2 DEF OpenOf, Plain

\* The blank or semicolon at the end, as a piece.
End(v) == [kind |-> "char", text |-> <<v[Len(v)]>>]

\* From j on text s is divided as v is, but for what is at the end of v.
Shorter(R, v, s, j) ==
    Divisions(R, v)[j] = Divisions(Own, v)[j] /\ Plain(Divisions(Own, v)[j]) =>
        /\ Divisions(R, s)[j] = Divisions(Own, s)[j] /\ Divisions(Own, s)[j] \in Seq(Piece)
        /\ Plain(Divisions(Own, s)[j])
        /\ \A p \in Piece : Marks(p, Divisions(Own, v)[j]) = Marks(p, Divisions(Own, s)[j]) \o MarkOf(Gap, End(v))

\* The text and its part, by their lengths.
LEMMA CutIs ==
    ASSUME NEW v, NEW s, CutAt(v, s)
    PROVE  /\ v \in Text /\ s \in Text /\ Len(s) \in Nat /\ Len(v) = Len(s) + 1 /\ Len(v) \in 1 .. Len(v)
           /\ v[Len(v)] \in Blanks \cup {";"}
<1>1. v \in Text /\ s \in Text /\ Len(v) = Len(s) + 1 /\ v[Len(v)] \in Blanks \cup {";"}
  BY DEF CutAt
<1>2. Len(s) \in Nat
  BY <1>1, LenProperties DEF Text
<1>3. Len(v) \in 1 .. Len(v)
  <2>1. PICK N, M : N = Len(v) /\ M = Len(s)
    OBVIOUS
  <2>2. M \in Nat /\ N = M + 1
    BY <1>1, <1>2, <2>1
  <2>3. N \in 1 .. N
    BY ONLY <2>2
  <2> QED BY <2>1, <2>3
<1> QED BY <1>1, <1>2, <1>3

\* At the last character.
LEMMA ShorterLast ==
    ASSUME NEW R, NEW v, NEW s, CutAt(v, s)
    PROVE  Shorter(R, v, s, Len(v))
<1>1. /\ v \in Text /\ s \in Text /\ Len(v) = Len(s) + 1 /\ Len(v) \in 1 .. Len(v)
      /\ v[Len(v)] \in Blanks \cup {";"}
  BY CutIs
<1>2. Divisions(R, s)[Len(v)] = <<>> /\ Divisions(Own, s)[Len(v)] = <<>>
  BY <1>1, LastIs
<1>3. /\ Divisions(Own, v)[Len(v)] = <<End(v)>> \o Divisions(Own, v)[Len(v) + 1]
      /\ End(v) \in Piece
  BY <1>1, EndPiece DEF End
<1>4. Divisions(Own, v)[Len(v) + 1] = <<>>
  BY <1>1, LastIs
<1>5. <<>> \in Seq(Piece) /\ Plain(<<>>) /\ <<>> \in Seq(Mark)
  BY EmptySeq DEF Plain
<1>6. ASSUME NEW p \in Piece PROVE Marks(p, Divisions(Own, v)[Len(v)]) = MarkOf(Gap, End(v))
  <2>1. Marks(p, <<End(v)>> \o <<>>) = MarkOf(p, End(v)) \o Marks(End(v), <<>>)
    BY <1>3, <1>5, MarksMore
  <2>2. Marks(End(v), <<>>) = <<>>
    BY MarksNone
  <2>3. MarkOf(p, End(v)) \in Seq(Mark)
    BY <1>3, MarkIs
  <2>4. MarkOf(p, End(v)) \o <<>> = MarkOf(p, End(v))
    BY <2>3, ConcatEmptySeq
  <2>5. End(v).kind = "char" /\ End(v).text[1] \notin Letters
    <3>1. End(v).kind = "char" /\ End(v).text[1] = v[Len(v)]
      BY DEF End
    <3> QED BY <1>1, <3>1 DEF Blanks, Letters, Queries, Execs, DDLs
  <2>6. Joins(p, End(v)) = FALSE /\ Joins(Gap, End(v)) = FALSE
    BY <2>5 DEF Joins
  <2>7. MarkOf(p, End(v)) = MarkOf(Gap, End(v))
    BY <2>6 DEF MarkOf
  <2> QED BY <1>3, <1>4, <2>1, <2>2, <2>4, <2>7
<1>7. Gap \in Piece
  BY GapIs
<1>8. \A p \in Piece : Marks(p, <<>>) \o MarkOf(Gap, End(v)) = MarkOf(Gap, End(v))
  <2>1. MarkOf(Gap, End(v)) \in Seq(Mark)
    BY <1>3, MarkIs
  <2>2. <<>> \o MarkOf(Gap, End(v)) = MarkOf(Gap, End(v))
    BY <2>1, ConcatEmptySeq
  <2> QED BY <2>2, MarksNone
<1> QED BY <1>2, <1>5, <1>6, <1>8 DEF Shorter

\* At a character before it, if it is so at every later one.
LEMMA ShorterStep ==
    ASSUME NEW R, NEW v, NEW s, CutAt(v, s), NEW j \in 1 .. Len(s),
           \A m \in j + 1 .. Len(v) : Shorter(R, v, s, m)
    PROVE  Shorter(R, v, s, j)
<1> SUFFICES ASSUME Divisions(R, v)[j] = Divisions(Own, v)[j], Plain(Divisions(Own, v)[j])
             PROVE  /\ Divisions(R, s)[j] = Divisions(Own, s)[j] /\ Divisions(Own, s)[j] \in Seq(Piece)
                    /\ Plain(Divisions(Own, s)[j])
                    /\ \A p \in Piece : Marks(p, Divisions(Own, v)[j])
                                        = Marks(p, Divisions(Own, s)[j]) \o MarkOf(Gap, End(v))
  BY DEF Shorter
<1>1. /\ v \in Text /\ s \in Text /\ Len(s) \in Nat /\ Len(v) = Len(s) + 1 /\ Len(v) \in 1 .. Len(v)
      /\ v[Len(v)] \in Blanks \cup {";"}
  BY CutIs
<1>2. j \in 1 .. Len(v) /\ j \in 1 .. Len(v) + 1 /\ j \in Nat
  <2>1. PICK N, M : N = Len(v) /\ M = Len(s)
    OBVIOUS
  <2>2. M \in Nat /\ N = M + 1 /\ j \in 1 .. M
    BY <1>1, <2>1
  <2>3. j \in 1 .. N /\ j \in 1 .. N + 1 /\ j \in Nat
    BY ONLY <2>2
  <2> QED BY <2>1, <2>3
<1>3. ~OpenAt(v, j)
  BY <1>1, <1>2, DivisionsIs, PlainClosed DEF OpenAt
<1>4. PICK e : e = Min(Ends(Own, v, j))
  OBVIOUS
<1>5. PICK q, T, U : q = First(Own, v, j) /\ T = Divisions(Own, v)[e + 1] /\ U = Divisions(Own, s)[e + 1]
  OBVIOUS
<1>6. /\ Ends(Own, v, j) # {} /\ q \in Piece /\ q.kind = Begins(Own, v, j) /\ T \in Seq(Piece)
      /\ Divisions(Own, v)[j] = <<q>> \o T
  <2>1. First(Own, v, j).kind = Begins(Own, v, j)
    <3>1. First(Own, v, j) = [kind |-> Begins(Own, v, j), text |-> SubSeq(v, j, e)]
      BY <1>1, <1>2, <1>3, <1>4, Goes
    <3> QED BY ONLY <3>1
  <2> QED BY <1>1, <1>2, <1>3, <1>4, <1>5, <2>1, Goes
<1>7. /\ Ends(R, v, j) # {} /\ Min(Ends(R, v, j)) = e /\ Begins(R, v, j) = Begins(Own, v, j)
      /\ Divisions(R, v)[e + 1] = T
  BY <1>1, <1>2, <1>3, <1>4, <1>5, SameStep
<1>8. q.kind \in {"char", "quoted"} /\ Plain(T)
  BY <1>6, PlainMore
<1>9. First(R, v, j) = q
  BY <1>4, <1>5, <1>6, <1>7 DEF First
<1>10. e \in j .. Len(s) /\ Divisions(Own, s)[j] = <<q>> \o U
  <2>1. Begins(Own, v, j) \in {"quoted", "char"}
    BY <1>6, <1>8
  <2>2. PICK d : d = Min(Ends(Own, v, j))
    OBVIOUS
  <2>3. d \in j .. Len(s) /\ Divisions(Own, s)[j] = <<First(Own, v, j)>> \o Divisions(Own, s)[d + 1]
    BY <1>6, <2>1, <2>2, CutStep
  <2> QED BY <1>4, <1>5, <2>2, <2>3
<1>11. Divisions(R, s)[j] = <<q>> \o Divisions(R, s)[e + 1]
  <2>1. Begins(Own, v, j) \in {"quoted", "char"}
    BY <1>6, <1>8
  <2>2. PICK d : d = Min(Ends(R, v, j))
    OBVIOUS
  <2>3. Divisions(R, s)[j] = <<First(R, v, j)>> \o Divisions(R, s)[d + 1]
    BY <1>7, <2>1, <2>2, CutStep
  <2> QED BY <1>7, <1>9, <2>2, <2>3
<1>12. e + 1 \in j + 1 .. Len(v)
  <2>1. PICK N, M : N = Len(v) /\ M = Len(s)
    OBVIOUS
  <2>2. M \in Nat /\ N = M + 1 /\ j \in Nat /\ e \in j .. M
    BY <1>1, <1>2, <1>10, <2>1
  <2>3. e + 1 \in j + 1 .. N
    BY ONLY <2>2
  <2> QED BY <2>1, <2>3
<1>13. /\ Divisions(R, s)[e + 1] = U /\ U \in Seq(Piece) /\ Plain(U)
       /\ \A p \in Piece : Marks(p, T) = Marks(p, U) \o MarkOf(Gap, End(v))
  BY <1>5, <1>7, <1>8, <1>12 DEF Shorter
<1>14. ASSUME NEW p \in Piece PROVE Marks(p, <<q>> \o T) = Marks(p, <<q>> \o U) \o MarkOf(Gap, End(v))
  <2>1. Marks(p, <<q>> \o T) = MarkOf(p, q) \o Marks(q, T)
    BY ONLY <1>6, <1>14, MarksMore
  <2>2. Marks(p, <<q>> \o U) = MarkOf(p, q) \o Marks(q, U)
    BY ONLY <1>6, <1>13, <1>14, MarksMore
  <2>3. PICK a, b, c : a = MarkOf(p, q) /\ b = Marks(q, U) /\ c = MarkOf(Gap, End(v))
    OBVIOUS
  <2>4. a \in Seq(Mark) /\ b \in Seq(Mark) /\ c \in Seq(Mark)
    <3>1. End(v) \in Piece
      BY <1>1, EndPiece DEF End
    <3> QED BY <1>6, <1>13, <2>3, <3>1, MarkIs, MarksIs
  <2>5. (a \o b) \o c = a \o (b \o c)
    BY ONLY <2>4, ConcatAssociative
  <2> QED BY <1>6, <1>13, <2>1, <2>2, <2>3, <2>5
<1>15. <<q>> \o U \in Seq(Piece) /\ Plain(<<q>> \o U)
  BY <1>6, <1>8, <1>13, FrontIs, PlainMore
<1> QED BY <1>6, <1>10, <1>11, <1>13, <1>14, <1>15

\* And so from the first character on.
LEMMA AllShorter ==
    ASSUME NEW R, NEW v, NEW s, CutAt(v, s)
    PROVE  Shorter(R, v, s, 1)
<1>1. PICK N : N = Len(v)
  OBVIOUS
<1>2. N - 1 \in Nat /\ N \in Nat /\ Len(s) = N - 1
  <2>1. PICK M : M = Len(s)
    OBVIOUS
  <2>2. M \in Nat /\ N = M + 1
    BY <1>1, <2>1, CutIs
  <2>3. N - 1 \in Nat /\ N \in Nat /\ M = N - 1
    BY ONLY <2>2
  <2> QED BY <2>1, <2>3
<1> DEFINE Q == {k \in 0 .. N - 1 : \A j \in N - k .. N : Shorter(R, v, s, j)}
<1>3. 0 \in Q
  <2>1. N - 0 = N /\ 0 \in 0 .. N - 1 /\ \A j \in N .. N : j = N
    BY <1>2
  <2> QED BY <1>1, <2>1, ShorterLast
<1>4. ASSUME NEW k \in Q, k \in 0 .. (N - 1) - 1 PROVE k + 1 \in Q
  <2>1. PICK j : j = (N - k) - 1
    OBVIOUS
  <2>2. /\ j \in 1 .. N - 1 /\ k + 1 \in 0 .. N - 1
        /\ N - (k + 1) .. N = {j} \cup (N - k .. N) /\ N - k .. N = j + 1 .. N
    BY <1>2, <1>4, <2>1
  <2>3. \A m \in j + 1 .. N : Shorter(R, v, s, m)
    BY <1>4, <2>2
  <2>4. Shorter(R, v, s, j)
    BY <1>1, <1>2, <2>2, <2>3, ShorterStep
  <2> QED BY <2>2, <2>3, <2>4
<1> HIDE DEF Q
<1>5. 0 .. N - 1 \subseteq Q
  BY <1>2, <1>3, <1>4, UpTo
<1>6. N - 1 \in Q /\ 1 \in N - (N - 1) .. N
  BY <1>2, <1>5
<1> QED BY <1>6 DEF Q

-----------------------------------------------------------------------------
(* What TrimRight and TrimSpace leave                                        *)

\* Without its last elements a sequence is trimmed to the last not in cut.
LEMMA TrimIs ==
    ASSUME NEW S, NEW s \in Seq(S), NEW cut, NEW m \in 0 .. Len(s),
           \A n \in m + 1 .. Len(s) : s[n] \in cut, m = 0 \/ s[m] \notin cut
    PROVE  TrimRight(s, cut) = SubSeq(s, 1, m)
<1> DEFINE K == {0} \cup {n \in DOMAIN s : s[n] \notin cut}
<1>1. PICK N : N = Len(s)
  OBVIOUS
<1>2. N \in Nat /\ DOMAIN s = 1 .. N /\ m \in 0 .. N
  BY <1>1, LenProperties
<1>3. m \in K
  <2>1. m # 0 => m \in 1 .. N
    BY ONLY <1>2
  <2> QED BY <1>2, <2>1
<1>4. \A n \in K : n \in 0 .. N /\ m >= n
  <2> SUFFICES ASSUME NEW n \in K PROVE n \in 0 .. N /\ m >= n
    OBVIOUS
  <2>1. n = 0 \/ (n \in 1 .. N /\ s[n] \notin cut)
    BY <1>2
  <2>2. n = 0 \/ (n \in 1 .. N /\ n \notin m + 1 .. N)
    BY <1>1, <2>1
  <2> QED BY ONLY <1>2, <2>2
<1> HIDE DEF K
<1>5. \A x \in K : (\A y \in K : x >= y) => x = m
  BY <1>2, <1>3, <1>4
<1>6. Max(K) = m
  BY <1>3, <1>4, <1>5 DEF Max
<1> QED BY <1>6 DEF TrimRight, K

\* And there is one to trim to.
LEMMA TrimTo ==
    ASSUME NEW S, NEW s \in Seq(S), NEW cut
    PROVE  \E m \in 0 .. Len(s) : /\ \A n \in m + 1 .. Len(s) : s[n] \in cut
                                  /\ m = 0 \/ s[m] \notin cut
                                  /\ TrimRight(s, cut) = SubSeq(s, 1, m)
<1>1. PICK N : N = Len(s)
  OBVIOUS
<1>2. N \in Nat
  BY <1>1, LenProperties
<1> DEFINE K == {k \in 0 .. N : \A n \in k + 1 .. N : s[n] \in cut}
<1>3. N \in K
  BY <1>2
<1>4. K \in SUBSET Nat /\ K # {}
  <2>1. \A k \in 0 .. N : k \in Nat
    BY <1>2
  <2> QED BY <1>3, <2>1
<1>5. PICK m \in K : \A y \in K : m <= y
  BY <1>4, Least
<1>6. m \in 0 .. N /\ \A n \in m + 1 .. N : s[n] \in cut
  OBVIOUS
<1>7. m = 0 \/ s[m] \notin cut
  <2> SUFFICES ASSUME m # 0, s[m] \in cut PROVE FALSE
    OBVIOUS
  <2>1. PICK k : k = m - 1
    OBVIOUS
  <2>2. k \in 0 .. N /\ ~(m <= k) /\ k + 1 .. N = {m} \cup (m + 1 .. N)
    BY <1>2, <1>6, <2>1
  <2>3. \A n \in k + 1 .. N : s[n] \in cut
    BY <1>6, <2>2
  <2>4. k \in K
    BY <2>2, <2>3
  <2> QED BY <1>5, <2>2, <2>4
<1>8. TrimRight(s, cut) = SubSeq(s, 1, m)
  BY <1>1, <1>6, <1>7, TrimIs
<1> QED BY <1>1, <1>6, <1>7, <1>8

\* An element at the end that is in cut goes.
LEMMA TrimMore ==
    ASSUME NEW S, NEW s \in Seq(S), NEW x \in S, NEW cut, x \in cut
    PROVE  TrimRight(s \o <<x>>, cut) = TrimRight(s, cut)
<1>1. PICK N : N = Len(s)
  OBVIOUS
<1>2. PICK m \in 0 .. N : /\ \A n \in m + 1 .. N : s[n] \in cut
                          /\ m = 0 \/ s[m] \notin cut
                          /\ TrimRight(s, cut) = SubSeq(s, 1, m)
  BY <1>1, TrimTo
<1>3. PICK r, one : r = s \o one /\ one = <<x>>
  OBVIOUS
<1>4. N \in Nat /\ one \in Seq(S) /\ Len(one) = 1 /\ one[1] = x
  BY <1>1, <1>3, LenProperties
<1>5. /\ r \in Seq(S) /\ Len(r) = N + 1
      /\ \A n \in 1 .. N + 1 : r[n] = IF n <= N THEN s[n] ELSE one[n - N]
  BY <1>1, <1>3, <1>4, ConcatProperties
<1>6. \A n \in 1 .. N : r[n] = s[n]
  BY <1>4, <1>5
<1>7. r[N + 1] \in cut
  <2>1. PICK n : n = N + 1
    OBVIOUS
  <2>2. n \in 1 .. N + 1 /\ ~(n <= N) /\ n - N = 1
    BY <1>4, <2>1
  <2>3. r[n] = x
    BY <1>4, <1>5, <2>2
  <2> QED BY <2>1, <2>3
<1>8. m \in 0 .. Len(r) /\ \A n \in m + 1 .. Len(r) : n = N + 1 \/ (n \in m + 1 .. N /\ n \in 1 .. N)
  BY <1>2, <1>4, <1>5
<1>9. \A n \in m + 1 .. Len(r) : r[n] \in cut
  BY <1>2, <1>6, <1>7, <1>8
<1>10. m = 0 \/ r[m] \notin cut
  <2>1. m # 0 => m \in 1 .. N
    BY ONLY <1>4, m \in 0 .. N
  <2> QED BY <1>2, <1>6, <2>1
<1>11. TrimRight(r, cut) = SubSeq(r, 1, m)
  BY <1>5, <1>8, <1>9, <1>10, TrimIs
<1>12. SubSeq(r, 1, m) = SubSeq(s, 1, m)
  <2>1. m \in 0 .. Len(s) /\ \A n \in 1 .. m : n \in 1 .. N
    BY <1>1, <1>2, <1>4
  <2>2. /\ SubSeq(s, 1, m) \in Seq(S) /\ Len(SubSeq(s, 1, m)) = m
        /\ \A n \in 1 .. m : SubSeq(s, 1, m)[n] = s[n]
    BY <2>1, PrefixIs
  <2>3. /\ SubSeq(r, 1, m) \in Seq(S) /\ Len(SubSeq(r, 1, m)) = m
        /\ \A n \in 1 .. m : SubSeq(r, 1, m)[n] = r[n]
    BY <1>5, <1>8, PrefixIs
  <2>4. \A n \in 1 .. Len(SubSeq(r, 1, m)) : SubSeq(r, 1, m)[n] = SubSeq(s, 1, m)[n]
    BY <1>6, <2>1, <2>2, <2>3
  <2> QED BY <2>2, <2>3, <2>4, SeqEqual
<1> QED BY <1>2, <1>3, <1>11, <1>12

\* Text s is sound, and read as t is.
Reads(R, t, s) == s \in Text /\ Sound(R, s) /\ Reading(R, s) = Reading(R, t)

\* One blank or semicolon at the end may be cut.
LEMMA CutLast ==
    ASSUME NEW R, NEW t, NEW v, NEW s, CutAt(v, s), Reads(R, t, v)
    PROVE  Reads(R, t, s)
<1>1. v \in Text /\ s \in Text /\ v[Len(v)] \in Blanks \cup {";"}
  BY CutIs
<1>2. /\ Pieces(Own, v) = Divisions(Own, v)[1] /\ Pieces(R, v) = Divisions(R, v)[1]
      /\ Pieces(Own, s) = Divisions(Own, s)[1] /\ Pieces(R, s) = Divisions(R, s)[1]
  BY DEF Pieces
<1>3. Divisions(R, v)[1] = Divisions(Own, v)[1] /\ Plain(Divisions(Own, v)[1])
  BY <1>2 DEF Reads, Sound
<1>4. /\ Pieces(R, s) = Pieces(Own, s) /\ Pieces(R, s) \in Seq(Piece) /\ Plain(Pieces(Own, s))
      /\ \A p \in Piece : Marks(p, Pieces(Own, v)) = Marks(p, Pieces(Own, s)) \o MarkOf(Gap, End(v))
  BY <1>2, <1>3, AllShorter DEF Shorter
<1>5. Marks(Gap, Pieces(R, v)) = Marks(Gap, Pieces(R, s)) \o MarkOf(Gap, End(v))
  BY <1>2, <1>3, <1>4, GapIs
<1>6. PICK x : x = Marks(Gap, Pieces(R, s))
  OBVIOUS
<1>7. x \in Seq(Mark)
  BY <1>4, <1>6, MarksIs
<1>8. End(v).kind = "char" /\ End(v).text[1] = v[Len(v)] /\ ~Comment(End(v))
  BY DEF End, Comment
<1>9. TrimRight(x \o MarkOf(Gap, End(v)), {Semicolon}) = TrimRight(x, {Semicolon})
  <2>1. CASE v[Len(v)] \in Blanks
    <3>1. MarkOf(Gap, End(v)) = <<>>
      BY <1>8, <2>1 DEF MarkOf, Blank
    <3>2. x \o <<>> = x
      BY <1>7, ConcatEmptySeq
    <3> QED BY <3>1, <3>2
  <2>2. CASE v[Len(v)] = ";"
    <3>1. Joins(Gap, End(v)) = FALSE
      BY GapIs, QuietJoins
    <3>2. ~Blank(End(v))
      BY <1>8, <2>2 DEF Blank, Blanks
    <3>3. MarkOf(Gap, End(v)) = <<Semicolon>>
      BY <1>8, <2>2, <3>1, <3>2 DEF MarkOf, Semicolon, End
    <3>4. Semicolon \in Mark
      <4>1. End(v) \in Piece
        BY <1>1, CutIs, EndPiece DEF End
      <4>2. Semicolon = [piece |-> End(v), joined |-> FALSE]
        BY <2>2 DEF Semicolon, End
      <4> QED BY <4>1, <4>2 DEF Mark
    <3>5. TrimRight(x \o <<Semicolon>>, {Semicolon}) = TrimRight(x, {Semicolon})
      <4>1. PICK y, cut : y = Semicolon /\ cut = {Semicolon}
        OBVIOUS
      <4>2. y \in Mark /\ y \in cut
        BY <3>4, <4>1
      <4>3. TrimRight(x \o <<y>>, cut) = TrimRight(x, cut)
        BY ONLY <1>7, <4>2, TrimMore
      <4> QED BY <4>1, <4>3
    <3> QED BY <3>3, <3>5
  <2> QED BY <1>1, <2>1, <2>2
<1>10. Reading(R, s) = Reading(R, v)
  BY <1>1, <1>5, <1>6, <1>9, ReadingIs
<1> QED BY <1>1, <1>4, <1>10 DEF Reads, Sound

\* The first n characters of a text, of which the last is a blank or semicolon.
LEMMA CutShort ==
    ASSUME NEW v \in Text, NEW n \in 1 .. Len(v), v[n] \in Blanks \cup {";"}
    PROVE  CutAt(SubSeq(v, 1, n), SubSeq(v, 1, n - 1))
<1>1. PICK N : N = Len(v)
  OBVIOUS
<1>2. N \in Nat /\ n \in 1 .. N
  BY <1>1, LenProperties DEF Text
<1>3. n \in 0 .. N /\ n - 1 \in 0 .. N /\ n = (n - 1) + 1 /\ n \in 1 .. n /\ \A k \in 1 .. n - 1 : k \in 1 .. n
  BY ONLY <1>2
<1>4. PICK a, b : a = SubSeq(v, 1, n) /\ b = SubSeq(v, 1, n - 1)
  OBVIOUS
<1>5. a \in Text /\ Len(a) = n /\ \A k \in 1 .. n : a[k] = v[k]
  BY <1>1, <1>3, <1>4, ShortIs
<1>6. b \in Text /\ Len(b) = n - 1 /\ \A k \in 1 .. n - 1 : b[k] = v[k]
  BY <1>1, <1>3, <1>4, ShortIs
<1>7. \A k \in 1 .. n - 1 : b[k] = a[k]
  BY <1>3, <1>5, <1>6
<1>8. a[n] \in Blanks \cup {";"}
  BY <1>3, <1>5
<1> QED BY <1>3, <1>4, <1>5, <1>6, <1>7, <1>8 DEF CutAt

\* Blanks and semicolons at the end.
LEMMA CutEnd ==
    ASSUME NEW R, NEW t, NEW v, Reads(R, t, v), NEW m \in 0 .. Len(v),
           \A n \in m + 1 .. Len(v) : v[n] \in Blanks \cup {";"}
    PROVE  Reads(R, t, SubSeq(v, 1, m))
<1>1. PICK N : N = Len(v)
  OBVIOUS
<1>2. v \in Text
  BY DEF Reads
<1>3. N \in Nat /\ m \in 0 .. N
  BY <1>1, <1>2, LenProperties DEF Text
<1>4. N - m \in Nat /\ N \in 0 .. N
  BY ONLY <1>3
<1> DEFINE Q == {k \in 0 .. N - m : Reads(R, t, SubSeq(v, 1, N - k))}
<1>5. 0 \in Q
  <2>1. SubSeq(v, 1, N) = v
    <3>1. SubSeq(v, 1, N) \in Text /\ Len(SubSeq(v, 1, N)) = N /\ \A k \in 1 .. N : SubSeq(v, 1, N)[k] = v[k]
      BY <1>1, <1>2, <1>4, ShortIs
    <3> QED BY <1>1, <1>2, <3>1, SeqEqual DEF Text
  <2>2. N - 0 = N /\ 0 \in 0 .. N - m
    BY ONLY <1>3, <1>4
  <2> QED BY <2>1, <2>2
<1>6. ASSUME NEW k \in Q, k \in 0 .. (N - m) - 1 PROVE k + 1 \in Q
  <2>1. PICK n : n = N - k
    OBVIOUS
  <2>2. n \in 1 .. N /\ n \in m + 1 .. N /\ N - (k + 1) = n - 1 /\ k + 1 \in 0 .. N - m
    <3>1. k \in 0 .. (N - m) - 1
      BY <1>6
    <3> QED BY ONLY <1>3, <2>1, <3>1
  <2>3. v[n] \in Blanks \cup {";"}
    BY <1>1, <2>2
  <2>4. CutAt(SubSeq(v, 1, n), SubSeq(v, 1, n - 1))
    BY <1>1, <1>2, <2>2, <2>3, CutShort
  <2>5. Reads(R, t, SubSeq(v, 1, n))
    BY <2>1
  <2>6. Reads(R, t, SubSeq(v, 1, n - 1))
    BY <2>4, <2>5, CutLast
  <2> QED BY <2>2, <2>6
<1> HIDE DEF Q
<1>7. 0 .. N - m \subseteq Q
  BY <1>4, <1>5, <1>6, UpTo
<1>8. N - m \in Q /\ N - (N - m) = m
  <2>1. N - m \in 0 .. N - m /\ N - (N - m) = m
    BY ONLY <1>3
  <2> QED BY <1>7, <2>1
<1> QED BY <1>8 DEF Q

\* So TrimRight may cut them.
LEMMA CutRight ==
    ASSUME NEW R, NEW t, NEW v, Reads(R, t, v), NEW cut, cut \subseteq Blanks \cup {";"}
    PROVE  Reads(R, t, TrimRight(v, cut))
<1>1. v \in Text
  BY DEF Reads
<1>2. PICK m \in 0 .. Len(v) : /\ \A n \in m + 1 .. Len(v) : v[n] \in cut
                               /\ TrimRight(v, cut) = SubSeq(v, 1, m)
  BY <1>1, TrimTo DEF Text
<1> QED BY <1>2, CutEnd

\* What TrimSpace leaves: w without the n blanks at its front.
Bare(w, n) ==
    /\ w \in Text /\ n \in 0 .. Len(w) /\ \A k \in 1 .. n : w[k] \in Blanks
    /\ w = <<>> \/ (n < Len(w) /\ w[n + 1] \notin Blanks /\ w[Len(w)] \notin Blanks)

\* TrimSpace cuts the blanks at the end, then those at the front.
LEMMA TrimSpaceIs ==
    ASSUME NEW s \in Text
    PROVE  \E n : /\ Bare(TrimRight(s, Blanks), n)
                  /\ TrimSpace(s) = SubSeq(TrimRight(s, Blanks), n + 1, Len(TrimRight(s, Blanks)))
<1>1. PICK N, w : N = Len(s) /\ w = TrimRight(s, Blanks)
  OBVIOUS
<1>2. N \in Nat /\ DOMAIN s = 1 .. N
  BY <1>1, LenProperties DEF Text
<1>3. PICK m \in 0 .. N : /\ \A k \in m + 1 .. N : s[k] \in Blanks
                          /\ m = 0 \/ s[m] \notin Blanks
                          /\ w = SubSeq(s, 1, m)
  BY <1>1, TrimTo DEF Text
<1>4. w \in Text /\ Len(w) = m /\ \A k \in 1 .. m : w[k] = s[k]
  BY <1>1, <1>3, ShortIs
<1>5. m \in Nat /\ \A k \in 1 .. N : k \in 1 .. m \/ k \in m + 1 .. N
  BY ONLY <1>2, m \in 0 .. N
<1> DEFINE K == {N + 1} \cup {k \in DOMAIN s : s[k] \notin Blanks}
<1>6. TrimSpace(s) = SubSeq(s, Min(K), m)
  BY <1>1, <1>4 DEF TrimSpace
<1>7. CASE m = 0
  <2>1. K = {N + 1}
    BY <1>2, <1>3, <1>5, <1>7
  <2>2. Min({N + 1}) = N + 1
    BY <1>2 DEF Min
  <2>3. N + 1 \in Nat /\ N + 1 > 0
    BY <1>2
  <2>4. SubSeq(s, N + 1, 0) = <<>>
    BY <2>3, SubSeqEmpty
  <2>5. w = <<>>
    BY <1>4, <1>7, EmptySeq DEF Text
  <2>6. SubSeq(w, 0 + 1, 0) = <<>>
    BY SubSeqEmpty
  <2>7. Bare(w, 0)
    BY <1>4, <1>7, <2>5 DEF Bare
  <2>8. TrimSpace(s) = SubSeq(w, 0 + 1, Len(w))
    BY <1>4, <1>6, <1>7, <2>1, <2>2, <2>4, <2>6
  <2> QED BY <1>1, <2>7, <2>8
<1>8. CASE m # 0
  <2>1. m \in 1 .. N /\ m \in K
    <3>1. m \in 1 .. N
      BY ONLY <1>2, <1>8, m \in 0 .. N
    <3> QED BY <1>2, <1>3, <1>8, <3>1
  <2>2. K \in SUBSET Nat /\ K # {}
    BY <1>2, <2>1
  <2>3. PICK p \in K : \A y \in K : p <= y
    BY <2>2, Least
  <2>4. p \in Nat /\ p <= m
    BY <2>1, <2>2, <2>3
  <2>5. Min(K) = p
    <3> HIDE DEF K
    <3>1. \A x \in K : (\A y \in K : x <= y) => x = p
      BY <2>2, <2>3
    <3> QED BY <2>3, <3>1 DEF Min
  <2>6. p \in 1 .. m /\ p \in 1 .. N /\ s[p] \notin Blanks
    <3>1. p # N + 1
      BY ONLY <1>2, <2>1, <2>4
    <3>2. p \in 1 .. N /\ s[p] \notin Blanks
      BY <1>2, <2>3, <3>1
    <3>3. p \in 1 .. m
      BY ONLY <2>4, <3>2, <1>5
    <3> QED BY <3>2, <3>3
  <2>7. \A k \in 1 .. p - 1 : s[k] \in Blanks /\ k \in 1 .. m
    <3> SUFFICES ASSUME NEW k \in 1 .. p - 1 PROVE s[k] \in Blanks /\ k \in 1 .. m
      OBVIOUS
    <3>1. k \in 1 .. N /\ ~(p <= k) /\ k \in 1 .. m
      BY ONLY k \in 1 .. p - 1, <1>2, <2>6, m \in 0 .. N
    <3>2. k \notin K
      BY <2>3, <3>1
    <3> QED BY <1>2, <3>1, <3>2
  <2>8. PICK n : n = p - 1
    OBVIOUS
  <2>9. n \in 0 .. m /\ n < m /\ n + 1 = p /\ m \in 1 .. m
    BY ONLY <2>6, <2>8, <1>5
  <2>10. Bare(w, n)
    BY <1>3, <1>4, <1>8, <2>6, <2>7, <2>8, <2>9 DEF Bare
  <2>11. SubSeq(s, p, m) = SubSeq(w, p, m)
    <3>1. p \in 1 .. N /\ m \in p .. N /\ p \in 1 .. m /\ m \in p .. m
      BY ONLY <2>6, <2>1
    <3>2. PICK l, a, b : l = (m - p) + 1 /\ a = SubSeq(s, p, m) /\ b = SubSeq(w, p, m)
      OBVIOUS
    <3>3. a \in Text /\ Len(a) = l /\ \A k \in 1 .. l : a[k] = s[(p - 1) + k]
      BY <1>1, <3>1, <3>2, PartPlaces
    <3>4. b \in Text /\ Len(b) = l /\ \A k \in 1 .. l : b[k] = w[(p - 1) + k]
      BY <1>4, <3>1, <3>2, PartPlaces
    <3>5. \A k \in 1 .. l : (p - 1) + k \in 1 .. m
      BY ONLY <3>1, <3>2
    <3>6. \A k \in 1 .. Len(a) : a[k] = b[k]
      BY <1>4, <3>3, <3>4, <3>5
    <3> QED BY <3>2, <3>3, <3>4, <3>6, SeqEqual DEF Text
  <2>12. TrimSpace(s) = SubSeq(w, n + 1, Len(w))
    BY <1>4, <1>6, <2>5, <2>9, <2>11
  <2> QED BY <1>1, <2>10, <2>12
<1> QED BY <1>7, <1>8

\* TrimSpace may cut the blanks at both ends.
LEMMA CutSpace ==
    ASSUME NEW R, NEW t, NEW v, Reads(R, t, v)
    PROVE  Reads(R, t, TrimSpace(v))
<1>1. v \in Text
  BY DEF Reads
<1>2. PICK w : w = TrimRight(v, Blanks)
  OBVIOUS
<1>3. Reads(R, t, w)
  BY <1>2, CutRight
<1>4. PICK n : Bare(w, n) /\ TrimSpace(v) = SubSeq(w, n + 1, Len(w))
  BY <1>1, <1>2, TrimSpaceIs
<1>5. w \in Text /\ n \in 0 .. Len(w) /\ \A k \in 1 .. n : w[k] \in Blanks
  BY <1>4 DEF Bare
<1>6. SubSeq(w, n + 1, Len(w)) \in Text
  BY <1>5, After
<1>7. Sound(R, SubSeq(w, n + 1, Len(w))) /\ Reading(R, SubSeq(w, n + 1, Len(w))) = Reading(R, w)
  BY <1>3, <1>5, CutBlanks DEF Reads
<1> QED BY <1>3, <1>4, <1>6, <1>7 DEF Reads

\* What is kept of a text in which no comment glues is read as the text is.
LEMMA KeptReads ==
    ASSUME NEW R, NEW t \in Text, ~Open(t), ~Glues(t), Pieces(R, t) = Pieces(Own, t)
    PROVE  Reads(R, t, Kept(t))
<1>1. Kept(t) \in Text
  <2>1. Rest(t, 1) = Kept(t) /\ Pieces(Own, t) \in Seq(Piece)
    BY Whole, PiecesIs
  <2> QED BY <2>1, TextsIs DEF Rest, Pieces
<1> QED BY <1>1, KeptStays DEF Reads

\* What is sent of a text in which no comment glues has no comment, and is read
\* as the text is, by any rules that divide the text as the classifier's do.
LEMMA SentReads ==
    ASSUME NEW R, NEW t \in Text, ~Open(t), ~Glues(t), Pieces(R, t) = Pieces(Own, t)
    PROVE  Reads(R, t, Trimmed(Kept(t)))
<1>1. Reads(R, t, TrimRight(TrimSpace(Kept(t)), {";"}))
  BY KeptReads, CutSpace, CutRight
<1> QED BY <1>1, CutSpace DEF Trimmed

InputIs == input \in Text

\* The text that is classified is a text, and no step changes it.
LEMMA InputStays == Spec => []InputIs
<1>1. Init => InputIs
  BY ClassifierAssumption DEF Init, InputIs, Text
<1>2. InputIs /\ [Next]_vars => InputIs'
  BY DEF InputIs, Next, vars, Default, Quoted, Backtick, LineComment, BlockComment, Ended, Classified, Go
<1> QED BY <1>1, <1>2, PTL DEF Spec

\* A text that is sent was not open.
LEMMA SentClosed ==
    ASSUME CutsComments, verdict \in Kinds
    PROVE  /\ ~Open(input) /\ normalized = Trimmed(Kept(input))
           /\ verdict = Judge(normalized)
<1>1. verdict # "none" /\ verdict # "unterminated"
  BY DEF Kinds
<1> QED BY <1>1 DEF CutsComments, Expected

\* What the scan keeps of the words follows from what it cuts out.
LEMMA WordsStep == CutsComments /\ InputIs => WordsKept
<1> SUFFICES ASSUME CutsComments, InputIs, NEW d \in DOMAIN Dialects, verdict \in Kinds,
                    Pieces(Dialects[d], input) = Pieces(Own, input), ~Glues(input)
             PROVE  Reading(Dialects[d], normalized) = Reading(Dialects[d], input)
  BY DEF WordsKept
<1>1. ~Open(input) /\ normalized = Trimmed(Kept(input)) /\ input \in Text
  BY SentClosed DEF InputIs
<1> QED BY <1>1, SentReads DEF Reads

\* Every database with rules that divide the statement as the classifier's do reads
\* in the text normalizeStatement returns the words, quoted texts and marks the
\* client wrote, for every statement in which no block comment glues its neighbours.
THEOREM WordsAreKept == Spec => []WordsKept
BY CommentsAreCut, InputStays, WordsStep, PTL

-----------------------------------------------------------------------------
(* The second scan of what is sent                                           *)

\* What is open after character c, where o was before it.
Unquoted == [quote |-> "no", skip |-> FALSE]
Turn(o, c) ==
    IF o.skip THEN [o EXCEPT !.skip = FALSE]
    ELSE IF o.quote \in Escaping /\ c = "backslash" THEN [o EXCEPT !.skip = TRUE]
    ELSE IF o.quote = "no" /\ c \in Quotes THEN [o EXCEPT !.quote = c]
    ELSE IF o.quote = c THEN [o EXCEPT !.quote = "no"]
    ELSE o

\* The recursive function in the definition of HasMultipleStatements exists.
LEMMA MultipleIs ==
    ASSUME NEW s, Len(s) \in Nat \ {0}
    PROVE  \E f : /\ \A n \in 1 .. Len(s) : f[n] = IF n = 1 THEN Unquoted ELSE Turn(f[n - 1], s[n - 1])
                  /\ HasMultipleStatements(s) <=> \E n \in DOMAIN s : s[n] = ";" /\ f[n].quote = "no"
<1> DEFINE N == Len(s)
           Step(f, n) == f = [k \in 1 .. n |-> IF k = 1 THEN Unquoted ELSE Turn(f[k - 1], s[k - 1])]
           open[n \in 1..Len(s)] ==
               IF n = 1 THEN [quote |-> "no", skip |-> FALSE]
               ELSE LET o == open[n - 1]
                        c == s[n - 1]
                    IN  IF o.skip THEN [o EXCEPT !.skip = FALSE]
                        ELSE IF o.quote \in Escaping /\ c = "backslash" THEN [o EXCEPT !.skip = TRUE]
                        ELSE IF o.quote = "no" /\ c \in Quotes THEN [o EXCEPT !.quote = c]
                        ELSE IF o.quote = c THEN [o EXCEPT !.quote = "no"]
                        ELSE o
           Good == {n \in Nat : \E f : Step(f, n)}
<1>1. N \in Good
  <2>1. 0 \in Good
    <3>1. Step(<<>>, 0)
      OBVIOUS
    <3> QED BY <3>1
  <2>2. ASSUME NEW m \in Good PROVE m + 1 \in Good
    <3> DEFINE n == m + 1
    <3>1. PICK g : Step(g, m)
      OBVIOUS
    <3>2. m \in Nat /\ n \in Nat
      OBVIOUS
    <3> DEFINE f == [k \in 1 .. n |-> IF k < n THEN g[k] ELSE IF k = 1 THEN Unquoted ELSE Turn(g[k - 1], s[k - 1])]
    <3>3. \A k \in 1 .. n : f[k] = IF k = 1 THEN Unquoted ELSE Turn(f[k - 1], s[k - 1])
      <4>1. ASSUME NEW k \in 1 .. n, k < n PROVE f[k] = IF k = 1 THEN Unquoted ELSE Turn(f[k - 1], s[k - 1])
        <5>1. f[k] = g[k] /\ k \in 1 .. m /\ (k # 1 => f[k - 1] = g[k - 1])
          BY <3>2, <4>1
        <5> HIDE DEF f
        <5> QED BY <3>1, <5>1
      <4>2. f[n] = IF n = 1 THEN Unquoted ELSE Turn(f[n - 1], s[n - 1])
        BY <3>2
      <4>3. \A k \in 1 .. n : k < n \/ k = n
        BY <3>2
      <4> HIDE DEF f
      <4> QED BY <4>1, <4>2, <4>3
    <3>4. f = [k \in 1 .. n |-> f[k]]
      OBVIOUS
    <3>5. Step(f, n)
      <4> HIDE DEF f
      <4> QED BY <3>3, <3>4
    <3>6. \E h : Step(h, n)
      <4> HIDE DEF f, n
      <4> QED BY <3>5
    <3> HIDE DEF f, n
    <3>7. n \in Good
      BY <3>2, <3>6
    <3> QED BY <3>7 DEF n
  <2> HIDE DEF Good
  <2>3. 0 .. N \subseteq Good
    BY <2>1, <2>2, UpTo
  <2> QED BY <2>3
<1>2. PICK f : Step(f, N)
  BY <1>1
<1>3. open = [n \in 1..Len(s) |->
               IF n = 1 THEN [quote |-> "no", skip |-> FALSE]
               ELSE LET o == open[n - 1]
                        c == s[n - 1]
                    IN  IF o.skip THEN [o EXCEPT !.skip = FALSE]
                        ELSE IF o.quote \in Escaping /\ c = "backslash" THEN [o EXCEPT !.skip = TRUE]
                        ELSE IF o.quote = "no" /\ c \in Quotes THEN [o EXCEPT !.quote = c]
                        ELSE IF o.quote = c THEN [o EXCEPT !.quote = "no"]
                        ELSE o]
  BY <1>2 DEF Turn, Unquoted
<1>4. HasMultipleStatements(s) <=> \E n \in DOMAIN s : s[n] = ";" /\ open[n].quote = "no"
  BY DEF HasMultipleStatements
<1>5. \A n \in 1 .. Len(s) : open[n] = IF n = 1 THEN Unquoted ELSE Turn(open[n - 1], s[n - 1])
  <2> HIDE DEF open
  <2> QED BY <1>3 DEF Turn, Unquoted
<1> HIDE DEF open
<1> QED BY <1>4, <1>5

In(q, skip) == [quote |-> q, skip |-> skip]

\* What the second scan does with a character inside quotes q.
LEMMA TurnIs ==
    ASSUME NEW q \in Quotes, NEW c
    PROVE  /\ Turn(In(q, TRUE), c) = In(q, FALSE)
           /\ q \in Escaping /\ c = "backslash" => Turn(In(q, FALSE), c) = In(q, TRUE)
           /\ ~(q \in Escaping /\ c = "backslash") /\ c # q => Turn(In(q, FALSE), c) = In(q, FALSE)
           /\ c = q => Turn(In(q, FALSE), c) = Unquoted
<1>1. q # "no" /\ q # "backslash"
  BY DEF Quotes, Escaping
<1> QED BY <1>1 DEF Turn, In, Unquoted

\* And with one outside.
LEMMA TurnOutside ==
    ASSUME NEW c
    PROVE  /\ c \in Quotes => Turn(Unquoted, c) = In(c, FALSE)
           /\ c \notin Quotes => Turn(Unquoted, c) = Unquoted
<1>1. "no" \notin Escaping
  BY DEF Escaping
<1> QED BY <1>1 DEF Turn, In, Unquoted

\* f is the second scan of s.
SecondScan(s, f) ==
    /\ s \in Text
    /\ \A n \in 1 .. Len(s) : f[n] = IF n = 1 THEN Unquoted ELSE Turn(f[n - 1], s[n - 1])

\* The second scan at the next character.
LEMMA ScanNext ==
    ASSUME NEW s, NEW f, SecondScan(s, f), NEW n \in 1 .. Len(s) - 1
    PROVE  f[n + 1] = Turn(f[n], s[n])
<1>1. PICK N : N = Len(s)
  OBVIOUS
<1>2. N \in Nat /\ n \in 1 .. N - 1 /\ \A m \in 1 .. N : f[m] = IF m = 1 THEN Unquoted ELSE Turn(f[m - 1], s[m - 1])
  BY <1>1, LenProperties DEF SecondScan, Text
<1>3. PICK m : m = n + 1
  OBVIOUS
<1>4. m \in 1 .. N /\ m # 1 /\ m - 1 = n
  BY ONLY <1>2, <1>3
<1> QED BY <1>2, <1>3, <1>4

\* The second scan is in a quoted text as long as the first.
LEMMA ScanQuoted ==
    ASSUME NEW s, NEW f, SecondScan(s, f), NEW j \in 1 .. Len(s), s[j] \in Quotes, f[j] = Unquoted,
           NEW e \in Ends(Own, s, j), \A y \in Ends(Own, s, j) : e <= y, e < Len(s)
    PROVE  f[e + 1] = Unquoted
<1>1. PICK N, q : N = Len(s) /\ q = s[j]
  OBVIOUS
<1>2. s \in Text /\ N \in Nat /\ j \in 1 .. N /\ q \in Quotes
  BY <1>1, LenProperties DEF SecondScan, Text
<1>3. Ends(Own, s, j) = {m \in j + 1 .. N : s[m] = q /\ ~Escaped(Own, s, j, m)}
  <2>1. Begins(Own, s, j) = "quoted"
    BY <1>1, <1>2, AnyRules
  <2> QED BY <1>1, <2>1 DEF Ends
<1>4. e \in j + 1 .. N /\ s[e] = q /\ ~Escaped(Own, s, j, e) /\ e < N
  BY <1>1, <1>3
<1>5. PICK d : d = (e - j) - 1
  OBVIOUS
<1>6. d \in Nat /\ j + d + 1 = e
  BY ONLY <1>2, <1>4, <1>5
<1> DEFINE At(m) == IF Escaped(Own, s, j, m) THEN f[m] = In(q, TRUE) ELSE f[m] = In(q, FALSE)
           Q == {k \in 0 .. d : At(j + k + 1)}
<1>7. 0 \in Q
  <2>1. j + 0 + 1 = j + 1 /\ 0 \in 0 .. d /\ j \in 1 .. N - 1
    BY ONLY <1>2, <1>4, <1>6
  <2>2. ~Escaped(Own, s, j, j + 1)
    BY <1>1, <1>2, EscapedIs
  <2>3. f[j + 1] = Turn(Unquoted, q)
    BY <1>1, <2>1, ScanNext
  <2>4. f[j + 1] = In(q, FALSE)
    BY <1>2, <2>3, TurnOutside
  <2> QED BY <2>1, <2>2, <2>4
<1>8. ASSUME NEW k \in Q, k \in 0 .. d - 1 PROVE k + 1 \in Q
  <2>1. PICK m : m = j + k + 1
    OBVIOUS
  <2>2. /\ m \in j + 1 .. N /\ m \in 1 .. N - 1 /\ m < e /\ k + 1 \in 0 .. d /\ j + (k + 1) + 1 = m + 1
    <3>1. k \in 0 .. d - 1
      BY <1>8
    <3> QED BY ONLY <1>2, <1>4, <1>6, <2>1, <3>1
  <2>3. At(m)
    BY <2>1
  <2>4. f[m + 1] = Turn(f[m], s[m])
    BY <1>1, <2>2, ScanNext
  <2>5. Escaped(Own, s, j, m + 1) <=> q \in Escaping /\ s[m] = "backslash" /\ ~Escaped(Own, s, j, m)
    BY <1>1, <1>2, <2>2, EscapedIs
  <2>6. ~Escaped(Own, s, j, m) => s[m] # q
    <3>1. m \notin Ends(Own, s, j)
      <4>1. m \in Ends(Own, s, j) => e <= m
        OBVIOUS
      <4>2. ~(e <= m)
        BY ONLY <1>4, <2>2
      <4> QED BY <4>1, <4>2
    <3> QED BY <1>3, <2>2, <3>1
  <2>7. At(m + 1)
    BY <1>2, <2>3, <2>4, <2>5, <2>6, TurnIs
  <2> QED BY <2>2, <2>7
<1> HIDE DEF Q
<1>9. 0 .. d \subseteq Q
  BY <1>6, <1>7, <1>8, UpTo
<1>10. d \in Q
  BY <1>6, <1>9
<1>11. f[e] = In(q, FALSE)
  BY <1>4, <1>6, <1>10 DEF Q
<1>12. e \in 1 .. N - 1
  BY ONLY <1>2, <1>4
<1>13. f[e + 1] = Turn(f[e], s[e])
  BY <1>1, <1>12, ScanNext
<1>14. Turn(In(q, FALSE), q) = Unquoted
  BY <1>2, TurnIs
<1> QED BY <1>4, <1>11, <1>13, <1>14

\* A semicolon at the end of a text without comments stands outside quotes for
\* the second scan, from wherever that is outside.
LEMMA LastSeen ==
    ASSUME NEW s, NEW f, SecondScan(s, f), NEW j \in 1 .. Len(s), s[Len(s)] = ";",
           Plain(Divisions(Own, s)[j]), f[j] = Unquoted,
           \A m \in j + 1 .. Len(s) :
              Plain(Divisions(Own, s)[m]) /\ f[m] = Unquoted => f[Len(s)] = Unquoted
    PROVE  f[Len(s)] = Unquoted
<1>1. PICK N, e : N = Len(s) /\ e = Min(Ends(Own, s, j))
  OBVIOUS
<1>2. s \in Text /\ N \in Nat /\ j \in 1 .. N /\ j \in 1 .. N + 1
  <2>1. s \in Text /\ N \in Nat /\ j \in 1 .. N
    BY <1>1, LenProperties DEF SecondScan, Text
  <2>2. j \in 1 .. N + 1
    BY ONLY <2>1
  <2> QED BY <2>1, <2>2
<1>3. Divisions(Own, s)[j] \in Seq(Piece) /\ ~OpenAt(s, j)
  BY <1>1, <1>2, DivisionsIs, PlainClosed DEF OpenAt
<1>4. PICK q, T : q = First(Own, s, j) /\ T = Divisions(Own, s)[e + 1]
  OBVIOUS
<1>5. /\ e \in j .. N /\ q \in Piece /\ T \in Seq(Piece) /\ q.kind = Begins(Own, s, j)
      /\ Divisions(Own, s)[j] = <<q>> \o T
      /\ e \in Ends(Own, s, j) /\ \A y \in Ends(Own, s, j) : e <= y
  <2>1. First(Own, s, j).kind = Begins(Own, s, j)
    <3>1. First(Own, s, j) = [kind |-> Begins(Own, s, j), text |-> SubSeq(s, j, e)]
      BY <1>1, <1>2, <1>3, Goes
    <3> QED BY ONLY <3>1
  <2>2. Ends(Own, s, j) # {}
    BY <1>1, <1>2, <1>3, Goes
  <2>3. e \in Ends(Own, s, j) /\ \A y \in Ends(Own, s, j) : e <= y
    BY <1>1, <1>2, <2>2, EndsIs
  <2> QED BY <1>1, <1>2, <1>3, <1>4, <2>1, <2>3, Goes
<1>6. Begins(Own, s, j) \in {"char", "quoted"} /\ Plain(T)
  BY <1>5, PlainMore
\* It is enough to be outside after the piece, if that is not the last.
<1>7. ASSUME e < N => f[e + 1] = Unquoted, e # N \/ j = N PROVE f[N] = Unquoted
  <2>1. CASE e = N
    BY <1>1, <1>7, <2>1
  <2>2. CASE e # N
    <3>1. PICK m : m = e + 1
      OBVIOUS
    <3>2. m \in j + 1 .. N /\ e < N
      BY ONLY <1>2, <1>5, <2>2, <3>1
    <3> QED BY <1>1, <1>4, <1>6, <1>7, <3>1, <3>2
  <2> QED BY <2>1, <2>2
<1>8. CASE Begins(Own, s, j) = "quoted"
  <2>1. s[j] \in Quotes
    BY <1>1, <1>2, <1>8, AnyRules
  <2>2. s[e] = s[j]
    BY <1>5, <1>8 DEF Ends
  <2>3. e # N
    BY <1>1, <2>1, <2>2 DEF Quotes, Escaping
  <2>4. e < N => f[e + 1] = Unquoted
    BY <1>1, <1>5, <2>1, ScanQuoted
  <2> QED BY <1>1, <1>7, <2>3, <2>4
<1>9. CASE Begins(Own, s, j) = "char"
  <2>1. Ends(Own, s, j) = {j}
    BY <1>9 DEF Ends
  <2>2. e = j
    BY <1>5, <2>1
  <2>3. s[j] \notin Quotes
    BY <1>1, <1>2, <1>9, AnyRules
  <2>4. e < N => f[e + 1] = Unquoted
    <3> SUFFICES ASSUME e < N PROVE f[e + 1] = Unquoted
      OBVIOUS
    <3>1. j \in 1 .. N - 1
      BY ONLY <1>2, <2>2, e < N
    <3>2. f[j + 1] = Turn(f[j], s[j])
      BY <1>1, <3>1, ScanNext
    <3> QED BY <2>2, <2>3, <3>2, TurnOutside
  <2> QED BY <1>1, <1>7, <2>2, <2>4
<1> QED BY <1>6, <1>8, <1>9

\* A text without comments that ends with a semicolon has multiple statements.
LEMMA LastJudged ==
    ASSUME NEW s \in Text, Len(s) # 0, s[Len(s)] = ";", Plain(Pieces(Own, s))
    PROVE  HasMultipleStatements(s)
<1>1. PICK N : N = Len(s)
  OBVIOUS
<1>2. N \in Nat \ {0} /\ DOMAIN s = 1 .. N
  BY <1>1, LenProperties DEF Text
<1>3. PICK f : /\ \A n \in 1 .. N : f[n] = IF n = 1 THEN Unquoted ELSE Turn(f[n - 1], s[n - 1])
               /\ HasMultipleStatements(s) <=> \E n \in DOMAIN s : s[n] = ";" /\ f[n].quote = "no"
  <2>1. Len(s) \in Nat \ {0}
    BY <1>1, <1>2
  <2>2. PICK f : /\ \A n \in 1 .. Len(s) : f[n] = IF n = 1 THEN Unquoted ELSE Turn(f[n - 1], s[n - 1])
                 /\ HasMultipleStatements(s) <=> \E n \in DOMAIN s : s[n] = ";" /\ f[n].quote = "no"
    BY ONLY <2>1, MultipleIs
  <2> QED BY ONLY <1>1, <2>2
<1>4. SecondScan(s, f)
  BY <1>1, <1>3 DEF SecondScan
<1> DEFINE At(j) == Plain(Divisions(Own, s)[j]) /\ f[j] = Unquoted => f[N] = Unquoted
           Q == {k \in 0 .. N - 1 : \A j \in N - k .. N : At(j)}
<1>5. 0 \in Q
  <2>1. 0 \in 0 .. N - 1 /\ \A j \in N - 0 .. N : j = N
    BY ONLY <1>2
  <2> QED BY <2>1
<1>6. ASSUME NEW k \in Q, k \in 0 .. (N - 1) - 1 PROVE k + 1 \in Q
  <2>1. PICK j : j = (N - k) - 1
    OBVIOUS
  <2>2. /\ j \in 1 .. N /\ k + 1 \in 0 .. N - 1
        /\ N - (k + 1) .. N = {j} \cup (N - k .. N) /\ N - k .. N = j + 1 .. N
    <3>1. k \in 0 .. (N - 1) - 1
      BY <1>6
    <3> QED BY ONLY <1>2, <2>1, <3>1
  <2>3. \A m \in j + 1 .. N : At(m)
    BY <1>6, <2>2
  <2>4. At(j)
    BY <1>1, <1>4, <2>2, <2>3, LastSeen
  <2> QED BY <2>2, <2>3, <2>4
<1> HIDE DEF Q
<1>7. N - 1 \in Nat /\ N - 1 \in 0 .. N - 1 /\ 1 \in N - (N - 1) .. N /\ N \in 1 .. N /\ 1 \in 1 .. N
  BY ONLY <1>2
<1>8. 0 .. N - 1 \subseteq Q
  BY <1>5, <1>6, <1>7, UpTo
<1>9. At(1)
  BY <1>7, <1>8 DEF Q
<1>10. f[1] = Unquoted /\ Plain(Divisions(Own, s)[1])
  BY <1>3, <1>7 DEF Pieces
<1>11. f[N].quote = "no"
  <2>1. f[N] = Unquoted
    BY <1>9, <1>10
  <2>2. Unquoted.quote = "no"
    BY DEF Unquoted
  <2> QED BY <2>1, <2>2
<1> QED BY <1>1, <1>2, <1>3, <1>7, <1>11

-----------------------------------------------------------------------------
(* What is sent is left alone                                                *)

\* Of a text without comments everything is kept.
LEMMA KeptWhole ==
    ASSUME NEW s \in Text, Plain(Pieces(Own, s))
    PROVE  ~Open(s) /\ Kept(s) = s
<1>1. PICK N : N = Len(s)
  OBVIOUS
<1>2. N \in Nat
  BY <1>1, LenProperties DEF Text
<1> DEFINE At(j) == Plain(Divisions(Own, s)[j]) => Rest(s, j) = SubSeq(s, j, N)
           Q == {k \in 0 .. N : \A j \in N + 1 - k .. N + 1 : At(j)}
<1>3. 0 \in Q
  <2>1. 0 \in 0 .. N /\ (\A j \in N + 1 - 0 .. N + 1 : j = N + 1) /\ N + 1 \in Int /\ N \in Int /\ N < N + 1
    BY ONLY <1>2
  <2>2. Rest(s, N + 1) = <<>>
    BY <1>1, RestEnds
  <2>3. SubSeq(s, N + 1, N) = <<>>
    BY <2>1, SubSeqEmpty
  <2> QED BY <2>1, <2>2, <2>3
<1>4. ASSUME NEW k \in Q, k \in 0 .. N - 1 PROVE k + 1 \in Q
  <2>1. PICK j, e : j = N - k /\ e = Min(Ends(Own, s, j))
    OBVIOUS
  <2>2. /\ j \in 1 .. N /\ j \in 1 .. N + 1 /\ k + 1 \in 0 .. N /\ j \in Nat
        /\ N + 1 - (k + 1) .. N + 1 = {j} \cup (N + 1 - k .. N + 1)
        /\ N + 1 - k .. N + 1 = j + 1 .. N + 1
    <3>1. k \in 0 .. N - 1
      BY <1>4
    <3> QED BY ONLY <1>2, <2>1, <3>1
  <2>3. \A m \in j + 1 .. N + 1 : At(m)
    BY <1>4, <2>2
  <2>4. At(j)
    <3> SUFFICES ASSUME Plain(Divisions(Own, s)[j]) PROVE Rest(s, j) = SubSeq(s, j, N)
      OBVIOUS
    <3>1. ~OpenAt(s, j)
      BY <1>1, <2>2, DivisionsIs, PlainClosed DEF OpenAt
    <3>2. PICK q, T : q = First(Own, s, j) /\ T = Divisions(Own, s)[e + 1]
      OBVIOUS
    <3>3. /\ e \in j .. N /\ e + 1 \in j + 1 .. N + 1 /\ q \in Piece /\ T \in Seq(Piece)
          /\ Divisions(Own, s)[j] = <<q>> \o T
          /\ q.kind = Begins(Own, s, j)
          /\ Begins(Own, s, j) \notin {"line", "block"} =>
                Rest(s, j) = SubSeq(s, j, e) \o Rest(s, e + 1)
      <4>1. First(Own, s, j).kind = Begins(Own, s, j)
        <5>1. First(Own, s, j) = [kind |-> Begins(Own, s, j), text |-> SubSeq(s, j, e)]
          BY <1>1, <2>1, <2>2, <3>1, Goes
        <5> QED BY ONLY <5>1
      <4> QED BY <1>1, <2>1, <2>2, <3>1, <3>2, <4>1, Goes
    <3>4. q.kind \in {"char", "quoted"} /\ Plain(T)
      BY <3>3, PlainMore
    <3>5. PICK m : m = e + 1
      OBVIOUS
    <3>6. At(m) /\ m = e + 1
      BY <2>3, <3>3, <3>5
    <3>7. Rest(s, e + 1) = SubSeq(s, e + 1, N)
      BY <3>2, <3>4, <3>6
    <3>8. SubSeq(s, j, e) \o SubSeq(s, e + 1, N) = SubSeq(s, j, N)
      <4>1. j \in 1 .. N + 1 /\ e \in j - 1 .. N /\ N \in e .. N
        BY ONLY <1>2, <2>2, <3>3
      <4>2. s \in Seq(STRING)
        BY DEF Text
      <4> QED BY ONLY <1>1, <4>1, <4>2, ConcatAdjacentSubSeq
    <3> QED BY <3>3, <3>4, <3>7, <3>8
  <2> QED BY <2>2, <2>3, <2>4
<1> HIDE DEF Q
<1>5. 0 .. N \subseteq Q
  BY <1>2, <1>3, <1>4, UpTo
<1>6. N \in 0 .. N /\ 1 \in N + 1 - N .. N + 1
  BY ONLY <1>2
<1>7. At(1)
  BY <1>5, <1>6 DEF Q
<1>8. SubSeq(s, 1, N) = s
  BY <1>1, SubSeqFull DEF Text
<1>9. Rest(s, 1) = s
  BY <1>7, <1>8 DEF Pieces
<1>10. ~OpenAt(s, 1)
  BY PiecesIs, PlainClosed DEF OpenAt
<1> QED BY <1>9, <1>10, Whole

\* Neither a blank nor a semicolon is at an end.
Trim(s) ==
    /\ s \in Text /\ Len(s) # 0
    /\ s[1] \notin Blanks /\ s[Len(s)] \notin Blanks /\ s[Len(s)] # ";"

\* Such a text is left alone by the trimming.
LEMMA NotTrimmed ==
    ASSUME NEW s, Trim(s)
    PROVE  Trimmed(s) = s
<1>1. s \in Text /\ Len(s) # 0 /\ s[1] \notin Blanks /\ s[Len(s)] \notin Blanks /\ s[Len(s)] # ";"
  BY DEF Trim
<1>2. PICK N : N = Len(s)
  OBVIOUS
<1>3. N \in Nat \ {0}
  BY <1>1, <1>2, LenProperties DEF Text
<1>4. N \in 0 .. N /\ (\A n \in N + 1 .. N : FALSE) /\ 1 \in 1 .. N
  BY ONLY <1>3
<1>5. SubSeq(s, 1, N) = s
  BY <1>1, <1>2, SubSeqFull DEF Text
<1>6. TrimRight(s, Blanks) = s /\ TrimRight(s, {";"}) = s
  <2>1. s \in Seq(STRING)
    BY <1>1 DEF Text
  <2>2. TrimRight(s, Blanks) = SubSeq(s, 1, N)
    BY ONLY <1>1, <1>2, <1>4, <2>1, TrimIs
  <2>3. TrimRight(s, {";"}) = SubSeq(s, 1, N)
    <3>1. PICK cut : cut = {";"}
      OBVIOUS
    <3>2. s[N] \notin cut
      BY <1>1, <1>2, <3>1
    <3>3. TrimRight(s, cut) = SubSeq(s, 1, N)
      BY ONLY <1>2, <1>4, <2>1, <3>2, TrimIs
    <3> QED BY <3>1, <3>3
  <2> QED BY <1>5, <2>2, <2>3
<1>7. TrimSpace(s) = s
  <2>1. PICK n : Bare(s, n) /\ TrimSpace(s) = SubSeq(s, n + 1, N)
    BY <1>1, <1>2, <1>6, TrimSpaceIs
  <2>2. n \in 0 .. N /\ \A k \in 1 .. n : s[k] \in Blanks
    BY <1>2, <2>1 DEF Bare
  <2>3. n = 0
    <3>1. n # 0 => 1 \in 1 .. n
      BY ONLY <1>3, <2>2
    <3> QED BY <1>1, <2>2, <3>1
  <2> QED BY <1>5, <2>1, <2>3
<1> QED BY <1>6, <1>7 DEF Trimmed

\* What TrimSpace leaves has no blank at its ends.
LEMMA SpaceTrimmed ==
    ASSUME NEW s \in Text, NEW u, u = TrimSpace(s), u # <<>>
    PROVE  u \in Text /\ Len(u) # 0 /\ u[1] \notin Blanks /\ u[Len(u)] \notin Blanks
<1>1. PICK w : w = TrimRight(s, Blanks)
  OBVIOUS
<1>2. PICK n : Bare(w, n) /\ u = SubSeq(w, n + 1, Len(w))
  BY <1>1, TrimSpaceIs
<1>3. PICK N : N = Len(w)
  OBVIOUS
<1>4. w \in Text /\ N \in Nat /\ n \in 0 .. N
  BY <1>2, <1>3, LenProperties DEF Bare, Text
<1>5. u \in Text /\ EndsWith(w, u, n)
  BY <1>2, <1>3, <1>4, After
<1>6. Len(u) \in Nat /\ Len(u) # 0
  BY <1>5, EmptySeq, LenProperties DEF Text
<1>7. N = n + Len(u) /\ \A k \in 1 .. Len(u) : w[n + k] = u[k]
  BY <1>3, <1>5 DEF EndsWith
<1>8. 1 \in 1 .. Len(u) /\ Len(u) \in 1 .. Len(u) /\ N # 0
  <2>1. PICK M : M = Len(u)
    OBVIOUS
  <2>2. M \in Nat /\ M # 0 /\ N = n + M
    BY <1>6, <1>7, <2>1
  <2>3. 1 \in 1 .. M /\ M \in 1 .. M /\ N # 0
    BY ONLY <1>4, <2>2
  <2> QED BY <2>1, <2>3
<1>9. w # <<>>
  BY <1>3, <1>8, EmptySeq
<1>10. w[n + 1] \notin Blanks /\ w[N] \notin Blanks
  BY <1>2, <1>3, <1>9 DEF Bare
<1>11. u[1] = w[n + 1] /\ u[Len(u)] = w[N]
  BY <1>7, <1>8
<1> QED BY <1>5, <1>6, <1>10, <1>11

\* What is sent is settled because of what the scan cuts out.
LEMMA SettledStep == CutsComments /\ InputIs => Settled
<1> SUFFICES ASSUME CutsComments, InputIs, verdict \in Kinds, ~Glues(input)
             PROVE  Expected(normalized) = verdict /\ Trimmed(Kept(normalized)) = normalized
  BY DEF Settled
<1>1. ~Open(input) /\ normalized = Trimmed(Kept(input)) /\ verdict = Judge(normalized) /\ input \in Text
  BY SentClosed DEF InputIs
<1>2. Reads(Own, input, normalized)
  BY <1>1, SentReads
<1>3. normalized \in Text /\ Plain(Pieces(Own, normalized))
  BY <1>2 DEF Reads, Sound
<1>4. ~Open(normalized) /\ Kept(normalized) = normalized
  BY <1>3, KeptWhole
<1>5. normalized # <<>> /\ ~HasMultipleStatements(normalized)
  <2>1. verdict # "empty" /\ verdict # "multiple"
    BY DEF Kinds
  <2> QED BY <1>1, <2>1 DEF Judge
<1>6. /\ Len(normalized) # 0 /\ normalized[1] \notin Blanks
      /\ normalized[Len(normalized)] \notin Blanks
  <2>1. PICK v : v = TrimRight(TrimSpace(Kept(input)), {";"}) /\ normalized = TrimSpace(v)
    BY <1>1 DEF Trimmed
  <2>2. Reads(Own, input, Kept(input))
    BY <1>1, KeptReads
  <2>3. v \in Text
    BY <2>1, <2>2, CutSpace, CutRight DEF Reads
  <2> QED BY <1>5, <2>1, <2>3, SpaceTrimmed
<1>7. Trimmed(normalized) = normalized
  BY <1>3, <1>5, <1>6, LastJudged, NotTrimmed DEF Trim
<1> QED BY <1>1, <1>4, <1>7 DEF Expected

\* The text normalizeStatement returns is classified as the statement it is made
\* from was, and returned as it is, for every statement in which no block comment
\* glues its neighbours.
THEOREM SentSettles == Spec => []Settled
BY CommentsAreCut, InputStays, SettledStep, PTL
=============================================================================
