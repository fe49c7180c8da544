---------------------------- MODULE SequenceFacts ----------------------------
(***************************************************************************)
(* Lemmas about sequences and the operators on them the models use:        *)
(* FlattenSeq of the community modules and Chosen of Places.               *)
(***************************************************************************)
EXTENDS Places, SequencesExt, SequenceTheorems, FiniteSetTheorems, NaturalsInduction, TLAPS

\* A set of natural numbers that is not empty has a least one.
LEMMA Least ==
    ASSUME NEW S \in SUBSET Nat, S # {}
    PROVE  \E x \in S : \A y \in S : x <= y
<1> DEFINE R == OpToRel(<, Nat)
<1>1. PICK x \in S : \A y \in S : ~(<<y, x>> \in R)
  BY NatLessThanWellFounded, WFMin
<1>2. \A y \in S : ~(y < x)
  <2>1. \A y \in S : y < x => <<y, x>> \in R
    BY DEF OpToRel
  <2> QED BY <1>1, <2>1
<1> QED BY <1>2

\* Induction up to a bound, for a set of numbers.
LEMMA UpTo ==
    ASSUME NEW n \in Nat, NEW Q, 0 \in Q, \A k \in Q : k \in 0 .. n - 1 => k + 1 \in Q
    PROVE  0 .. n \subseteq Q
<1> DEFINE Bad == {k \in 0 .. n : k \notin Q}
<1>1. SUFFICES ASSUME Bad # {} PROVE FALSE
  OBVIOUS
<1>2. PICK k \in Bad : \A m \in Bad : k <= m
  <2>1. Bad \in SUBSET Nat
    OBVIOUS
  <2> HIDE DEF Bad
  <2> QED BY <1>1, <2>1, Least
<1>3. k \in 1 .. n /\ k - 1 \in 0 .. n - 1 /\ k - 1 \notin Bad
  BY <1>2
<1>4. k - 1 \in Q /\ (k - 1) + 1 = k
  BY <1>3
<1>5. k \in Q
  BY <1>3, <1>4
<1> QED BY <1>2, <1>5

LEMMA NoPlaces ==
    ASSUME NEW S, NEW s \in Seq(S), DOMAIN s = {}
    PROVE  s = <<>>
<1>1. Len(s) \in Nat /\ DOMAIN s = 1 .. Len(s) /\ (s # <<>> => Len(s) # 0)
  BY LenProperties, EmptySeq
<1>2. Len(s) # 0 => 1 \in DOMAIN s
  BY <1>1
<1> QED BY <1>1, <1>2

\* The elements of a sequence that has grown by one.
LEMMA AppendSet ==
    ASSUME NEW S, NEW s \in Seq(S), NEW e \in S
    PROVE  ToSet(Append(s, e)) = ToSet(s) \cup {e}
<1>1. /\ Len(s) \in Nat /\ DOMAIN s = 1 .. Len(s)
      /\ Append(s, e) \in Seq(S) /\ Len(Append(s, e)) = Len(s) + 1
      /\ \A i \in 1 .. Len(s) : Append(s, e)[i] = s[i]
      /\ Append(s, e)[Len(s) + 1] = e
  BY LenProperties, AppendProperties
<1>2. DOMAIN Append(s, e) = 1 .. Len(s) + 1
  BY <1>1, LenProperties
<1>3. 1 .. Len(s) + 1 = (1 .. Len(s)) \cup {Len(s) + 1}
  BY <1>1
<1> QED BY <1>1, <1>2, <1>3 DEF ToSet

\* A function on 1 .. n is a sequence of length n.
LEMMA LengthOf ==
    ASSUME NEW n \in Nat, NEW f, f = [m \in 1 .. n |-> f[m]]
    PROVE  Len(f) = n
<1> DEFINE S == {f[m] : m \in 1 .. n}
<1>1. f \in [1 .. n -> S]
  OBVIOUS
<1>2. f \in Seq(S)
  BY <1>1, SeqDef
<1>3. Len(f) \in Nat /\ DOMAIN f = 1 .. Len(f)
  BY <1>2, LenProperties
<1> QED BY <1>1, <1>3

\* A part of a sequence.
LEMMA PartOf ==
    ASSUME NEW s, NEW x \in Nat, NEW k \in Nat
    PROVE  SubSeq(s, x + 1, x + k) = [i \in 1 .. k |-> s[x + i]]
<1> DEFINE m == x + 1
           n == x + k
           S == {s[i] : i \in m .. n}
           p == SubSeq(s, m, n)
<1>1. m \in Int /\ n \in Int /\ n - m + 1 = k /\ (m <= n <=> k # 0)
  OBVIOUS
<1>2. \A i \in m .. n : s[i] \in S
  OBVIOUS
<1>3. \A i \in 1 .. k : m + i - 1 = x + i
  OBVIOUS
<1> HIDE DEF m, n, p, S
<1>4. /\ p \in Seq(S) /\ Len(p) = (IF m <= n THEN n - m + 1 ELSE 0)
      /\ \A i \in 1 .. n - m + 1 : p[i] = s[m + i - 1]
  BY <1>1, <1>2, SubSeqProperties DEF p
<1>5. p \in Seq(S) /\ Len(p) = k
  BY <1>1, <1>4
<1>6. p \in [1 .. k -> S]
  BY <1>5, LenProperties
<1>7. \A i \in 1 .. k : p[i] = s[x + i]
  BY <1>1, <1>3, <1>4
<1>8. p = [i \in 1 .. k |-> s[x + i]]
  BY <1>6, <1>7
<1> QED BY <1>8 DEF p, m, n

-----------------------------------------------------------------------------
(* FlattenSeq                                                                *)

\* The recursive function in the definition of FlattenSeq exists.
LEMMA FlattenDef ==
    ASSUME NEW seqs, Len(seqs) \in Nat \ {0}
    PROVE  \E f : /\ f = [i \in 1 .. Len(seqs) |-> IF i = 1 THEN seqs[i] ELSE f[i - 1] \o seqs[i]]
                  /\ FlattenSeq(seqs) = f[Len(seqs)]
<1> DEFINE N == Len(seqs)
           Step(f, n) == f = [i \in 1 .. n |-> IF i = 1 THEN seqs[i] ELSE f[i - 1] \o seqs[i]]
           flatten[i \in 1 .. N] == IF i = 1 THEN seqs[i] ELSE flatten[i - 1] \o seqs[i]
           Good == {n \in Nat : \E f : Step(f, n)}
<1>1. N \in Good
  <2>1. 0 \in Good
    <3>1. Step(<<>>, 0)
      OBVIOUS
    <3> QED BY <3>1
  <2>2. ASSUME NEW m \in Good PROVE m + 1 \in Good
    <3> DEFINE n == m + 1
    <3>1. PICK g : Step(g, m)
      OBVIOUS
    <3>2. m \in Nat /\ n \in Nat
      OBVIOUS
    <3> DEFINE f == [i \in 1 .. n |-> IF i < n THEN g[i] ELSE IF i = 1 THEN seqs[i] ELSE g[i - 1] \o seqs[i]]
    <3>3. \A i \in 1 .. n : f[i] = IF i = 1 THEN seqs[i] ELSE f[i - 1] \o seqs[i]
      <4>1. ASSUME NEW i \in 1 .. n, i < n PROVE f[i] = IF i = 1 THEN seqs[i] ELSE f[i - 1] \o seqs[i]
        <5>1. f[i] = g[i] /\ i \in 1 .. m /\ (i # 1 => f[i - 1] = g[i - 1])
          BY <3>2, <4>1
        <5> HIDE DEF f
        <5> QED BY <3>1, <5>1
      <4>2. f[n] = IF n = 1 THEN seqs[n] ELSE f[n - 1] \o seqs[n]
        BY <3>2
      <4>3. \A i \in 1 .. n : i < n \/ i = n
        BY <3>2
      <4> HIDE DEF f
      <4> QED BY <4>1, <4>2, <4>3
    <3>4. f = [i \in 1 .. n |-> f[i]]
      OBVIOUS
    <3>5. Step(f, n)
      <4> HIDE DEF f
      <4> QED BY <3>3, <3>4
    <3>6. \E h : Step(h, n)
      <4> HIDE DEF f, n
      <4> QED BY <3>5
    <3> HIDE DEF f, n
    <3>7. n \in Good
      BY <3>2, <3>6
    <3> QED BY <3>7 DEF n
  <2> HIDE DEF Good
  <2>3. 0 .. N \subseteq Good
    BY <2>1, <2>2, UpTo
  <2> QED BY <2>3
<1>2. PICK f : Step(f, N)
  BY <1>1
<1>3. Step(flatten, N)
  BY <1>2
<1>4. FlattenSeq(seqs) = flatten[N]
  BY DEF FlattenSeq
<1> QED BY <1>3, <1>4

\* off[k] is the length of the first k of seqs together.
Offsets(seqs, off) ==
    /\ off \in [0 .. Len(seqs) -> Nat] /\ off[0] = 0
    /\ \A k \in 1 .. Len(seqs) : off[k] = off[k - 1] + Len(seqs[k])

\* The elements of the k-th sequence follow in r those of the sequences before
\* it, and there are no others.
Joined(seqs, off, n, r) ==
    /\ Len(r) = off[n]
    /\ \A k \in 1 .. n : \A p \in 1 .. Len(seqs[k]) :
          off[k - 1] + p \in 1 .. off[n] /\ r[off[k - 1] + p] = seqs[k][p]
    /\ \A i \in 1 .. off[n] :
          \E k \in 1 .. n : \E p \in 1 .. Len(seqs[k]) : i = off[k - 1] + p

LEMMA LengthsOf ==
    ASSUME NEW S, NEW seqs \in Seq(Seq(S))
    PROVE  Len(seqs) \in Nat /\ \A k \in 1 .. Len(seqs) : seqs[k] \in Seq(S) /\ Len(seqs[k]) \in Nat
<1>1. Len(seqs) \in Nat /\ \A k \in 1 .. Len(seqs) : seqs[k] \in Seq(S)
  BY LenProperties
<1>2. \A s \in Seq(S) : Len(s) \in Nat
  BY LenProperties
<1> QED BY <1>1, <1>2

\* Offsets grow.
LEMMA OffsetsGrow ==
    ASSUME NEW S, NEW seqs \in Seq(Seq(S)), NEW off, Offsets(seqs, off)
    PROVE  \A j, k \in 0 .. Len(seqs) : j <= k => off[j] <= off[k]
<1> DEFINE N == Len(seqs)
<1>1. /\ N \in Nat /\ \A k \in 1 .. N : Len(seqs[k]) \in Nat
      /\ \A k \in 0 .. N : off[k] \in Nat
      /\ \A k \in 1 .. N : off[k] = off[k - 1] + Len(seqs[k])
  BY LengthsOf DEF Offsets
<1>2. SUFFICES ASSUME NEW j \in 0 .. N
               PROVE  \A k \in 0 .. N : j <= k => off[j] <= off[k]
  OBVIOUS
<1> HIDE DEF N
<1> DEFINE Good == {k \in 0 .. N : j <= k => off[j] <= off[k]}
<1>3. 0 \in Good
  BY <1>1
<1>4. ASSUME NEW k \in Good, k \in 0 .. N - 1 PROVE k + 1 \in Good
  <2>1. k \in Nat /\ k + 1 \in 1 .. N /\ (k + 1) - 1 = k
    BY <1>1, <1>4
  <2>2. off[k + 1] = off[k] + Len(seqs[k + 1]) /\ off[k + 1] \in Nat /\ off[k] \in Nat /\ off[j] \in Nat
        /\ Len(seqs[k + 1]) \in Nat
    BY <1>1, <2>1
  <2>3. CASE j <= k
    BY <2>1, <2>2, <2>3
  <2>4. CASE j = k + 1
    BY <2>1, <2>2, <2>4
  <2>5. CASE j > k + 1
    BY <2>1, <2>5
  <2> QED BY <2>1, <2>3, <2>4, <2>5
<1> HIDE DEF Good
<1>5. 0 .. N \subseteq Good
  BY <1>1, <1>3, <1>4, UpTo
<1> QED BY <1>5 DEF Good

\* One sequence more.
LEMMA JoinOne ==
    ASSUME NEW S, NEW seqs \in Seq(Seq(S)), NEW off, Offsets(seqs, off),
           NEW n \in 1 .. Len(seqs), NEW r \in Seq(S), Joined(seqs, off, n - 1, r)
    PROVE  Joined(seqs, off, n, r \o seqs[n])
<1> DEFINE a == off[n - 1]
           l == Len(seqs[n])
           b == off[n]
           x == r \o seqs[n]
<1>1. /\ Len(seqs) \in Nat /\ seqs[n] \in Seq(S) /\ l \in Nat /\ a \in Nat /\ b = a + l
      /\ n \in Nat /\ n - 1 \in Nat
  <2>1. Len(seqs) \in Nat /\ seqs[n] \in Seq(S) /\ Len(seqs[n]) \in Nat
    BY LengthsOf
  <2>2. n \in Nat /\ n - 1 \in 0 .. Len(seqs)
    BY <2>1
  <2>3. a \in Nat /\ b = a + l
    BY <2>2 DEF Offsets
  <2> HIDE DEF a, b
  <2> QED BY <2>1, <2>2, <2>3
<1>2. Len(r) = a
  BY DEF Joined
<1>3. Len(x) = b /\ \A i \in 1 .. b : x[i] = IF i <= a THEN r[i] ELSE seqs[n][i - a]
  <2>1. /\ Len(x) = Len(r) + l
        /\ \A i \in 1 .. Len(r) + l : x[i] = IF i <= Len(r) THEN r[i] ELSE seqs[n][i - Len(r)]
    BY <1>1, ConcatProperties
  <2> HIDE DEF x, a, b, l
  <2> QED BY <1>1, <1>2, <2>1
<1>4. \A k \in 1 .. n : k \in 1 .. n - 1 \/ k = n
  BY <1>1
<1> HIDE DEF x, a, b, l
<1>5. ASSUME NEW k \in 1 .. n, NEW p \in 1 .. Len(seqs[k])
      PROVE  off[k - 1] + p \in 1 .. b /\ x[off[k - 1] + p] = seqs[k][p]
  <2>1. CASE k \in 1 .. n - 1
    <3>1. off[k - 1] + p \in 1 .. a /\ r[off[k - 1] + p] = seqs[k][p]
      BY <2>1 DEF Joined, a
    <3> QED BY <1>1, <1>3, <3>1, SMTT(20)
  <2>2. CASE k = n
    <3>1. off[k - 1] = a /\ p \in 1 .. l
      BY <2>2 DEF a, l
    <3>2. a + p \in 1 .. b /\ ~(a + p <= a) /\ (a + p) - a = p
      BY <1>1, <3>1
    <3>3. x[a + p] = seqs[n][(a + p) - a]
      BY <1>3, <3>2
    <3> QED BY <2>2, <3>1, <3>2, <3>3
  <2> QED BY <1>4, <2>1, <2>2
<1>6. ASSUME NEW i \in 1 .. b
      PROVE  \E k \in 1 .. n : \E p \in 1 .. Len(seqs[k]) : i = off[k - 1] + p
  <2>1. CASE i <= a
    <3>1. i \in 1 .. off[n - 1]
      BY <1>1, <2>1 DEF a
    <3>2. \E k \in 1 .. n - 1 : \E p \in 1 .. Len(seqs[k]) : i = off[k - 1] + p
      BY <3>1 DEF Joined
    <3>3. 1 .. n - 1 \subseteq 1 .. n
      BY <1>1
    <3> QED BY <3>2, <3>3
  <2>2. CASE i > a
    <3>1. i - a \in 1 .. Len(seqs[n]) /\ i = off[n - 1] + (i - a) /\ n \in 1 .. n
      <4>1. i - a \in 1 .. l /\ i = a + (i - a) /\ n \in 1 .. n
        BY <1>1, <2>2
      <4> QED BY <4>1 DEF a, l
    <3> QED BY <3>1
  <2> QED BY <1>1, <2>1, <2>2
<1> QED BY <1>3, <1>5, <1>6 DEF Joined, x, b

\* The sequences joined one after the other.
LEMMA FlattenSteps ==
    ASSUME NEW S, NEW seqs \in Seq(Seq(S))
    PROVE  \E g : /\ g[0] = <<>> /\ g[Len(seqs)] = FlattenSeq(seqs)
                  /\ \A k \in 1 .. Len(seqs) : g[k] = g[k - 1] \o seqs[k]
<1> DEFINE N == Len(seqs)
<1>0. N \in Nat /\ \A k \in 1 .. N : seqs[k] \in Seq(S) /\ Len(seqs[k]) \in Nat
  BY LengthsOf
<1>1. CASE N = 0
  <2>1. seqs = <<>> /\ FlattenSeq(seqs) = <<>>
    BY <1>1, EmptySeq DEF FlattenSeq
  <2> DEFINE h == [k \in 0 .. N |-> <<>>]
  <2>2. h[0] = <<>> /\ h[N] = FlattenSeq(seqs)
    BY <1>1, <2>1
  <2>3. \A k \in 1 .. N : h[k] = h[k - 1] \o seqs[k]
    BY <1>1
  <2> HIDE DEF h
  <2> QED BY <2>2, <2>3
<1>2. CASE N # 0
  <2>1. PICK f : /\ f = [i \in 1 .. N |-> IF i = 1 THEN seqs[i] ELSE f[i - 1] \o seqs[i]]
                 /\ FlattenSeq(seqs) = f[N]
    BY <1>0, <1>2, FlattenDef
  <2> DEFINE h == [k \in 0 .. N |-> IF k = 0 THEN <<>> ELSE f[k]]
  <2>2. h[0] = <<>> /\ h[N] = FlattenSeq(seqs)
    BY <1>0, <1>2, <2>1
  <2>3. ASSUME NEW k \in 1 .. N PROVE h[k] = h[k - 1] \o seqs[k]
    <3>1. h[k] = IF k = 1 THEN seqs[k] ELSE f[k - 1] \o seqs[k]
      <4>1. h[k] = f[k] /\ k \in 1 .. N
        BY <1>0
      <4> HIDE DEF h
      <4> QED BY <2>1, <4>1
    <3>2. <<>> \o seqs[k] = seqs[k]
      BY <1>0, ConcatEmptySeq
    <3>3. h[k - 1] = IF k = 1 THEN <<>> ELSE f[k - 1]
      BY <1>0
    <3> HIDE DEF h
    <3> QED BY <3>1, <3>2, <3>3
  <2> HIDE DEF h
  <2> QED BY <2>2, <2>3
<1> QED BY <1>1, <1>2

\* What FlattenSeq gives.
LEMMA FlattenIs ==
    ASSUME NEW S, NEW seqs \in Seq(Seq(S))
    PROVE  \E off : /\ Offsets(seqs, off) /\ FlattenSeq(seqs) \in Seq(S)
                    /\ Joined(seqs, off, Len(seqs), FlattenSeq(seqs))
<1> DEFINE N == Len(seqs)
<1>0. N \in Nat /\ \A k \in 1 .. N : seqs[k] \in Seq(S) /\ Len(seqs[k]) \in Nat
  BY LengthsOf
\* The sequences joined so far.
<1>1. PICK g : /\ g[0] = <<>> /\ g[N] = FlattenSeq(seqs)
               /\ \A k \in 1 .. N : g[k] = g[k - 1] \o seqs[k]
  BY FlattenSteps
<1> HIDE DEF N
<1>2. \A k \in 0 .. N : g[k] \in Seq(S)
  <2> DEFINE Good == {k \in 0 .. N : g[k] \in Seq(S)}
  <2>1. 0 \in Good
    <3>1. <<>> \in Seq(S)
      BY EmptySeq
    <3>2. 0 \in 0 .. N
      BY <1>0
    <3> QED BY <1>1, <3>1, <3>2
  <2>2. ASSUME NEW k \in Good, k \in 0 .. N - 1 PROVE k + 1 \in Good
    <3>1. k + 1 \in 1 .. N /\ (k + 1) - 1 = k /\ g[k] \in Seq(S)
      BY <1>0, <2>2
    <3>2. g[k + 1] = g[k] \o seqs[k + 1] /\ seqs[k + 1] \in Seq(S)
      BY <1>0, <1>1, <3>1
    <3>3. g[k + 1] \in Seq(S)
      BY <3>1, <3>2, ConcatProperties
    <3> QED BY <1>0, <3>1, <3>3
  <2> HIDE DEF Good
  <2>3. 0 .. N \subseteq Good
    BY <1>0, <2>1, <2>2, UpTo
  <2> QED BY <2>3 DEF Good
<1> DEFINE off == [k \in 0 .. N |-> Len(g[k])]
<1>3. Offsets(seqs, off)
  <2>1. off \in [0 .. N -> Nat]
    BY <1>2, LenProperties
  <2>2. off[0] = 0
    <3>1. Len(<<>>) = 0
      BY EmptySeq
    <3>2. off[0] = Len(g[0])
      BY <1>0
    <3> QED BY <1>1, <3>1, <3>2
  <2>3. ASSUME NEW k \in 1 .. N PROVE off[k] = off[k - 1] + Len(seqs[k])
    <3>1. k - 1 \in 0 .. N /\ k \in 0 .. N
      BY <1>0
    <3>2. Len(g[k - 1] \o seqs[k]) = Len(g[k - 1]) + Len(seqs[k])
      BY <1>0, <1>2, <3>1, ConcatProperties
    <3> QED BY <1>1, <3>1, <3>2
  <2> HIDE DEF off
  <2> QED BY <2>1, <2>2, <2>3 DEF Offsets, N
<1> HIDE DEF off
<1>4. \A k \in 0 .. N : Joined(seqs, off, k, g[k])
  <2> DEFINE Good == {k \in 0 .. N : Joined(seqs, off, k, g[k])}
  <2>1. 0 \in Good
    <3>1. Len(g[0]) = 0 /\ off[0] = 0
      BY <1>1, <1>3, EmptySeq DEF Offsets
    <3> QED BY <1>0, <3>1 DEF Joined
  <2>2. ASSUME NEW k \in Good, k \in 0 .. N - 1 PROVE k + 1 \in Good
    <3>1. k + 1 \in 1 .. N /\ (k + 1) - 1 = k /\ g[k] \in Seq(S) /\ k + 1 \in 0 .. N
      BY <1>0, <1>2, <2>2
    <3>2. Joined(seqs, off, k, g[k])
      OBVIOUS
    <3>3. Joined(seqs, off, k + 1, g[k] \o seqs[k + 1])
      BY <1>3, <3>1, <3>2, JoinOne DEF N
    <3> QED BY <1>1, <3>1, <3>3
  <2> HIDE DEF Good
  <2>3. 0 .. N \subseteq Good
    BY <1>0, <2>1, <2>2, UpTo
  <2> QED BY <2>3 DEF Good
<1>5. FlattenSeq(seqs) \in Seq(S) /\ Joined(seqs, off, N, FlattenSeq(seqs))
  BY <1>0, <1>1, <1>2, <1>4
<1> QED BY <1>3, <1>5 DEF N

-----------------------------------------------------------------------------
(* Rank and Chosen                                                           *)

\* The ranks in a finite set of numbers are 1, 2 and so on to its size, one
\* for each number, in the order of the numbers.
LEMMA RankIs ==
    ASSUME NEW ns \in SUBSET Int, IsFiniteSet(ns)
    PROVE  /\ Cardinality(ns) \in Nat
           /\ \A n \in ns : Rank(ns, n) \in 1 .. Cardinality(ns)
           /\ \A m, n \in ns : m < n => Rank(ns, m) < Rank(ns, n)
           /\ \A i \in 1 .. Cardinality(ns) : \E n \in ns : Rank(ns, n) = i
<1> DEFINE Below(n) == {m \in ns : m <= n}
           k == Cardinality(ns)
<1>1. k \in Nat
  BY FS_CardinalityType
<1>0. \A n \in ns : n \in Int
  OBVIOUS
<1>2. ASSUME NEW n \in ns
      PROVE  /\ IsFiniteSet(Below(n)) /\ Rank(ns, n) = Cardinality(Below(n))
             /\ Rank(ns, n) \in 1 .. k
  <2>1. IsFiniteSet(Below(n)) /\ Cardinality(Below(n)) <= k
    BY FS_Subset
  <2>2. Cardinality(Below(n)) \in Nat
    BY <2>1, FS_CardinalityType
  <2>3. Cardinality(Below(n)) # 0
    <3>1. n \in Below(n)
      OBVIOUS
    <3> HIDE DEF Below
    <3> QED BY <2>1, <3>1, FS_EmptySet
  <2> QED BY <1>1, <2>1, <2>2, <2>3 DEF Rank
<1>3. ASSUME NEW m \in ns, NEW n \in ns, m < n PROVE Rank(ns, m) < Rank(ns, n)
  <2>1. Below(m) \in SUBSET Below(n) /\ n \in Below(n) /\ n \notin Below(m)
    <3>1. \A x \in ns : x <= m => x <= n
      BY <1>0, <1>3
    <3>2. n <= n /\ ~(n <= m)
      BY <1>0, <1>3
    <3> QED BY <3>1, <3>2
  <2>2. IsFiniteSet(Below(n)) /\ Rank(ns, n) = Cardinality(Below(n)) /\ Rank(ns, m) = Cardinality(Below(m))
    BY <1>2
  <2> HIDE DEF Below
  <2>3. Cardinality(Below(m)) <= Cardinality(Below(n)) /\ Cardinality(Below(m)) # Cardinality(Below(n))
    BY <2>1, <2>2, FS_Subset
  <2>4. Rank(ns, m) \in Nat /\ Rank(ns, n) \in Nat
    BY <1>1, <1>2
  <2> QED BY <2>2, <2>3, <2>4
<1>4. \A i \in 1 .. k : \E n \in ns : Rank(ns, n) = i
  <2> DEFINE f == [n \in ns |-> Rank(ns, n)]
  <2>1. f \in [ns -> 1 .. k]
    BY <1>2
  <2>2. \A m, n \in ns : m # n => f[m] # f[n]
    <3>1. \A n \in ns : Rank(ns, n) \in Int
      <4>1. \A n \in ns : Rank(ns, n) \in 1 .. k
        BY <1>2
      <4> HIDE DEF k
      <4> QED BY <1>1, <4>1
    <3>2. ASSUME NEW m \in ns, NEW n \in ns, m # n PROVE Rank(ns, m) # Rank(ns, n)
      <4>1. m < n \/ n < m
        BY <1>0, <3>2
      <4> QED BY <1>3, <3>1, <4>1
    <3> QED BY <3>2
  <2>3. f \in Injection(ns, 1 .. k)
    BY <2>1, <2>2 DEF Injection, IsInjective
  <2>4. IsFiniteSet(1 .. k) /\ Cardinality(1 .. k) = k
    <3>1. IsFiniteSet(1 .. k) /\ Cardinality(1 .. k) = IF 1 > k THEN 0 ELSE k - 1 + 1
      BY <1>1, FS_Interval
    <3> QED BY <1>1, <3>1
  <2>5. f \in Surjection(ns, 1 .. k)
    <3> HIDE DEF f
    <3> QED BY <2>3, <2>4, FS_Injection
  <2> QED BY <2>5 DEF Surjection
<1> QED BY <1>1, <1>2, <1>3, <1>4

\* What Chosen gives: the elements at the places, in their order.
LEMMA OrderedIs ==
    ASSUME NEW ns \in SUBSET Int, IsFiniteSet(ns)
    PROVE  /\ Cardinality(ns) \in Nat
           /\ Ordered(ns) \in [1 .. Cardinality(ns) -> ns]
           /\ \A i, j \in 1 .. Cardinality(ns) : i < j => Ordered(ns)[i] < Ordered(ns)[j]
           /\ \A n \in ns : \E i \in 1 .. Cardinality(ns) : Ordered(ns)[i] = n
           /\ \A i \in 1 .. Cardinality(ns) : Rank(ns, Ordered(ns)[i]) = i
<1> DEFINE k == Cardinality(ns)
           at == [i \in 1 .. k |-> CHOOSE n \in ns : Rank(ns, n) = i]
<1>1. /\ k \in Nat
      /\ \A n \in ns : Rank(ns, n) \in 1 .. k
      /\ \A m, n \in ns : m < n => Rank(ns, m) < Rank(ns, n)
      /\ \A i \in 1 .. k : \E n \in ns : Rank(ns, n) = i
  BY RankIs
<1> HIDE DEF k
<1>2. \A i \in 1 .. k : at[i] \in ns /\ Rank(ns, at[i]) = i
  BY <1>1
<1>3. at \in [1 .. k -> ns]
  BY <1>2
<1>4. Ordered(ns) = at
  BY DEF Ordered, k
<1> HIDE DEF at
<1>5. \A i, j \in 1 .. k : i < j => at[i] < at[j]
  <2> SUFFICES ASSUME NEW i \in 1 .. k, NEW j \in 1 .. k, i < j, ~(at[i] < at[j]) PROVE FALSE
    OBVIOUS
  <2>1. at[i] \in Int /\ at[j] \in Int
    BY <1>2
  <2>2. at[j] < at[i] \/ at[j] = at[i]
    BY <2>1
  <2>3. Rank(ns, at[j]) < Rank(ns, at[i]) \/ at[j] = at[i]
    BY <1>1, <1>2, <2>2
  <2> QED BY <1>2, <2>3
<1>6. \A n \in ns : \E i \in 1 .. k : at[i] = n
  <2> SUFFICES ASSUME NEW n \in ns PROVE \E i \in 1 .. k : at[i] = n
    OBVIOUS
  <2>1. Rank(ns, n) \in 1 .. k /\ at[Rank(ns, n)] \in ns /\ Rank(ns, at[Rank(ns, n)]) = Rank(ns, n)
    BY <1>1, <1>2
  <2> DEFINE m == at[Rank(ns, n)]
  <2>2. m \in Int /\ n \in Int /\ Rank(ns, m) = Rank(ns, n) /\ m \in ns /\ Rank(ns, n) \in Int
    <3>1. m \in ns /\ Rank(ns, m) = Rank(ns, n)
      BY <2>1
    <3>2. Rank(ns, n) \in Int
      BY <1>1, <2>1
    <3> HIDE DEF m
    <3> QED BY <3>1, <3>2
  <2>4. ~(m < n) /\ ~(n < m)
    <3> HIDE DEF m
    <3> QED BY <1>1, <2>2
  <2>3. m = n
    <3> HIDE DEF m
    <3> QED BY <2>2, <2>4
  <2> QED BY <2>1, <2>3
<1> QED BY <1>1, <1>2, <1>3, <1>4, <1>5, <1>6 DEF k

LEMMA ChosenSet ==
    ASSUME NEW s, NEW ns \in SUBSET Int, IsFiniteSet(ns)
    PROVE  /\ ToSet(Chosen(s, ns)) = {s[n] : n \in ns}
           /\ Len(Chosen(s, ns)) = Cardinality(ns)
<1> DEFINE at == Ordered(ns)
           k  == Cardinality(ns)
<1>1. /\ at \in [1 .. k -> ns] /\ k \in Nat
      /\ \A n \in ns : \E i \in 1 .. k : at[i] = n
  BY OrderedIs
<1>2. Chosen(s, ns) = [i \in 1 .. k |-> s[at[i]]]
  BY DEF Chosen
<1> HIDE DEF at, k
<1>3. ToSet(Chosen(s, ns)) = {s[at[i]] : i \in 1 .. k}
  BY <1>1, <1>2 DEF ToSet
<1>4. {s[at[i]] : i \in 1 .. k} = {s[n] : n \in ns}
  BY <1>1
<1>5. Chosen(s, ns) = [i \in 1 .. k |-> Chosen(s, ns)[i]]
  BY <1>2
<1>6. Len(Chosen(s, ns)) = k
  BY <1>1, <1>5, LengthOf
<1> QED BY <1>3, <1>4, <1>6 DEF k

LEMMA CountUpTo ==
    ASSUME NEW n \in Nat
    PROVE  IsFiniteSet(1 .. n) /\ Cardinality(1 .. n) = n
<1>1. IsFiniteSet(1 .. n) /\ Cardinality(1 .. n) = IF 1 > n THEN 0 ELSE n - 1 + 1
  BY FS_Interval
<1> QED BY <1>1

\* Where all are chosen nothing changes.
LEMMA ChosenAll ==
    ASSUME NEW S, NEW s \in Seq(S)
    PROVE  Chosen(s, DOMAIN s) = s
<1> DEFINE N == Len(s)
<1>1. N \in Nat /\ DOMAIN s = 1 .. N /\ s = [i \in 1 .. N |-> s[i]]
  BY LenProperties
<1> HIDE DEF N
<1>2. IsFiniteSet(1 .. N) /\ Cardinality(1 .. N) = N
  BY <1>1, CountUpTo
<1>3. \A i \in 1 .. N : Rank(1 .. N, i) = i
  <2> SUFFICES ASSUME NEW i \in 1 .. N PROVE Rank(1 .. N, i) = i
    OBVIOUS
  <2>1. {m \in 1 .. N : m <= i} = 1 .. i
    BY <1>1
  <2>2. Cardinality(1 .. i) = i
    BY <1>1, CountUpTo
  <2> QED BY <2>1, <2>2 DEF Rank
<1>4. /\ Ordered(1 .. N) \in [1 .. N -> 1 .. N]
      /\ \A i \in 1 .. N : Rank(1 .. N, Ordered(1 .. N)[i]) = i
  <2> DEFINE ns == 1 .. N
  <2>1. ns \in SUBSET Int /\ IsFiniteSet(ns) /\ Cardinality(ns) = N
    BY <1>1, <1>2
  <2> HIDE DEF ns
  <2>2. /\ Ordered(ns) \in [1 .. Cardinality(ns) -> ns]
        /\ \A i \in 1 .. Cardinality(ns) : Rank(ns, Ordered(ns)[i]) = i
    BY <2>1, OrderedIs
  <2> QED BY <2>1, <2>2 DEF ns
<1>5. \A i \in 1 .. N : Ordered(1 .. N)[i] = i
  BY <1>3, <1>4
<1>6. Chosen(s, 1 .. N) = [i \in 1 .. N |-> s[Ordered(1 .. N)[i]]]
  BY <1>2 DEF Chosen
<1> QED BY <1>1, <1>5, <1>6

LEMMA MapIsSeq ==
    ASSUME NEW S, NEW n \in Nat, NEW f \in [1 .. n -> S]
    PROVE  f \in Seq(S) /\ Len(f) = n /\ DOMAIN f = 1 .. n
<1>1. f \in Seq(S)
  OBVIOUS
<1>2. Len(f) = n
  BY LengthOf
<1> QED BY <1>1, <1>2

\* The first element of a sequence and the others.
LEMMA FirstAndRest ==
    ASSUME NEW S, NEW s \in Seq(S), s # <<>>
    PROVE  /\ Len(s) \in Nat \ {0} /\ DOMAIN s = 1 .. Len(s)
           /\ Head(s) = s[1] /\ Head(s) \in S /\ Tail(s) \in Seq(S)
           /\ DOMAIN Tail(s) = 1 .. Len(s) - 1
           /\ \A n \in 1 .. Len(s) - 1 : n + 1 \in DOMAIN s /\ Tail(s)[n] = s[n + 1]
           /\ ToSet(s) = {Head(s)} \cup ToSet(Tail(s))
<1>1. /\ Len(s) \in Nat \ {0} /\ DOMAIN s = 1 .. Len(s)
      /\ Head(s) \in S /\ Tail(s) \in Seq(S) /\ Len(Tail(s)) = Len(s) - 1
      /\ \A n \in 1 .. Len(Tail(s)) : Tail(s)[n] = s[n + 1]
  BY LenProperties, EmptySeq, HeadTailProperties
<1>2. Head(s) = s[1]
  OBVIOUS
<1>3. DOMAIN Tail(s) = 1 .. Len(s) - 1
  <2>1. DOMAIN Tail(s) = 1 .. Len(Tail(s))
    BY <1>1, LenProperties
  <2> QED BY <1>1, <2>1
<1>4. \A n \in 1 .. Len(s) - 1 : n + 1 \in DOMAIN s /\ Tail(s)[n] = s[n + 1]
  BY <1>1
<1> DEFINE N    == Len(s)
           rest == Tail(s)
<1>5. \A n \in 1 .. N : n = 1 \/ (n - 1 \in 1 .. N - 1 /\ rest[n - 1] = s[n])
  <2> SUFFICES ASSUME NEW n \in 1 .. N, n # 1
               PROVE  n - 1 \in 1 .. N - 1 /\ rest[n - 1] = s[n]
    OBVIOUS
  <2>1. n - 1 \in 1 .. N - 1 /\ n - 1 + 1 = n
    BY <1>1
  <2> QED BY <1>4, <2>1
<1> HIDE DEF N, rest
<1>6. ToSet(s) = {s[1]} \cup ToSet(rest)
  <2>1. ToSet(s) = {s[n] : n \in 1 .. N} /\ ToSet(rest) = {rest[n] : n \in 1 .. N - 1}
    BY <1>1, <1>3 DEF ToSet, N, rest
  <2>2. 1 \in 1 .. N
    BY <1>1 DEF N
  <2>3. \A n \in 1 .. N - 1 : n + 1 \in 1 .. N /\ rest[n] = s[n + 1]
    BY <1>1, <1>4 DEF N, rest
  <2> QED BY <1>5, <2>1, <2>2, <2>3
<1> QED BY <1>1, <1>2, <1>3, <1>4, <1>6 DEF rest

\* Sequences of one element each, joined.
LEMMA FlattenOnes ==
    ASSUME NEW S, NEW seqs \in Seq(Seq(S)), \A k \in 1 .. Len(seqs) : Len(seqs[k]) = 1
    PROVE  FlattenSeq(seqs) \in Seq(S) /\ FlattenSeq(seqs) = [k \in 1 .. Len(seqs) |-> seqs[k][1]]
<1> DEFINE N == Len(seqs)
           r == FlattenSeq(seqs)
<1>1. N \in Nat
  BY LengthsOf
<1>2. PICK off : Offsets(seqs, off) /\ r \in Seq(S) /\ Joined(seqs, off, N, r)
  BY FlattenIs
<1>3. \A k \in 0 .. N : off[k] = k
  <2> DEFINE Good == {k \in 0 .. N : off[k] = k}
  <2>1. 0 \in Good
    BY <1>1, <1>2 DEF Offsets
  <2>2. \A k \in Good : k \in 0 .. N - 1 => k + 1 \in Good
    <3> SUFFICES ASSUME NEW k \in 0 .. N - 1, off[k] = k PROVE k + 1 \in 0 .. N /\ off[k + 1] = k + 1
      OBVIOUS
    <3>1. k + 1 \in 1 .. N /\ k + 1 - 1 = k /\ k + 1 \in 0 .. N
      BY <1>1
    <3>2. off[k + 1] = off[k] + Len(seqs[k + 1])
      BY <1>2, <3>1 DEF Offsets
    <3> QED BY <3>1, <3>2
  <2> HIDE DEF Good
  <2>3. 0 .. N \subseteq Good
    BY <1>1, <2>1, <2>2, UpTo
  <2> QED BY <2>3 DEF Good
<1>4. DOMAIN r = 1 .. N
  <2>1. Len(r) = N
    <3>1. Len(r) = off[N] /\ N \in 0 .. N
      BY <1>1, <1>2 DEF Joined
    <3> QED BY <1>3, <3>1
  <2> QED BY <1>2, <2>1, LenProperties
<1>5. \A k \in 1 .. N : r[k] = seqs[k][1]
  <2> SUFFICES ASSUME NEW k \in 1 .. N PROVE r[k] = seqs[k][1]
    OBVIOUS
  <2>1. k - 1 \in 0 .. N /\ k - 1 + 1 = k
    BY <1>1
  <2>2. Len(seqs[k]) = 1 /\ 1 \in 1 .. 1
    OBVIOUS
  <2>3. r[off[k - 1] + 1] = seqs[k][1]
    BY <1>2, <2>2 DEF Joined
  <2> QED BY <1>3, <2>1, <2>3
<1>6. r = [k \in 1 .. N |-> r[k]]
  BY <1>2, <1>4, LenProperties
<1> QED BY <1>2, <1>5, <1>6

\* A part of a sequence, from the first element on.
LEMMA PrefixIs ==
    ASSUME NEW S, NEW s \in Seq(S), NEW n \in 0 .. Len(s)
    PROVE  /\ SubSeq(s, 1, n) \in Seq(S) /\ Len(SubSeq(s, 1, n)) = n
           /\ \A i \in 1 .. n : SubSeq(s, 1, n)[i] = s[i]
<1>1. Len(s) \in Nat /\ s \in [1 .. Len(s) -> S] /\ n \in Nat
  BY LenProperties
<1>2. \A i \in 1 .. n : i \in 1 .. Len(s) /\ s[i] \in S
  BY <1>1
<1> DEFINE r == SubSeq(s, 1, n)
<1>3. /\ r \in Seq(S) /\ Len(r) = IF 1 <= n THEN n - 1 + 1 ELSE 0
      /\ \A i \in 1 .. n - 1 + 1 : r[i] = s[1 + i - 1]
  BY <1>1, <1>2, SubSeqProperties
<1> HIDE DEF r
<1>4. Len(r) = n /\ n - 1 + 1 = n /\ \A i \in 1 .. n : 1 + i - 1 = i
  BY <1>1, <1>3
<1>5. \A i \in 1 .. n : r[i] = s[i]
  BY <1>3, <1>4
<1> QED BY <1>3, <1>4, <1>5 DEF r

\* The length of the first sequences, joined.
LEMMA PrefixLength ==
    ASSUME NEW S, NEW seqs \in Seq(Seq(S)), NEW off, Offsets(seqs, off), NEW n \in 0 .. Len(seqs)
    PROVE  Len(FlattenSeq(SubSeq(seqs, 1, n))) = off[n]
<1> DEFINE part == SubSeq(seqs, 1, n)
<1>1. n \in Nat /\ Len(seqs) \in Nat /\ n <= Len(seqs)
  BY LengthsOf
<1>2. part \in Seq(Seq(S)) /\ Len(part) = n /\ \A i \in 1 .. n : part[i] = seqs[i]
  BY PrefixIs
<1> HIDE DEF part
<1>3. PICK o : Offsets(part, o) /\ Joined(part, o, n, FlattenSeq(part))
  BY <1>2, FlattenIs
<1> DEFINE Good == {k \in 0 .. n : o[k] = off[k]}
<1>4. 0 \in Good
  BY <1>1, <1>3 DEF Offsets
<1>5. \A k \in Good : k \in 0 .. n - 1 => k + 1 \in Good
  <2> SUFFICES ASSUME NEW k \in 0 .. n - 1, o[k] = off[k] PROVE k + 1 \in 0 .. n /\ o[k + 1] = off[k + 1]
    OBVIOUS
  <2>1. k + 1 \in 1 .. n /\ k + 1 - 1 = k /\ k + 1 \in 0 .. n /\ k + 1 \in 1 .. Len(seqs)
    BY <1>1
  <2>2. o[k + 1] = o[k] + Len(part[k + 1]) /\ off[k + 1] = off[k] + Len(seqs[k + 1])
    BY <1>2, <1>3, <2>1 DEF Offsets
  <2>3. part[k + 1] = seqs[k + 1]
    BY <1>2, <2>1
  <2> QED BY <2>1, <2>2, <2>3
<1> HIDE DEF Good
<1>6. 0 .. n \subseteq Good
  BY <1>1, <1>4, <1>5, UpTo
<1>7. o[n] = off[n]
  BY <1>1, <1>6 DEF Good
<1> QED BY <1>3, <1>7 DEF Joined, part

\* What two sequences have together.
LEMMA JoinSets ==
    ASSUME NEW S, NEW r \in Seq(S), NEW s \in Seq(S)
    PROVE  /\ r \o s \in Seq(S) /\ Len(r \o s) = Len(r) + Len(s)
           /\ ToSet(r \o s) = ToSet(r) \cup ToSet(s)
<1> DEFINE j == r \o s
<1>1. /\ Len(r) \in Nat /\ DOMAIN r = 1 .. Len(r)
      /\ Len(s) \in Nat /\ DOMAIN s = 1 .. Len(s)
  BY LenProperties
<1>2. /\ j \in Seq(S) /\ Len(j) = Len(r) + Len(s)
      /\ \A i \in 1 .. Len(r) + Len(s) : j[i] = IF i <= Len(r) THEN r[i] ELSE s[i - Len(r)]
  BY ConcatProperties
<1>3. DOMAIN j = 1 .. Len(r) + Len(s)
  BY <1>2, LenProperties
<1> HIDE DEF j
<1>4. \A i \in 1 .. Len(r) : i \in DOMAIN j /\ j[i] = r[i]
  BY <1>1, <1>2, <1>3
<1>5. \A i \in 1 .. Len(s) : Len(r) + i \in DOMAIN j /\ j[Len(r) + i] = s[i]
  <2> SUFFICES ASSUME NEW i \in 1 .. Len(s) PROVE Len(r) + i \in DOMAIN j /\ j[Len(r) + i] = s[i]
    OBVIOUS
  <2>1. Len(r) + i \in 1 .. Len(r) + Len(s) /\ ~(Len(r) + i <= Len(r)) /\ Len(r) + i - Len(r) = i
    BY <1>1
  <2> QED BY <1>2, <1>3, <2>1
<1>6. \A i \in DOMAIN j : (i \in 1 .. Len(r) /\ j[i] = r[i]) \/ (i - Len(r) \in 1 .. Len(s) /\ j[i] = s[i - Len(r)])
  BY <1>1, <1>2, <1>3
<1>7. ToSet(j) = ToSet(r) \cup ToSet(s)
  BY <1>1, <1>4, <1>5, <1>6 DEF ToSet
<1> QED BY <1>2, <1>7 DEF j

\* A sequence before others.
LEMMA FlattenMore ==
    ASSUME NEW S, NEW s \in Seq(S), NEW seqs \in Seq(Seq(S)), NEW all \in Seq(Seq(S)),
           Len(all) = Len(seqs) + 1, all[1] = s,
           \A k \in 1 .. Len(seqs) : all[k + 1] = seqs[k]
    PROVE  FlattenSeq(all) = s \o FlattenSeq(seqs)
<1> DEFINE N == Len(seqs)
<1>1. N \in Nat /\ \A k \in 1 .. N : seqs[k] \in Seq(S)
  BY LengthsOf
<1>2. PICK g : /\ g[0] = <<>> /\ g[N] = FlattenSeq(seqs)
               /\ \A k \in 1 .. N : g[k] = g[k - 1] \o seqs[k]
  BY ONLY FlattenSteps
<1>3. PICK h : /\ h[0] = <<>> /\ h[N + 1] = FlattenSeq(all)
               /\ \A k \in 1 .. N + 1 : h[k] = h[k - 1] \o all[k]
  <2>1. Len(all) = N + 1
    OBVIOUS
  <2>2. \E h : /\ h[0] = <<>> /\ h[Len(all)] = FlattenSeq(all)
               /\ \A k \in 1 .. Len(all) : h[k] = h[k - 1] \o all[k]
    BY ONLY FlattenSteps
  <2> QED BY <2>1, <2>2
<1> HIDE DEF N
<1> DEFINE Good == {k \in 0 .. N : g[k] \in Seq(S) /\ h[k + 1] = s \o g[k]}
<1>4. 0 \in Good
  <2>1. h[1] = h[0] \o all[1]
    <3>1. PICK n \in 1 .. N + 1 : n = 1
      BY <1>1
    <3>2. h[n] = h[n - 1] \o all[n]
      BY <1>3
    <3>3. n - 1 = 0
      BY <3>1
    <3> QED BY <3>1, <3>2, <3>3
  <2>2. <<>> \o s = s /\ s \o <<>> = s /\ <<>> \in Seq(S)
    BY ConcatEmptySeq, EmptySeq
  <2>3. 0 \in 0 .. N /\ 0 + 1 = 1
    BY <1>1
  <2> QED BY <1>2, <1>3, <2>1, <2>2, <2>3
<1>5. ASSUME NEW k \in Good, k \in 0 .. N - 1 PROVE k + 1 \in Good
  <2>1. PICK n : n = k + 1
    OBVIOUS
  <2>2. n \in 1 .. N /\ n \in 0 .. N /\ n - 1 = k /\ n + 1 \in 1 .. N + 1 /\ n + 1 - 1 = n
    BY <1>1, <1>5, <2>1
  <2>3. g[n] = g[k] \o seqs[n] /\ g[k] \in Seq(S) /\ seqs[n] \in Seq(S) /\ h[n] = s \o g[k]
    BY <1>1, <1>2, <2>1, <2>2
  <2>4. h[n + 1] = h[n] \o seqs[n]
    <3>1. PICK m \in 1 .. N + 1 : m = n + 1
      BY <2>2
    <3>2. h[m] = h[m - 1] \o all[m]
      BY <1>3
    <3>3. m - 1 = n
      BY <2>2, <3>1
    <3>4. all[n + 1] = seqs[n]
      BY <2>2 DEF N
    <3> QED BY <3>1, <3>2, <3>3, <3>4
  <2>5. g[k] \o seqs[n] \in Seq(S)
    BY <2>3, ConcatProperties
  <2>6. (s \o g[k]) \o seqs[n] = s \o (g[k] \o seqs[n])
    <3> HIDE DEF Good
    <3>1. PICK u \in Seq(S), v \in Seq(S) : u = g[k] /\ v = seqs[n]
      BY <2>3
    <3>2. (s \o u) \o v = s \o (u \o v)
      BY ONLY ConcatAssociative, SMTT(30)
    <3> QED BY <3>1, <3>2
  <2> QED BY <2>1, <2>2, <2>3, <2>4, <2>5, <2>6
<1> HIDE DEF Good
<1>6. 0 .. N \subseteq Good
  BY <1>1, <1>4, <1>5, UpTo
<1>7. N \in Good
  BY <1>1, <1>6
<1> QED BY <1>2, <1>3, <1>7 DEF Good

\* One element before a sequence.
LEMMA FrontIs ==
    ASSUME NEW S, NEW q \in S, NEW P \in Seq(S)
    PROVE  /\ <<q>> \o P \in Seq(S) /\ Len(P) \in Nat /\ Len(<<q>> \o P) = Len(P) + 1
           /\ (<<q>> \o P)[1] = q /\ \A n \in 1 .. Len(P) : (<<q>> \o P)[n + 1] = P[n]
<1> DEFINE one == <<q>>
           A == one \o P
<1>1. one \in Seq(S) /\ Len(one) = 1 /\ one[1] = q
  OBVIOUS
<1>2. Len(P) \in Nat
  BY LenProperties
<1> HIDE DEF one
<1>3. /\ A \in Seq(S) /\ Len(A) = 1 + Len(P)
      /\ \A n \in 1 .. 1 + Len(P) : A[n] = IF n <= 1 THEN one[n] ELSE P[n - 1]
  <2>1. /\ one \o P \in Seq(S) /\ Len(one \o P) = Len(one) + Len(P)
        /\ \A n \in 1 .. Len(one) + Len(P) :
              (one \o P)[n] = IF n <= Len(one) THEN one[n] ELSE P[n - Len(one)]
    BY <1>1, ConcatProperties
  <2> QED BY <1>1, <2>1
<1> HIDE DEF A
<1>4. A[1] = q
  BY <1>1, <1>2, <1>3
<1>5. ASSUME NEW n \in 1 .. Len(P) PROVE A[n + 1] = P[n]
  <2>1. PICK m \in 1 .. 1 + Len(P) : m = n + 1
    BY <1>2
  <2>2. A[m] = P[m - 1] /\ m - 1 = n
    BY <1>2, <1>3, <2>1
  <2> QED BY <2>1, <2>2
<1> QED BY <1>2, <1>3, <1>4, <1>5 DEF A, one

\* A sequence that is not empty is its first element before the others.
LEMMA FirstBefore ==
    ASSUME NEW S, NEW T \in Seq(S), T # <<>>
    PROVE  \E q \in S, U \in Seq(S) : T = <<q>> \o U
<1>1. Head(T) \in S /\ Tail(T) \in Seq(S)
  BY FirstAndRest
<1>2. /\ Len(T) \in Nat \ {0} /\ Head(T) = T[1]
      /\ DOMAIN Tail(T) = 1 .. Len(T) - 1
      /\ \A n \in 1 .. Len(T) - 1 : Tail(T)[n] = T[n + 1]
  BY FirstAndRest
<1>3. PICK h, u : h = Head(T) /\ u = Tail(T)
  OBVIOUS
<1>4. Len(u) = Len(T) - 1
  BY <1>1, <1>2, <1>3, LenProperties
<1>5. /\ <<h>> \o u \in Seq(S) /\ Len(<<h>> \o u) = Len(u) + 1
      /\ (<<h>> \o u)[1] = h /\ \A n \in 1 .. Len(u) : (<<h>> \o u)[n + 1] = u[n]
  BY <1>1, <1>3, FrontIs
<1>6. Len(<<h>> \o u) = Len(T)
  BY <1>2, <1>4, <1>5
<1>7. ASSUME NEW n \in 1 .. Len(T) PROVE (<<h>> \o u)[n] = T[n]
  <2>1. CASE n = 1
    BY <1>2, <1>3, <1>5, <2>1
  <2>2. CASE n # 1
    <3>1. PICK m \in 1 .. Len(u) : n = m + 1
      <4>1. n - 1 \in 1 .. Len(u) /\ n = (n - 1) + 1
        BY <1>2, <1>4, <2>2
      <4> QED BY <4>1
    <3>2. (<<h>> \o u)[m + 1] = u[m]
      BY <1>5
    <3>3. u[m] = T[m + 1]
      BY <1>2, <1>3, <1>4
    <3> QED BY <3>1, <3>2, <3>3
  <2> QED BY <2>1, <2>2
<1>8. <<h>> \o u = T
  BY <1>5, <1>6, <1>7, SeqEqual
<1> QED BY <1>1, <1>3, <1>8

\* Sequences that are the same after the same element.
LEMMA SameRest ==
    ASSUME NEW S, NEW q \in S, NEW a \in Seq(S), NEW b \in Seq(S), <<q>> \o a = <<q>> \o b
    PROVE  a = b
<1>1. /\ Len(a) \in Nat /\ Len(<<q>> \o a) = Len(a) + 1
      /\ \A n \in 1 .. Len(a) : (<<q>> \o a)[n + 1] = a[n]
  BY FrontIs
<1>2. /\ Len(b) \in Nat /\ Len(<<q>> \o b) = Len(b) + 1
      /\ \A n \in 1 .. Len(b) : (<<q>> \o b)[n + 1] = b[n]
  BY FrontIs
<1>3. Len(a) = Len(b) /\ \A n \in 1 .. Len(a) : a[n] = b[n]
  BY <1>1, <1>2
<1> QED BY <1>3, SeqEqual
=============================================================================
