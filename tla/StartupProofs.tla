----------------------------- MODULE StartupProofs -----------------------------
(***************************************************************************)
(* Theorems about Startup, for every configuration, every set of tool      *)
(* files and every finite set of handlers.                                 *)
(***************************************************************************)
EXTENDS Startup, SequenceFacts

\* What validateCatalog makes of a connection it accepts it accepts again, and
\* leaves it as it is under the same name: loading a directory validates every
\* connection twice (catalog.go 50-61).
THEOREM SecondPass ==
    ASSUME NEW c \in ConnectionConfigs, Acceptable(c)
    PROVE  Acceptable(Normal(c)) /\ Normal(Normal(c)) = Normal(c) /\ Key(Normal(c)) = Key(c)
<1> USE DEF ConnectionConfigs, Urls
<1> DEFINE driver == ResolvedDriver([c EXCEPT !.driver = NormalDriver(@)])
           dsn == IF c.dsn = NoDsn THEN Derived(c) ELSE c.dsn
           d == Normal(c)
<1>1. /\ d.name = Trim(c.name) /\ d.driver = driver /\ d.dsn = dsn /\ d.url = NoUrl
      /\ d = [c EXCEPT !.name = Trim(c.name), !.driver = driver, !.dsn = dsn, !.url = NoUrl]
  BY DEF Normal
<1>2. driver \in {"mysql", "postgresql", "sqlite"} /\ c.name.word # 0
  BY DEF Acceptable, ResolvedDriver, NormalDriver, Inferred
<1>3. dsn # NoDsn
  BY DEF NoDsn, Derived
<1>4. Trim(Trim(c.name)) = Trim(c.name) /\ Trim(c.name).word = c.name.word
  BY DEF Trim, Spellings
<1> HIDE DEF driver, dsn, d
<1>5. NormalDriver(driver) = driver
  BY <1>2 DEF NormalDriver
<1>6. ResolvedDriver([d EXCEPT !.driver = NormalDriver(@)]) = driver
  BY <1>1, <1>3, <1>5 DEF ResolvedDriver
<1>7. Acceptable(d)
  BY <1>1, <1>2, <1>3, <1>4, <1>6 DEF Acceptable
<1>8. Normal(d) = d
  BY <1>1, <1>3, <1>4, <1>6 DEF Normal
<1>9. Key(d) = Key(c)
  BY <1>1, <1>4 DEF Key
<1> QED BY <1>7, <1>8, <1>9 DEF d

-----------------------------------------------------------------------------
(* The order validateCatalog makes                                           *)
\* Connections numbered from 1 to N, with names that have an order.
Listing(cs, N) ==
    /\ N \in Nat /\ DOMAIN cs = 1 .. N
    /\ \A n \in 1 .. N : Key(cs[n]).word \in Int

\* Every connection gets a position of its own.
LEMMA PositionsAre ==
    ASSUME NEW cs, NEW N, Listing(cs, N)
    PROVE  /\ \A n \in 1 .. N : Position(cs, n) \in 1 .. N
           /\ \A m, n \in 1 .. N : Position(cs, m) = Position(cs, n) => m = n
           /\ \A i \in 1 .. N : \E n \in 1 .. N : Position(cs, n) = i
<1> DEFINE Below(n) == {m \in 1 .. N : Before(cs, m, n)}
<1>1. N \in Nat /\ IsFiniteSet(1 .. N) /\ Cardinality(1 .. N) = N
  BY CountUpTo DEF Listing
<1>2. \A n \in 1 .. N : Position(cs, n) = Cardinality(Below(n))
  BY DEF Listing, Position
<1>3. /\ \A n \in 1 .. N : Before(cs, n, n)
      /\ \A m, n \in 1 .. N : Before(cs, m, n) \/ Before(cs, n, m)
      /\ \A m, n \in 1 .. N : Before(cs, m, n) /\ Before(cs, n, m) => m = n
      /\ \A l, m, n \in 1 .. N : Before(cs, l, m) /\ Before(cs, m, n) => Before(cs, l, n)
  BY <1>1 DEF Before, Listing
<1>4. ASSUME NEW n \in 1 .. N PROVE IsFiniteSet(Below(n)) /\ Cardinality(Below(n)) \in 1 .. N
  <2>1. Below(n) \in SUBSET (1 .. N)
    OBVIOUS
  <2>2. n \in Below(n)
    BY <1>3
  <2> HIDE DEF Below
  <2>3. IsFiniteSet(Below(n)) /\ Cardinality(Below(n)) <= N
    BY <1>1, <2>1, FS_Subset
  <2>4. Cardinality(Below(n)) \in Nat /\ Cardinality(Below(n)) # 0
    BY <2>2, <2>3, FS_CardinalityType, FS_EmptySet
  <2> QED BY <1>1, <2>3, <2>4
<1>5. ASSUME NEW m \in 1 .. N, NEW n \in 1 .. N, m # n, Before(cs, m, n)
      PROVE  Cardinality(Below(m)) # Cardinality(Below(n))
  <2>1. Below(m) \in SUBSET Below(n)
    BY <1>3, <1>5
  <2>2. n \in Below(n) /\ n \notin Below(m)
    BY <1>3, <1>5
  <2> HIDE DEF Below
  <2> QED BY <1>4, <2>1, <2>2, FS_Subset
<1>6. \A m, n \in 1 .. N : Position(cs, m) = Position(cs, n) => m = n
  <2> HIDE DEF Below
  <2> QED BY <1>2, <1>3, <1>5
<1>7. \A n \in 1 .. N : Position(cs, n) \in 1 .. N
  BY <1>2, <1>4
<1>8. ASSUME NEW i \in 1 .. N PROVE \E n \in 1 .. N : Position(cs, n) = i
  <2> DEFINE f == [n \in 1 .. N |-> Position(cs, n)]
  <2>1. f \in Injection(1 .. N, 1 .. N)
    BY <1>6, <1>7 DEF Injection, IsInjective
  <2> HIDE DEF f
  <2>2. f \in Surjection(1 .. N, 1 .. N)
    BY <1>1, <2>1, FS_Injection
  <2>3. \E n \in 1 .. N : f[n] = i
    BY <2>2 DEF Surjection
  <2> QED BY <2>3 DEF f
<1> QED BY <1>6, <1>7, <1>8

\* What validateCatalog returns are the connections, each made normal.
LEMMA ValidatedIs ==
    ASSUME NEW cs, NEW N, Listing(cs, N)
    PROVE  /\ DOMAIN Validated(cs) = 1 .. N
           /\ \A n \in 1 .. N : Validated(cs)[Position(cs, n)] = Normal(cs[n])
           /\ \A i \in 1 .. N : \E n \in 1 .. N : Position(cs, n) = i /\ Validated(cs)[i] = Normal(cs[n])
<1> DEFINE at(i) == CHOOSE n \in 1 .. N : Position(cs, n) = i
<1>1. DOMAIN cs = 1 .. N
  BY DEF Listing
<1>2. Validated(cs) = [i \in 1 .. N |-> Normal(cs[at(i)])]
  BY <1>1 DEF Validated
<1>3. \A i \in 1 .. N : at(i) \in 1 .. N /\ Position(cs, at(i)) = i
  BY PositionsAre
<1>4. \A n \in 1 .. N : Position(cs, n) \in 1 .. N /\ at(Position(cs, n)) = n
  BY PositionsAre
<1> HIDE DEF at
<1> QED BY <1>2, <1>3, <1>4

Distinct(cs) == \A m, n \in DOMAIN cs : Key(cs[m]) = Key(cs[n]) => m = n

\* Connections as they are written, and as they are after a validation.
Accepted == {c \in ConnectionConfigs : Acceptable(c)}
Passed == {Normal(c) : c \in Accepted}

\* The spelling that a name is compared in.
LEMMA Folded ==
    ASSUME NEW n \in Spellings
    PROVE  /\ Lower(Trim(n)) = [word |-> n.word, upper |-> FALSE, space |-> FALSE]
           /\ Lower(Trim(n)) \in Spellings
<1>1. Trim(n) \in Spellings /\ Trim(n).word = n.word /\ Trim(n).space = FALSE
  BY DEF Trim, Spellings
<1> DEFINE t == Trim(n)
<1>2. Lower(t) = [t EXCEPT !.upper = FALSE] /\ Lower(t) \in Spellings
  BY <1>1 DEF Lower, Spellings
<1>3. Lower(t).word = n.word /\ Lower(t).upper = FALSE /\ Lower(t).space = FALSE
  BY <1>1, <1>2 DEF Spellings
<1> HIDE DEF t
<1>4. Lower(t) = [word |-> Lower(t).word, upper |-> Lower(t).upper, space |-> Lower(t).space]
  BY <1>2 DEF Spellings
<1> QED BY <1>2, <1>3, <1>4 DEF t

LEMMA Passing ==
    /\ \A c \in Accepted \cup Passed :
          /\ Acceptable(c) /\ Key(Normal(c)) = Key(c) /\ Normal(c) \in Passed
          /\ Key(c) \in Spellings /\ Key(c) = [word |-> c.name.word, upper |-> FALSE, space |-> FALSE]
    /\ \A d \in Passed : Normal(d) = d
<1>1. ASSUME NEW c \in Accepted
      PROVE  Acceptable(c) /\ Acceptable(Normal(c)) /\ Normal(Normal(c)) = Normal(c) /\ Key(Normal(c)) = Key(c)
  <2>1. c \in ConnectionConfigs /\ Acceptable(c)
    BY DEF Accepted
  <2> QED BY <2>1, SecondPass
<1>2. ASSUME NEW c \in Accepted
      PROVE  /\ c.name \in Spellings /\ Key(c) \in Spellings
             /\ Key(c) = [word |-> c.name.word, upper |-> FALSE, space |-> FALSE]
             /\ Normal(c).name.word = c.name.word
  <2>1. c.name \in Spellings
    BY DEF Accepted, ConnectionConfigs
  <2>2. Trim(c.name) \in Spellings /\ Trim(c.name).word = c.name.word
    BY <2>1 DEF Trim, Spellings
  <2>3. Normal(c).name = Trim(c.name)
    <3>1. c \in ConnectionConfigs
      BY DEF Accepted
    <3> QED BY <3>1 DEF Normal, ConnectionConfigs
  <2> QED BY <2>1, <2>2, <2>3, Folded DEF Key
<1>3. \A d \in Passed : \E c \in Accepted : d = Normal(c)
  BY DEF Passed
<1>4. \A d \in Passed : Normal(d) = d /\ Acceptable(d)
  BY <1>1, <1>3
<1>5. ASSUME NEW d \in Passed
      PROVE  /\ Key(Normal(d)) = Key(d) /\ Key(d) \in Spellings
             /\ Key(d) = [word |-> d.name.word, upper |-> FALSE, space |-> FALSE]
  <2>1. PICK c \in Accepted : d = Normal(c)
    BY <1>3
  <2> QED BY <1>1, <1>2, <1>4, <2>1
<1>6. \A c \in Accepted : Normal(c) \in Passed
  BY DEF Passed
<1> QED BY <1>1, <1>2, <1>4, <1>5, <1>6

\* Names that differ have keys with words that differ.
LEMMA KeysAreWords ==
    ASSUME NEW c \in Accepted \cup Passed, NEW d \in Accepted \cup Passed
    PROVE  /\ Key(c) = Key(d) <=> Key(c).word = Key(d).word
           /\ Key(c).word \in Int
<1>1. /\ Key(c) \in Spellings /\ Key(c) = [word |-> c.name.word, upper |-> FALSE, space |-> FALSE]
      /\ Key(d) = [word |-> d.name.word, upper |-> FALSE, space |-> FALSE]
  BY Passing
<1>2. Key(c).word = c.name.word /\ Key(d).word = d.name.word
  BY <1>1
<1>3. Key(c).word \in Int
  BY <1>1 DEF Spellings
<1> QED BY <1>1, <1>2, <1>3

\* Where names differ, the position of a connection is the rank of its word.
LEMMA PositionIsRank ==
    ASSUME NEW cs, NEW N, Listing(cs, N), \A n \in 1 .. N : cs[n] \in Accepted \cup Passed,
           Distinct(cs), NEW n \in 1 .. N
    PROVE  Position(cs, n) = Rank({Key(cs[m]).word : m \in 1 .. N}, Key(cs[n]).word)
<1> DEFINE w(m) == Key(cs[m]).word
           W == {w(m) : m \in 1 .. N}
           S == {m \in 1 .. N : Before(cs, m, n)}
           T == {v \in W : v <= w(n)}
           f == [m \in S |-> w(m)]
<1>1. N \in Nat /\ DOMAIN cs = 1 .. N /\ \A m \in 1 .. N : w(m) \in Int
  BY DEF Listing
<1>2. \A l, m \in 1 .. N : w(l) = w(m) => l = m
  BY <1>1, KeysAreWords DEF Distinct
<1>3. \A m \in 1 .. N : Before(cs, m, n) <=> w(m) <= w(n)
  BY <1>1, <1>2 DEF Before
<1> HIDE DEF w
<1>4. f \in Bijection(S, T)
  BY <1>2, <1>3 DEF Bijection, Injection, Surjection, IsInjective
<1>5. IsFiniteSet(S)
  <2>1. S \in SUBSET (1 .. N)
    OBVIOUS
  <2> HIDE DEF S
  <2> QED BY <1>1, <2>1, CountUpTo, FS_Subset
<1>6. Cardinality(S) = Cardinality(T)
  <2> HIDE DEF S, T, f
  <2>1. ExistsBijection(S, T)
    BY <1>4 DEF ExistsBijection
  <2> QED BY <1>5, <2>1, FS_Bijection
<1>7. Position(cs, n) = Cardinality(S)
  BY <1>1 DEF Position
<1>8. Rank(W, w(n)) = Cardinality(T)
  BY DEF Rank
<1> QED BY <1>6, <1>7, <1>8 DEF w

\* Two lists of as many connections that say the same: if the names of one
\* differ then those of the other do, and validated they are one list.
LEMMA SameConnections ==
    ASSUME NEW cs, NEW ds, NEW N, Listing(cs, N), Listing(ds, N),
           \A n \in 1 .. N : cs[n] \in Accepted \cup Passed /\ ds[n] \in Accepted \cup Passed,
           {Normal(cs[n]) : n \in 1 .. N} = {Normal(ds[n]) : n \in 1 .. N},
           Distinct(cs)
    PROVE  Distinct(ds) /\ Validated(cs) = Validated(ds)
<1> DEFINE K == {Key(cs[n]) : n \in 1 .. N}
<1>1. N \in Nat /\ DOMAIN cs = 1 .. N /\ DOMAIN ds = 1 .. N /\ IsFiniteSet(1 .. N) /\ Cardinality(1 .. N) = N
  BY CountUpTo DEF Listing
<1>2. /\ \A n \in 1 .. N : \E m \in 1 .. N : Normal(cs[m]) = Normal(ds[n]) /\ Key(cs[m]) = Key(ds[n])
      /\ \A n \in 1 .. N : \E m \in 1 .. N : Normal(ds[m]) = Normal(cs[n]) /\ Key(ds[m]) = Key(cs[n])
  <2>1. \A m, n \in 1 .. N : Normal(cs[m]) = Normal(ds[n]) => Key(cs[m]) = Key(ds[n])
    BY Passing
  <2>2. \A n \in 1 .. N : \E m \in 1 .. N : Normal(cs[m]) = Normal(ds[n])
    OBVIOUS
  <2>3. \A n \in 1 .. N : \E m \in 1 .. N : Normal(ds[m]) = Normal(cs[n])
    OBVIOUS
  <2> QED BY <2>1, <2>2, <2>3
<1>3. K = {Key(ds[n]) : n \in 1 .. N}
  BY <1>2
<1>4. Distinct(ds)
  <2> DEFINE f == [n \in 1 .. N |-> Key(cs[n])]
             g == [n \in 1 .. N |-> Key(ds[n])]
  <2>1. f \in Bijection(1 .. N, K)
    BY <1>1 DEF Bijection, Injection, Surjection, IsInjective, Distinct
  <2>2. g \in Surjection(1 .. N, K)
    BY <1>3 DEF Surjection
  <2>3. \A m, n \in 1 .. N : g \in Injection(1 .. N, K) /\ Key(ds[m]) = Key(ds[n]) => m = n
    BY DEF Injection, IsInjective
  <2> HIDE DEF f, g, K
  <2>4. Cardinality(K) = N
    BY <1>1, <2>1, FS_Bijection DEF ExistsBijection
  <2>5. g \in Injection(1 .. N, K)
    BY <1>1, <2>2, <2>4, FS_SurjSameCardinalityImpliesInj
  <2> QED BY <1>1, <2>3, <2>5 DEF Distinct
<1>5. \A m, n \in 1 .. N : Key(cs[m]) = Key(ds[n]) => Position(cs, m) = Position(ds, n)
  <2>1. {Key(cs[n]).word : n \in 1 .. N} = {Key(ds[n]).word : n \in 1 .. N}
    BY <1>2
  <2>2. \A m \in 1 .. N : Position(cs, m) = Rank({Key(cs[n]).word : n \in 1 .. N}, Key(cs[m]).word)
    BY PositionIsRank
  <2>3. \A m \in 1 .. N : Position(ds, m) = Rank({Key(ds[n]).word : n \in 1 .. N}, Key(ds[m]).word)
    BY <1>4, PositionIsRank
  <2> QED BY <2>1, <2>2, <2>3
<1>6. ASSUME NEW i \in 1 .. N PROVE Validated(cs)[i] = Validated(ds)[i]
  <2>1. PICK n \in 1 .. N : Position(ds, n) = i /\ Validated(ds)[i] = Normal(ds[n])
    BY ValidatedIs
  <2>2. PICK m \in 1 .. N : Normal(cs[m]) = Normal(ds[n]) /\ Key(cs[m]) = Key(ds[n])
    BY <1>2
  <2>3. Position(cs, m) = i
    BY <1>5, <2>1, <2>2
  <2>4. Validated(cs)[i] = Normal(cs[m])
    BY <2>3, ValidatedIs
  <2> QED BY <2>1, <2>2, <2>4
<1>7. /\ Validated(cs) = [i \in 1 .. N |-> Validated(cs)[i]]
      /\ Validated(ds) = [i \in 1 .. N |-> Validated(ds)[i]]
  BY <1>1 DEF Validated
<1> QED BY <1>4, <1>6, <1>7

-----------------------------------------------------------------------------
(* What is written in the files                                              *)
PlaceIs ==
    /\ place \in [kind : {"none", "file", "directory"}, entries : Seq(Entries)]
    /\ place.kind = "file" => Len(place.entries) = 1 /\ place.entries[1].kind = "config"

Lists == [n \in DOMAIN place.entries |-> Listed(place.entries[n])]

\* How many connections the first n entries have.
Upto(n) == Len(FlattenSeq(SubSeq(Lists, 1, n)))

LEMMA WrittenIs ==
    ASSUME PlaceIs
    PROVE  /\ Len(place.entries) \in Nat /\ DOMAIN place.entries = 1 .. Len(place.entries)
           /\ Written \in Seq(ConnectionConfigs)
           /\ Len(Written) \in Nat /\ DOMAIN Written = 1 .. Len(Written)
           /\ Upto(0) = 0 /\ Upto(Len(place.entries)) = Len(Written)
           /\ \A n \in 0 .. Len(place.entries) : Upto(n) \in Nat /\ Upto(n) <= Len(Written)
           /\ \A n \in 1 .. Len(place.entries) :
                 /\ place.entries[n] \in Entries
                 /\ Listed(place.entries[n]) \in Seq(ConnectionConfigs)
                 /\ Len(Listed(place.entries[n])) \in Nat
                 /\ Upto(n) = Upto(n - 1) + Len(Listed(place.entries[n]))
                 /\ \A p \in 1 .. Len(Listed(place.entries[n])) :
                       Written[Upto(n - 1) + p] = Listed(place.entries[n])[p]
<1> DEFINE es == place.entries
           E == Len(es)
           C == ConnectionConfigs
<1>1. es \in Seq(Entries)
  BY DEF PlaceIs
<1> HIDE DEF es
<1>2. E \in Nat /\ DOMAIN es = 1 .. E /\ \A n \in 1 .. E : es[n] \in Entries
  BY <1>1, LenProperties, ElementOfSeq
<1>3. \A e \in Entries : Listed(e) \in Seq(C)
  <2>1. <<>> \in Seq(C)
    BY EmptySeq
  <2>2. \A e \in Entries : e.file.connections \in Seq(C)
    BY DEF Entries
  <2> QED BY <2>1, <2>2 DEF Listed
<1>4. Lists \in Seq(Seq(C)) /\ Len(Lists) = E /\ \A n \in 1 .. E : Lists[n] = Listed(es[n])
  <2>1. Lists = [n \in 1 .. E |-> Listed(es[n])]
    BY <1>2 DEF Lists, es
  <2>2. Lists \in [1 .. E -> Seq(C)]
    BY <1>2, <1>3, <2>1
  <2> HIDE DEF E, C
  <2>3. Lists \in Seq(Seq(C)) /\ Len(Lists) = E
    BY <1>2, <2>2, MapIsSeq
  <2> QED BY <2>1, <2>3
<1> HIDE DEF E, C
<1>5. PICK off : Offsets(Lists, off) /\ FlattenSeq(Lists) \in Seq(C) /\ Joined(Lists, off, E, FlattenSeq(Lists))
  BY <1>4, FlattenIs
<1>6. Written = FlattenSeq(Lists)
  BY DEF Written, Lists
<1>7. Len(Written) \in Nat /\ DOMAIN Written = 1 .. Len(Written)
  BY <1>5, <1>6, LenProperties
<1>8. \A n \in 0 .. E : Upto(n) = off[n]
  BY <1>4, <1>5, PrefixLength DEF Upto
<1>9. /\ 0 \in 0 .. E /\ E \in 0 .. E /\ \A n \in 1 .. E : n \in 0 .. E /\ n - 1 \in 0 .. E
      /\ \A n \in 0 .. E : n <= E
  BY <1>2
<1>10. /\ off[0] = 0 /\ \A n \in 0 .. E : off[n] \in Nat
       /\ \A n \in 1 .. E : off[n] = off[n - 1] + Len(Listed(es[n]))
  BY <1>4, <1>5 DEF Offsets
<1>11. off[E] = Len(Written)
  BY <1>5, <1>6 DEF Joined
<1>12. \A n \in 0 .. E : off[n] <= off[E]
  BY <1>4, <1>5, <1>9, OffsetsGrow
<1>13. \A n \in 1 .. E : \A p \in 1 .. Len(Listed(es[n])) : Written[off[n - 1] + p] = Listed(es[n])[p]
  BY <1>4, <1>5, <1>6 DEF Joined
<1>14. \A n \in 1 .. E : Listed(es[n]) \in Seq(C) /\ Len(Listed(es[n])) \in Nat
  BY <1>2, <1>3, LenProperties
<1>15. /\ Upto(0) = 0 /\ Upto(E) = Len(Written)
       /\ \A n \in 0 .. E : Upto(n) \in Nat /\ Upto(n) <= Len(Written)
  BY <1>8, <1>9, <1>10, <1>11, <1>12
<1>16. \A n \in 1 .. E :
          /\ Upto(n) = Upto(n - 1) + Len(Listed(es[n]))
          /\ \A p \in 1 .. Len(Listed(es[n])) : Written[Upto(n - 1) + p] = Listed(es[n])[p]
  BY <1>8, <1>9, <1>10, <1>13
<1> QED BY <1>2, <1>5, <1>6, <1>7, <1>14, <1>15, <1>16 DEF E, C, es

\* The connections of one file, or of all of them.
LEMMA ListLoaded ==
    ASSUME NEW cs, cs \in Seq(ConnectionConfigs), \A n \in DOMAIN cs : Acceptable(cs[n])
    PROVE  /\ Len(cs) \in Nat /\ DOMAIN cs = 1 .. Len(cs) /\ Listing(cs, Len(cs))
           /\ \A n \in 1 .. Len(cs) : cs[n] \in Accepted
           /\ Validated(cs) \in Seq(Passed) /\ Len(Validated(cs)) = Len(cs)
           /\ ToSet(Validated(cs)) = {Normal(cs[n]) : n \in 1 .. Len(cs)}
<1> DEFINE N == Len(cs)
           v == Validated(cs)
<1>1. N \in Nat /\ DOMAIN cs = 1 .. N /\ \A n \in 1 .. N : cs[n] \in Accepted
  BY LenProperties, ElementOfSeq DEF Accepted
<1> HIDE DEF N
<1>2. Listing(cs, N)
  BY <1>1, KeysAreWords DEF Listing
<1>3. /\ DOMAIN v = 1 .. N
      /\ \A n \in 1 .. N : Position(cs, n) \in 1 .. N /\ v[Position(cs, n)] = Normal(cs[n])
      /\ \A i \in 1 .. N : \E n \in 1 .. N : v[i] = Normal(cs[n])
  BY <1>2, PositionsAre, ValidatedIs
<1>4. \A n \in 1 .. N : Normal(cs[n]) \in Passed
  BY <1>1, Passing
<1>5. v \in [1 .. N -> Passed]
  <2>1. v = [i \in 1 .. N |-> v[i]]
    BY <1>1 DEF Validated
  <2> HIDE DEF v
  <2> QED BY <1>3, <1>4, <2>1
<1> HIDE DEF v
<1>6. v \in Seq(Passed) /\ Len(v) = N
  BY <1>1, <1>5, MapIsSeq
<1>7. ToSet(v) = {Normal(cs[n]) : n \in 1 .. N}
  BY <1>3 DEF ToSet
<1> QED BY <1>1, <1>2, <1>6, <1>7 DEF N, v

LEMMA SoundIsAcceptable ==
    \A c \in ConnectionConfigs : Sound(c) \/ Overlooked(c) <=> Acceptable(c)
<1> SUFFICES ASSUME NEW c \in ConnectionConfigs PROVE Sound(c) \/ Overlooked(c) <=> Acceptable(c)
  OBVIOUS
<1> DEFINE i == Inferred(c.url)
           d == NormalDriver(c.driver)
           driver == ResolvedDriver([c EXCEPT !.driver = NormalDriver(@)])
<1>1. i \in Native \cup {""} /\ d \in Native \cup {""} /\ "" \notin Native
  BY DEF Inferred, NormalDriver, Native
<1>2. driver = IF c.url = NoUrl THEN (IF c.dsn = NoDsn THEN "" ELSE d)
               ELSE IF d \in {"", i} THEN i ELSE ""
  BY DEF ResolvedDriver, ConnectionConfigs
<1>3. c.url # NoUrl /\ i \in Native => Target(c) = i
  BY DEF Target
<1>4. Acceptable(c) <=> /\ c.name.word # 0 /\ driver # ""
                        /\ (c.url = NoUrl) # (c.dsn = NoDsn)
                        /\ c.url # NoUrl => UrlAccepted(driver, c)
  BY DEF Acceptable
<1> HIDE DEF i, d, driver
<1>5. Sound(c) \/ Overlooked(c) <=>
                   /\ c.name.word # 0
                   /\ \/ c.url = NoUrl /\ c.dsn # NoDsn /\ d \in Native
                      \/ /\ c.url # NoUrl /\ c.dsn = NoDsn
                         /\ i \in Native /\ d \in {"", i}
                         /\ UrlAccepted(Target(c), c)
  BY <1>1 DEF Sound, Overlooked, i, d
<1>6. CASE c.url = NoUrl
  BY <1>1, <1>2, <1>4, <1>5, <1>6
<1>7. CASE c.url # NoUrl /\ i \in Native /\ d \in {"", i}
  <2>1. driver = i /\ Target(c) = i /\ driver # ""
    BY <1>1, <1>2, <1>3, <1>7
  <2> QED BY <1>4, <1>5, <1>7, <2>1
<1>8. CASE c.url # NoUrl /\ ~(i \in Native /\ d \in {"", i})
  BY <1>1, <1>2, <1>4, <1>5, <1>8
<1> QED BY <1>6, <1>7, <1>8

-----------------------------------------------------------------------------
(* The catalog                                                               *)
\* The entries up to n are good.
FilesGood(n) ==
    \A m \in 1 .. n : place.entries[m].kind = "config" => FileValid(place.entries[m].file)

\* What the loop of loadCatalogDir has made of the entries it is done with.
Loading ==
    /\ entry \in 0 .. Len(place.entries) /\ FilesGood(entry)
    /\ loaded \in Seq(Passed) /\ Len(loaded) = Upto(entry)
    /\ ToSet(loaded) = {Normal(Written[m]) : m \in 1 .. Upto(entry)}
    /\ \A m \in 1 .. Upto(entry) : Acceptable(Written[m])

Loaded ==
    /\ place.kind # "none" /\ FilesGood(Len(place.entries))
    /\ Valid(Written) /\ loaded = Validated(Written)

Clash == \E m, n \in DOMAIN Written : m # n /\ Key(Written[m]) = Key(Written[n])

CatalogInv ==
    /\ PlaceIs
    /\ step \in {"stat", "entries", "service", "loaded", "fatal"}
    /\ step = "stat" => entry = 0 /\ loaded = <<>>
    /\ step = "entries" => place.kind = "directory" /\ Loading
    /\ step \in {"service", "loaded"} => Loaded
    /\ step = "loaded" =>
          connections = [key \in {Lower(loaded[n].name) : n \in DOMAIN loaded} |->
                            loaded[Max({n \in DOMAIN loaded : Lower(loaded[n].name) = key})]]
    /\ step = "fatal" =>
          /\ place.kind = "directory" /\ entry = Len(place.entries) => Written = <<>> \/ Clash
          /\ ~SoundPlace \/ vanished = entry + 1

\* In a sound place the names differ.
LEMMA NoClash ==
    ASSUME SoundPlace
    PROVE  place.kind # "none" /\ Written # <<>> /\ ~Clash
BY DEF SoundPlace, Clash, IsInjective

LEMMA PlaceKept ==
    ASSUME PlaceIs, [Next]_vars
    PROVE  /\ place' = place /\ (Written' = Written) /\ (PlaceIs' <=> PlaceIs)
           /\ (SoundPlace' <=> SoundPlace) /\ (Clash' <=> Clash)
           /\ \A n : (Upto(n)' = Upto(n)) /\ (FilesGood(n)' <=> FilesGood(n))
<1>1. place' = place
  <2>1. CASE Stat
    <3>1. place.kind \in {"none", "file", "directory"}
      BY DEF PlaceIs
    <3> QED BY <2>1, <3>1 DEF Stat, CatalogFails
  <2>2. CASE NextEntry \/ EntryGone \/ Aggregate \/ NewService
    BY <2>2 DEF NextEntry, EntryGone, Aggregate, NewService, CatalogFails
  <2>3. CASE UNCHANGED catalogVars
    BY <2>3 DEF catalogVars
  <2> QED BY <2>1, <2>2, <2>3 DEF Next, LoadCatalog, LoadTools, Over, CatalogNext, vars
<1>2. Written' = Written
  BY <1>1 DEF Written
<1> QED BY <1>1, <1>2 DEF PlaceIs, SoundPlace, Clash, Upto, Lists, FilesGood

\* The one file of a place that is a file.
LEMMA OneFile ==
    ASSUME PlaceIs, place.kind = "file"
    PROVE  /\ place.entries[1] \in Entries /\ place.entries[1].kind = "config"
           /\ Len(place.entries) = 1
           /\ place.entries[1].file.connections \in Seq(ConnectionConfigs)
           /\ Written = place.entries[1].file.connections
<1> DEFINE e == place.entries[1]
           cs == e.file.connections
<1>1. e.kind = "config" /\ Len(place.entries) = 1 /\ Listed(e) = cs
  BY DEF PlaceIs, Listed
<1>2. 1 \in 1 .. 1 /\ 1 - 1 = 0
  OBVIOUS
<1>3. /\ e \in Entries /\ cs \in Seq(ConnectionConfigs) /\ Len(cs) \in Nat
      /\ Upto(0) = 0 /\ Upto(1) = Len(Written) /\ Upto(1) = Upto(0) + Len(cs)
      /\ \A p \in 1 .. Len(cs) : Written[Upto(0) + p] = cs[p]
      /\ Written \in Seq(ConnectionConfigs)
  BY <1>1, <1>2, WrittenIs
<1> HIDE DEF cs
<1>4. Len(Written) = Len(cs) /\ \A p \in 1 .. Len(cs) : Written[p] = cs[p]
  BY <1>3
<1>5. Written = cs
  <2>1. Written \in [1 .. Len(cs) -> ConnectionConfigs] /\ cs \in [1 .. Len(cs) -> ConnectionConfigs]
    BY <1>3, <1>4, LenProperties
  <2> QED BY <1>4, <2>1
<1> QED BY <1>1, <1>3, <1>5 DEF cs

LEMMA StatStep ==
    ASSUME CatalogInv, Stat, [Next]_vars
    PROVE  CatalogInv'
<1> DEFINE f == place.entries[1].file
<1>1. /\ PlaceIs' /\ PlaceIs /\ step = "stat" /\ entry = 0 /\ loaded = <<>>
      /\ entry' = entry /\ place.kind \in {"none", "file", "directory"}
  BY PlaceKept DEF Stat, CatalogFails, CatalogInv, PlaceIs
<1>2. CASE place.kind = "none"
  <2>1. step' = "fatal"
    BY <1>2 DEF Stat, CatalogFails
  <2>2. ~SoundPlace
    BY <1>2 DEF SoundPlace
  <2> QED BY <1>1, <1>2, <2>1, <2>2, PlaceKept DEF CatalogInv
<1>3. CASE place.kind = "directory"
  <2>1. step' = "entries" /\ loaded' = loaded
    BY <1>3 DEF Stat
  <2>2. Loading
    <3>1. 0 \in 0 .. Len(place.entries) /\ Upto(0) = 0
      BY <1>1, WrittenIs
    <3>2. loaded \in Seq(Passed) /\ Len(loaded) = 0 /\ ToSet(loaded) = {}
      BY <1>1, EmptySeq DEF ToSet
    <3> QED BY <1>1, <3>1, <3>2 DEF Loading, FilesGood
  <2>3. Loading'
    BY <1>1, <2>1, <2>2, PlaceKept DEF Loading
  <2> QED BY <1>1, <1>3, <2>1, <2>3, PlaceKept DEF CatalogInv
<1>4. CASE place.kind = "file" /\ ~FileValid(f)
  <2>1. step' = "fatal"
    BY <1>4 DEF Stat, CatalogFails
  <2>2. ~SoundPlace
    <3>1. SUFFICES ASSUME SoundPlace PROVE FALSE
      OBVIOUS
    <3>2. /\ Written = f.connections /\ place.entries[1].kind = "config" /\ 1 \in DOMAIN place.entries
          /\ f.connections \in Seq(ConnectionConfigs)
      BY <1>1, <1>4, OneFile, WrittenIs
    <3>3. /\ f.readable /\ f.connections # <<>>
          /\ \A n \in DOMAIN Written : Sound(Written[n]) \/ Overlooked(Written[n])
      BY <3>1, <3>2 DEF SoundPlace
    <3>4. \A n \in DOMAIN Written : Acceptable(Written[n])
      BY <3>2, <3>3, SoundIsAcceptable, LenProperties, ElementOfSeq
    <3>5. \A m, n \in DOMAIN Written : Key(Written[m]) = Key(Written[n]) => m = n
      BY <3>1, NoClash DEF Clash
    <3> QED BY <1>4, <3>2, <3>3, <3>4, <3>5 DEF FileValid, Valid
  <2> QED BY <1>1, <1>4, <2>1, <2>2, PlaceKept DEF CatalogInv
<1>5. CASE place.kind = "file" /\ FileValid(f)
  <2>1. loaded' = Validated(f.connections) /\ step' = "service"
    BY <1>5 DEF Stat
  <2>2. Written = f.connections /\ Len(place.entries) = 1
    BY <1>1, <1>5, OneFile
  <2>3. Valid(Written) /\ FilesGood(Len(place.entries))
    <3>1. \A m \in 1 .. 1 : m = 1
      OBVIOUS
    <3> QED BY <1>5, <2>2, <3>1 DEF FileValid, FilesGood
  <2>4. Loaded'
    <3>1. place' = place /\ Written' = Written
      BY <1>1, PlaceKept
    <3>2. FilesGood(Len(place.entries))'
      BY <2>3, <3>1 DEF FilesGood
    <3> QED BY <1>5, <2>1, <2>2, <2>3, <3>1, <3>2 DEF Loaded
  <2> QED BY <1>1, <1>5, <2>1, <2>4, PlaceKept DEF CatalogInv
<1> QED BY <1>1, <1>2, <1>3, <1>4, <1>5

\* The connections of the next entry are the next ones written.
LEMMA EntryIs ==
    ASSUME PlaceIs, Loading, entry < Len(place.entries)
    PROVE  LET cs == Listed(place.entries[entry + 1])
               a  == Upto(entry)
               b  == Upto(entry + 1)
           IN  /\ entry \in Nat /\ entry + 1 \in 1 .. Len(place.entries)
               /\ cs \in Seq(ConnectionConfigs) /\ Len(cs) \in Nat /\ DOMAIN cs = 1 .. Len(cs)
               /\ a \in Nat /\ b = a + Len(cs) /\ b <= Len(Written)
               /\ \A p \in 1 .. Len(cs) : Written[a + p] = cs[p]
<1> DEFINE cs == Listed(place.entries[entry + 1])
           E  == Len(place.entries)
<1>1. E \in Nat /\ entry \in 0 .. E
  BY WrittenIs DEF Loading
<1> HIDE DEF E
<1>2. /\ entry \in Nat /\ entry + 1 \in 1 .. E /\ entry \in 0 .. E /\ entry + 1 \in 0 .. E
      /\ entry + 1 - 1 = entry
  BY <1>1 DEF E
<1>3. PICK n \in 1 .. E : n = entry + 1
  BY <1>2
<1>4. /\ Listed(place.entries[n]) \in Seq(ConnectionConfigs)
      /\ Len(Listed(place.entries[n])) \in Nat
      /\ Upto(n) = Upto(n - 1) + Len(Listed(place.entries[n]))
      /\ \A p \in 1 .. Len(Listed(place.entries[n])) :
            Written[Upto(n - 1) + p] = Listed(place.entries[n])[p]
  BY WrittenIs DEF E
<1>5. Upto(entry) \in Nat /\ Upto(entry + 1) <= Len(Written)
  BY <1>2, WrittenIs DEF E
<1>6. Listed(place.entries[n]) = cs /\ n - 1 = entry
  BY <1>2, <1>3
<1> HIDE DEF cs
<1>7. /\ cs \in Seq(ConnectionConfigs) /\ Len(cs) \in Nat
      /\ Upto(n) = Upto(entry) + Len(cs)
      /\ \A p \in 1 .. Len(cs) : Written[Upto(entry) + p] = cs[p]
  BY <1>4, <1>6, Zenon
<1>8. Upto(entry + 1) = Upto(entry) + Len(cs)
  BY <1>3, <1>7, Zenon
<1>9. DOMAIN cs = 1 .. Len(cs)
  BY <1>7, LenProperties
<1> QED BY <1>2, <1>5, <1>7, <1>8, <1>9 DEF cs, E

\* In a sound place every file is valid.
LEMMA SoundFile ==
    ASSUME PlaceIs, Loading, entry < Len(place.entries), SoundPlace,
           place.entries[entry + 1].kind = "config"
    PROVE  FileValid(place.entries[entry + 1].file)
<1> DEFINE e  == place.entries[entry + 1]
           cs == Listed(e)
           a  == Upto(entry)
<1>1. /\ cs \in Seq(ConnectionConfigs) /\ DOMAIN cs = 1 .. Len(cs) /\ Len(cs) \in Nat
      /\ a \in Nat /\ a + Len(cs) <= Len(Written)
      /\ \A p \in 1 .. Len(cs) : Written[a + p] = cs[p]
  BY EntryIs
<1>2. e.file.readable /\ cs = e.file.connections /\ cs # <<>>
  <2>1. entry + 1 \in DOMAIN place.entries
    BY EntryIs, WrittenIs
  <2> QED BY <2>1 DEF SoundPlace, Listed
<1> HIDE DEF cs, a, e
<1>3. DOMAIN Written = 1 .. Len(Written) /\ Len(Written) \in Nat
  BY WrittenIs
<1>4. ASSUME NEW p \in 1 .. Len(cs) PROVE a + p \in DOMAIN Written /\ Written[a + p] = cs[p]
  BY <1>1, <1>3
<1>5. ASSUME NEW p \in 1 .. Len(cs) PROVE Acceptable(cs[p])
  <2>1. Sound(cs[p]) \/ Overlooked(cs[p])
    BY <1>4 DEF SoundPlace
  <2>2. cs[p] \in ConnectionConfigs
    BY <1>1, ElementOfSeq
  <2> QED BY <2>1, <2>2, SoundIsAcceptable
<1>6. ASSUME NEW p \in 1 .. Len(cs), NEW q \in 1 .. Len(cs), Key(cs[p]) = Key(cs[q]) PROVE p = q
  <2>1. a + p = a + q
    BY <1>4, <1>6, NoClash DEF Clash
  <2> QED BY <1>1, <2>1
<1>7. Valid(cs)
  BY <1>1, <1>2, <1>5, <1>6 DEF Valid
<1> QED BY <1>2, <1>7 DEF FileValid, e

\* One file more.
LEMMA EntryStep ==
    ASSUME CatalogInv, NextEntry, [Next]_vars
    PROVE  CatalogInv'
<1> DEFINE e == place.entries[entry + 1]
           cs == Listed(e)
           a == Upto(entry)
           b == Upto(entry + 1)
<1>1. /\ PlaceIs' /\ PlaceIs /\ step = "entries" /\ place.kind = "directory" /\ Loading
      /\ entry < Len(place.entries) /\ Len(place.entries) \in Nat
  BY PlaceKept, WrittenIs DEF NextEntry, CatalogInv
<1>2. CASE e.kind = "config" /\ ~FileValid(e.file)
  <2>1. step' = "fatal" /\ entry' = entry
    BY <1>2 DEF NextEntry, CatalogFails
  <2>2. ~SoundPlace
    BY <1>1, <1>2, SoundFile
  <2> QED BY <1>1, <2>1, <2>2, PlaceKept DEF CatalogInv
<1>3. CASE ~(e.kind = "config" /\ ~FileValid(e.file))
  <2>1. /\ loaded' = IF e.kind # "config" THEN loaded ELSE loaded \o Validated(e.file.connections)
        /\ entry' = entry + 1 /\ step' = step
    BY <1>3 DEF NextEntry
  <2>2. /\ entry \in Nat /\ entry + 1 \in 1 .. Len(place.entries) /\ entry \in 0 .. Len(place.entries)
        /\ entry + 1 \in 0 .. Len(place.entries) /\ entry + 1 - 1 = entry
    BY <1>1 DEF Loading
  <2>3. /\ cs \in Seq(ConnectionConfigs) /\ Len(cs) \in Nat /\ a \in Nat /\ b = a + Len(cs)
        /\ \A p \in 1 .. Len(cs) : Written[a + p] = cs[p]
    BY <1>1, EntryIs
  <2>4. \A n \in DOMAIN cs : Acceptable(cs[n])
    <3>1. CASE e.kind = "config"
      BY <1>3, <3>1 DEF FileValid, Valid, Listed
    <3>2. CASE e.kind # "config"
      BY <3>2 DEF Listed
    <3> QED BY <3>1, <3>2
  <2> DEFINE v == IF e.kind # "config" THEN <<>> ELSE Validated(cs)
  <2>5. /\ v \in Seq(Passed) /\ Len(v) = Len(cs)
        /\ ToSet(v) = {Normal(cs[n]) : n \in 1 .. Len(cs)}
    <3>1. CASE e.kind = "config"
      BY <2>3, <2>4, <3>1, ListLoaded
    <3>2. CASE e.kind # "config"
      <4>1. cs = <<>> /\ v = <<>>
        BY <3>2 DEF Listed
      <4> HIDE DEF v, cs
      <4> QED BY <4>1, EmptySeq DEF ToSet
    <3> QED BY <3>1, <3>2
  <2>6. loaded' = loaded \o v /\ loaded \in Seq(Passed) /\ Len(loaded) = a /\ Len(loaded) \in Nat
    <3>1. loaded \in Seq(Passed) /\ Len(loaded) = a
      BY <1>1 DEF Loading
    <3>2. CASE e.kind = "config"
      BY <2>1, <2>3, <3>1, <3>2 DEF Listed
    <3>3. CASE e.kind # "config"
      BY <2>1, <2>3, <3>1, <3>3, ConcatEmptySeq
    <3> QED BY <2>3, <3>1, <3>2, <3>3
  <2>7. \A m \in 1 .. b : m \in 1 .. a \/ \E p \in 1 .. Len(cs) : m = a + p
    <3> SUFFICES ASSUME NEW m \in 1 .. b, m \notin 1 .. a PROVE \E p \in 1 .. Len(cs) : m = a + p
      OBVIOUS
    <3> HIDE DEF a, b, cs
    <3>1. m - a \in 1 .. Len(cs) /\ m = a + (m - a)
      BY <2>3
    <3> QED BY <3>1
  <2>8. (\A m \in 1 .. a : m \in 1 .. b) /\ \A p \in 1 .. Len(cs) : a + p \in 1 .. b
    <3> HIDE DEF a, b, cs
    <3> QED BY <2>3
  <2>9. loaded' \in Seq(Passed) /\ Len(loaded') = b /\ ToSet(loaded') = ToSet(loaded) \cup ToSet(v)
    <3> HIDE DEF v, a, b, cs
    <3>1. v \in Seq(Passed) /\ loaded \in Seq(Passed) /\ loaded' = loaded \o v
      BY <2>5, <2>6
    <3>2. /\ loaded \o v \in Seq(Passed) /\ Len(loaded \o v) = Len(loaded) + Len(v)
          /\ ToSet(loaded \o v) = ToSet(loaded) \cup ToSet(v)
      BY <3>1, JoinSets
    <3>3. Len(loaded) + Len(v) = b
      BY <2>3, <2>5, <2>6
    <3> QED BY <3>1, <3>2, <3>3
  <2>10. ToSet(loaded') = {Normal(Written[m]) : m \in 1 .. b}
    <3>1. ToSet(loaded) = {Normal(Written[m]) : m \in 1 .. a}
      BY <1>1 DEF Loading
    <3>2. \A n \in 1 .. Len(cs) : Normal(cs[n]) = Normal(Written[a + n])
      BY <2>3
    <3> HIDE DEF v, a, b, cs
    <3> QED BY <2>5, <2>7, <2>8, <2>9, <3>1, <3>2
  <2>11. \A m \in 1 .. b : Acceptable(Written[m])
    <3>1. \A m \in 1 .. a : Acceptable(Written[m])
      BY <1>1 DEF Loading
    <3>2. \A p \in 1 .. Len(cs) : Acceptable(Written[a + p])
      <4>1. DOMAIN cs = 1 .. Len(cs)
        BY <2>3, LenProperties
      <4> QED BY <2>3, <2>4, <4>1
    <3> HIDE DEF a, b, cs
    <3> QED BY <2>7, <3>1, <3>2
  <2>12. FilesGood(entry + 1)
    <3>1. \A m \in 1 .. entry + 1 : m \in 1 .. entry \/ m = entry + 1
      BY <2>2
    <3> QED BY <1>1, <1>3, <3>1 DEF Loading, FilesGood
  <2>13. Loading'
    <3>1. place' = place /\ Written' = Written
      BY <1>1, PlaceKept
    <3>2. Upto(entry)' = b
      BY <2>1, <3>1 DEF Upto, Lists
    <3>3. FilesGood(entry)'
      BY <2>1, <2>12, <3>1 DEF FilesGood
    <3> HIDE DEF b
    <3> QED BY <2>1, <2>2, <2>9, <2>10, <2>11, <3>1, <3>2, <3>3 DEF Loading
  <2> QED BY <1>1, <2>1, <2>13, PlaceKept DEF CatalogInv
<1> QED BY <1>2, <1>3

\* All entries are read: the second validation refuses and changes nothing.
LEMMA AggregateIs ==
    ASSUME PlaceIs, Loading, entry = Len(place.entries)
    PROVE  /\ Written = <<>> <=> loaded = <<>>
           /\ Valid(loaded) <=> Written # <<>> /\ ~Clash
           /\ Valid(loaded) => Valid(Written) /\ Validated(loaded) = Validated(Written)
<1> DEFINE N == Len(Written)
           P == Accepted \cup Passed
<1>1. /\ Written \in Seq(ConnectionConfigs) /\ N \in Nat /\ DOMAIN Written = 1 .. N /\ Upto(entry) = N
  BY WrittenIs
<1>2. \A n \in DOMAIN Written : Acceptable(Written[n])
  BY <1>1 DEF Loading
<1>3. /\ Listing(Written, N) /\ \A n \in 1 .. N : Written[n] \in P
  BY <1>1, <1>2, ListLoaded
<1>4. /\ loaded \in Seq(Passed) /\ Len(loaded) = N
      /\ ToSet(loaded) = {Normal(Written[m]) : m \in 1 .. N}
  BY <1>1 DEF Loading
<1> HIDE DEF N
<1>5. DOMAIN loaded = 1 .. N /\ \A n \in 1 .. N : loaded[n] \in P /\ loaded[n] \in Passed
  BY <1>4, LenProperties, ElementOfSeq
<1>6. Listing(loaded, N) /\ \A n \in 1 .. N : Acceptable(loaded[n])
  BY <1>1, <1>5, KeysAreWords, Passing DEF Listing
<1>7. {Normal(loaded[n]) : n \in 1 .. N} = {Normal(Written[n]) : n \in 1 .. N}
  <2>1. ToSet(loaded) = {loaded[n] : n \in 1 .. N}
    BY <1>5 DEF ToSet
  <2>2. \A n \in 1 .. N : Normal(loaded[n]) = loaded[n]
    BY <1>5, Passing
  <2>3. {Normal(loaded[n]) : n \in 1 .. N} = {loaded[n] : n \in 1 .. N}
    BY <2>2
  <2> QED BY <1>4, <2>1, <2>3
<1> HIDE DEF P
<1>8. /\ Distinct(loaded) => Distinct(Written) /\ Validated(loaded) = Validated(Written)
      /\ Distinct(Written) => Distinct(loaded)
  BY <1>3, <1>5, <1>6, <1>7, SameConnections DEF P
<1>9. Written = <<>> <=> loaded = <<>>
  <2>1. Written = <<>> <=> N = 0
    BY <1>1, EmptySeq DEF N
  <2>2. loaded = <<>> <=> N = 0
    BY <1>1, <1>4, EmptySeq
  <2> QED BY <2>1, <2>2
<1>10. Valid(loaded) <=> loaded # <<>> /\ Distinct(loaded)
  BY <1>5, <1>6 DEF Valid, Distinct
<1>11. Valid(Written) <=> Written # <<>> /\ Distinct(Written)
  BY <1>2 DEF Valid, Distinct
<1>12. Distinct(Written) <=> ~Clash
  BY DEF Distinct, Clash
<1> QED BY <1>8, <1>9, <1>10, <1>11, <1>12

LEMMA LastSteps ==
    ASSUME CatalogInv, [Next]_vars, EntryGone \/ Aggregate \/ NewService \/ UNCHANGED catalogVars
    PROVE  CatalogInv'
<1>1. PlaceIs /\ PlaceIs' /\ place' = place /\ Written' = Written /\ (Clash' <=> Clash) /\ (SoundPlace' <=> SoundPlace)
  BY PlaceKept DEF CatalogInv
<1>2. CASE EntryGone
  <2>1. /\ step' = "fatal" /\ entry' = entry /\ vanished' = entry' + 1
        /\ place.kind = "file" \/ (step = "entries" /\ entry < Len(place.entries))
    BY <1>2 DEF EntryGone, CatalogFails
  <2>2. place.kind # "file" => entry \in Nat /\ Len(place.entries) \in Nat
    BY <1>1, <2>1, WrittenIs DEF CatalogInv, Loading
  <2>3. ~(place.kind = "directory" /\ entry = Len(place.entries))
    BY <2>1, <2>2
  <2> QED BY <1>1, <2>1, <2>3 DEF CatalogInv
<1>3. CASE Aggregate
  <2>1. /\ step = "entries" /\ entry = Len(place.entries) /\ Loading /\ place.kind = "directory"
        /\ IF ~Valid(loaded) THEN step' = "fatal"
           ELSE loaded' = Validated(loaded) /\ step' = "service"
    BY <1>3 DEF Aggregate, CatalogFails, CatalogInv
  <2>2. CASE ~Valid(loaded)
    <3>1. Written = <<>> \/ Clash
      BY <1>1, <2>1, <2>2, AggregateIs
    <3>2. ~SoundPlace
      BY <3>1, NoClash
    <3> QED BY <1>1, <2>1, <2>2, <3>1, <3>2 DEF CatalogInv
  <2>3. CASE Valid(loaded)
    <3>1. Valid(Written) /\ loaded' = Validated(Written) /\ FilesGood(Len(place.entries))
      BY <1>1, <2>1, <2>3, AggregateIs DEF Loading
    <3>2. FilesGood(Len(place.entries))'
      BY <1>1, <3>1 DEF FilesGood
    <3>3. Loaded'
      BY <1>1, <2>1, <3>1, <3>2 DEF Loaded
    <3> QED BY <1>1, <2>1, <2>3, <3>3 DEF CatalogInv
  <2> QED BY <2>2, <2>3
<1>4. CASE NewService
  <2>1. step = "service" /\ Loaded /\ step' = "loaded" /\ loaded' = loaded
    BY <1>4 DEF NewService, CatalogInv
  <2>2. FilesGood(Len(place.entries))'
    BY <1>1, <2>1 DEF Loaded, FilesGood
  <2>3. Loaded'
    BY <1>1, <2>1, <2>2 DEF Loaded
  <2>4. connections' = [key \in {Lower(loaded[n].name) : n \in DOMAIN loaded} |->
                           loaded[Max({n \in DOMAIN loaded : Lower(loaded[n].name) = key})]]
    BY <1>4 DEF NewService
  <2> QED BY <1>1, <2>1, <2>3, <2>4 DEF CatalogInv
<1>5. CASE UNCHANGED catalogVars
  <2>1. UNCHANGED <<step, entry, loaded, connections, vanished>>
    BY <1>5 DEF catalogVars
  <2>2. (Loading' <=> Loading) /\ (Loaded' <=> Loaded)
    BY <1>1, <2>1 DEF Loading, Loaded, FilesGood, Upto, Lists
  <2> QED BY <1>1, <2>1, <2>2 DEF CatalogInv
<1> QED BY <1>2, <1>3, <1>4, <1>5

LEMMA CatalogStep == CatalogInv /\ [Next]_vars => CatalogInv'
<1> SUFFICES ASSUME CatalogInv, [Next]_vars PROVE CatalogInv'
  OBVIOUS
<1> QED BY StatStep, EntryStep, LastSteps DEF Next, LoadCatalog, LoadTools, Over, CatalogNext, vars

LEMMA CatalogStart == Init => CatalogInv
<1> SUFFICES ASSUME Init PROVE CatalogInv
  OBVIOUS
<1>1. PlaceIs
  BY StartupAssumption DEF Init, PlaceIs
<1> QED BY <1>1 DEF Init, CatalogInit, CatalogInv

\* What the service's map has.
LEMMA MapIs ==
    ASSUME CatalogInv, step = "loaded"
    PROVE  /\ Len(Written) \in Nat /\ DOMAIN Written = 1 .. Len(Written)
           /\ \A n \in 1 .. Len(Written) : Written[n] \in Accepted
           /\ DOMAIN connections = {Key(Written[n]) : n \in 1 .. Len(Written)}
           /\ Cardinality(DOMAIN connections) = Len(Written)
           /\ \A n \in 1 .. Len(Written) : connections[Key(Written[n])] = Normal(Written[n])
<1> DEFINE N == Len(Written)
           K == {Key(Written[n]) : n \in 1 .. N}
           at(key) == {n \in DOMAIN loaded : Lower(loaded[n].name) = key}
<1>1. PlaceIs /\ Valid(Written) /\ loaded = Validated(Written)
  BY DEF CatalogInv, Loaded
<1>2. /\ N \in Nat /\ DOMAIN Written = 1 .. N /\ Listing(Written, N)
      /\ \A n \in 1 .. N : Written[n] \in Accepted
  BY <1>1, WrittenIs, ListLoaded DEF Valid
<1>3. \A m, n \in 1 .. N : Key(Written[m]) = Key(Written[n]) => m = n
  BY <1>1, <1>2 DEF Valid
<1>4. /\ DOMAIN loaded = 1 .. N
      /\ \A n \in 1 .. N : Position(Written, n) \in 1 .. N /\ loaded[Position(Written, n)] = Normal(Written[n])
      /\ \A i \in 1 .. N : \E n \in 1 .. N : Position(Written, n) = i /\ loaded[i] = Normal(Written[n])
  <2> DEFINE v == Validated(Written)
  <2>1. v = loaded
    BY <1>1
  <2>2. /\ DOMAIN v = 1 .. N
        /\ \A n \in 1 .. N : v[Position(Written, n)] = Normal(Written[n])
        /\ \A i \in 1 .. N : \E n \in 1 .. N : Position(Written, n) = i /\ v[i] = Normal(Written[n])
    <3>1. Listing(Written, N)
      BY <1>2
    <3> HIDE DEF N, K, at, v
    <3>2. /\ DOMAIN Validated(Written) = 1 .. N
          /\ \A n \in 1 .. N : Validated(Written)[Position(Written, n)] = Normal(Written[n])
          /\ \A i \in 1 .. N : \E n \in 1 .. N :
                Position(Written, n) = i /\ Validated(Written)[i] = Normal(Written[n])
      BY <3>1, ValidatedIs
    <3> QED BY <3>2 DEF v
  <2>3. \A n \in 1 .. N : Position(Written, n) \in 1 .. N
    BY <1>2, PositionsAre
  <2> HIDE DEF v, N
  <2> QED BY <2>1, <2>2, <2>3
<1> HIDE DEF N
<1>5. \A n \in 1 .. N : Lower(Normal(Written[n]).name) = Key(Written[n])
  <2> SUFFICES ASSUME NEW c \in Accepted PROVE Lower(Normal(c).name) = Key(c)
    BY <1>2
  <2>1. Normal(c).name = Trim(c.name)
    BY DEF Normal, Accepted, ConnectionConfigs
  <2> QED BY <2>1 DEF Key
<1>6. {Lower(loaded[n].name) : n \in DOMAIN loaded} = K
  <2> DEFINE L == {Lower(loaded[n].name) : n \in DOMAIN loaded}
  <2>1. ASSUME NEW i \in DOMAIN loaded PROVE Lower(loaded[i].name) \in K
    <3>1. PICK n \in 1 .. N : loaded[i] = Normal(Written[n])
      BY <1>4
    <3>2. Lower(loaded[i].name) = Key(Written[n])
      BY <1>5, <3>1
    <3> QED BY <3>2
  <2>2. ASSUME NEW n \in 1 .. N PROVE Key(Written[n]) \in L
    <3>1. PICK i \in DOMAIN loaded : loaded[i] = Normal(Written[n])
      BY <1>4
    <3>2. Lower(loaded[i].name) = Key(Written[n])
      BY <1>5, <3>1
    <3> QED BY <3>2
  <2> QED BY <2>1, <2>2
<1>7. connections = [key \in K |-> loaded[Max(at(key))]]
  BY <1>6 DEF CatalogInv
<1>8. ASSUME NEW n \in 1 .. N PROVE connections[Key(Written[n])] = Normal(Written[n])
  <2> DEFINE i == Position(Written, n)
  <2>1. i \in 1 .. N /\ loaded[i] = Normal(Written[n])
    BY <1>4
  <2>2. at(Key(Written[n])) = {i}
    <3>1. i \in at(Key(Written[n]))
      BY <1>4, <1>5, <2>1
    <3>2. ASSUME NEW j \in at(Key(Written[n])) PROVE j = i
      <4>1. j \in 1 .. N /\ Lower(loaded[j].name) = Key(Written[n])
        BY <1>4
      <4>2. PICK m \in 1 .. N : Position(Written, m) = j /\ loaded[j] = Normal(Written[m])
        BY <1>4, <4>1
      <4>3. m = n
        BY <1>3, <1>5, <4>1, <4>2
      <4> QED BY <4>2, <4>3
    <3> HIDE DEF at, i
    <3> QED BY <3>1, <3>2
  <2>3. Max({i}) = i
    <3>1. i \in Int
      BY <1>2, <2>1
    <3> HIDE DEF i
    <3> QED BY <3>1 DEF Max
  <2>4. Key(Written[n]) \in K
    OBVIOUS
  <2> HIDE DEF at, i, K
  <2> QED BY <1>7, <2>1, <2>2, <2>3, <2>4
<1>9. DOMAIN connections = K
  BY <1>7
<1>10. Cardinality(K) = N
  <2> DEFINE f == [n \in 1 .. N |-> Key(Written[n])]
  <2>1. f \in Bijection(1 .. N, K)
    BY <1>3 DEF Bijection, Injection, Surjection, IsInjective
  <2> HIDE DEF f, K
  <2> QED BY <1>2, <2>1, CountUpTo, FS_Bijection DEF ExistsBijection
<1> HIDE DEF K
<1> QED BY <1>2, <1>8, <1>9, <1>10 DEF N, K

LEMMA InvNames == CatalogInv => EachUnderItsName
<1> SUFFICES ASSUME CatalogInv, step = "loaded" PROVE EachUnderItsName
  BY DEF EachUnderItsName
<1>1. ASSUME NEW n \in DOMAIN Written, NEW upper \in BOOLEAN, NEW space \in BOOLEAN
      PROVE  ConnectionOf([word |-> Written[n].name.word, upper |-> upper, space |-> space])
                = {Normal(Written[n])}
  <2> DEFINE name == [word |-> Written[n].name.word, upper |-> upper, space |-> space]
             key == Key(Written[n])
  <2>1. key \in DOMAIN connections /\ connections[key] = Normal(Written[n]) /\ Written[n] \in Accepted
    BY MapIs
  <2>2. key = [word |-> Written[n].name.word, upper |-> FALSE, space |-> FALSE]
    BY <2>1, Passing
  <2>3. Lower(Trim(name)) = key
    <3>1. Written[n].name \in Spellings
      BY <2>1 DEF Accepted, ConnectionConfigs
    <3>2. name \in Spellings /\ name.word = Written[n].name.word
      BY <3>1 DEF Spellings
    <3> HIDE DEF name, key
    <3> QED BY <2>2, <3>2, Folded
  <2> HIDE DEF name, key
  <2>4. ConnectionOf(name) = {connections[key]}
    BY <2>1, <2>3 DEF ConnectionOf
  <2> QED BY <2>1, <2>4 DEF name
<1>2. ASSUME NEW c \in Accepted
      PROVE  LET d == Normal(c)
             IN  /\ d.username = c.username /\ d.password = c.password
                 /\ d.dsn \in {c.dsn, Derived(c)} \ {NoDsn} /\ d.url = NoUrl
                 /\ c.url # NoUrl => d.driver = Inferred(c.url)
  <2>1. c \in ConnectionConfigs /\ Acceptable(c)
    BY DEF Accepted
  <2> DEFINE d == Normal(c)
  <2>2. /\ d.username = c.username /\ d.password = c.password /\ d.url = NoUrl
        /\ d.dsn = IF c.dsn = NoDsn THEN Derived(c) ELSE c.dsn
        /\ d.driver = ResolvedDriver([c EXCEPT !.driver = NormalDriver(@)])
    BY <2>1 DEF Normal, ConnectionConfigs
  <2>3. Derived(c) # NoDsn
    BY DEF Derived, NoDsn
  <2>4. c.url # NoUrl => d.driver = Inferred(c.url)
    <3>1. d.driver # ""
      BY <2>1, <2>2 DEF Acceptable
    <3> QED BY <2>1, <2>2, <3>1 DEF ResolvedDriver, ConnectionConfigs
  <2> HIDE DEF d
  <2> QED BY <2>2, <2>3, <2>4 DEF d
<1>3. ASSUME NEW n \in DOMAIN Written PROVE ConnectionOf(Written[n].name) # {}
  <2>1. Written[n].name \in Spellings
    BY MapIs DEF Accepted, ConnectionConfigs
  <2>2. Written[n].name = [word |-> Written[n].name.word, upper |-> Written[n].name.upper, space |-> Written[n].name.space]
        /\ Written[n].name.upper \in BOOLEAN /\ Written[n].name.space \in BOOLEAN
    BY <2>1 DEF Spellings
  <2>3. ConnectionOf([word |-> Written[n].name.word, upper |-> Written[n].name.upper, space |-> Written[n].name.space]) # {}
    BY <1>1, <2>2
  <2> QED BY <2>2, <2>3
<1> QED BY <1>1, <1>2, <1>3, MapIs DEF EachUnderItsName

LEMMA InvDirectory == CatalogInv => DirectoryIsOneFile
BY DEF CatalogInv, Loaded, Clash, DirectoryIsOneFile

\* Every behaviour of the start that loads a directory ends where one that
\* loads its connections from one file does (catalog.go 32-62, 93-142).
THEOREM DirectoriesAreOneFile == Spec => []DirectoryIsOneFile
<1>1. CatalogInv => DirectoryIsOneFile
  BY InvDirectory
<1> QED BY CatalogStart, CatalogStep, <1>1, PTL DEF Spec

\* The service that is made of a configuration has its connections, each under
\* its name in any spelling and with its own target (service.go 58-79, 352-362).
THEOREM ConnectionsAreFound == Spec => []EachUnderItsName
<1>1. CatalogInv => EachUnderItsName
  BY InvNames
<1> QED BY CatalogStart, CatalogStep, <1>1, PTL DEF Spec

-----------------------------------------------------------------------------
(* The registry.                                                             *)
\* The registration of a specification.
Registration(n) == [spec |-> specs[n].spec, handler |-> Normalized(specs[n].spec.name)]

Registrations == {Registration(n) : n \in Nat}

Taken == {ordered[n].handler : n \in DOMAIN ordered}

\* Each registered specification has taken its own handler, and is found under
\* the handler's name.
Matched ==
    /\ ordered \in Seq(Registrations)
    /\ handlerByName = Handlers \ Taken /\ Taken \subseteq Handlers
    /\ \A m, n \in DOMAIN ordered : ordered[m].handler = ordered[n].handler => m = n
    /\ Cardinality(Taken) = Len(ordered)
    /\ DOMAIN byName = Taken
    /\ \A n \in DOMAIN ordered : byName[ordered[n].handler] = ordered[n]

RegistryInv ==
    /\ stage \in {"read", "register", "ready", "fatal"}
    /\ stage # "fatal" => Matched
    /\ stage = "read" => ordered = <<>>
    /\ stage = "ready" => handlerByName = {}

LEMMA EmptyMatched ==
    ASSUME ordered = <<>>, byName = <<>>, handlerByName = Handlers
    PROVE  Matched
<1>1. DOMAIN ordered = {} /\ DOMAIN byName = {} /\ Len(ordered) = 0
  OBVIOUS
<1>2. Taken = {} /\ Cardinality(Taken) = 0
  BY <1>1, FS_EmptySet DEF Taken
<1> QED BY <1>1, <1>2, EmptySeq DEF Matched

\* One specification more takes its handler.
LEMMA RegisterMatches ==
    ASSUME RegistryInv, Register, stage' # "fatal"
    PROVE  Matched'
<1> DEFINE n == Len(ordered) + 1
           reg == Registration(n)
           name == reg.handler
<1>1. /\ ordered' = Append(ordered, reg) /\ handlerByName' = handlerByName \ {name}
      /\ byName' = [key \in DOMAIN byName \cup {name} |-> IF key = name THEN reg ELSE byName[key]]
      /\ UNCHANGED <<files, stage, specs>> /\ stage = "register" /\ name \in handlerByName
  BY DEF Register, RegistryFails, Registration
<1>2. Matched /\ Len(ordered) \in Nat /\ n \in Nat /\ DOMAIN ordered = 1 .. Len(ordered)
  <2>1. Matched
    BY <1>1 DEF RegistryInv
  <2> QED BY <2>1, LenProperties DEF Matched
<1>3. reg \in Registrations /\ Registrations' = Registrations
  BY <1>1, <1>2 DEF Registrations, Registration
<1> HIDE DEF reg, name, n
<1>4. /\ ordered' \in Seq(Registrations) /\ Len(ordered') = n /\ DOMAIN ordered' = 1 .. n
      /\ ordered'[n] = reg /\ \A m \in DOMAIN ordered : ordered'[m] = ordered[m]
  BY <1>1, <1>2, <1>3, AppendProperties, LenProperties DEF Matched, n
<1>5. DOMAIN ordered' = DOMAIN ordered \cup {n} /\ n \notin DOMAIN ordered
  BY <1>2, <1>4 DEF n
<1>6. Taken' = Taken \cup {name} /\ name \notin Taken /\ name \in Handlers
  <2>1. name \in Handlers \ Taken
    BY <1>1, <1>2 DEF Matched
  <2>2. \A m \in DOMAIN ordered : ordered'[m].handler = ordered[m].handler
    BY <1>4
  <2>3. ordered'[n].handler = name
    BY <1>4 DEF name
  <2>4. Taken' = {ordered'[m].handler : m \in DOMAIN ordered'}
    BY DEF Taken
  <2>5. {ordered'[m].handler : m \in DOMAIN ordered} = Taken
    BY <2>2 DEF Taken
  <2> QED BY <1>5, <2>1, <2>3, <2>4, <2>5
<1>7. Cardinality(Taken') = n
  <2>1. IsFiniteSet(Taken)
    BY <1>2, RegistryAssumption, FS_Subset DEF Matched
  <2>2. Cardinality(Taken \cup {name}) = Cardinality(Taken) + 1
    BY <1>6, <2>1, FS_AddElement
  <2> QED BY <1>2, <1>6, <2>2 DEF Matched, n
<1>8. \A l, m \in DOMAIN ordered' : ordered'[l].handler = ordered'[m].handler => l = m
  <2>1. \A m \in DOMAIN ordered :
          ordered'[m].handler = ordered[m].handler /\ ordered[m].handler \in Taken
    BY <1>4 DEF Taken
  <2>2. ordered'[n].handler = name
    BY <1>4 DEF name
  <2>3. \A l, m \in DOMAIN ordered : ordered[l].handler = ordered[m].handler => l = m
    BY <1>2 DEF Matched
  <2> QED BY <1>5, <1>6, <2>1, <2>2, <2>3
<1>9. DOMAIN byName' = Taken'
  BY <1>1, <1>2, <1>6 DEF Matched
<1>10. \A m \in DOMAIN ordered' : byName'[ordered'[m].handler] = ordered'[m]
  <2>1. ASSUME NEW m \in DOMAIN ordered PROVE byName'[ordered'[m].handler] = ordered'[m]
    <3>1. ordered'[m] = ordered[m] /\ ordered[m].handler \in Taken
      BY <1>4 DEF Taken
    <3>2. byName[ordered[m].handler] = ordered[m] /\ DOMAIN byName = Taken
      BY <1>2 DEF Matched
    <3> QED BY <1>1, <1>6, <3>1, <3>2
  <2>2. byName'[ordered'[n].handler] = ordered'[n]
    BY <1>1, <1>4 DEF name
  <2> QED BY <1>5, <2>1, <2>2
<1> QED BY <1>1, <1>2, <1>3, <1>4, <1>6, <1>7, <1>8, <1>9, <1>10 DEF Matched

LEMMA RegistryStep ==
    ASSUME RegistryInv, RegistryNext
    PROVE  RegistryInv'
<1> USE DEF RegistryInv
<1>1. ASSUME UNCHANGED <<specs, handlerByName, byName, ordered>>
      PROVE  Matched' <=> Matched
  BY <1>1 DEF Matched, Taken, Registrations, Registration
<1>2. CASE ReadSpec
  <2>1. CASE stage' = "fatal"
    BY <2>1
  <2>2. CASE stage' # "fatal"
    <3>1. UNCHANGED <<stage, handlerByName, byName, ordered>> /\ stage = "read"
      BY <1>2, <2>2 DEF ReadSpec, RegistryFails
    <3>2. Matched /\ ordered = <<>>
      BY <3>1
    <3>3. byName' = byName /\ DOMAIN byName = {} /\ Taken = {} /\ Len(ordered) = 0
          /\ DOMAIN ordered = {}
      BY <3>1, <3>2 DEF Matched, Taken
    <3>4. Matched'
      BY <3>1, <3>2, <3>3, EmptySeq DEF Matched, Taken
    <3> QED BY <3>1, <3>2, <3>4
  <2> QED BY <2>1, <2>2
<1>3. CASE Validate
  <2>1. UNCHANGED <<specs, handlerByName, byName, ordered>> /\ stage = "read"
        /\ stage' \in {"register", "fatal"}
    BY <1>3 DEF Validate, RegistryFails
  <2> QED BY <1>1, <2>1
<1>4. CASE Register
  <2>1. stage' \in {"register", "fatal"}
    BY <1>4 DEF Register, RegistryFails
  <2> QED BY <1>4, <2>1, RegisterMatches
<1>5. CASE Finish
  <2>1. UNCHANGED <<specs, handlerByName, byName, ordered>> /\ stage = "register"
        /\ stage' \in {"ready", "fatal"} /\ (stage' = "ready" => handlerByName = {})
    BY <1>5 DEF Finish, RegistryFails
  <2> QED BY <1>1, <2>1
<1> QED BY <1>2, <1>3, <1>4, <1>5 DEF RegistryNext

LEMMA StartupStep == RegistryInv /\ [Next]_vars => RegistryInv'
<1> SUFFICES ASSUME RegistryInv, [Next]_vars PROVE RegistryInv'
  OBVIOUS
<1>1. CASE UNCHANGED registryVars
  BY <1>1 DEF registryVars, RegistryInv, Matched, Taken, Registrations, Registration
<1>2. CASE RegistryNext
  BY <1>2, RegistryStep
<1> QED BY <1>1, <1>2 DEF Next, LoadCatalog, LoadTools, Over, vars

\* Spelling does not matter to Find.
LEMMA FindSpelling ==
    ASSUME NEW name, NEW upper, NEW space
    PROVE  Normalized([name EXCEPT !.upper = upper, !.space = space]) = Normalized(name)
BY DEF Normalized

\* A registry that is ready has the tool of every handler exactly once, and a
\* tool is found under its name in any spelling (registry.go 60-148).
THEOREM ReadyToolsAreCallable == Spec => []ToolsAreCallable
<1>1. Init => RegistryInv
  BY EmptyMatched DEF Init, RegistryInit, RegistryInv
<1>2. RegistryInv => ToolsAreCallable
  <2> SUFFICES ASSUME RegistryInv, stage = "ready" PROVE ToolsAreCallable
    BY DEF ToolsAreCallable
  <2>1. Matched /\ handlerByName = {}
    BY DEF RegistryInv
  <2>2. Taken = Handlers /\ Len(ordered) = Cardinality(Handlers)
    BY <2>1 DEF Matched
  <2>3. ASSUME NEW n \in DOMAIN ordered, NEW upper \in BOOLEAN, NEW space \in BOOLEAN
        PROVE  Find([ordered[n].spec.name EXCEPT !.upper = upper, !.space = space])
                   = {ordered[n]}
    <3> DEFINE name == ordered[n].spec.name
    <3>1. ordered[n] \in Registrations
      BY <2>1, LenProperties DEF Matched
    <3>2. ordered[n].handler = Normalized(name)
      BY <3>1 DEF Registrations, Registration
    <3>3. Normalized(name) \in DOMAIN byName /\ byName[Normalized(name)] = ordered[n]
      BY <2>1, <3>2 DEF Matched, Taken
    <3> HIDE DEF name
    <3>4. Find([name EXCEPT !.upper = upper, !.space = space]) = {byName[Normalized(name)]}
      BY <3>3, FindSpelling DEF Find
    <3> QED BY <3>3, <3>4 DEF name
  <2> QED BY <2>2, <2>3 DEF ToolsAreCallable, Taken
<1> QED BY <1>1, <1>2, StartupStep, PTL DEF Spec
-----------------------------------------------------------------------------
(* From files to specifications                                              *)
\* What is read so far: readable files, each once.  After the validation these
\* are all of them, and those registered are the first ones.
FilesInv ==
    /\ files \in SUBSET ToolFiles
    /\ specs \in Seq(files)
    /\ \A n \in DOMAIN specs : specs[n].readable
    /\ \A m, n \in DOMAIN specs : specs[m] = specs[n] => m = n
    /\ stage \in {"register", "ready"} => Unread = {} /\ specs # <<>> /\ Definitions
    /\ stage # "fatal" =>
          /\ Len(ordered) <= Len(specs)
          /\ \A n \in DOMAIN ordered : ordered[n] = Registration(n) /\ specs[n].spec.compiles
    /\ stage = "ready" => Len(ordered) = Len(specs)
    /\ stage = "fatal" => ~SoundTools
    /\ stage # "read" => step = "loaded"

\* The next file is one of those not read.
LEMMA NearestIs ==
    ASSUME files \in SUBSET ToolFiles, Unread # {}
    PROVE  Nearest \in Unread
<1> DEFINE R == {f.rank : f \in Unread}
<1>1. \A f \in Unread : f \in ToolFiles /\ f.rank \in Nat
  BY DEF Unread, ToolFiles
<1>2. R \in SUBSET Nat /\ R # {}
  BY <1>1
<1>3. PICK r \in R : \A q \in R : r <= q
  BY <1>2, Least
<1>4. \E f \in Unread : \A g \in Unread : f.rank <= g.rank
  BY <1>3
<1> QED BY <1>4 DEF Nearest

\* When everything is read, the files are the specifications.
LEMMA AllRead ==
    ASSUME FilesInv, Unread = {}
    PROVE  /\ Len(specs) \in Nat /\ DOMAIN specs = 1 .. Len(specs)
           /\ \A n \in DOMAIN specs : specs[n] \in files
           /\ \A f \in files : \E n \in DOMAIN specs : f = specs[n]
<1>1. specs \in Seq(files)
  BY DEF FilesInv
<1>2. ToSet(specs) = {specs[n] : n \in DOMAIN specs}
  BY DEF ToSet
<1>3. files \subseteq ToSet(specs)
  BY DEF Unread
<1> QED BY <1>1, <1>2, <1>3, LenProperties, ElementOfSeq

\* One file more is read, or it cannot be.
LEMMA ReadFiles ==
    ASSUME RegistryInv, FilesInv, ReadSpec, files' = files, step' = step, step = "loaded"
    PROVE  FilesInv'
<1>1. Nearest \in Unread /\ stage = "read" /\ Nearest \in files /\ Nearest \notin ToSet(specs)
  BY NearestIs DEF FilesInv, ReadSpec, Unread
<1>2. CASE ~Nearest.readable
  <2>1. stage' = "fatal" /\ UNCHANGED <<specs, ordered>>
    BY <1>2 DEF ReadSpec, RegistryFails
  <2>2. ~SoundTools
    BY <1>1, <1>2 DEF SoundTools
  <2>3. ~SoundTools'
    BY <2>2 DEF SoundTools
  <2> QED BY <2>1, <2>3 DEF FilesInv
<1>3. CASE Nearest.readable
  <2>1. specs' = Append(specs, Nearest) /\ stage' = stage /\ ordered' = ordered /\ ordered = <<>>
    BY <1>1, <1>3 DEF ReadSpec, RegistryInv
  <2> DEFINE f == Nearest
             k == Len(specs)
  <2>2. specs \in Seq(files) /\ k \in Nat /\ DOMAIN specs = 1 .. k
    BY LenProperties DEF FilesInv
  <2>3. /\ specs' \in Seq(files) /\ Len(specs') = k + 1 /\ DOMAIN specs' = 1 .. k + 1
        /\ specs'[k + 1] = f /\ \A n \in 1 .. k : specs'[n] = specs[n]
    <3>1. f \in files /\ specs' = Append(specs, f)
      BY <1>1, <2>1
    <3> HIDE DEF f
    <3> QED BY <2>2, <3>1, AppendProperties, LenProperties
  <2>4. \A n \in 1 .. k : specs[n] # f /\ specs[n].readable
    BY <1>1, <2>2 DEF ToSet, FilesInv
  <2>5. \A n \in 1 .. k + 1 : n \in 1 .. k \/ n = k + 1
    BY <2>2
  <2>6. \A m, n \in 1 .. k : specs[m] = specs[n] => m = n
    BY <2>2 DEF FilesInv
  <2>7. f.readable
    BY <1>3
  <2> HIDE DEF f, k
  <2>8. \A n \in DOMAIN specs' : specs'[n].readable
    BY <2>3, <2>4, <2>5, <2>7
  <2>9. \A m, n \in DOMAIN specs' : specs'[m] = specs'[n] => m = n
    BY <2>3, <2>4, <2>5, <2>6
  <2>10. DOMAIN ordered' = {} /\ Len(ordered') = 0 /\ Len(ordered') <= Len(specs')
    BY <2>1, <2>2, <2>3
  <2> QED BY <1>1, <2>1, <2>3, <2>8, <2>9, <2>10 DEF FilesInv
<1> QED BY <1>2, <1>3

\* What is not sound is refused.
LEMMA ValidateFiles ==
    ASSUME RegistryInv, FilesInv, Validate, files' = files, step' = step, step = "loaded"
    PROVE  FilesInv'
<1>1. /\ Unread = {} /\ stage = "read" /\ UNCHANGED <<specs, ordered>> /\ ordered = <<>>
      /\ IF specs = <<>> \/ ~Definitions THEN stage' = "fatal" ELSE stage' = "register"
  BY DEF Validate, RegistryFails, RegistryInv
<1>2. (Definitions' <=> Definitions) /\ Unread' = Unread /\ (SoundTools' <=> SoundTools)
  BY <1>1 DEF Definitions, Unread, SoundTools
<1>3. DOMAIN ordered' = {} /\ Len(ordered') <= Len(specs')
  BY <1>1 DEF FilesInv
<1>4. ASSUME SoundTools PROVE specs # <<>> /\ Definitions
  <2>1. specs # <<>>
    <3>1. PICK h : h \in Handlers
      BY RegistryAssumption
    <3>2. PICK f \in files : TRUE
      BY <1>4, <3>1 DEF SoundTools
    <3> QED BY <1>1, <3>2, AllRead
  <2>2. ASSUME NEW n \in DOMAIN specs
        PROVE  Declared(specs[n].spec) /\ specs[n].spec.name.word # 0
    <3>1. specs[n] \in files /\ specs[n] \in ToolFiles
      BY <1>1, AllRead DEF FilesInv
    <3>2. Normalized(specs[n].spec.name) \in Handlers /\ Declared(specs[n].spec)
      BY <1>4, <3>1 DEF SoundTools
    <3>3. Normalized(specs[n].spec.name).word # 0
      BY <3>2, RegistryAssumption
    <3>4. specs[n].spec.name \in Spellings
      BY <3>1 DEF ToolFiles
    <3>5. \A s \in Spellings : Normalized(s).word = s.word
      BY DEF Spellings, Normalized
    <3> QED BY <3>2, <3>3, <3>4, <3>5
  <2>3. ASSUME NEW m \in DOMAIN specs, NEW n \in DOMAIN specs,
               Normalized(specs[m].spec.name) = Normalized(specs[n].spec.name)
        PROVE  m = n
    <3>1. specs[m] \in files /\ specs[n] \in files
      BY <1>1, AllRead
    <3>2. specs[m] = specs[n]
      BY <1>4, <2>3, <3>1 DEF SoundTools
    <3> QED BY <3>2 DEF FilesInv
  <2> QED BY <2>1, <2>2, <2>3 DEF Definitions
<1> QED BY <1>1, <1>2, <1>3, <1>4 DEF FilesInv

\* A specification that takes no handler is not sound.
LEMMA RegisterFiles ==
    ASSUME RegistryInv, FilesInv, Register, files' = files, step' = step, step = "loaded"
    PROVE  FilesInv'
<1> DEFINE n == Len(ordered) + 1
           name == Normalized(specs[n].spec.name)
<1>1. /\ stage = "register" /\ Len(ordered) < Len(specs) /\ specs' = specs
      /\ IF name \notin handlerByName \/ ~specs[n].spec.compiles THEN stage' = "fatal"
         ELSE ordered' = Append(ordered, Registration(n)) /\ stage' = stage
  BY DEF Register, RegistryFails, Registration
<1>2. /\ Matched /\ Len(ordered) \in Nat /\ DOMAIN ordered = 1 .. Len(ordered)
      /\ ordered \in Seq(Registrations)
  <2>1. Matched
    BY <1>1 DEF RegistryInv
  <2> QED BY <2>1, LenProperties DEF Matched
<1>3. /\ Unread = {} /\ specs # <<>> /\ Definitions
      /\ \A m \in DOMAIN ordered : ordered[m] = Registration(m) /\ specs[m].spec.compiles
  BY <1>1 DEF FilesInv
<1>4. Len(specs) \in Nat /\ DOMAIN specs = 1 .. Len(specs) /\ n \in DOMAIN specs /\ specs[n] \in files
  BY <1>1, <1>2, <1>3, AllRead
<1>5. /\ (Definitions' <=> Definitions) /\ Unread' = Unread /\ (SoundTools' <=> SoundTools)
      /\ \A m : Registration(m)' = Registration(m)
  BY <1>1 DEF Definitions, Unread, SoundTools, Registration
<1>6. CASE name \notin handlerByName \/ ~specs[n].spec.compiles
  <2>1. ASSUME ~specs[n].spec.compiles PROVE ~SoundTools
    BY <1>4, <2>1 DEF SoundTools
  <2>2. ASSUME name \notin handlerByName PROVE ~SoundTools
    <3>1. name \notin Taken
      <4> SUFFICES ASSUME NEW m \in DOMAIN ordered, ordered[m].handler = name PROVE FALSE
        BY DEF Taken
      <4>1. m \in DOMAIN specs /\ m # n
        BY <1>1, <1>2, <1>4
      <4>2. Normalized(specs[m].spec.name) = name
        BY <1>3 DEF Registration
      <4> QED BY <1>3, <1>4, <4>1, <4>2 DEF Definitions
    <3>2. name \notin Handlers
      BY <1>2, <2>2, <3>1 DEF Matched
    <3>3. \A f \in files : SoundTools => Normalized(f.spec.name) \in Handlers
      BY DEF SoundTools
    <3> QED BY <1>4, <3>2, <3>3
  <2>3. ~SoundTools
    BY <1>6, <2>1, <2>2
  <2>4. stage' = "fatal"
    BY <1>1, <1>6
  <2> QED BY <1>1, <1>5, <2>3, <2>4 DEF FilesInv
<1>7. CASE name \in handlerByName /\ specs[n].spec.compiles
  <2>1. ordered' = Append(ordered, Registration(n)) /\ stage' = stage /\ Registration(n) \in Registrations
    BY <1>1, <1>2, <1>7 DEF Registrations
  <2>2. specs[n].spec.compiles /\ n <= Len(specs)
    BY <1>1, <1>2, <1>4, <1>7
  <2> DEFINE reg == Registration(n)
  <2>3. Len(ordered') = n /\ DOMAIN ordered' = 1 .. n /\ ordered'[n] = reg
        /\ \A m \in 1 .. Len(ordered) : ordered'[m] = ordered[m]
    <3> HIDE DEF reg
    <3> QED BY <1>2, <2>1, AppendProperties, LenProperties DEF reg
  <2>4. \A m \in 1 .. n : m \in 1 .. Len(ordered) \/ m = n
    BY <1>2
  <2> HIDE DEF n, reg
  <2>5. \A m \in DOMAIN ordered' : ordered'[m] = Registration(m) /\ specs[m].spec.compiles
    BY <1>2, <1>3, <2>2, <2>3, <2>4 DEF reg
  <2>6. \A m \in DOMAIN ordered' : ordered'[m] = Registration(m)' /\ specs'[m].spec.compiles
    BY <1>1, <1>5, <2>5
  <2> QED BY <1>1, <1>3, <1>5, <2>1, <2>2, <2>3, <2>6 DEF FilesInv
<1> QED BY <1>6, <1>7

\* Handlers without a specification are refused.
LEMMA FinishFiles ==
    ASSUME RegistryInv, FilesInv, Finish, files' = files, step' = step, step = "loaded"
    PROVE  FilesInv'
<1>1. /\ stage = "register" /\ Len(ordered) = Len(specs) /\ UNCHANGED <<specs, ordered>>
      /\ IF handlerByName # {} THEN stage' = "fatal" ELSE stage' = "ready"
  BY DEF Finish, RegistryFails
<1>2. /\ (Definitions' <=> Definitions) /\ Unread' = Unread /\ (SoundTools' <=> SoundTools)
      /\ \A m : Registration(m)' = Registration(m)
  BY <1>1 DEF Definitions, Unread, SoundTools, Registration
<1>3. /\ Unread = {} /\ specs # <<>> /\ Definitions /\ Matched
      /\ \A m \in DOMAIN ordered : ordered[m] = Registration(m) /\ specs[m].spec.compiles
  BY <1>1 DEF FilesInv, RegistryInv
<1>4. handlerByName # {} => ~SoundTools
  <2> SUFFICES ASSUME NEW h \in handlerByName, SoundTools PROVE FALSE
    OBVIOUS
  <2>1. h \in Handlers /\ h \notin Taken
    BY <1>3 DEF Matched
  <2>2. PICK f \in files : h = Normalized(f.spec.name)
    BY <2>1 DEF SoundTools
  <2>3. PICK n \in DOMAIN specs : f = specs[n]
    BY <1>3, AllRead
  <2>4. n \in DOMAIN ordered
    <3>1. DOMAIN ordered = 1 .. Len(ordered) /\ DOMAIN specs = 1 .. Len(specs)
      BY <1>3, AllRead, LenProperties DEF Matched
    <3> QED BY <1>1, <3>1
  <2>5. ordered[n].handler = h
    BY <1>3, <2>2, <2>3, <2>4 DEF Registration
  <2> QED BY <2>1, <2>4, <2>5 DEF Taken
<1> QED BY <1>1, <1>2, <1>3, <1>4 DEF FilesInv

LEMMA FilesStep == CatalogInv /\ RegistryInv /\ FilesInv /\ [Next]_vars => FilesInv'
<1> SUFFICES ASSUME CatalogInv, RegistryInv, FilesInv, [Next]_vars PROVE FilesInv'
  OBVIOUS
<1>1. CASE UNCHANGED registryVars
  <2>1. step = "loaded" => step' = "loaded"
    BY DEF Next, LoadCatalog, LoadTools, Over, CatalogNext, Stat, NextEntry, EntryGone, Aggregate,
           NewService, vars, catalogVars
  <2>2. UNCHANGED <<files, stage, specs, ordered>>
    BY <1>1 DEF registryVars
  <2>3. /\ (Definitions' <=> Definitions) /\ Unread' = Unread /\ (SoundTools' <=> SoundTools)
        /\ \A m : Registration(m)' = Registration(m)
    BY <2>2 DEF Definitions, Unread, SoundTools, Registration
  <2> QED BY <2>1, <2>2, <2>3 DEF FilesInv
<1>2. CASE LoadTools
  <2>1. step = "loaded" /\ step' = step
    BY <1>2 DEF LoadTools, catalogVars
  <2>2. CASE ReadSpec
    BY <2>1, <2>2, ReadFiles DEF ReadSpec, RegistryFails
  <2>3. CASE Validate
    BY <2>1, <2>3, ValidateFiles DEF Validate, RegistryFails
  <2>4. CASE Register
    BY <2>1, <2>4, RegisterFiles DEF Register, RegistryFails
  <2>5. CASE Finish
    BY <2>1, <2>5, FinishFiles DEF Finish, RegistryFails
  <2> QED BY <1>2, <2>2, <2>3, <2>4, <2>5 DEF LoadTools, RegistryNext
<1> QED BY <1>1, <1>2 DEF Next, LoadCatalog, Over, vars

\* A registry that is ready has sound files.
LEMMA ReadyIsSound ==
    ASSUME RegistryInv, FilesInv, stage = "ready"
    PROVE  SoundTools
<1>1. /\ Unread = {} /\ Definitions /\ Matched /\ handlerByName = {} /\ Len(ordered) = Len(specs)
      /\ \A n \in DOMAIN ordered : ordered[n] = Registration(n) /\ specs[n].spec.compiles
      /\ \A n \in DOMAIN specs : specs[n].readable
  BY DEF FilesInv, RegistryInv
<1>2. DOMAIN ordered = DOMAIN specs
  BY <1>1, AllRead, LenProperties DEF Matched
<1>3. \A f \in files : f.readable /\ Declared(f.spec) /\ f.spec.compiles
  BY <1>1, <1>2, AllRead DEF Definitions
<1>4. \A f, g \in files : Normalized(f.spec.name) = Normalized(g.spec.name) => f = g
  <2> SUFFICES ASSUME NEW f \in files, NEW g \in files,
                      Normalized(f.spec.name) = Normalized(g.spec.name)
               PROVE  f = g
    OBVIOUS
  <2>1. PICK m \in DOMAIN specs : f = specs[m]
    BY <1>1, AllRead
  <2>2. PICK n \in DOMAIN specs : g = specs[n]
    BY <1>1, AllRead
  <2> QED BY <1>1, <2>1, <2>2 DEF Definitions
<1>5. {Normalized(f.spec.name) : f \in files} = Handlers
  <2>1. Taken = Handlers
    BY <1>1 DEF Matched
  <2>2. \A n \in DOMAIN specs : ordered[n].handler = Normalized(specs[n].spec.name) /\ specs[n] \in files
    BY <1>1, <1>2, AllRead DEF Registration
  <2>3. \A f \in files : \E n \in DOMAIN specs : f = specs[n]
    BY <1>1, AllRead
  <2> QED BY <1>2, <2>1, <2>2, <2>3 DEF Taken
<1> QED BY <1>3, <1>4, <1>5 DEF SoundTools

\* Connections that are loaded are sound.
LEMMA LoadedIsSound ==
    ASSUME CatalogInv, step = "loaded"
    PROVE  SoundPlace
<1>1. PlaceIs /\ Loaded
  BY DEF CatalogInv
<1>2. \A n \in DOMAIN place.entries :
        LET e == place.entries[n]
        IN  e.kind = "config" => e.file.readable /\ e.file.connections # <<>>
  BY <1>1, WrittenIs DEF Loaded, FilesGood, FileValid, Valid
<1>3. \A n \in DOMAIN Written : Sound(Written[n]) \/ Overlooked(Written[n])
  <2>1. \A n \in DOMAIN Written : Written[n] \in ConnectionConfigs
    BY <1>1, WrittenIs, LenProperties, ElementOfSeq
  <2> QED BY <1>1, <2>1, SoundIsAcceptable DEF Loaded, Valid
<1>4. IsInjective([n \in DOMAIN Written |-> Key(Written[n])])
  BY <1>1 DEF Loaded, Valid, IsInjective
<1> QED BY <1>1, <1>2, <1>3, <1>4 DEF SoundPlace, Loaded, Valid

\* The server that starts has all its files, and they are sound (SQLite's
\* needless credentials beside a dsn overlooked); one that gives up has found
\* one that is not, or has not found the file it was reading (main.go 31-62).
THEOREM SoundFilesStart == Spec => []StartsOnSoundFiles
<1>1. Init => RegistryInv
  BY EmptyMatched DEF Init, RegistryInit, RegistryInv
<1>2. Init => FilesInv
  <2> SUFFICES ASSUME Init PROVE FilesInv
    OBVIOUS
  <2>1. files \in SUBSET ToolFiles /\ specs = <<>> /\ ordered = <<>> /\ stage = "read"
    BY StartupAssumption DEF Init, RegistryInit
  <2>2. specs \in Seq(files) /\ DOMAIN specs = {} /\ DOMAIN ordered = {} /\ Len(ordered) <= Len(specs)
    BY <2>1, EmptySeq
  <2> QED BY <2>1, <2>2 DEF FilesInv
<1>3. CatalogInv /\ RegistryInv /\ FilesInv => StartsOnSoundFiles
  <2> SUFFICES ASSUME CatalogInv, RegistryInv, FilesInv PROVE StartsOnSoundFiles
    OBVIOUS
  <2>1. stage = "ready" => SoundPlace /\ SoundTools
    BY LoadedIsSound, ReadyIsSound DEF FilesInv
  <2>2. stage = "fatal" => ~SoundTools
    BY DEF FilesInv
  <2>3. step = "fatal" => ~SoundPlace \/ vanished = entry + 1
    BY DEF CatalogInv
  <2> QED BY <2>1, <2>2, <2>3 DEF StartsOnSoundFiles
<1> QED BY <1>1, <1>2, <1>3, CatalogStart, CatalogStep, StartupStep, FilesStep, PTL DEF Spec
=============================================================================
