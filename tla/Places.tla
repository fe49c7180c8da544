-------------------------------- MODULE Places --------------------------------
(***************************************************************************)
(* Parts of a sequence, by the places of their elements in it.             *)
(***************************************************************************)
EXTENDS Integers, FiniteSets

\* Which of the numbers ns, in their order, n is.
Rank(ns, n) == Cardinality({m \in ns : m <= n})

\* The numbers ns in their order.
Ordered(ns) == [i \in 1 .. Cardinality(ns) |-> CHOOSE n \in ns : Rank(ns, n) = i]

\* The elements of s at the places ns, in the order of s.
Chosen(s, ns) == [i \in 1 .. Cardinality(ns) |-> s[Ordered(ns)[i]]]
=============================================================================
