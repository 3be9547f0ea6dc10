---- MODULE PermuteVector ----
(***************************************************************************)
(* The permute vectors of layout inference, counted from one: entry i is   *)
(* the source axis that is axis i of the permuted data.  Reversed, Added   *)
(* and MapAxis are what the code calls Reverse, Add and MapAxis; Reduced   *)
(* and Stacked are the vectors it computes for the result of an operation  *)
(* that drops axes, or inserts one.                                        *)
(***************************************************************************)
EXTENDS Naturals, Sequences, FiniteSets

PermuteVectors(n) ==
  {p \in [1 .. n -> 1 .. n] : \A i, j \in 1 .. n : p[i] = p[j] => i = j}

Aligned(n) == [i \in 1 .. n |-> i]
IsAligned(p) == \A i \in 1 .. Len(p) : p[i] = i

Reversed(p) == [a \in 1 .. Len(p) |-> CHOOSE i \in 1 .. Len(p) : p[i] = a]

\* Data permuted by p and then by q.
Added(p, q) == [i \in 1 .. Len(q) |-> p[q[i]]]

\* Where the permuted data has the source axis a.
MapAxis(p, a) == CHOOSE i \in 1 .. Len(p) : p[i] = a

\* The vector of the result when the positions in gone are reduced: an axis that
\* is left is counted down by the reduced axes below it.
Reduced(p, gone) ==
  LET left == (1 .. Len(p)) \ gone
      At(j) == CHOOSE i \in left : Cardinality({k \in left : k <= i}) = j
  IN  [j \in 1 .. Cardinality(left) |->
         p[At(j)] - Cardinality({i \in gone : p[i] < p[At(j)]})]

\* The vector of the result when an axis is inserted: before the data's axis of
\* that number, and as the source's axis of that number.
Stacked(p, axis) ==
  IF IsAligned(p) THEN Aligned(Len(p) + 1)
  ELSE [j \in 1 .. Len(p) + 1 |->
         IF j = axis THEN axis
         ELSE LET a == p[IF j < axis THEN j ELSE j - 1]
              IN  IF a < axis THEN a ELSE a + 1]
====
