---- MODULE LayoutInferenceProofs ----
(***************************************************************************)
(* Layout inference, for source graphs of any size and any mix of          *)
(* operations, layouts and ranks: the permute vector of a tensor that is   *)
(* read tells how the data of its counterpart lies, the walk leaves no     *)
(* operation out, and every output of the new graph is written, plain.     *)
(***************************************************************************)
EXTENDS LayoutInference, FiniteSetTheorems, SequenceTheorems, WellFoundedInduction, TLAPS

\* The constants GetConstantInputs takes have a vector.
ConstantsKnown ==
  \A o \in Ops : \A i \in ConstantInputsTensor(src_graph, o) : tensor_pv[Op(o).ins[i]] # Unset

\* An output of the new graph is written by the counterpart of its producer.
WrittenByVisited ==
  \A t \in src_graph.outputs :
    out_lies[t] # Unset => \E o \in op_visited : t \in Range(Op(o).outs)

\* The ways data of n axes lies.
Layouts(n) == PermuteVectors(n) \cup {Garbage}

\* A vector is one of the tensor's rank, and what is read lies in some way.
LiesSomehow(t) ==
  tensor_pv[t] # Unset =>
    /\ tensor_pv[t] \in PermuteVectors(src_graph.rank[t])
    /\ IsRead(t) => lies[t] \in Layouts(src_graph.rank[t])

\* An output is written when its producer is handled, and mapped to another tensor only
\* afterwards.
WrittenWhenMade(t) ==
  /\ t \notin on_output => out_lies[t] # Unset
  /\ \A o \in op_visited : t \in Range(Op(o).outs) => out_lies[t] # Unset

VectorTells(t) == tensor_pv[t] # Unset /\ IsRead(t) => lies[t] = tensor_pv[t]

WrittenPlain(t) == out_lies[t] # Unset => out_lies[t] = Plain(t)

\* What an operation needs is there once t is: a constant, an input, or the result of an
\* operation that is handled.
Available(t) ==
  \/ IsConst(t) \/ t \in Range(src_graph.inputs)
  \/ \E o \in op_visited : t \in Range(Op(o).outs)

\* The walk has o still before it.
Ahead(o) == o \in Range(consumers) \/ Range(Op(o).ins) \cap Range(tensor_queue) # {}

\* What is available has a vector, and an operation that has all it needs is not lost.
Walk ==
  /\ tensor_queue \in Seq(Tensor) /\ consumers \in Seq(Ops)
  /\ \A t \in Tensor : Available(t) /\ ~IsConst(t) => tensor_pv[t] # Unset
  /\ \A o \in ToHandle \ op_visited : (\A t \in Range(Op(o).ins) : Available(t)) => Ahead(o)

IInv ==
  /\ src_graph \in Graphs /\ op_visited \subseteq ToHandle
  /\ ~crashed => Walk
  /\ crashed => \E o \in op_visited : Unguided(o)
  /\ ConstantsKnown /\ WrittenByVisited
  /\ \A t \in Tensor : LiesSomehow(t)
  /\ ~crashed /\ "remapped" \notin slips => \A t \in src_graph.outputs : WrittenWhenMade(t)
  /\ slips = {} =>
       /\ \A t \in Tensor : VectorTells(t)
       /\ \A t \in src_graph.outputs : WrittenPlain(t)

-----------------------------------------------------------------------------
\* Permute vectors.

LEMMA FunctionIsSeq ==
  ASSUME NEW n \in Nat, NEW S, NEW f \in [1 .. n -> S]
  PROVE  f \in Seq(S) /\ Len(f) = n
  <1>1. f \in Seq(S)
    BY SeqDef, Zenon
  <1>2. PICK m \in Nat : m = Len(f) /\ DOMAIN f = 1 .. m
    BY <1>1, LenProperties
  <1>3. 1 .. m = 1 .. n
    BY <1>2
  <1>4. m <= n /\ n <= m
    BY <1>3
  <1> QED BY <1>1, <1>2, <1>4

LEMMA VectorIsSeq ==
  ASSUME NEW n \in Nat, NEW p \in PermuteVectors(n)
  PROVE  /\ p \in [1 .. n -> 1 .. n] /\ DOMAIN p = 1 .. n
         /\ p \in Seq(1 .. n) /\ Len(p) = n
  <1>1. p \in [1 .. n -> 1 .. n]
    BY DEF PermuteVectors
  <1> QED BY <1>1, FunctionIsSeq

\* Every source axis is somewhere.
LEMMA EveryAxisIsThere ==
  ASSUME NEW n \in Nat, NEW p \in PermuteVectors(n), NEW a \in 1 .. n
  PROVE  \E i \in 1 .. n : p[i] = a
  <1> DEFINE S == 1 .. n
  <1>1. p \in Injection(S, S)
    BY DEF PermuteVectors, Injection, IsInjective
  <1>2. IsFiniteSet(S)
    BY FS_Interval
  <1> HIDE DEF S
  <1>3. p \in Surjection(S, S)
    BY <1>1, <1>2, FS_Injection
  <1> QED BY <1>3 DEF Surjection, S

LEMMA MapAxisFinds ==
  ASSUME NEW n \in Nat, NEW p \in PermuteVectors(n), NEW a \in 1 .. n
  PROVE  /\ MapAxis(p, a) \in 1 .. n /\ p[MapAxis(p, a)] = a
         /\ \A i \in 1 .. n : p[i] = a => i = MapAxis(p, a)
  <1>1. \E i \in 1 .. n : p[i] = a
    BY EveryAxisIsThere
  <1>2. Len(p) = n
    BY VectorIsSeq
  <1>3. MapAxis(p, a) \in 1 .. n /\ p[MapAxis(p, a)] = a
    BY <1>1, <1>2 DEF MapAxis
  <1> QED BY <1>3 DEF PermuteVectors

\* Reverse gives the inverse.
LEMMA ReversedIsInverse ==
  ASSUME NEW n \in Nat, NEW p \in PermuteVectors(n)
  PROVE  /\ Reversed(p) \in PermuteVectors(n)
         /\ \A a \in 1 .. n : p[Reversed(p)[a]] = a
  <1>1. Len(p) = n
    BY VectorIsSeq
  <1>2. Reversed(p) = [a \in 1 .. n |-> MapAxis(p, a)]
    BY <1>1 DEF Reversed, MapAxis
  <1>3. \A a \in 1 .. n : Reversed(p)[a] \in 1 .. n /\ p[Reversed(p)[a]] = a
    BY <1>2, MapAxisFinds
  <1>4. Reversed(p) \in [1 .. n -> 1 .. n]
    BY <1>2, <1>3
  <1>5. \A a, b \in 1 .. n : Reversed(p)[a] = Reversed(p)[b] => a = b
    BY <1>3
  <1> QED BY <1>3, <1>4, <1>5 DEF PermuteVectors

LEMMA AddedIsVector ==
  ASSUME NEW n \in Nat, NEW p \in PermuteVectors(n), NEW q \in PermuteVectors(n)
  PROVE  /\ Added(p, q) \in PermuteVectors(n)
         /\ Added(p, q) = [i \in 1 .. n |-> p[q[i]]]
  <1>1. Added(p, q) = [i \in 1 .. n |-> p[q[i]]]
    BY VectorIsSeq DEF Added
  <1>2. /\ p \in [1 .. n -> 1 .. n] /\ q \in [1 .. n -> 1 .. n]
        /\ \A i, j \in 1 .. n : p[i] = p[j] => i = j
        /\ \A i, j \in 1 .. n : q[i] = q[j] => i = j
    BY DEF PermuteVectors
  <1>3. Added(p, q) \in [1 .. n -> 1 .. n]
    BY <1>1, <1>2
  <1>4. \A i, j \in 1 .. n : Added(p, q)[i] = Added(p, q)[j] => i = j
    <2>1. \A i \in 1 .. n : Added(p, q)[i] = p[q[i]] /\ q[i] \in 1 .. n
      BY <1>1, <1>2
    <2> QED BY <1>2, <2>1, Zenon
  <1> QED BY <1>1, <1>3, <1>4 DEF PermuteVectors

LEMMA AlignedIsVector ==
  ASSUME NEW n \in Nat
  PROVE  /\ Aligned(n) \in PermuteVectors(n) /\ Len(Aligned(n)) = n
         /\ \A q \in PermuteVectors(n) : Added(Aligned(n), q) = q
         /\ \A q \in PermuteVectors(n) : IsAligned(q) <=> q = Aligned(n)
  <1>1. Aligned(n) \in PermuteVectors(n)
    <2>1. Aligned(n) \in [1 .. n -> 1 .. n]
      BY DEF Aligned
    <2>2. \A i, j \in 1 .. n : Aligned(n)[i] = Aligned(n)[j] => i = j
      BY DEF Aligned
    <2> QED BY <2>1, <2>2 DEF PermuteVectors
  <1>2. ASSUME NEW q \in PermuteVectors(n)
        PROVE  Added(Aligned(n), q) = q /\ (IsAligned(q) <=> q = Aligned(n))
    <2>1. q \in [1 .. n -> 1 .. n] /\ Len(q) = n
      BY VectorIsSeq
    <2>2. Added(Aligned(n), q) = [i \in 1 .. n |-> q[i]]
      BY <2>1 DEF Added, Aligned
    <2>3. q = [i \in 1 .. n |-> q[i]]
      BY <2>1
    <2>4. IsAligned(q) => q = Aligned(n)
      BY <2>1, <2>3 DEF IsAligned, Aligned
    <2>5. q = Aligned(n) => IsAligned(q)
      BY <2>1 DEF IsAligned, Aligned
    <2> QED BY <2>2, <2>3, <2>4, <2>5
  <1> QED BY <1>1, <1>2, VectorIsSeq

\* The transpose from p to q leads data that lies as p to q, and the one that undoes p
\* makes it plain.
LEMMA ChangeLeads ==
  ASSUME NEW n \in Nat, NEW p \in PermuteVectors(n), NEW q \in PermuteVectors(n)
  PROVE  /\ Added(Reversed(p), q) \in PermuteVectors(n)
         /\ Permuted(p, Added(Reversed(p), q)) = q
         /\ Permuted(p, Reversed(p)) = Aligned(n)
  <1> DEFINE r == Reversed(p)
             c == Added(r, q)
  <1>1. r \in PermuteVectors(n) /\ \A a \in 1 .. n : p[r[a]] = a
    BY ReversedIsInverse
  <1>2. c \in PermuteVectors(n) /\ c = [i \in 1 .. n |-> r[q[i]]]
    BY <1>1, AddedIsVector
  <1>3. Len(p) = n /\ Len(r) = n /\ Len(c) = n /\ q \in [1 .. n -> 1 .. n]
    BY <1>1, <1>2, VectorIsSeq
  <1> HIDE DEF r, c
  <1>4. Added(p, c) = q
    <2>1. Added(p, c) = [i \in 1 .. n |-> p[c[i]]]
      BY <1>2, AddedIsVector
    <2>2. \A i \in 1 .. n : p[c[i]] = q[i]
      BY <1>1, <1>2, <1>3
    <2>3. q = [i \in 1 .. n |-> q[i]]
      BY <1>3
    <2> QED BY <2>1, <2>2, <2>3
  <1>5. Added(p, r) = Aligned(n)
    <2>1. Added(p, r) = [i \in 1 .. n |-> p[r[i]]]
      BY <1>1, AddedIsVector
    <2> QED BY <2>1, <1>1 DEF Aligned
  <1> QED BY <1>2, <1>3, <1>4, <1>5 DEF Permuted, c, r

LEMMA VectorIsNoMark ==
  ASSUME NEW n \in Nat \ {0}
  PROVE  /\ \A p \in PermuteVectors(n) : p # Unset /\ p # Garbage
         /\ \A d \in Layouts(n) : d # Unset
  <1>1. ASSUME NEW p \in PermuteVectors(n) PROVE p # Unset /\ p # Garbage
    <2>1. p[1] \in 1 .. n /\ Len(p) = n
      BY VectorIsSeq
    <2> QED BY <2>1 DEF Unset, Garbage
  <1>2. Garbage # Unset
    BY DEF Unset, Garbage
  <1> QED BY <1>1, <1>2 DEF Layouts

\* Data that lies in some way still does when it is transposed.
LEMMA PermutedSomehow ==
  ASSUME NEW n \in Nat, NEW d \in Layouts(n), NEW q \in PermuteVectors(n)
  PROVE  Permuted(d, q) \in Layouts(n)
  <1>1. Len(q) = n
    BY VectorIsSeq
  <1>2. CASE d \in PermuteVectors(n)
    BY <1>1, <1>2, VectorIsSeq, AddedIsVector DEF Permuted, Layouts
  <1>3. CASE d = Garbage /\ n = 1
    <2>1. Added(d, q) = [i \in 1 .. 1 |-> d[q[i]]]
      BY <1>1, <1>3 DEF Added
    <2>2. q[1] = 1
      BY <1>3, VectorIsSeq
    <2>3. \A i \in 1 .. 1 : d[q[i]] = 0
      BY <1>3, <2>2 DEF Garbage
    <2>4. Added(d, q) = [i \in 1 .. 1 |-> 0]
      BY <2>1, <2>3
    <2>5. Garbage = [i \in 1 .. 1 |-> 0]
      BY DEF Garbage
    <2> QED BY <2>4, <2>5 DEF Permuted, Layouts
  <1>4. CASE d = Garbage /\ n # 1
    BY <1>1, <1>4 DEF Permuted, Layouts, Garbage
  <1> QED BY <1>2, <1>3, <1>4 DEF Layouts

\* The numbers from 1 on that are left without one of them, counted up to i.
LEMMA CountWithout ==
  ASSUME NEW n \in Nat, NEW gone \in 1 .. n, NEW i \in 1 .. n, i # gone
  PROVE  Cardinality({k \in (1 .. n) \ {gone} : k <= i}) = IF i < gone THEN i ELSE i - 1
  <1> DEFINE S == 1 .. i
  <1>1. {k \in (1 .. n) \ {gone} : k <= i} = S \ {gone}
    OBVIOUS
  <1>2. IsFiniteSet(S) /\ Cardinality(S) = i
    BY FS_Interval
  <1>3. gone \in S <=> ~(i < gone)
    OBVIOUS
  <1> HIDE DEF S
  <1>4. Cardinality(S \ {gone}) = IF gone \in S THEN Cardinality(S) - 1 ELSE Cardinality(S)
    BY <1>2, FS_RemoveElement
  <1> QED BY <1>1, <1>2, <1>3, <1>4

\* InsertAt moves what is behind by one place.
LEMMA Inserted ==
  ASSUME NEW S, NEW n \in Nat, NEW seq \in Seq(S), Len(seq) = n,
         NEW at \in 1 .. n + 1, NEW e \in S
  PROVE  InsertAt(seq, at, e) =
           [i \in 1 .. n + 1 |-> IF i < at THEN seq[i] ELSE IF i = at THEN e ELSE seq[i - 1]]
  <1> DEFINE front == SubSeq(seq, 1, at - 1)
             head == front \o <<e>>
             rear == SubSeq(seq, at, n)
             whole == head \o rear
  <1>1. \A i \in 1 .. n : seq[i] \in S
    BY ElementOfSeq
  <1>2. front \in Seq(S) /\ Len(front) = at - 1 /\ \A i \in 1 .. at - 1 : front[i] = seq[i]
    BY <1>1, SubSeqProperties
  <1>3. /\ rear \in Seq(S) /\ Len(rear) = n - at + 1
        /\ \A i \in 1 .. n - at + 1 : rear[i] = seq[at + i - 1]
    BY <1>1, SubSeqProperties
  <1>4. <<e>> \in Seq(S) /\ Len(<<e>>) = 1 /\ <<e>>[1] = e
    OBVIOUS
  <1> HIDE DEF front, rear
  <1>5. /\ head \in Seq(S) /\ Len(head) = at
        /\ \A i \in 1 .. at : head[i] = IF i < at THEN seq[i] ELSE e
    BY <1>2, <1>4, ConcatProperties
  <1> HIDE DEF head
  <1>6. /\ whole \in Seq(S) /\ Len(whole) = n + 1
        /\ \A i \in 1 .. n + 1 : whole[i] = IF i <= at THEN head[i] ELSE rear[i - at]
    BY <1>3, <1>5, ConcatProperties
  <1> HIDE DEF whole
  <1>7. ASSUME NEW i \in 1 .. n + 1
        PROVE  whole[i] = IF i < at THEN seq[i] ELSE IF i = at THEN e ELSE seq[i - 1]
    <2>1. CASE i <= at
      BY <1>5, <1>6, <2>1
    <2>2. CASE at < i
      <3>1. i - at \in 1 .. n - at + 1 /\ at + (i - at) - 1 = i - 1
        BY <2>2
      <3>2. rear[i - at] = seq[i - 1]
        BY <1>3, <3>1
      <3>3. whole[i] = rear[i - at]
        BY <1>6, <2>2
      <3> QED BY <2>2, <3>2, <3>3
    <2> QED BY <2>1, <2>2
  <1>8. whole = [i \in 1 .. n + 1 |-> whole[i]]
    BY <1>6, LenProperties
  <1>9. InsertAt(seq, at, e) = whole
    BY DEF InsertAt, whole, head, front, rear
  <1> QED BY <1>7, <1>8, <1>9

LEMMA Removed ==
  ASSUME NEW S, NEW n \in Nat, NEW seq \in Seq(S), Len(seq) = n, NEW at \in 1 .. n
  PROVE  RemoveAt(seq, at) = [i \in 1 .. n - 1 |-> IF i < at THEN seq[i] ELSE seq[i + 1]]
  <1> DEFINE front == SubSeq(seq, 1, at - 1)
             rear == SubSeq(seq, at + 1, n)
             whole == front \o rear
  <1>1. \A i \in 1 .. n : seq[i] \in S
    BY ElementOfSeq
  <1>2. front \in Seq(S) /\ Len(front) = at - 1 /\ \A i \in 1 .. at - 1 : front[i] = seq[i]
    BY <1>1, SubSeqProperties
  <1>3. /\ rear \in Seq(S) /\ Len(rear) = n - at
        /\ \A i \in 1 .. n - at : rear[i] = seq[at + i]
    BY <1>1, SubSeqProperties
  <1> HIDE DEF front, rear
  <1>4. /\ whole \in Seq(S) /\ Len(whole) = n - 1
        /\ \A i \in 1 .. n - 1 : whole[i] = IF i <= at - 1 THEN front[i] ELSE rear[i - (at - 1)]
    <2>1. /\ whole \in Seq(S) /\ Len(whole) = Len(front) + Len(rear)
          /\ \A i \in 1 .. Len(front) + Len(rear) :
               whole[i] = IF i <= Len(front) THEN front[i] ELSE rear[i - Len(front)]
      BY <1>2, <1>3, ConcatProperties
    <2>2. Len(front) + Len(rear) = n - 1 /\ Len(front) = at - 1
      BY <1>2, <1>3
    <2> QED BY <2>1, <2>2
  <1> HIDE DEF whole
  <1>5. ASSUME NEW i \in 1 .. n - 1
        PROVE  whole[i] = IF i < at THEN seq[i] ELSE seq[i + 1]
    <2>1. CASE i < at
      BY <1>2, <1>4, <2>1
    <2>2. CASE at <= i
      <3>1. i - (at - 1) \in 1 .. n - at /\ at + (i - (at - 1)) = i + 1
        BY <2>2
      <3>2. rear[i - (at - 1)] = seq[i + 1]
        BY <1>3, <3>1
      <3>3. whole[i] = rear[i - (at - 1)]
        BY <1>4, <2>2
      <3> QED BY <2>2, <3>2, <3>3
    <2> QED BY <2>1, <2>2
  <1>6. whole = [i \in 1 .. n - 1 |-> whole[i]]
    BY <1>4, LenProperties
  <1>7. RemoveAt(seq, at) = whole
    BY DEF RemoveAt, whole, front, rear
  <1> QED BY <1>5, <1>6, <1>7

\* The vector Stack computes is the one by which the stacked data lies.
LEMMA StackedTells ==
  ASSUME NEW n \in Nat \ {0}, NEW p \in PermuteVectors(n), NEW axis \in 1 .. n + 1
  PROVE  /\ Stacked(p, axis) \in PermuteVectors(n + 1)
         /\ InsertAt([i \in DOMAIN p |-> IF p[i] < axis THEN p[i] ELSE p[i] + 1], axis, axis)
              = Stacked(p, axis)
  <1> DEFINE Number(a) == IF a < axis THEN a ELSE a + 1
             S == 1 .. n + 1
             s == [i \in 1 .. n |-> Number(p[i])]
             q == [j \in S |-> IF j = axis THEN axis
                               ELSE Number(p[IF j < axis THEN j ELSE j - 1])]
  <1>1. DOMAIN p = 1 .. n /\ Len(p) = n /\ \A i \in 1 .. n : p[i] \in 1 .. n
    BY VectorIsSeq
  <1>2. \A a \in 1 .. n : Number(a) \in S /\ Number(a) # axis
    OBVIOUS
  <1>3. \A a, b \in 1 .. n : Number(a) = Number(b) => a = b
    OBVIOUS
  <1>4. q \in PermuteVectors(n + 1)
    <2>1. ASSUME NEW j \in S PROVE q[j] \in S
      <3>1. CASE j = axis
        BY <3>1
      <3>2. ASSUME j # axis PROVE \E a \in 1 .. n : q[j] = Number(p[a])
        BY <3>2
      <3> QED BY <1>1, <1>2, <3>1, <3>2
    <2>2. ASSUME NEW i \in S, NEW j \in S, q[i] = q[j] PROVE i = j
      <3> DEFINE At(k) == IF k < axis THEN k ELSE k - 1
      <3>1. \A k \in S : k # axis => At(k) \in 1 .. n /\ q[k] = Number(p[At(k)])
        OBVIOUS
      <3>2. q[axis] = axis
        OBVIOUS
      <3>3. \A k \in S : q[k] = axis => k = axis
        BY <1>1, <1>2, <3>1
      <3>4. CASE i # axis /\ j # axis
        <4>1. Number(p[At(i)]) = Number(p[At(j)])
          BY <2>2, <3>1, <3>4
        <4>2. p[At(i)] = p[At(j)]
          BY <1>1, <1>3, <3>1, <3>4, <4>1
        <4>3. At(i) = At(j)
          BY <3>1, <3>4, <4>2 DEF PermuteVectors
        <4> QED BY <3>4, <4>3
      <3> QED BY <2>2, <3>2, <3>3, <3>4
    <2>3. q \in [S -> S]
      BY <2>1
    <2> QED BY <2>2, <2>3 DEF PermuteVectors
  <1>5. Stacked(p, axis) = q
    <2>1. CASE IsAligned(p)
      <3>1. \A i \in 1 .. n : p[i] = i
        BY <1>1, <2>1 DEF IsAligned
      <3>2. \A j \in S : q[j] = j
        BY <3>1
      <3>3. Stacked(p, axis) = [j \in S |-> j]
        BY <1>1, <2>1 DEF Stacked, Aligned
      <3> QED BY <3>2, <3>3
    <2>2. CASE ~IsAligned(p)
      BY <1>1, <2>2 DEF Stacked
    <2> QED BY <2>1, <2>2
  <1>6. InsertAt(s, axis, axis) = q
    <2>1. \A i \in 1 .. n : s[i] \in S
      BY <1>1, <1>2
    <2>2. s \in [1 .. n -> S] /\ n \in Nat
      BY <2>1
    <2>3. \A j \in S : q[j] = IF j < axis THEN s[j] ELSE IF j = axis THEN axis ELSE s[j - 1]
      OBVIOUS
    <2>4. q = [j \in S |-> q[j]]
      OBVIOUS
    <2>5. axis \in S
      OBVIOUS
    <2>6. DOMAIN s = 1 .. n
      OBVIOUS
    <2> HIDE DEF s, q
    <2>7. s \in Seq(S) /\ Len(s) = n
      BY <2>2, FunctionIsSeq
    <2>8. InsertAt(s, axis, axis) =
            [i \in 1 .. n + 1 |-> IF i < axis THEN s[i] ELSE IF i = axis THEN axis ELSE s[i - 1]]
      BY <2>5, <2>7, Inserted
    <2> QED BY <2>3, <2>4, <2>8
  <1>7. s = [i \in DOMAIN p |-> IF p[i] < axis THEN p[i] ELSE p[i] + 1]
    BY <1>1
  <1> QED BY <1>4, <1>5, <1>6, <1>7

\* The vector Reduce computes, without keep_dim, is the one by which the reduced data lies.
LEMMA ReducedTells ==
  ASSUME NEW n \in Nat \ {0}, NEW p \in PermuteVectors(n), NEW axis \in 1 .. n,
         NEW at, at = MapAxis(p, axis)
  PROVE  /\ Reduced(p, {at}) \in PermuteVectors(n - 1)
         /\ [i \in DOMAIN RemoveAt(p, at) |->
               Cardinality({b \in Range(p) \ {axis} : b <= RemoveAt(p, at)[i]})]
              = Reduced(p, {at})
  <1> DEFINE Pos(j) == IF j < at THEN j ELSE j + 1
             Number(a) == IF a < axis THEN a ELSE a - 1
             S == 1 .. n - 1
             q == [j \in S |-> Number(p[Pos(j)])]
             left == (1 .. n) \ {at}
             Count(i) == Cardinality({k \in left : k <= i})
             At(j) == CHOOSE i \in left : Count(i) = j
  <1>1. /\ p \in Seq(1 .. n) /\ DOMAIN p = 1 .. n /\ Len(p) = n
        /\ \A i \in 1 .. n : p[i] \in 1 .. n
        /\ \A i, j \in 1 .. n : p[i] = p[j] => i = j
    BY VectorIsSeq DEF PermuteVectors
  <1>2. at \in 1 .. n /\ p[at] = axis
    BY MapAxisFinds
  <1>3. ASSUME NEW j \in S
        PROVE  Pos(j) \in left /\ p[Pos(j)] \in 1 .. n /\ p[Pos(j)] # axis
    <2>1. Pos(j) \in left
      BY <1>2
    <2> HIDE DEF Pos
    <2> QED BY <2>1, <1>1, <1>2
  <1>4. \A i, j \in S : Pos(i) = Pos(j) => i = j
    BY <1>2
  <1>5. q \in PermuteVectors(n - 1)
    <2>1. ASSUME NEW j \in S PROVE q[j] \in S
      <3>1. PICK a \in 1 .. n : a = p[Pos(j)] /\ a # axis
        BY <1>3
      <3>2. Number(a) \in S
        BY <3>1
      <3> QED BY <3>1, <3>2
    <2>2. ASSUME NEW i \in S, NEW j \in S, q[i] = q[j] PROVE i = j
      <3>1. PICK a \in 1 .. n : a = p[Pos(i)] /\ a # axis
        BY <1>3
      <3>2. PICK b \in 1 .. n : b = p[Pos(j)] /\ b # axis
        BY <1>3
      <3>3. Number(a) = Number(b)
        BY <2>2, <3>1, <3>2
      <3>4. a = b
        BY <3>1, <3>2, <3>3
      <3> HIDE DEF Pos
      <3> QED BY <3>1, <3>2, <3>4, <1>1, <1>3, <1>4
    <2>3. q \in [S -> S]
      BY <2>1
    <2> QED BY <2>2, <2>3 DEF PermuteVectors
  <1>6. Cardinality(left) = n - 1
    <2>1. IsFiniteSet(1 .. n) /\ Cardinality(1 .. n) = n
      BY FS_Interval
    <2> QED BY <1>2, <2>1, FS_RemoveElement
  <1>7. ASSUME NEW j \in S PROVE At(j) = Pos(j)
    <2>1. \A i \in left : Count(i) = IF i < at THEN i ELSE i - 1
      BY <1>2, CountWithout
    <2> HIDE DEF Count
    <2>2. Pos(j) \in left /\ Count(Pos(j)) = j
      BY <1>2, <1>3, <2>1
    <2>3. \A i \in left : Count(i) = j => i = Pos(j)
      BY <1>2, <2>1
    <2> HIDE DEF Pos, left
    <2> QED BY <2>2, <2>3
  <1>8. Reduced(p, {at}) = q
    <2>1. ASSUME NEW j \in S
          PROVE  p[At(j)] - Cardinality({i \in {at} : p[i] < p[At(j)]}) = q[j]
      <3>1. PICK a \in 1 .. n : a = p[Pos(j)] /\ a # axis
        BY <1>3
      <3>2. p[At(j)] = a /\ q[j] = Number(a)
        BY <1>7, <3>1
      <3>3. {i \in {at} : p[i] < a} = IF axis < a THEN {at} ELSE {}
        BY <1>2
      <3>4. Cardinality({i \in {at} : p[i] < a}) = IF axis < a THEN 1 ELSE 0
        BY <3>3, FS_Singleton, FS_EmptySet
      <3> HIDE DEF At, q
      <3> QED BY <3>1, <3>2, <3>4
    <2>2. Reduced(p, {at}) =
            [j \in 1 .. Cardinality(left) |->
               p[At(j)] - Cardinality({i \in {at} : p[i] < p[At(j)]})]
      BY <1>1 DEF Reduced
    <2> HIDE DEF At, left
    <2> QED BY <1>6, <2>1, <2>2
  <1>9. RemoveAt(p, at) = [i \in S |-> p[Pos(i)]]
    <2>1. RemoveAt(p, at) = [i \in 1 .. n - 1 |-> IF i < at THEN p[i] ELSE p[i + 1]]
      <3>1. PICK T : T = 1 .. n
        OBVIOUS
      <3>2. p \in Seq(T) /\ Len(p) = n
        BY <1>1, <3>1
      <3>3. at \in 1 .. n /\ n \in Nat
        BY <1>2
      <3> QED BY <3>2, <3>3, Removed
    <2> QED BY <2>1
  <1>10. ASSUME NEW a \in 1 .. n, a # axis
         PROVE  Cardinality({b \in Range(p) \ {axis} : b <= a}) = Number(a)
    <2>1. Range(p) = 1 .. n
      <3>1. \A b \in 1 .. n : \E i \in 1 .. n : p[i] = b
        BY EveryAxisIsThere
      <3>2. Range(p) = {p[i] : i \in 1 .. n}
        BY <1>1 DEF Range
      <3>3. \A i \in 1 .. n : p[i] \in 1 .. n
        BY <1>1
      <3> QED BY <3>1, <3>2, <3>3
    <2> QED BY <2>1, <1>10, CountWithout
  <1>11. [i \in DOMAIN RemoveAt(p, at) |->
            Cardinality({b \in Range(p) \ {axis} : b <= RemoveAt(p, at)[i]})] = q
    <2>1. \A i \in S : RemoveAt(p, at)[i] = p[Pos(i)]
      BY <1>9
    <2>2. \A i \in S : Cardinality({b \in Range(p) \ {axis} : b <= RemoveAt(p, at)[i]}) = q[i]
      BY <1>3, <1>10, <2>1
    <2>3. DOMAIN RemoveAt(p, at) = S
      BY <1>9
    <2> QED BY <2>2, <2>3
  <1> QED BY <1>5, <1>8, <1>11

-----------------------------------------------------------------------------
\* The source graph.

LEMMA GraphFacts ==
  ASSUME src_graph \in Graphs
  PROVE  /\ \A t \in Tensor : src_graph.rank[t] \in Nat \ {0}
         /\ src_graph.constants \subseteq Tensor /\ src_graph.outputs \subseteq Tensor
         /\ Range(src_graph.inputs) \subseteq Tensor
         /\ \A t \in DOMAIN src_graph.tensor_pv_map :
              /\ t \in Range(src_graph.inputs)
              /\ src_graph.tensor_pv_map[t] \in PermuteVectors(src_graph.rank[t])
  <1>1. IsGraph(src_graph)
    BY GraphsAssumption
  <1>2. \A t \in Range(src_graph.inputs) : t \in Tensor
    <2>1. src_graph.inputs \in Seq(Tensor)
      BY <1>1 DEF IsGraph
    <2>2. \A i \in DOMAIN src_graph.inputs : src_graph.inputs[i] \in Tensor
      BY <2>1, LenProperties, ElementOfSeq
    <2> QED BY <2>2 DEF Range
  <1> QED BY <1>1, <1>2 DEF IsGraph

LEMMA OperationFacts ==
  ASSUME src_graph \in Graphs, NEW o \in Ops
  PROVE  /\ Op(o).ins \in Seq(Tensor) /\ DOMAIN Op(o).ins = 1 .. Len(Op(o).ins)
         /\ Len(Op(o).ins) \in Nat \ {0} /\ 1 \in DOMAIN Op(o).ins
         /\ Range(Op(o).ins) \subseteq Tensor /\ Range(Op(o).outs) \subseteq Tensor
         /\ Op(o).ins[1] \in Range(Op(o).ins)
         /\ \A t \in Range(Op(o).ins) : IsRead(t)
         /\ Op(o).axis \in Nat /\ Op(o).cwhn \in BOOLEAN /\ Op(o).keep_dim \in BOOLEAN
         /\ Range(Op(o).outs) \cap (Range(Op(o).ins) \cup src_graph.constants) = {}
         /\ \A other \in Ops \ {o} : Range(Op(o).outs) \cap Range(Op(other).outs) = {}
         /\ Op(o).outs \in Seq(Tensor)
         /\ Fits(src_graph, Op(o))
  <1>1. IsGraph(src_graph)
    BY GraphsAssumption
  <1>2. /\ Op(o).ins \in Seq(Tensor) /\ Op(o).ins # <<>> /\ Op(o).outs \in Seq(Tensor)
        /\ Op(o).axis \in Nat /\ Op(o).cwhn \in BOOLEAN /\ Op(o).keep_dim \in BOOLEAN
        /\ Range(Op(o).outs) \cap (Range(Op(o).ins) \cup src_graph.constants) = {}
        /\ \A other \in Ops \ {o} : Range(Op(o).outs) \cap Range(Op(other).outs) = {}
        /\ Fits(src_graph, Op(o))
    BY <1>1 DEF IsGraph, Op, Ops
  <1>3. /\ DOMAIN Op(o).ins = 1 .. Len(Op(o).ins) /\ Len(Op(o).ins) \in Nat \ {0}
        /\ 1 \in DOMAIN Op(o).ins
    BY <1>2, LenProperties, EmptySeq
  <1>4. \A s \in Seq(Tensor) : Range(s) \subseteq Tensor
    <2>1. \A s \in Seq(Tensor) : \A i \in DOMAIN s : s[i] \in Tensor
      BY LenProperties, ElementOfSeq
    <2> QED BY <2>1 DEF Range
  <1>5. Op(o).ins[1] \in Range(Op(o).ins)
    BY <1>3 DEF Range
  <1>6. \A t \in Range(Op(o).ins) : IsRead(t)
    BY DEF IsRead
  <1> QED BY <1>2, <1>3, <1>4, <1>5, <1>6

LEMMA RangeOfConcat ==
  ASSUME NEW S, NEW a \in Seq(S), NEW b \in Seq(S)
  PROVE  Range(a \o b) = Range(a) \cup Range(b)
  <1>1. /\ Len(a) \in Nat /\ DOMAIN a = 1 .. Len(a)
        /\ Len(b) \in Nat /\ DOMAIN b = 1 .. Len(b)
    BY LenProperties
  <1>2. PICK m, n \in Nat : m = Len(a) /\ n = Len(b)
    BY <1>1
  <1>3. /\ DOMAIN (a \o b) = 1 .. m + n
        /\ \A i \in 1 .. m + n : (a \o b)[i] = IF i <= m THEN a[i] ELSE b[i - m]
    BY <1>2, ConcatProperties, LenProperties
  <1>4. Range(a \o b) \subseteq Range(a) \cup Range(b)
    BY <1>1, <1>2, <1>3 DEF Range
  <1>5. ASSUME NEW i \in 1 .. m PROVE a[i] \in Range(a \o b)
    <2>1. i \in 1 .. m + n /\ (a \o b)[i] = a[i]
      BY <1>3
    <2> QED BY <1>3, <2>1 DEF Range
  <1>6. ASSUME NEW i \in 1 .. n PROVE b[i] \in Range(a \o b)
    <2>1. i + m \in 1 .. m + n /\ (a \o b)[i + m] = b[i]
      BY <1>3
    <2> QED BY <1>3, <2>1 DEF Range
  <1>7. Range(a) \cup Range(b) \subseteq Range(a \o b)
    BY <1>1, <1>2, <1>5, <1>6 DEF Range
  <1> QED BY <1>4, <1>7

LEMMA RangeOfBoth ==
  ASSUME src_graph \in Graphs, NEW o \in Ops
  PROVE  Range(Op(o).ins \o Op(o).outs) = Range(Op(o).ins) \cup Range(Op(o).outs)
  BY OperationFacts, RangeOfConcat

\* The first operand that is no constant.
LEMMA FirstVariable ==
  ASSUME src_graph \in Graphs, NEW o \in Ops, \E t \in Range(Op(o).ins) : ~IsConst(t)
  PROVE  \E t \in Range(Op(o).ins) : ~IsConst(t) /\ RequiredVector(o) = tensor_pv[t]
  <1> DEFINE ins == Op(o).ins
             S == {i \in DOMAIN ins : ~IsConst(ins[i])}
             First(i) == i \in DOMAIN ins /\ ~IsConst(ins[i]) /\ \A k \in 1 .. i - 1 : IsConst(ins[k])
  <1>1. DOMAIN ins = 1 .. Len(ins) /\ Len(ins) \in Nat
    BY OperationFacts
  <1>2. S \in SUBSET Nat /\ S # {}
    <2>1. S # {}
      BY DEF Range
    <2> QED BY <2>1, <1>1
  <1> HIDE DEF S
  <1>3. PICK x \in S : \A y \in S : ~(<<y, x>> \in OpToRel(<, Nat))
    BY <1>2, NatLessThanWellFounded, WFMin
  <1>4. ASSUME NEW y \in S, y < x PROVE FALSE
    <2>1. <<y, x>> \in Nat \X Nat /\ <<y, x>>[1] < <<y, x>>[2]
      BY <1>2, <1>4
    <2>2. <<y, x>> \in OpToRel(<, Nat)
      BY <2>1, Zenon DEF OpToRel
    <2> QED BY <2>2, <1>3
  <1>5. First(x)
    <2>1. x \in DOMAIN ins /\ ~IsConst(ins[x]) /\ x \in Nat
      BY <1>1 DEF S
    <2>2. ASSUME NEW k \in 1 .. x - 1, ~IsConst(ins[k]) PROVE FALSE
      <3>1. k \in DOMAIN ins /\ k < x
        BY <1>1, <2>1
      <3> QED BY <3>1, <2>2, <1>4 DEF S
    <2> QED BY <2>1, <2>2
  <1>6. PICK i : i = CHOOSE j \in DOMAIN ins :
                       ~IsConst(ins[j]) /\ \A k \in 1 .. j - 1 : IsConst(ins[k])
    OBVIOUS
  <1>7. i \in DOMAIN ins /\ ~IsConst(ins[i])
    BY <1>5, <1>6
  <1>8. RequiredVector(o) = tensor_pv[ins[i]]
    BY <1>6 DEF RequiredVector
  <1> QED BY <1>7, <1>8 DEF Range

-----------------------------------------------------------------------------
\* Bindings in order: a list of the set, each once.
LEMMA InOrderLists ==
  ASSUME NEW B \in SUBSET (Nat \X Nat), IsFiniteSet(B)
  PROVE  /\ DOMAIN InOrder(B) = 1 .. Cardinality(B) /\ Cardinality(B) \in Nat
         /\ \A j \in DOMAIN InOrder(B) : InOrder(B)[j] \in B
         /\ \A b \in B : \E j \in DOMAIN InOrder(B) : InOrder(B)[j] = b
  <1> DEFINE Count(b) == Cardinality(Upto(B, b))
             count == [b \in B |-> Count(b)]
  <1>1. PICK n \in Nat : n = Cardinality(B)
    BY FS_CardinalityType
  <1>2. ASSUME NEW b \in B
        PROVE  Upto(B, b) \in SUBSET B /\ IsFiniteSet(Upto(B, b)) /\ Count(b) \in 1 .. n
    <2>1. Upto(B, b) \in SUBSET B /\ b \in Upto(B, b)
      BY DEF Upto
    <2>2. IsFiniteSet(Upto(B, b)) /\ Count(b) <= n
      BY <1>1, <2>1, FS_Subset
    <2>3. Count(b) \in Nat /\ Count(b) # 0
      BY <2>1, <2>2, FS_CardinalityType, FS_EmptySet
    <2> QED BY <2>1, <2>2, <2>3
  <1>3. ASSUME NEW b \in B, NEW c \in B, b[1] < c[1] \/ (b[1] = c[1] /\ b[2] < c[2])
        PROVE  Count(b) # Count(c)
    <2>1. b[1] \in Nat /\ b[2] \in Nat /\ c[1] \in Nat /\ c[2] \in Nat
      OBVIOUS
    <2>2. ASSUME NEW d \in B, d \in Upto(B, b) PROVE d \in Upto(B, c)
      <3>1. d[1] \in Nat /\ d[2] \in Nat
        OBVIOUS
      <3> QED BY <1>3, <2>1, <2>2, <3>1 DEF Upto
    <2>3. c \in Upto(B, c) /\ c \notin Upto(B, b)
      BY <1>3, <2>1 DEF Upto
    <2>4. Upto(B, b) \in SUBSET Upto(B, c)
      BY <1>2, <2>2
    <2> QED BY <1>2, <2>3, <2>4, FS_Subset
  <1>4. ASSUME NEW b \in B, NEW c \in B, Count(b) = Count(c) PROVE b = c
    <2>1. /\ b = <<b[1], b[2]>> /\ c = <<c[1], c[2]>>
          /\ b[1] \in Nat /\ b[2] \in Nat /\ c[1] \in Nat /\ c[2] \in Nat
      OBVIOUS
    <2>2. b[1] = c[1] /\ b[2] = c[2]
      BY <1>3, <1>4, <2>1
    <2> QED BY <2>1, <2>2
  <1>5. count \in Surjection(B, 1 .. n)
    <2>1. count \in Injection(B, 1 .. n)
      BY <1>2, <1>4 DEF Injection, IsInjective
    <2>2. IsFiniteSet(1 .. n) /\ Cardinality(1 .. n) = n
      BY FS_Interval
    <2> QED BY <1>1, <2>1, <2>2, FS_Injection
  <1>6. ASSUME NEW j \in 1 .. n
        PROVE  InOrder(B)[j] \in B /\ Count(InOrder(B)[j]) = j
    <2>1. \E b \in B : Cardinality(Upto(B, b)) = j
      BY <1>5 DEF Surjection
    <2>2. InOrder(B)[j] = CHOOSE b \in B : Cardinality(Upto(B, b)) = j
      BY <1>1 DEF InOrder
    <2> QED BY <2>1, <2>2
  <1>7. DOMAIN InOrder(B) = 1 .. n
    BY <1>1 DEF InOrder
  <1>8. ASSUME NEW b \in B PROVE \E j \in 1 .. n : InOrder(B)[j] = b
    <2>1. Count(b) \in 1 .. n
      BY <1>2
    <2>2. InOrder(B)[Count(b)] \in B /\ Count(InOrder(B)[Count(b)]) = Count(b)
      BY <1>6, <2>1
    <2>3. InOrder(B)[Count(b)] = b
      BY <1>4, <2>2
    <2> QED BY <2>1, <2>3
  <1> QED BY <1>1, <1>6, <1>7, <1>8

\* What is left when the head is taken.
LEMMA TailLeaves ==
  ASSUME NEW S, NEW s \in Seq(S), s # <<>>
  PROVE  /\ Tail(s) \in Seq(S) /\ Head(s) \in S
         /\ Range(s) \subseteq {Head(s)} \cup Range(Tail(s))
  <1>1. PICK n \in Nat : n = Len(s) /\ DOMAIN s = 1 .. n
    BY LenProperties
  <1>2. /\ Tail(s) \in Seq(S) /\ Head(s) \in S /\ Head(s) = s[1]
        /\ Len(Tail(s)) = n - 1 /\ \A i \in 1 .. n - 1 : Tail(s)[i] = s[i + 1]
    BY <1>1, HeadTailProperties
  <1>3. DOMAIN Tail(s) = 1 .. n - 1
    BY <1>2, LenProperties
  <1>4. ASSUME NEW i \in 1 .. n, i # 1 PROVE s[i] \in Range(Tail(s))
    <2>1. i - 1 \in 1 .. n - 1 /\ Tail(s)[i - 1] = s[i]
      BY <1>2, <1>4
    <2> QED BY <1>3, <2>1 DEF Range
  <1> QED BY <1>1, <1>2, <1>4 DEF Range

\* What a list of bindings is turned into.
LEMMA ListOf ==
  ASSUME NEW B \in SUBSET (Nat \X Nat), IsFiniteSet(B), NEW S, NEW f \in [B -> S],
         NEW s, s = [j \in DOMAIN InOrder(B) |-> f[InOrder(B)[j]]]
  PROVE  s \in Seq(S) /\ \A b \in B : f[b] \in Range(s)
  <1>1. PICK n \in Nat : n = Cardinality(B) /\ DOMAIN InOrder(B) = 1 .. n
    BY InOrderLists
  <1>2. \A j \in 1 .. n : InOrder(B)[j] \in B
    BY <1>1, InOrderLists
  <1>3. s \in [1 .. n -> S]
    BY <1>1, <1>2
  <1>4. s \in Seq(S)
    BY <1>3, FunctionIsSeq
  <1>5. ASSUME NEW b \in B PROVE f[b] \in Range(s)
    <2>1. PICK j \in 1 .. n : InOrder(B)[j] = b
      BY <1>1, InOrderLists
    <2>2. j \in DOMAIN s /\ s[j] = f[b]
      BY <1>1, <2>1
    <2> QED BY <2>2 DEF Range
  <1> QED BY <1>4, <1>5

LEMMA BindingFacts ==
  ASSUME src_graph \in Graphs
  PROVE  /\ Ops \subseteq Nat /\ IsFiniteSet(Ops)
         /\ InputBindings(src_graph) \in SUBSET (Nat \X Nat)
         /\ IsFiniteSet(InputBindings(src_graph))
         /\ \A o \in Ops : \A i \in DOMAIN Op(o).ins : <<o, i>> \in InputBindings(src_graph)
         /\ \A b \in InputBindings(src_graph) : b[1] \in Ops /\ b[2] \in DOMAIN Op(b[1]).ins
  <1>1. PICK n \in Nat : Ops = 1 .. n
    <2>1. PICK S : S = Range(src_graph.ops)
      OBVIOUS
    <2>2. src_graph.ops \in Seq(S)
      BY <2>1, GraphsAssumption DEF IsGraph
    <2> QED BY <2>2, LenProperties DEF Ops
  <1>2. IsFiniteSet(Ops)
    BY <1>1, FS_Interval
  <1> DEFINE Of(o) == {o} \X DOMAIN Op(o).ins
             T == {Of(o) : o \in Ops}
  <1>3. InputBindings(src_graph) = UNION T
    BY DEF InputBindings, Ops, Op
  <1>4. ASSUME NEW o \in Ops
        PROVE  Of(o) \in SUBSET (Nat \X Nat) /\ IsFiniteSet(Of(o))
    <2>1. PICK m \in Nat : DOMAIN Op(o).ins = 1 .. m
      BY OperationFacts
    <2>2. IsFiniteSet(1 .. m)
      BY FS_Interval
    <2>3. IsFiniteSet({o})
      BY FS_Singleton
    <2> QED BY <1>1, <2>1, <2>2, <2>3, FS_Product
  <1>5. IsFiniteSet(T)
    <2>1. [o \in Ops |-> Of(o)] \in Surjection(Ops, T)
      BY DEF Surjection
    <2> QED BY <1>2, <2>1, FS_Surjection
  <1>6. IsFiniteSet(UNION T)
    BY <1>4, <1>5, FS_UNION
  <1>7. InputBindings(src_graph) \in SUBSET (Nat \X Nat)
    BY <1>3, <1>4
  <1>8. \A o \in Ops : \A i \in DOMAIN Op(o).ins : <<o, i>> \in UNION T
    OBVIOUS
  <1>9. \A b \in UNION T : b[1] \in Ops /\ b[2] \in DOMAIN Op(b[1]).ins
    OBVIOUS
  <1> QED BY <1>1, <1>2, <1>3, <1>6, <1>7, <1>8, <1>9

\* The consumers of a tensor are the operations that read it.
LEMMA ConsumersRead ==
  ASSUME src_graph \in Graphs, NEW t
  PROVE  /\ ConsumersOf(t) \in Seq(Ops)
         /\ \A o \in Ops : t \in Range(Op(o).ins) => o \in Range(ConsumersOf(t))
  <1>1. PICK all : all = InputBindings(src_graph)
    OBVIOUS
  <1>2. /\ all \in SUBSET (Nat \X Nat) /\ IsFiniteSet(all)
        /\ \A o \in Ops : \A i \in DOMAIN Op(o).ins : <<o, i>> \in all
        /\ \A b \in all : b[1] \in Ops
    BY <1>1, BindingFacts
  <1>3. PICK B, f, s : /\ B = {b \in all : Op(b[1]).ins[b[2]] = t}
                       /\ f = [b \in B |-> b[1]]
                       /\ s = [j \in DOMAIN InOrder(B) |-> f[InOrder(B)[j]]]
    OBVIOUS
  <1>4. B \in SUBSET (Nat \X Nat) /\ IsFiniteSet(B)
    BY <1>2, <1>3, FS_Subset
  <1>5. f \in [B -> Ops]
    BY <1>2, <1>3
  <1>6. s \in Seq(Ops) /\ \A b \in B : f[b] \in Range(s)
    <2>1. s = [j \in DOMAIN InOrder(B) |-> f[InOrder(B)[j]]]
      BY <1>3
    <2> QED BY <1>4, <1>5, <2>1, ListOf
  <1>7. \A j \in DOMAIN InOrder(B) : f[InOrder(B)[j]] = InOrder(B)[j][1]
    BY <1>3, <1>4, InOrderLists
  <1>8. ConsumersOf(t) = s
    BY <1>1, <1>3, <1>7 DEF ConsumersOf
  <1>9. ASSUME NEW o \in Ops, t \in Range(Op(o).ins) PROVE o \in Range(s)
    <2>1. PICK i \in DOMAIN Op(o).ins : t = Op(o).ins[i]
      BY <1>9 DEF Range
    <2>2. <<o, i>> \in B /\ f[<<o, i>>] = o
      BY <1>2, <1>3, <2>1
    <2> QED BY <1>6, <2>2
  <1> QED BY <1>6, <1>8, <1>9

\* The places of an operation over constants alone that GetConstantInputs takes.
LEMMA PlacesTaken ==
  ASSUME src_graph \in Graphs, NEW o \in Ops
  PROVE  /\ ConstantInputsTensor(src_graph, o) \subseteq DOMAIN Op(o).ins
         /\ \A i \in ConstantInputsTensor(src_graph, o) :
              Op(o).ins[i] \in Tensor /\ IsConst(Op(o).ins[i])
         /\ o \in ToHandle /\ ReadsConstants(src_graph, o) =>
              1 \in ConstantInputsTensor(src_graph, o)
  <1>1. 1 \in DOMAIN Op(o).ins /\ Range(Op(o).ins) \subseteq Tensor
    BY OperationFacts
  <1>2. ConstantInputsTensor(src_graph, o) \subseteq DOMAIN Op(o).ins
    BY <1>1 DEF ConstantInputsTensor, Op
  <1>3. ASSUME NEW i \in ConstantInputsTensor(src_graph, o)
        PROVE  Op(o).ins[i] \in Tensor /\ IsConst(Op(o).ins[i])
    <2>1. ReadsConstants(src_graph, o)
      BY DEF ConstantInputsTensor
    <2>2. Op(o).ins[i] \in Range(Op(o).ins)
      BY <1>2 DEF Range
    <2> QED BY <1>1, <2>1, <2>2 DEF ReadsConstants, IsConst, Op
  <1>4. o \in ToHandle /\ ReadsConstants(src_graph, o) =>
          1 \in ConstantInputsTensor(src_graph, o)
    BY <1>1 DEF ConstantInputsTensor, ToHandle, Op
  <1> QED BY <1>2, <1>3, <1>4

\* GetConstantInputs takes what is at those places.
LEMMA ConstantInputsAreListed ==
  ASSUME src_graph \in Graphs
  PROVE  /\ GetConstantInputs(src_graph) \in Seq(Tensor)
         /\ \A o \in Ops : \A i \in ConstantInputsTensor(src_graph, o) :
              Op(o).ins[i] \in Range(GetConstantInputs(src_graph))
  <1>1. PICK all : all = InputBindings(src_graph)
    OBVIOUS
  <1>2. /\ all \in SUBSET (Nat \X Nat) /\ IsFiniteSet(all)
        /\ \A o \in Ops : \A i \in DOMAIN Op(o).ins : <<o, i>> \in all
        /\ \A b \in all : b[1] \in Ops /\ b[2] \in DOMAIN Op(b[1]).ins
    BY <1>1, BindingFacts
  <1>3. PICK B, f, s : /\ B = {b \in all : b[2] \in ConstantInputsTensor(src_graph, b[1])}
                       /\ f = [b \in B |-> Op(b[1]).ins[b[2]]]
                       /\ s = [j \in DOMAIN InOrder(B) |-> f[InOrder(B)[j]]]
    OBVIOUS
  <1>4. B \in SUBSET (Nat \X Nat) /\ IsFiniteSet(B)
    BY <1>2, <1>3, FS_Subset
  <1>5. f \in [B -> Tensor]
    <2>1. \A b \in B : Op(b[1]).ins[b[2]] \in Tensor
      BY <1>2, <1>3, OperationFacts DEF Range
    <2> QED BY <1>3, <2>1
  <1>6. s \in Seq(Tensor) /\ \A b \in B : f[b] \in Range(s)
    <2>1. s = [j \in DOMAIN InOrder(B) |-> f[InOrder(B)[j]]]
      BY <1>3
    <2> QED BY <1>4, <1>5, <2>1, ListOf
  <1>7. \A j \in DOMAIN InOrder(B) :
          f[InOrder(B)[j]] = Op(InOrder(B)[j][1]).ins[InOrder(B)[j][2]]
    BY <1>3, <1>4, InOrderLists
  <1>8. GetConstantInputs(src_graph) = s
    BY <1>1, <1>3, <1>7 DEF GetConstantInputs, Op
  <1>9. ASSUME NEW o \in Ops, NEW i \in ConstantInputsTensor(src_graph, o)
        PROVE  Op(o).ins[i] \in Range(s)
    <2>1. i \in DOMAIN Op(o).ins
      BY PlacesTaken
    <2>2. <<o, i>> \in B /\ f[<<o, i>>] = Op(o).ins[i]
      BY <1>2, <1>3, <2>1
    <2> QED BY <1>6, <2>2
  <1> QED BY <1>6, <1>8, <1>9

\* The results that go to the queue: those that are read, and more.
LEMMA ResultsAreQueued ==
  ASSUME src_graph \in Graphs, NEW o \in Ops
  PROVE  /\ NextTensors(o) \in Seq(Tensor)
         /\ \A t \in Range(Op(o).outs) : IsRead(t) => t \in Range(NextTensors(o))
  <1>1. PICK outs, kept : /\ outs = Op(o).outs
                          /\ kept = {t \in Tensor : t \notin src_graph.outputs \/ IsRead(t)}
    OBVIOUS
  <1>2. PICK m \in Nat : DOMAIN outs = 1 .. m
    BY <1>1, OperationFacts, LenProperties
  <1>3. o \in Nat /\ Range(outs) \subseteq Tensor
    BY <1>1, BindingFacts, OperationFacts
  <1>4. PICK B, f, s : /\ B = {b \in {o} \X DOMAIN outs : outs[b[2]] \in kept}
                       /\ f = [b \in B |-> outs[b[2]]]
                       /\ s = [j \in DOMAIN InOrder(B) |-> f[InOrder(B)[j]]]
    OBVIOUS
  <1>5. B \in SUBSET (Nat \X Nat) /\ IsFiniteSet(B)
    <2>1. IsFiniteSet(1 .. m)
      BY FS_Interval
    <2>2. IsFiniteSet({o})
      BY FS_Singleton
    <2>3. IsFiniteSet({o} \X DOMAIN outs)
      BY <1>2, <2>1, <2>2, FS_Product
    <2> QED BY <1>2, <1>3, <1>4, <2>3, FS_Subset
  <1>6. f \in [B -> Tensor]
    BY <1>1, <1>4
  <1>7. s \in Seq(Tensor) /\ \A b \in B : f[b] \in Range(s)
    <2>1. s = [j \in DOMAIN InOrder(B) |-> f[InOrder(B)[j]]]
      BY <1>4
    <2> QED BY <1>5, <1>6, <2>1, ListOf
  <1>8. \A j \in DOMAIN InOrder(B) : f[InOrder(B)[j]] = outs[InOrder(B)[j][2]]
    BY <1>4, <1>5, InOrderLists
  <1>9. NextTensors(o) = s
    <2>1. s = [j \in DOMAIN InOrder(B) |-> outs[InOrder(B)[j][2]]]
      BY <1>4, <1>8
    <2>2. NextTensors(o) = ResultsIn(o, kept)
      BY <1>1 DEF NextTensors
    <2>3. ResultsIn(o, kept) = [j \in DOMAIN InOrder(B) |-> outs[InOrder(B)[j][2]]]
      BY <1>1, <1>4 DEF ResultsIn
    <2> QED BY <2>1, <2>2, <2>3
  <1>10. ASSUME NEW t \in Range(outs), IsRead(t) PROVE t \in Range(s)
    <2>1. PICK i \in DOMAIN outs : t = outs[i]
      BY DEF Range
    <2>2. <<o, i>> \in B /\ f[<<o, i>>] = t
      BY <1>1, <1>3, <1>4, <1>10, <2>1
    <2> QED BY <1>7, <2>2
  <1> QED BY <1>1, <1>7, <1>9, <1>10

-----------------------------------------------------------------------------
\* Handling an operation.

\* What "use" gives to t: vectors of its rank, or none as before to a constant that is
\* copied; what is moved had one.
UsedWell(use, t) ==
  /\ use[t].by \in PermuteVectors(src_graph.rank[t])
  /\ \/ use[t].pv \in PermuteVectors(src_graph.rank[t])
     \/ use[t].copied /\ use[t].pv = Unset /\ tensor_pv[t] = Unset
  /\ ~use[t].copied => tensor_pv[t] # Unset

\* No step of this use is a slip.
LEMMA WithoutSlip ==
  ASSUME NEW o, NEW use, SlipsOf(o, use) = {}, NEW t \in DOMAIN use
  PROVE  /\ ~CopiedAsIs(o, t)
         /\ use[t].copied =>
              ConstPermutedBy(use[t].by) = use[t].by /\ use[t].pv \in {Unset, use[t].by}
         /\ ~use[t].copied => use[t].by = Change(t, use[t].pv)
  BY DEF SlipsOf

\* How an input that is used well lies for the operation.
LEMMA UsedLies ==
  ASSUME src_graph \in Graphs, NEW use, NEW t \in DOMAIN use, t \in Tensor,
         IsRead(t), UsedWell(use, t), LiesSomehow(t)
  PROVE  /\ LiesWith(use, t) \in Layouts(src_graph.rank[t])
         /\ use[t].pv # Unset => use[t].pv \in PermuteVectors(src_graph.rank[t])
  <1>1. PICK n \in Nat : n = src_graph.rank[t]
    BY GraphFacts
  <1>2. PICK by : by = use[t].by /\ by \in PermuteVectors(n)
    BY <1>1 DEF UsedWell
  <1>3. use[t].pv # Unset => use[t].pv \in PermuteVectors(n)
    BY <1>1 DEF UsedWell
  <1>4. CASE use[t].copied
    <2>1. PICK q : q = ConstPermutedBy(by)
      OBVIOUS
    <2>2. LiesWith(use, t) = Permuted(Aligned(n), q)
      BY <1>1, <1>2, <1>4, <2>1 DEF LiesWith, Plain
    <2>3. Aligned(n) \in PermuteVectors(n) /\ Len(Aligned(n)) = n
      BY AlignedIsVector
    <2>4. q = by => Permuted(Aligned(n), q) \in Layouts(n)
      <3>1. Aligned(n) \in Layouts(n)
        BY <2>3 DEF Layouts
      <3> QED BY <1>2, <3>1, PermutedSomehow
    <2>5. ASSUME q = CWHN2WHCN PROVE Permuted(Aligned(n), q) \in Layouts(n)
      <3>1. q \in PermuteVectors(4) /\ Len(q) = 4
        BY <2>5, GraphsAssumption, VectorIsSeq
      <3>2. n = 4 => Permuted(Aligned(n), q) \in Layouts(n)
        BY <2>3, <3>1, PermutedSomehow DEF Layouts
      <3>3. n # 4 => Permuted(Aligned(n), q) = Garbage
        BY <2>3, <3>1 DEF Permuted
      <3> QED BY <3>2, <3>3 DEF Layouts
    <2>6. q = by \/ q = CWHN2WHCN
      BY <2>1 DEF ConstPermutedBy
    <2> QED BY <1>1, <1>3, <2>2, <2>4, <2>5, <2>6
  <1>5. CASE ~use[t].copied
    <2>1. lies[t] \in Layouts(n)
      BY <1>1, <1>5 DEF LiesSomehow, UsedWell
    <2>2. LiesWith(use, t) = Permuted(lies[t], by)
      BY <1>2, <1>5 DEF LiesWith
    <2> QED BY <1>1, <1>2, <1>3, <2>1, <2>2, PermutedSomehow
  <1> QED BY <1>4, <1>5

LEMMA UsedTells ==
  ASSUME src_graph \in Graphs, NEW o, NEW use, SlipsOf(o, use) = {}, NEW t \in DOMAIN use,
         t \in Tensor, IsRead(t), UsedWell(use, t), LiesSomehow(t), VectorTells(t)
  PROVE  /\ use[t].pv # Unset => LiesWith(use, t) = use[t].pv
         /\ use[t].copied => LiesWith(use, t) = use[t].by
  <1>1. PICK n \in Nat : n = src_graph.rank[t]
    BY GraphFacts
  <1>2. CASE use[t].copied
    <2>1. PICK by : by = use[t].by /\ by \in PermuteVectors(n)
      BY <1>1 DEF UsedWell
    <2>2. ConstPermutedBy(by) = by /\ use[t].pv \in {Unset, by}
      BY <1>2, <2>1, WithoutSlip
    <2>3. LiesWith(use, t) = Permuted(Aligned(n), by)
      BY <1>1, <1>2, <2>1, <2>2 DEF LiesWith, Plain
    <2>4. Permuted(Aligned(n), by) = by
      BY <2>1, AlignedIsVector, VectorIsSeq DEF Permuted
    <2> QED BY <2>1, <2>2, <2>3, <2>4
  <1>3. CASE ~use[t].copied
    <2>1. PICK v, q : v = tensor_pv[t] /\ q = use[t].pv
      OBVIOUS
    <2>2. v \in PermuteVectors(n) /\ lies[t] = v /\ q \in PermuteVectors(n)
      BY <1>1, <1>3, <2>1 DEF VectorTells, LiesSomehow, UsedWell
    <2>3. use[t].by = Added(Reversed(v), q)
      BY <1>3, <2>1, WithoutSlip DEF Change
    <2>4. LiesWith(use, t) = Permuted(v, Added(Reversed(v), q))
      BY <1>3, <2>2, <2>3 DEF LiesWith
    <2> QED BY <1>3, <2>1, <2>2, <2>4, ChangeLeads
  <1> QED BY <1>2, <1>3

\* How a result is left: in some way; and if its vector tells how it was made, so.
LEMMA ResultLeft ==
  ASSUME src_graph \in Graphs, NEW t \in Tensor, NEW p, p \in PermuteVectors(src_graph.rank[t]),
         NEW r, r \in Layouts(src_graph.rank[t])
  PROVE  /\ ResultVector(t, p) \in PermuteVectors(src_graph.rank[t])
         /\ ResultLies(t, p, r) \in Layouts(src_graph.rank[t])
         /\ r = p /\ (t \in src_graph.outputs => t \in on_output) =>
              /\ IsRead(t) => ResultLies(t, p, r) = ResultVector(t, p)
              /\ t \in src_graph.outputs => ResultLies(t, p, r) = Plain(t)
  <1>1. PICK n \in Nat : n = src_graph.rank[t]
    BY GraphFacts
  <1>2. /\ p \in PermuteVectors(n) /\ r \in Layouts(n)
        /\ Plain(t) = Aligned(n) /\ Aligned(n) \in PermuteVectors(n)
        /\ IsAligned(p) => p = Aligned(n)
    BY <1>1, AlignedIsVector DEF Plain
  <1>3. Permuted(p, Reversed(p)) = Aligned(n)
    BY <1>2, ChangeLeads
  <1>4. Permuted(r, Reversed(p)) \in Layouts(n)
    BY <1>2, ReversedIsInverse, PermutedSomehow
  <1>5. CASE Transposed(t, p)
    <2>1. ResultLies(t, p, r) = Permuted(r, Reversed(p))
      BY <1>5 DEF ResultLies, Transposed
    <2>2. ResultVector(t, p) = IF IsRead(t) THEN Plain(t) ELSE p
      BY <1>5 DEF ResultVector
    <2> QED BY <1>1, <1>2, <1>3, <1>4, <2>1, <2>2
  <1>6. CASE ~Transposed(t, p)
    <2>1. ResultVector(t, p) = p
      BY <1>6 DEF ResultVector
    <2>2. ResultLies(t, p, r) \in {r, Garbage}
      BY <1>6 DEF ResultLies
    <2>3. (t \in src_graph.outputs => t \in on_output) => ResultLies(t, p, r) = r
      BY <1>6 DEF ResultLies
    <2>4. t \in src_graph.outputs => p = Aligned(n)
      BY <1>2, <1>6 DEF Transposed
    <2> QED BY <1>1, <1>2, <2>1, <2>2, <2>3, <2>4 DEF Layouts
  <1> QED BY <1>5, <1>6

\* Nothing of the source graph changes.
LEMMA GraphStays ==
  ASSUME UNCHANGED src_graph
  PROVE  /\ Ops' = Ops
         /\ \A o : Op(o)' = Op(o)
         /\ ToHandle' = ToHandle
         /\ \A o : ConstantInputsTensor(src_graph, o)' = ConstantInputsTensor(src_graph, o)
         /\ \A o : Unguided(o)' = Unguided(o)
         /\ \A t : IsRead(t)' = IsRead(t)
         /\ \A t : Plain(t)' = Plain(t)
  BY DEF Ops, Op, ToHandle, ReadsConstants, ConstantInputsTensor, Unguided, IsConst, IsRead, Plain

\* What a handler must see to: it concerns inputs of its operation only, and gives them
\* and the results vectors of their ranks; and if nothing slips, the results lie as their
\* vectors tell.
Fitting(o, use, p, result) ==
  /\ DOMAIN use \subseteq Range(Op(o).ins)
  /\ \A t \in DOMAIN use : UsedWell(use, t)
  /\ \A t \in Range(Op(o).outs) :
       /\ p[t] \in PermuteVectors(src_graph.rank[t])
       /\ result[t] \in Layouts(src_graph.rank[t])
Tells(o, p, result) == \A t \in Range(Op(o).outs) : result[t] = p[t]

\* Once o is handled its results are available, and those that are read are queued.
LEMMA WalkGoesOn ==
  ASSUME src_graph \in Graphs, Walk, NEW o \in Ops, Due(o),
         src_graph' = src_graph, op_visited' = op_visited \cup {o},
         tensor_queue' = tensor_queue \o NextTensors(o), consumers' = Tail(consumers),
         \A t \in Tensor : tensor_pv[t] # Unset \/ t \in Range(Op(o).outs) => tensor_pv'[t] # Unset
  PROVE  Walk'
  <1>1. /\ Ops' = Ops /\ \A u : Op(u)' = Op(u) /\ \A t : IsConst(t)' = IsConst(t)
        /\ \A t : Available(t)' <=> Available(t) \/ t \in Range(Op(o).outs)
        /\ ToHandle' = ToHandle /\ ToHandle \subseteq Ops
    BY DEF Ops, Op, IsConst, Available, ToHandle
  <1>2. /\ tensor_queue \in Seq(Tensor) /\ NextTensors(o) \in Seq(Tensor)
        /\ consumers \in Seq(Ops) /\ consumers # <<>>
    BY ResultsAreQueued DEF Walk, Due
  <1>3. /\ tensor_queue' \in Seq(Tensor)
        /\ Range(tensor_queue') = Range(tensor_queue) \cup Range(NextTensors(o))
    BY <1>2, ConcatProperties, RangeOfConcat
  <1>4. /\ consumers' \in Seq(Ops)
        /\ Range(consumers) \subseteq {o} \cup Range(consumers')
    BY <1>2, TailLeaves DEF Due
  <1>5. \A t \in Tensor : Available(t)' /\ ~IsConst(t) => tensor_pv'[t] # Unset
    BY <1>1 DEF Walk
  <1>6. ASSUME NEW u \in ToHandle \ op_visited, u # o, \A t \in Range(Op(u).ins) : Available(t)'
        PROVE  \/ u \in Range(consumers')
               \/ Range(Op(u).ins) \cap Range(tensor_queue') # {}
    <2>1. CASE \A t \in Range(Op(u).ins) : Available(t)
      BY <1>3, <1>4, <1>6, <2>1 DEF Walk, Ahead
    <2>2. CASE \E t \in Range(Op(u).ins) : t \in Range(Op(o).outs)
      <3>1. PICK t \in Range(Op(u).ins) : t \in Range(Op(o).outs)
        BY <2>2
      <3>2. t \in Range(NextTensors(o))
        BY <1>1, <3>1, OperationFacts, ResultsAreQueued
      <3> QED BY <1>3, <3>1, <3>2
    <2> QED BY <1>1, <1>6, <2>1, <2>2
  <1>7. ASSUME NEW u \in ToHandle \ op_visited', \A t \in Range(Op(u).ins) : Available(t)'
        PROVE  Ahead(u)'
    <2>1. u \in ToHandle \ op_visited /\ u # o
      OBVIOUS
    <2> QED BY <1>1, <1>6, <1>7, <2>1 DEF Ahead
  <1> QED BY <1>1, <1>3, <1>4, <1>5, <1>7 DEF Walk

LEMMA HandleKeeps ==
  ASSUME IInv, NEW o \in Ops, Due(o),
         NEW use, NEW p, NEW result, Handle(o, use, p, result), Fitting(o, use, p, result),
         slips = {} /\ SlipsOf(o, use) = {} => Tells(o, p, result)
  PROVE  IInv'
  <1> DEFINE outs == Range(Op(o).outs)
             Rank(t) == src_graph.rank[t]
  <1>1. /\ src_graph' = src_graph /\ src_graph \in Graphs /\ op_visited' = op_visited \cup {o}
        /\ ~crashed /\ ~crashed'
    BY DEF IInv, Handle, Due
  <1>2. /\ \A t \in Tensor : tensor_pv'[t] =
             IF t \in outs THEN ResultVector(t, p[t])
             ELSE IF t \in DOMAIN use THEN use[t].pv ELSE tensor_pv[t]
        /\ \A t \in Tensor : lies'[t] =
             IF t \in outs THEN ResultLies(t, p[t], result[t]) ELSE LiesWith(use, t)
        /\ \A t \in src_graph.outputs : out_lies'[t] =
             IF t \in outs /\ (t \in on_output \/ Transposed(t, p[t]))
             THEN ResultLies(t, p[t], result[t]) ELSE out_lies[t]
        /\ on_output' = (on_output \ Remapped(use)) \cup {t \in outs : Transposed(t, p[t])}
        /\ slips' = slips \cup SlipsOf(o, use)
    BY DEF Handle
  <1>3. /\ Ops' = Ops /\ \A u : Op(u)' = Op(u)
        /\ ToHandle' = ToHandle
        /\ \A u : ConstantInputsTensor(src_graph, u)' = ConstantInputsTensor(src_graph, u)
        /\ \A t : IsRead(t)' = IsRead(t)
        /\ \A t : Plain(t)' = Plain(t)
    BY <1>1, GraphStays
  <1>4. /\ outs \subseteq Tensor /\ Range(Op(o).ins) \subseteq Tensor
        /\ outs \cap Range(Op(o).ins) = {} /\ outs \cap src_graph.constants = {}
        /\ DOMAIN use \subseteq Range(Op(o).ins)
        /\ \A t \in Range(Op(o).ins) : IsRead(t)
        /\ src_graph.outputs \subseteq Tensor
        /\ \A t \in Tensor : Rank(t) \in Nat \ {0}
    BY <1>1, OperationFacts, GraphFacts DEF Fitting
  <1>5. ASSUME NEW t \in DOMAIN use
        PROVE  /\ t \in Tensor /\ IsRead(t) /\ t \notin outs
               /\ UsedWell(use, t) /\ LiesSomehow(t)
               /\ tensor_pv[t] # Unset => use[t].pv # Unset
               /\ tensor_pv'[t] = use[t].pv /\ lies'[t] = LiesWith(use, t)
    <2>1. t \in Tensor /\ IsRead(t) /\ t \notin outs /\ t \in Range(Op(o).ins)
      BY <1>4
    <2>2. UsedWell(use, t) /\ LiesSomehow(t)
      BY <2>1 DEF IInv, Fitting
    <2>3. tensor_pv[t] # Unset => use[t].pv # Unset
      <3>1. \A q \in PermuteVectors(Rank(t)) : q # Unset
        BY <1>4, <2>1, VectorIsNoMark
      <3> QED BY <2>2, <3>1 DEF UsedWell
    <2> QED BY <1>2, <2>1, <2>2, <2>3
  <1>6. ASSUME NEW t \in outs
        PROVE  /\ t \in Tensor
               /\ p[t] \in PermuteVectors(Rank(t)) /\ result[t] \in Layouts(Rank(t))
               /\ ResultVector(t, p[t]) \in PermuteVectors(Rank(t))
               /\ ResultLies(t, p[t], result[t]) \in Layouts(Rank(t))
               /\ ResultLies(t, p[t], result[t]) # Unset
               /\ tensor_pv'[t] = ResultVector(t, p[t])
               /\ lies'[t] = ResultLies(t, p[t], result[t])
    <2>1. t \in Tensor
      BY <1>4
    <2>2. p[t] \in PermuteVectors(Rank(t)) /\ result[t] \in Layouts(Rank(t))
      BY DEF Fitting
    <2>3. /\ ResultVector(t, p[t]) \in PermuteVectors(Rank(t))
          /\ ResultLies(t, p[t], result[t]) \in Layouts(Rank(t))
      BY <1>1, <2>1, <2>2, ResultLeft
    <2>4. \A d \in Layouts(Rank(t)) : d # Unset
      BY <1>4, <2>1, VectorIsNoMark
    <2> QED BY <1>2, <2>1, <2>2, <2>3, <2>4
  <1>7. ASSUME NEW t \in Tensor, t \notin outs, t \notin DOMAIN use
        PROVE  tensor_pv'[t] = tensor_pv[t] /\ lies'[t] = lies[t]
    BY <1>2, <1>7 DEF LiesWith
  <1>8. ConstantsKnown'
    <2> SUFFICES ASSUME NEW u \in Ops, NEW i \in ConstantInputsTensor(src_graph, u),
                        NEW t, t = Op(u).ins[i]
                 PROVE  tensor_pv'[t] # Unset
      BY <1>3 DEF ConstantsKnown
    <2>1. tensor_pv[t] # Unset /\ IsConst(t) /\ t \in Tensor
      BY <1>1, PlacesTaken DEF IInv, ConstantsKnown
    <2>2. t \notin outs
      BY <1>4, <2>1 DEF IsConst
    <2> QED BY <1>5, <1>7, <2>1, <2>2
  <1>9. WrittenByVisited'
    <2> SUFFICES ASSUME NEW t \in src_graph.outputs, out_lies'[t] # Unset
                 PROVE  \E u \in op_visited' : t \in Range(Op(u).outs)
      BY <1>1, <1>3 DEF WrittenByVisited
    <2>1. t \in outs \/ out_lies[t] # Unset
      BY <1>2
    <2> QED BY <1>1, <2>1 DEF IInv, WrittenByVisited
  <1>10. ASSUME NEW t \in Tensor PROVE LiesSomehow(t)'
    <2> SUFFICES ASSUME tensor_pv'[t] # Unset
                 PROVE  /\ tensor_pv'[t] \in PermuteVectors(Rank(t))
                        /\ IsRead(t) => lies'[t] \in Layouts(Rank(t))
      BY <1>1, <1>3 DEF LiesSomehow
    <2>1. CASE t \in outs
      BY <1>6, <2>1
    <2>2. CASE t \in DOMAIN use
      BY <1>1, <1>5, <2>2, UsedLies
    <2>3. CASE t \notin outs /\ t \notin DOMAIN use
      BY <1>7, <2>3 DEF IInv, LiesSomehow
    <2> QED BY <2>1, <2>2, <2>3
  <1>11. ASSUME NEW t \in outs, t \in src_graph.outputs, \A u \in src_graph.outputs : WrittenWhenMade(u)
         PROVE  t \in on_output
    <2>1. ASSUME NEW u \in op_visited, t \in Range(Op(u).outs) PROVE FALSE
      <3>1. u \in Ops \ {o}
        BY DEF IInv, Due, ToHandle
      <3> QED BY <1>1, <1>11, <2>1, <3>1, OperationFacts
    <2>2. out_lies[t] = Unset
      BY <1>11, <2>1 DEF IInv, WrittenByVisited
    <2> QED BY <1>11, <2>2 DEF WrittenWhenMade
  <1>12. ASSUME "remapped" \notin slips', NEW t \in src_graph.outputs
         PROVE  WrittenWhenMade(t)'
    <2>1. "remapped" \notin slips /\ \A u \in Remapped(use) : u \in on_output => out_lies[u] # Unset
      BY <1>2, <1>12 DEF SlipsOf
    <2>2. \A u \in src_graph.outputs : WrittenWhenMade(u)
      BY <1>1, <2>1 DEF IInv
    <2>3. CASE t \in outs
      <3>1. t \in on_output
        BY <1>11, <2>2, <2>3
      <3>2. out_lies'[t] # Unset
        BY <1>2, <1>6, <2>3, <3>1
      <3> QED BY <3>2 DEF WrittenWhenMade
    <2>4. CASE t \notin outs
      <3>1. out_lies'[t] = out_lies[t]
        BY <1>2, <2>4
      <3>2. t \notin on_output' => t \notin on_output \/ t \in Remapped(use)
        BY <1>2
      <3>3. t \notin on_output' => out_lies'[t] # Unset
        BY <2>1, <2>2, <3>1, <3>2 DEF WrittenWhenMade
      <3>4. \A u \in op_visited' : t \in Range(Op(u)'.outs) => out_lies'[t] # Unset
        BY <1>1, <1>3, <2>2, <2>4, <3>1 DEF WrittenWhenMade
      <3> QED BY <3>3, <3>4 DEF WrittenWhenMade
    <2> QED BY <2>3, <2>4
  <1>13. ASSUME slips' = {}
         PROVE  /\ \A t \in Tensor : VectorTells(t)'
                /\ \A t \in src_graph.outputs : WrittenPlain(t)'
    <2>1. slips = {} /\ SlipsOf(o, use) = {} /\ Tells(o, p, result)
      BY <1>2, <1>13
    <2>2. /\ \A t \in Tensor : VectorTells(t)
          /\ \A t \in src_graph.outputs : WrittenPlain(t) /\ WrittenWhenMade(t)
      BY <1>1, <2>1 DEF IInv
    <2>3. ASSUME NEW t \in outs
          PROVE  /\ IsRead(t) => ResultLies(t, p[t], result[t]) = ResultVector(t, p[t])
                 /\ t \in src_graph.outputs => ResultLies(t, p[t], result[t]) = Plain(t)
      <3>1. t \in src_graph.outputs => t \in on_output
        BY <1>11, <2>2
      <3>2. result[t] = p[t]
        BY <2>1 DEF Tells
      <3> QED BY <1>1, <1>6, <3>1, <3>2, ResultLeft
    <2>4. ASSUME NEW t \in Tensor PROVE VectorTells(t)'
      <3>1. CASE t \in outs
        BY <1>3, <1>6, <2>3, <3>1 DEF VectorTells
      <3>2. CASE t \in DOMAIN use
        <4>1. use[t].pv # Unset => LiesWith(use, t) = use[t].pv
          BY <1>1, <1>5, <2>1, <2>2, <3>2, UsedTells
        <4> QED BY <1>5, <3>2, <4>1 DEF VectorTells
      <3>3. CASE t \notin outs /\ t \notin DOMAIN use
        BY <1>3, <1>7, <2>2, <3>3 DEF VectorTells
      <3> QED BY <3>1, <3>2, <3>3
    <2>5. ASSUME NEW t \in src_graph.outputs PROVE WrittenPlain(t)'
      BY <1>2, <1>3, <2>2, <2>3 DEF WrittenPlain
    <2> QED BY <2>4, <2>5
  <1>14. src_graph' \in Graphs /\ op_visited' \subseteq ToHandle'
    BY <1>1, <1>3 DEF IInv, Due
  <1>15. src_graph'.outputs = src_graph.outputs
    BY <1>1
  <1>16. /\ tensor_queue' = tensor_queue \o NextTensors(o) /\ consumers' = Tail(consumers)
         /\ \A t \in Tensor : tensor_pv[t] # Unset \/ t \in outs => tensor_pv'[t] # Unset
    <2>1. ASSUME NEW t \in outs PROVE tensor_pv'[t] # Unset
      BY <1>4, <1>6, VectorIsNoMark
    <2> QED BY <1>5, <1>7, <2>1 DEF Handle
  <1>17. Walk'
    BY <1>1, <1>16, WalkGoesOn DEF IInv
  <1> QED BY <1>1, <1>8, <1>9, <1>10, <1>12, <1>13, <1>14, <1>15, <1>17 DEF IInv

-----------------------------------------------------------------------------
\* The kinds of operation.

\* The only input of an operation.
LEMMA OnlyInput ==
  ASSUME IInv, NEW o \in Ops, Due(o), Len(Op(o).ins) = 1,
         NEW t, t = Op(o).ins[1]
  PROVE  /\ Range(Op(o).ins) = {t} /\ t \in Tensor
         /\ src_graph.rank[t] \in Nat \ {0}
         /\ tensor_pv[t] \in PermuteVectors(src_graph.rank[t])
         /\ lies[t] \in Layouts(src_graph.rank[t])
         /\ slips = {} => lies[t] = tensor_pv[t]
  <1>0. src_graph \in Graphs
    BY DEF IInv
  <1>1. Range(Op(o).ins) = {t} /\ t \in Tensor /\ IsRead(t)
    <2>1. DOMAIN Op(o).ins = 1 .. 1 /\ Range(Op(o).ins) \subseteq Tensor
          /\ \A u \in Range(Op(o).ins) : IsRead(u)
      BY <1>0, OperationFacts
    <2>2. Range(Op(o).ins) = {t}
      BY <2>1 DEF Range
    <2> QED BY <2>1, <2>2
  <1>2. tensor_pv[t] # Unset
    <2>1. CASE IsConst(t)
      <3>1. ReadsConstants(src_graph, o)
        BY <1>1, <2>1 DEF ReadsConstants, IsConst, Op
      <3>2. 1 \in ConstantInputsTensor(src_graph, o)
        BY <1>0, <3>1, PlacesTaken DEF Due
      <3> QED BY <3>2 DEF IInv, ConstantsKnown
    <2>2. CASE ~IsConst(t)
      BY <1>1, <2>2 DEF Due, IsReadyForInfer
    <2> QED BY <2>1, <2>2
  <1>3. LiesSomehow(t) /\ (slips = {} => VectorTells(t))
    BY <1>1 DEF IInv
  <1> QED BY <1>0, <1>1, <1>2, <1>3, GraphFacts DEF LiesSomehow, VectorTells

\* Operands that are taken together lie alike, and have the axis where the vector says.
LEMMA TogetherSomehow ==
  ASSUME NEW o \in Ops, NEW use, NEW n \in Nat,
         LiesWith(use, Op(o).ins[1]) \in Layouts(n),
         NEW axis \in Nat, NEW p, NEW data, data = Together(o, use, axis, p)
  PROVE  /\ data \in Layouts(n)
         /\ data # Garbage => /\ data \in PermuteVectors(n)
                              /\ axis > 0 => data[MapAxis(p, axis)] = axis
  BY DEF Together, Layouts

LEMMA TogetherLies ==
  ASSUME src_graph \in Graphs, NEW o \in Ops, NEW use, NEW n \in Nat \ {0},
         NEW d \in PermuteVectors(n), \A t \in Range(Op(o).ins) : LiesWith(use, t) = d,
         NEW axis \in 0 .. n, NEW p, axis > 0 => p = d
  PROVE  Together(o, use, axis, p) = d
  <1>1. Op(o).ins[1] \in Range(Op(o).ins)
    BY OperationFacts
  <1>2. d # Garbage
    BY VectorIsNoMark
  <1>3. axis > 0 => d[MapAxis(p, axis)] = axis
    BY MapAxisFinds
  <1> QED BY <1>1, <1>2, <1>3 DEF Together

LEMMA PassThroughKeeps ==
  ASSUME IInv, NEW o \in Ops, Due(o), PassThrough(o),
         Len(Op(o).ins) = 1, Op(o).axis <= src_graph.rank[Op(o).ins[1]],
         \A t \in Range(Op(o).outs) : src_graph.rank[t] = src_graph.rank[Op(o).ins[1]]
  PROVE  IInv'
  <1>1. PICK t, v, use, axis, data, p, result :
          /\ t = Op(o).ins[1] /\ v = tensor_pv[t] /\ use = <<>> /\ axis = Op(o).axis
          /\ data = Together(o, use, axis, v)
          /\ p = Alike(o, v) /\ result = Alike(o, data)
    OBVIOUS
  <1>2. Handle(o, use, p, result)
    BY <1>1 DEF PassThrough
  <1>3. PICK n \in Nat \ {0} : n = src_graph.rank[t]
    BY <1>1, OnlyInput
  <1>4. /\ v \in PermuteVectors(n) /\ lies[t] \in Layouts(n) /\ Range(Op(o).ins) = {t}
        /\ slips = {} => lies[t] = v
    BY <1>1, <1>3, OnlyInput
  <1>5. DOMAIN use = {} /\ LiesWith(use, t) = lies[t]
    BY <1>1 DEF LiesWith
  <1>6. src_graph \in Graphs
    BY DEF IInv
  <1>7. axis \in 0 .. n
    BY <1>1, <1>3, <1>6, OperationFacts
  <1>8. data \in Layouts(n)
    BY <1>1, <1>4, <1>5, <1>7, TogetherSomehow
  <1>9. Fitting(o, use, p, result)
    BY <1>1, <1>3, <1>4, <1>5, <1>8 DEF Fitting, Alike
  <1>10. ASSUME slips = {} PROVE Tells(o, p, result)
    <2>1. \A u \in Range(Op(o).ins) : LiesWith(use, u) = v
      BY <1>4, <1>5, <1>10
    <2>2. data = v
      BY <1>1, <1>4, <1>6, <1>7, <2>1, TogetherLies
    <2> QED BY <1>1, <2>2 DEF Tells, Alike
  <1> QED BY <1>2, <1>9, <1>10, HandleKeeps

\* Activations, softmax and split.
LEMMA VectorGoesThrough ==
  ASSUME IInv, Activation \/ Softmax \/ Split PROVE IInv'
  <1>1. PICK o \in Ops : /\ Due(o) /\ PassThrough(o)
                         /\ Op(o).kind \in {"activation", "softmax", "split"}
    BY DEF Activation, Softmax, Split, Handles
  <1>2. Fits(src_graph, Op(o))
    BY OperationFacts DEF IInv
  <1>3. /\ Len(Op(o).ins) = 1 /\ Op(o).axis <= src_graph.rank[Op(o).ins[1]]
        /\ \A t \in Range(Op(o).outs) : src_graph.rank[t] = src_graph.rank[Op(o).ins[1]]
    BY <1>1, <1>2 DEF Fits
  <1> QED BY <1>1, <1>3, PassThroughKeeps

\* An input that is used with the vector v, or that is moved to it.
LEMMA InputUsed ==
  ASSUME IInv, NEW o \in Ops, Due(o), NEW use, NEW t \in DOMAIN use,
         t \in Range(Op(o).ins), NEW n, n = src_graph.rank[t], NEW v \in PermuteVectors(n),
         use[t] = Use(t, v) \/ (use[t] = Moved(t, v) /\ tensor_pv[t] # Unset)
  PROVE  /\ UsedWell(use, t) /\ LiesWith(use, t) \in Layouts(n) /\ n \in Nat \ {0}
         /\ slips = {} /\ SlipsOf(o, use) = {} => LiesWith(use, t) = v
  <1>1. /\ src_graph \in Graphs /\ t \in Tensor /\ IsRead(t) /\ LiesSomehow(t)
        /\ slips = {} => VectorTells(t)
    BY OperationFacts DEF IInv
  <1>2. n \in Nat \ {0} /\ v # Unset
    BY <1>1, GraphFacts, VectorIsNoMark
  <1>3. \/ use[t] = [pv |-> v, by |-> v, copied |-> TRUE]
        \/ use[t] = Moved(t, v) /\ tensor_pv[t] # Unset
    BY DEF Use, Due, IsReadyForInfer
  <1>4. use[t].pv = v /\ use[t].by = IF use[t].copied THEN v ELSE Change(t, v)
    BY <1>3 DEF Moved
  <1>5. ~use[t].copied => tensor_pv[t] # Unset
    BY <1>3
  <1>6. ~use[t].copied => Change(t, v) \in PermuteVectors(n)
    <2>1. ~use[t].copied => tensor_pv[t] \in PermuteVectors(n)
      BY <1>1, <1>5 DEF LiesSomehow
    <2> QED BY <1>2, <2>1, ChangeLeads DEF Change
  <1>7. UsedWell(use, t)
    BY <1>4, <1>5, <1>6 DEF UsedWell
  <1> QED BY <1>1, <1>2, <1>4, <1>7, UsedLies, UsedTells

LEMMA AligningTells ==
  ASSUME IInv, NEW o \in Ops, Due(o), \E t \in Range(Op(o).ins) : ~IsConst(t),
         NEW n, \A t \in Range(Op(o).ins) : src_graph.rank[t] = n,
         NEW use, use = Aligning(o), NEW v, v = RequiredVector(o)
  PROVE  /\ v \in PermuteVectors(n) /\ n \in Nat \ {0}
         /\ DOMAIN use = Range(Op(o).ins) /\ \A t \in DOMAIN use : UsedWell(use, t)
         /\ \A t \in Range(Op(o).ins) : LiesWith(use, t) \in Layouts(n)
         /\ slips = {} /\ SlipsOf(o, use) = {} =>
              \A t \in Range(Op(o).ins) : LiesWith(use, t) = v
  <1>1. src_graph \in Graphs
    BY DEF IInv
  <1>2. PICK t \in Range(Op(o).ins) : ~IsConst(t) /\ v = tensor_pv[t]
    BY <1>1, FirstVariable
  <1>3. v # Unset /\ t \in Tensor /\ n = src_graph.rank[t]
    BY <1>1, <1>2, OperationFacts DEF Due, IsReadyForInfer
  <1>4. v \in PermuteVectors(n)
    BY <1>2, <1>3 DEF IInv, LiesSomehow
  <1>5. use = [u \in Range(Op(o).ins) |-> Use(u, v)]
    BY DEF Aligning
  <1>6. n \in Nat \ {0}
    BY <1>1, <1>3, GraphFacts
  <1>7. ASSUME NEW u \in Range(Op(o).ins)
        PROVE  /\ UsedWell(use, u) /\ LiesWith(use, u) \in Layouts(n)
               /\ slips = {} /\ SlipsOf(o, use) = {} => LiesWith(use, u) = v
    <2>1. u \in DOMAIN use /\ use[u] = Use(u, v) /\ n = src_graph.rank[u]
      BY <1>5
    <2> QED BY <1>4, <2>1, InputUsed
  <1> QED BY <1>4, <1>5, <1>6, <1>7

LEMMA AlignKeeps ==
  ASSUME IInv, NEW o \in Ops, Due(o), Align(o),
         \E t \in Range(Op(o).ins) : ~IsConst(t),
         NEW n, Op(o).axis <= n, \A t \in Range(Op(o).ins) : src_graph.rank[t] = n,
         \A t \in Range(Op(o).outs) : src_graph.rank[t] = n
  PROVE  IInv'
  <1>1. PICK v, use, axis, data, p, result :
          /\ v = RequiredVector(o) /\ use = Aligning(o) /\ axis = Op(o).axis
          /\ data = Together(o, use, axis, v)
          /\ p = Alike(o, v) /\ result = Alike(o, data)
    OBVIOUS
  <1>2. Handle(o, use, p, result)
    BY <1>1 DEF Align
  <1>3. /\ v \in PermuteVectors(n) /\ n \in Nat \ {0}
        /\ DOMAIN use = Range(Op(o).ins) /\ \A t \in DOMAIN use : UsedWell(use, t)
        /\ \A t \in Range(Op(o).ins) : LiesWith(use, t) \in Layouts(n)
        /\ slips = {} /\ SlipsOf(o, use) = {} =>
             \A t \in Range(Op(o).ins) : LiesWith(use, t) = v
    BY <1>1, AligningTells
  <1>4. src_graph \in Graphs
    BY DEF IInv
  <1>5. axis \in 0 .. n /\ axis \in Nat /\ Op(o).ins[1] \in Range(Op(o).ins)
    BY <1>1, <1>3, <1>4, OperationFacts
  <1>6. data \in Layouts(n)
    BY <1>1, <1>3, <1>5, TogetherSomehow
  <1>7. Fitting(o, use, p, result)
    BY <1>1, <1>3, <1>6 DEF Fitting, Alike
  <1>8. ASSUME slips = {}, SlipsOf(o, use) = {} PROVE Tells(o, p, result)
    <2>1. data = v
      BY <1>1, <1>3, <1>4, <1>5, <1>8, TogetherLies
    <2> QED BY <1>1, <2>1 DEF Tells, Alike
  <1> QED BY <1>2, <1>7, <1>8, HandleKeeps

LEMMA OperandsAreAligned ==
  ASSUME IInv, ElementWise \/ AddN \/ Concat PROVE IInv'
  <1>1. PICK o \in Ops : /\ Due(o) /\ Align(o) /\ ~NoVector(o)
                         /\ Op(o).kind \in {"elementwise", "addn", "concat"}
    BY DEF ElementWise, AddN, Concat, Handles
  <1>2. Fits(src_graph, Op(o))
    BY OperationFacts DEF IInv
  <1>3. PICK n : n = src_graph.rank[Op(o).ins[1]]
    OBVIOUS
  <1>4. /\ Op(o).axis <= n
        /\ \A t \in Range(Op(o).ins) : src_graph.rank[t] = n
        /\ \A t \in Range(Op(o).outs) : src_graph.rank[t] = n
        /\ \E t \in Range(Op(o).ins) : ~IsConst(t)
    BY <1>1, <1>2, <1>3 DEF Fits, NoVector, ReadsConstants, IsConst, Op
  <1> QED BY <1>1, <1>4, AlignKeeps

LEMMA StackKeeps == ASSUME IInv, Stack PROVE IInv'
  <1>1. PICK o \in Ops :
          /\ Due(o) /\ ~NoVector(o) /\ Op(o).kind = "stack"
          /\ LET axis == Op(o).axis
                 aligned == Together(o, Aligning(o), 0, <<>>)
                 Number(a) == IF a < axis THEN a ELSE a + 1
             IN  Handle(o, Aligning(o), Alike(o, Stacked(RequiredVector(o), axis)),
                   Alike(o, IF aligned = Garbage THEN Garbage
                            ELSE InsertAt([i \in DOMAIN aligned |-> Number(aligned[i])], axis, axis)))
    BY DEF Stack, Handles
  <1>2. PICK v, use, axis, aligned, data, p, result :
          /\ v = RequiredVector(o) /\ use = Aligning(o) /\ axis = Op(o).axis
          /\ aligned = Together(o, use, 0, <<>>)
          /\ data = IF aligned = Garbage THEN Garbage
               ELSE InsertAt([i \in DOMAIN aligned |->
                                IF aligned[i] < axis THEN aligned[i] ELSE aligned[i] + 1], axis, axis)
          /\ p = Alike(o, Stacked(v, axis)) /\ result = Alike(o, data)
    OBVIOUS
  <1>3. Handle(o, use, p, result)
    BY <1>1, <1>2
  <1>4. PICK n : n = src_graph.rank[Op(o).ins[1]]
    OBVIOUS
  <1>5. src_graph \in Graphs /\ Fits(src_graph, Op(o)) /\ Op(o).ins[1] \in Range(Op(o).ins)
    BY OperationFacts DEF IInv
  <1>6. /\ axis \in 1 .. n + 1
        /\ \A t \in Range(Op(o).ins) : src_graph.rank[t] = n
        /\ \A t \in Range(Op(o).outs) : src_graph.rank[t] = n + 1
        /\ \E t \in Range(Op(o).ins) : ~IsConst(t)
    BY <1>1, <1>2, <1>4, <1>5 DEF Fits, NoVector, ReadsConstants, IsConst, Op
  <1>7. /\ v \in PermuteVectors(n) /\ n \in Nat \ {0}
        /\ DOMAIN use = Range(Op(o).ins) /\ \A t \in DOMAIN use : UsedWell(use, t)
        /\ \A t \in Range(Op(o).ins) : LiesWith(use, t) \in Layouts(n)
        /\ slips = {} /\ SlipsOf(o, use) = {} =>
             \A t \in Range(Op(o).ins) : LiesWith(use, t) = v
    BY <1>1, <1>2, <1>6, AligningTells
  <1>8. aligned = Garbage \/ aligned \in PermuteVectors(n)
    BY <1>2, <1>5, <1>7, TogetherSomehow
  <1>9. /\ Stacked(v, axis) \in PermuteVectors(n + 1)
        /\ aligned # Garbage => data = Stacked(aligned, axis) /\ data \in PermuteVectors(n + 1)
    BY <1>2, <1>6, <1>7, <1>8, StackedTells
  <1>10. Fitting(o, use, p, result)
    <2>1. data \in Layouts(n + 1)
      BY <1>2, <1>9 DEF Layouts
    <2> QED BY <1>2, <1>6, <1>7, <1>9, <2>1 DEF Fitting, Alike
  <1>11. ASSUME slips = {}, SlipsOf(o, use) = {} PROVE Tells(o, p, result)
    <2>1. aligned = v
      BY <1>2, <1>5, <1>7, <1>11, TogetherLies
    <2>2. v # Garbage
      BY <1>7, VectorIsNoMark
    <2> QED BY <1>2, <1>9, <2>1, <2>2 DEF Tells, Alike
  <1> QED BY <1>1, <1>3, <1>10, <1>11, HandleKeeps

LEMMA ReduceKeeps == ASSUME IInv, Reduce PROVE IInv'
  <1>1. PICK o \in Ops :
          /\ Due(o) /\ Op(o).kind = "reduce"
          /\ LET p == tensor_pv[Op(o).ins[1]]
                 axis == Op(o).axis
                 at == MapAxis(p, axis)
                 data == Together(o, <<>>, axis, p)
                 Number(a) == Cardinality({b \in Range(data) \ {axis} : b <= a})
             IN  IF Op(o).keep_dim THEN PassThrough(o)
                 ELSE Handle(o, <<>>, Alike(o, Reduced(p, {at})),
                        Alike(o, IF data = Garbage THEN Garbage
                                 ELSE LET left == RemoveAt(data, at)
                                      IN  [i \in DOMAIN left |-> Number(left[i])]))
    BY DEF Reduce, Handles
  <1>2. PICK t, v, use, axis, at, data, left, p, result :
          /\ t = Op(o).ins[1] /\ v = tensor_pv[t] /\ use = <<>> /\ axis = Op(o).axis
          /\ at = MapAxis(v, axis) /\ data = Together(o, use, axis, v)
          /\ left = IF data = Garbage THEN Garbage
               ELSE [i \in DOMAIN RemoveAt(data, at) |->
                       Cardinality({b \in Range(data) \ {axis} : b <= RemoveAt(data, at)[i]})]
          /\ p = Alike(o, Reduced(v, {at})) /\ result = Alike(o, left)
    OBVIOUS
  <1>3. src_graph \in Graphs
    BY DEF IInv
  <1>4. PICK n : n = src_graph.rank[t]
    OBVIOUS
  <1>5. Fits(src_graph, Op(o))
    BY <1>3, OperationFacts
  <1>6. /\ Len(Op(o).ins) = 1 /\ axis \in 1 .. n
        /\ \A u \in Range(Op(o).outs) :
             src_graph.rank[u] = IF Op(o).keep_dim THEN n ELSE n - 1
    BY <1>1, <1>2, <1>4, <1>5 DEF Fits
  <1>7. /\ n \in Nat \ {0} /\ Range(Op(o).ins) = {t}
        /\ v \in PermuteVectors(n) /\ lies[t] \in Layouts(n)
        /\ slips = {} => lies[t] = v
    BY <1>1, <1>2, <1>4, <1>6, OnlyInput
  <1>8. CASE Op(o).keep_dim
    <2>1. PassThrough(o)
      BY <1>1, <1>8
    <2>2. Op(o).axis <= src_graph.rank[Op(o).ins[1]]
      BY <1>2, <1>4, <1>6, <1>7
    <2>3. \A u \in Range(Op(o).outs) : src_graph.rank[u] = src_graph.rank[Op(o).ins[1]]
      BY <1>2, <1>4, <1>6, <1>8
    <2> QED BY <1>1, <1>6, <2>1, <2>2, <2>3, PassThroughKeeps
  <1>9. CASE ~Op(o).keep_dim
    <2>1. Handle(o, use, p, result)
      BY <1>1, <1>2, <1>9
    <2>2. DOMAIN use = {} /\ LiesWith(use, t) = lies[t] /\ axis \in Nat /\ axis > 0
      BY <1>2, <1>6, <1>7 DEF LiesWith
    <2>3. data # Garbage => data \in PermuteVectors(n) /\ data[MapAxis(v, axis)] = axis
      BY <1>2, <1>7, <2>2, TogetherSomehow
    <2>4. data # Garbage => at = MapAxis(data, axis)
      <3> SUFFICES ASSUME data # Garbage PROVE at = MapAxis(data, axis)
        OBVIOUS
      <3>1. at \in 1 .. n
        BY <1>2, <1>6, <1>7, MapAxisFinds
      <3>2. data \in PermuteVectors(n) /\ data[at] = axis
        BY <1>2, <2>3
      <3>3. axis \in 1 .. n /\ n \in Nat
        BY <1>6, <1>7
      <3> QED BY <3>1, <3>2, <3>3, MapAxisFinds
    <2>5. data # Garbage => left = Reduced(data, {at}) /\ left \in PermuteVectors(n - 1)
      <3> SUFFICES ASSUME data # Garbage
                   PROVE  left = Reduced(data, {at}) /\ left \in PermuteVectors(n - 1)
        OBVIOUS
      <3>1. n \in Nat \ {0} /\ data \in PermuteVectors(n) /\ axis \in 1 .. n
        BY <1>6, <1>7, <2>3
      <3>2. at = MapAxis(data, axis)
        BY <2>4
      <3>3. /\ Reduced(data, {at}) \in PermuteVectors(n - 1)
            /\ [i \in DOMAIN RemoveAt(data, at) |->
                  Cardinality({b \in Range(data) \ {axis} : b <= RemoveAt(data, at)[i]})]
                 = Reduced(data, {at})
        BY <3>1, <3>2, ReducedTells
      <3> QED BY <1>2, <3>3
    <2>6. Reduced(v, {at}) \in PermuteVectors(n - 1)
      <3>1. at = MapAxis(v, axis)
        BY <1>2
      <3>2. n \in Nat \ {0} /\ v \in PermuteVectors(n) /\ axis \in 1 .. n
        BY <1>6, <1>7
      <3> QED BY <3>1, <3>2, ReducedTells
    <2>7. Fitting(o, use, p, result)
      <3>1. left \in Layouts(n - 1)
        BY <1>2, <2>5 DEF Layouts
      <3> QED BY <1>2, <1>6, <1>9, <2>2, <2>6, <3>1 DEF Fitting, Alike
    <2>8. ASSUME slips = {} PROVE Tells(o, p, result)
      <3>1. \A u \in Range(Op(o).ins) : LiesWith(use, u) = v
        BY <1>7, <2>2, <2>8
      <3>2. axis \in 0 .. n
        BY <1>6, <1>7
      <3>3. data = v
        BY <1>2, <1>3, <1>7, <3>1, <3>2, TogetherLies
      <3>4. v # Garbage
        BY <1>7, VectorIsNoMark
      <3> QED BY <1>2, <2>5, <3>3, <3>4 DEF Tells, Alike
    <2> QED BY <1>1, <2>1, <2>7, <2>8, HandleKeeps
  <1> QED BY <1>8, <1>9

LEMMA TransposeKeeps == ASSUME IInv, Transpose PROVE IInv'
  <1>1. PICK o \in Ops :
          /\ Due(o) /\ Op(o).kind = "transpose"
          /\ LET t == Op(o).ins[1]
                 moved == Permuted(lies[t], Change(t, Op(o).perm))
                 plain == Aligned(Len(Op(o).perm))
             IN  Handle(o, <<>>, Alike(o, plain),
                        Alike(o, IF moved = Op(o).perm THEN plain ELSE Garbage))
    BY DEF Transpose, Handles
  <1>2. PICK t, perm, use, plain, p, result :
          /\ t = Op(o).ins[1] /\ perm = Op(o).perm /\ use = <<>> /\ plain = Aligned(Len(perm))
          /\ p = Alike(o, plain)
          /\ result = Alike(o, IF Permuted(lies[t], Change(t, perm)) = perm
                               THEN plain ELSE Garbage)
    OBVIOUS
  <1>3. Handle(o, use, p, result)
    BY <1>1, <1>2
  <1>4. PICK n : n = src_graph.rank[t]
    OBVIOUS
  <1>5. Fits(src_graph, Op(o))
    BY OperationFacts DEF IInv
  <1>6. /\ Len(Op(o).ins) = 1 /\ perm \in PermuteVectors(n)
        /\ \A u \in Range(Op(o).outs) : src_graph.rank[u] = n
    BY <1>1, <1>2, <1>4, <1>5 DEF Fits
  <1>7. n \in Nat /\ tensor_pv[t] \in PermuteVectors(n) /\ (slips = {} => lies[t] = tensor_pv[t])
    BY <1>1, <1>2, <1>4, <1>6, OnlyInput
  <1>8. plain \in PermuteVectors(n)
    BY <1>2, <1>6, <1>7, AlignedIsVector, VectorIsSeq
  <1>9. Fitting(o, use, p, result)
    <2>1. DOMAIN use = {}
      BY <1>2
    <2> QED BY <1>2, <1>6, <1>8, <2>1 DEF Fitting, Alike, Layouts
  <1>10. ASSUME slips = {} PROVE Tells(o, p, result)
    <2>1. Permuted(lies[t], Change(t, perm)) = perm
      BY <1>6, <1>7, <1>10, ChangeLeads DEF Change
    <2> QED BY <1>2, <2>1 DEF Tells, Alike
  <1> QED BY <1>1, <1>3, <1>9, <1>10, HandleKeeps

\* The layout an operation was declared with.
LEMMA DeclaredIsVector ==
  ASSUME NEW o PROVE Declared(o) \in PermuteVectors(4) /\ Declared(o) # Unset
  <1>1. Declared(o) \in PermuteVectors(4)
    BY GraphsAssumption, AlignedIsVector DEF Declared
  <1> QED BY <1>1, VectorIsNoMark

LEMMA Conv2dKeeps == ASSUME IInv, Conv2d PROVE IInv'
  <1>1. PICK o \in Ops :
          /\ Due(o) /\ ~NoVector(o) /\ Op(o).kind = "conv2d"
          /\ LET input == Op(o).ins[1]
                 weight == Op(o).ins[2]
                 use == [t \in {input, weight} |->
                           IF t = input THEN Moved(t, Declared(o)) ELSE Use(t, Op(o).perm)]
             IN  Handle(o, use, Alike(o, Declared(o)),
                   Alike(o, IF LiesWith(use, weight) = Op(o).perm
                            THEN Only(use, input, Declared(o)) ELSE Garbage))
    BY DEF Conv2d, Handles
  <1>2. PICK input, weight, d, perm, use, p, result :
          /\ input = Op(o).ins[1] /\ weight = Op(o).ins[2]
          /\ d = Declared(o) /\ perm = Op(o).perm
          /\ use = [t \in {input, weight} |-> IF t = input THEN Moved(t, d) ELSE Use(t, perm)]
          /\ p = Alike(o, d)
          /\ result = Alike(o, IF LiesWith(use, weight) = perm THEN Only(use, input, d) ELSE Garbage)
    OBVIOUS
  <1>3. Handle(o, use, p, result)
    BY <1>1, <1>2
  <1>4. src_graph \in Graphs
    BY DEF IInv
  <1>5. Fits(src_graph, Op(o)) /\ DOMAIN Op(o).ins = 1 .. Len(Op(o).ins)
    BY <1>4, OperationFacts
  <1>6. /\ Len(Op(o).ins) = 2 /\ weight # input
        /\ \A t \in Range(Op(o).ins) : src_graph.rank[t] = 4
        /\ perm \in PermuteVectors(4)
        /\ \A t \in Range(Op(o).outs) : src_graph.rank[t] = 4
    BY <1>1, <1>2, <1>5 DEF Fits
  <1>7. input \in Range(Op(o).ins) /\ weight \in Range(Op(o).ins)
    BY <1>2, <1>5, <1>6 DEF Range
  <1>8. d \in PermuteVectors(4)
    BY <1>2, DeclaredIsVector
  <1>9. /\ DOMAIN use = {input, weight}
        /\ use[input] = Moved(input, d) /\ use[weight] = Use(weight, perm)
        /\ tensor_pv[input] # Unset
    BY <1>1, <1>2, <1>6 DEF NoVector
  <1>10. /\ UsedWell(use, input)
         /\ slips = {} /\ SlipsOf(o, use) = {} => LiesWith(use, input) = d
    <2>1. input \in DOMAIN use /\ src_graph.rank[input] = 4
      BY <1>6, <1>7, <1>9
    <2> QED BY <1>1, <1>7, <1>8, <1>9, <2>1, InputUsed
  <1>11. /\ UsedWell(use, weight)
         /\ slips = {} /\ SlipsOf(o, use) = {} => LiesWith(use, weight) = perm
    <2>1. weight \in DOMAIN use /\ src_graph.rank[weight] = 4
      BY <1>6, <1>7, <1>9
    <2> QED BY <1>1, <1>6, <1>7, <1>9, <2>1, InputUsed
  <1>12. Fitting(o, use, p, result)
    <2>1. \A t \in Range(Op(o).outs) : p[t] = d /\ result[t] \in {d, Garbage}
      BY <1>2 DEF Alike, Only
    <2> QED BY <1>6, <1>7, <1>8, <1>9, <1>10, <1>11, <2>1 DEF Fitting, Layouts
  <1>13. ASSUME slips = {}, SlipsOf(o, use) = {} PROVE Tells(o, p, result)
    BY <1>2, <1>10, <1>11, <1>13 DEF Tells, Alike, Only
  <1> QED BY <1>1, <1>3, <1>12, <1>13, HandleKeeps

\* An operation on one input of four axes that is used as "use" says.
LEMMA OneUsed ==
  ASSUME IInv, NEW o \in Ops, Due(o),
         NEW t, NEW use, NEW d, d = Declared(o),
         Handle(o, use, Alike(o, d), Alike(o, Only(use, t, d))),
         \A u \in Range(Op(o).outs) : src_graph.rank[u] = 4,
         DOMAIN use \subseteq Range(Op(o).ins), \A u \in DOMAIN use : UsedWell(use, u),
         slips = {} /\ SlipsOf(o, use) = {} => LiesWith(use, t) = d
  PROVE  IInv'
  <1>1. PICK p, result : p = Alike(o, d) /\ result = Alike(o, Only(use, t, d))
    OBVIOUS
  <1>2. d \in PermuteVectors(4)
    BY DeclaredIsVector
  <1>3. Fitting(o, use, p, result)
    <2>1. \A u \in Range(Op(o).outs) : p[u] = d /\ result[u] \in {d, Garbage}
      BY <1>1 DEF Alike, Only
    <2> QED BY <1>2, <2>1 DEF Fitting, Layouts
  <1>4. ASSUME slips = {}, SlipsOf(o, use) = {} PROVE Tells(o, p, result)
    BY <1>1, <1>4 DEF Tells, Alike, Only
  <1> QED BY <1>1, <1>3, <1>4, HandleKeeps

LEMMA Pool2dKeeps == ASSUME IInv, Pool2d PROVE IInv'
  <1>1. PICK o \in Ops :
          /\ Due(o) /\ Op(o).kind = "pool2d"
          /\ LET t == Op(o).ins[1]
                 use == [u \in {t} |-> Moved(u, Declared(o))]
             IN  Handle(o, use, Alike(o, Declared(o)), Alike(o, Only(use, t, Declared(o))))
    BY DEF Pool2d, Handles
  <1>2. PICK t, d, use :
          t = Op(o).ins[1] /\ d = Declared(o) /\ use = [u \in {t} |-> Moved(u, d)]
    OBVIOUS
  <1>3. Handle(o, use, Alike(o, d), Alike(o, Only(use, t, d)))
    BY <1>1, <1>2
  <1>4. src_graph \in Graphs
    BY DEF IInv
  <1>5. /\ t \in Range(Op(o).ins) /\ src_graph.rank[t] = 4 /\ Len(Op(o).ins) = 1
        /\ \A u \in Range(Op(o).outs) : src_graph.rank[u] = 4
    <2>1. Fits(src_graph, Op(o)) /\ t \in Range(Op(o).ins)
      BY <1>2, <1>4, OperationFacts
    <2>2. Len(Op(o).ins) = 1 /\ \A u \in Range(Op(o).ins \o Op(o).outs) : src_graph.rank[u] = 4
      BY <1>1, <2>1 DEF Fits
    <2> QED BY <1>4, <2>1, <2>2, RangeOfBoth
  <1>6. /\ DOMAIN use = {t} /\ use[t] = Moved(t, d) /\ t \in DOMAIN use
        /\ d \in PermuteVectors(4) /\ tensor_pv[t] # Unset
    <2>1. tensor_pv[t] \in PermuteVectors(4)
      BY <1>1, <1>2, <1>5, OnlyInput
    <2> QED BY <1>2, <2>1, DeclaredIsVector, VectorIsNoMark
  <1>7. UsedWell(use, t) /\ (slips = {} /\ SlipsOf(o, use) = {} => LiesWith(use, t) = d)
    BY <1>1, <1>5, <1>6, InputUsed
  <1> QED BY <1>1, <1>2, <1>3, <1>5, <1>6, <1>7, OneUsed

LEMMA ResizeKeeps == ASSUME IInv, Resize PROVE IInv'
  <1>1. PICK o \in Ops :
          /\ Due(o) /\ Op(o).kind = "resize"
          /\ LET t == Op(o).ins[1]
                 use == [u \in {t} |-> ResizeUse(u, Declared(o))]
             IN  Handle(o, use, Alike(o, Declared(o)), Alike(o, Only(use, t, Declared(o))))
    BY DEF Resize, Handles
  <1>2. PICK t, d, c, use :
          /\ t = Op(o).ins[1] /\ d = Declared(o) /\ c = Change(t, d)
          /\ use = [u \in {t} |-> ResizeUse(u, d)]
    OBVIOUS
  <1>3. Handle(o, use, Alike(o, d), Alike(o, Only(use, t, d)))
    BY <1>1, <1>2
  <1>4. src_graph \in Graphs
    BY DEF IInv
  <1>5. /\ t \in Range(Op(o).ins) /\ src_graph.rank[t] = 4 /\ Len(Op(o).ins) = 1
        /\ \A u \in Range(Op(o).outs) : src_graph.rank[u] = 4
    <2>1. Fits(src_graph, Op(o)) /\ t \in Range(Op(o).ins)
      BY <1>2, <1>4, OperationFacts
    <2>2. Len(Op(o).ins) = 1 /\ \A u \in Range(Op(o).ins \o Op(o).outs) : src_graph.rank[u] = 4
      BY <1>1, <2>1 DEF Fits
    <2> QED BY <1>4, <2>1, <2>2, RangeOfBoth
  <1>6. /\ DOMAIN use = {t} /\ use[t].by = c /\ ~use[t].copied
        /\ use[t].pv = IF IsAligned(c) THEN d ELSE c
    <2>1. use[t] = ResizeUse(t, d) /\ DOMAIN use = {t}
      BY <1>2
    <2> QED BY <1>2, <2>1 DEF ResizeUse, Moved
  <1>7. /\ tensor_pv[t] \in PermuteVectors(4) /\ d \in PermuteVectors(4)
        /\ slips = {} => lies[t] = tensor_pv[t]
        /\ tensor_pv[t] # Unset
    <2>1. /\ tensor_pv[t] \in PermuteVectors(4)
          /\ slips = {} => lies[t] = tensor_pv[t]
      BY <1>1, <1>2, <1>5, OnlyInput
    <2> QED BY <1>2, <2>1, DeclaredIsVector, VectorIsNoMark
  <1>8. c \in PermuteVectors(4) /\ Permuted(tensor_pv[t], c) = d
    BY <1>2, <1>7, ChangeLeads DEF Change
  <1>9. UsedWell(use, t)
    BY <1>5, <1>6, <1>7, <1>8 DEF UsedWell
  <1>10. slips = {} => LiesWith(use, t) = d
    BY <1>6, <1>7, <1>8 DEF LiesWith
  <1> QED BY <1>1, <1>2, <1>3, <1>5, <1>6, <1>9, <1>10, OneUsed

LEMMA BatchNormKeeps == ASSUME IInv, BatchNorm PROVE IInv'
  <1>1. PICK o \in Ops :
          /\ Due(o) /\ Op(o).kind = "batchnorm"
          /\ LET t == Op(o).ins[1]
                 use == [u \in Range(Op(o).ins) |-> BatchNormUse(u, Declared(o))]
             IN  Handle(o, use, Alike(o, Declared(o)), Alike(o, Only(use, t, Declared(o))))
    BY DEF BatchNorm, Handles
  <1>2. PICK t, d, use :
          /\ t = Op(o).ins[1] /\ d = Declared(o)
          /\ use = [u \in Range(Op(o).ins) |-> BatchNormUse(u, d)]
    OBVIOUS
  <1>3. Handle(o, use, Alike(o, d), Alike(o, Only(use, t, d)))
    BY <1>1, <1>2
  <1>4. src_graph \in Graphs
    BY DEF IInv
  <1>5. /\ t \in Range(Op(o).ins) /\ src_graph.rank[t] = 4
        /\ \A u \in Range(Op(o).ins) : IsConst(u) \/ u = t
        /\ \A u \in Range(Op(o).outs) : src_graph.rank[u] = 4
    <2>1. Fits(src_graph, Op(o)) /\ t \in Range(Op(o).ins)
      BY <1>2, <1>4, OperationFacts
    <2> QED BY <1>1, <1>2, <2>1 DEF Fits, IsConst
  <1>6. DOMAIN use = Range(Op(o).ins) /\ \A u \in DOMAIN use : use[u] = BatchNormUse(u, d)
    BY <1>2
  <1>7. \A u \in Range(Op(o).ins) : u \in Tensor /\ IsRead(u) /\ LiesSomehow(u)
    BY <1>4, OperationFacts DEF IInv
  <1>8. d \in PermuteVectors(4) /\ d # Unset
    BY <1>2, DeclaredIsVector
  \* What is no constant is moved.
  <1>9. ASSUME ~IsConst(t)
        PROVE  /\ use[t].pv = d /\ use[t].by \in {Change(t, d), d} /\ ~use[t].copied
               /\ UsedWell(use, t)
    <2>1. use[t].pv = d /\ use[t].by \in {Change(t, d), d} /\ ~use[t].copied
      BY <1>5, <1>6, <1>9 DEF BatchNormUse, Moved
    <2>2. tensor_pv[t] # Unset /\ tensor_pv[t] \in PermuteVectors(4)
      BY <1>1, <1>5, <1>7, <1>9 DEF Due, IsReadyForInfer, LiesSomehow
    <2>3. Change(t, d) \in PermuteVectors(4)
      BY <1>8, <2>2, ChangeLeads DEF Change
    <2> QED BY <1>5, <1>8, <2>1, <2>2, <2>3 DEF UsedWell
  \* A constant is copied.
  <1>10. ASSUME NEW u \in DOMAIN use, IsConst(u)
         PROVE  /\ use[u].pv = tensor_pv[u] /\ use[u].by = Plain(u) /\ use[u].copied
                /\ UsedWell(use, u)
    <2>1. use[u].pv = tensor_pv[u] /\ use[u].by = Plain(u) /\ use[u].copied
      BY <1>6, <1>10 DEF BatchNormUse
    <2>2. Plain(u) \in PermuteVectors(src_graph.rank[u])
      BY <1>4, <1>6, <1>7, GraphFacts, AlignedIsVector DEF Plain
    <2>3. tensor_pv[u] # Unset => tensor_pv[u] \in PermuteVectors(src_graph.rank[u])
      BY <1>6, <1>7 DEF LiesSomehow
    <2> QED BY <2>1, <2>2, <2>3 DEF UsedWell
  <1>11. ASSUME slips = {}, SlipsOf(o, use) = {} PROVE LiesWith(use, t) = d
    <2>1. /\ t \in DOMAIN use /\ t \in Tensor /\ IsRead(t) /\ LiesSomehow(t) /\ VectorTells(t)
          /\ UsedWell(use, t)
      BY <1>5, <1>6, <1>7, <1>9, <1>10, <1>11 DEF IInv
    <2>2. /\ use[t].pv # Unset => LiesWith(use, t) = use[t].pv
          /\ use[t].copied => LiesWith(use, t) = use[t].by
      BY <1>4, <1>11, <2>1, UsedTells
    <2>3. CASE IsConst(t)
      <3>1. ~CopiedAsIs(o, t)
        BY <1>11, <2>1, WithoutSlip
      <3>2. ~Op(o).cwhn
        BY <1>1, <1>2, <2>3, <3>1 DEF CopiedAsIs
      <3>3. d = Plain(t)
        BY <1>2, <1>5, <3>2 DEF Declared, Plain
      <3> QED BY <1>10, <2>1, <2>2, <2>3, <3>3
    <2>4. CASE ~IsConst(t)
      BY <1>8, <1>9, <2>2, <2>4
    <2> QED BY <2>3, <2>4
  <1>12. DOMAIN use \subseteq Range(Op(o).ins) /\ \A u \in DOMAIN use : UsedWell(use, u)
    BY <1>5, <1>6, <1>9, <1>10
  <1> QED BY <1>1, <1>2, <1>3, <1>5, <1>11, <1>12, OneUsed

LEMMA DefaultKeeps == ASSUME IInv, Default PROVE IInv'
  <1>1. PICK o \in Ops :
          /\ Due(o)
          /\ LET use == [t \in Range(Op(o).ins) |-> Use(t, Plain(t))]
                 plain == [t \in Range(Op(o).outs) |-> Plain(t)]
                 ready == \A t \in Range(Op(o).ins) : LiesWith(use, t) = Plain(t)
             IN  Handle(o, use, plain, IF ready THEN plain ELSE Alike(o, Garbage))
    BY DEF Default, Handles
  <1>2. PICK use, p, result :
          /\ use = [t \in Range(Op(o).ins) |-> Use(t, Plain(t))]
          /\ p = [t \in Range(Op(o).outs) |-> Plain(t)]
          /\ result = IF \A t \in Range(Op(o).ins) : LiesWith(use, t) = Plain(t)
                      THEN p ELSE Alike(o, Garbage)
    OBVIOUS
  <1>3. Handle(o, use, p, result)
    BY <1>1, <1>2
  <1>4. src_graph \in Graphs
    BY DEF IInv
  <1>5. Range(Op(o).ins) \subseteq Tensor /\ Range(Op(o).outs) \subseteq Tensor
    BY <1>4, OperationFacts
  <1>6. \A t \in Tensor : Plain(t) \in PermuteVectors(src_graph.rank[t])
    BY <1>4, GraphFacts, AlignedIsVector DEF Plain
  <1>7. ASSUME NEW t \in Range(Op(o).ins)
        PROVE  /\ UsedWell(use, t)
               /\ slips = {} /\ SlipsOf(o, use) = {} => LiesWith(use, t) = Plain(t)
    <2>1. /\ t \in DOMAIN use /\ use[t] = Use(t, Plain(t))
          /\ Plain(t) \in PermuteVectors(src_graph.rank[t])
      BY <1>2, <1>5, <1>6
    <2> QED BY <1>1, <2>1, InputUsed
  <1>8. Fitting(o, use, p, result)
    <2>1. \A t \in Range(Op(o).outs) : p[t] = Plain(t) /\ result[t] \in {Plain(t), Garbage}
      BY <1>2 DEF Alike
    <2>2. DOMAIN use = Range(Op(o).ins)
      BY <1>2
    <2> QED BY <1>5, <1>6, <1>7, <2>1, <2>2 DEF Fitting, Layouts
  <1>9. ASSUME slips = {}, SlipsOf(o, use) = {} PROVE Tells(o, p, result)
    BY <1>2, <1>7, <1>9 DEF Tells
  <1> QED BY <1>1, <1>3, <1>8, <1>9, HandleKeeps

-----------------------------------------------------------------------------
\* The invariant.

LEMMA InitInv == Init => IInv
  <1> SUFFICES ASSUME Init PROVE IInv
    OBVIOUS
  <1> DEFINE inputs == Range(src_graph.inputs)
             known == inputs \cup Range(GetConstantInputs(src_graph)) \cup src_graph.outputs
             Given(t) == IF t \in DOMAIN src_graph.tensor_pv_map
                         THEN src_graph.tensor_pv_map[t] ELSE Plain(t)
  <1>1. src_graph \in Graphs /\ op_visited = {} /\ on_output = src_graph.outputs /\ ~crashed
    BY DEF Init
  <1>2. /\ tensor_pv = [t \in Tensor |-> IF t \in known THEN Given(t) ELSE Unset]
        /\ lies = [t \in Tensor |-> IF t \in inputs THEN Given(t)
                                    ELSE IF t \in known THEN Plain(t) ELSE Unset]
        /\ \A t \in src_graph.outputs : out_lies[t] = Unset
    BY DEF Init
  <1>3. ASSUME NEW t \in Tensor
        PROVE  /\ Given(t) \in PermuteVectors(src_graph.rank[t]) /\ Given(t) # Unset
               /\ t \notin inputs => Given(t) = Plain(t)
    <2>1. src_graph.rank[t] \in Nat \ {0}
      BY <1>1, GraphFacts
    <2>2. Plain(t) \in PermuteVectors(src_graph.rank[t])
      BY <2>1, AlignedIsVector DEF Plain
    <2>3. t \in DOMAIN src_graph.tensor_pv_map =>
            t \in inputs /\ src_graph.tensor_pv_map[t] \in PermuteVectors(src_graph.rank[t])
      BY <1>1, GraphFacts
    <2>4. Given(t) \in PermuteVectors(src_graph.rank[t])
      BY <2>2, <2>3
    <2> QED BY <2>1, <2>3, <2>4, VectorIsNoMark
  <1> HIDE DEF Given
  <1>4. ConstantsKnown
    <2> SUFFICES ASSUME NEW o \in Ops, NEW i \in ConstantInputsTensor(src_graph, o),
                        NEW t, t = Op(o).ins[i]
                 PROVE  tensor_pv[t] # Unset
      BY DEF ConstantsKnown
    <2>1. t \in Tensor /\ t \in Range(GetConstantInputs(src_graph))
      BY <1>1, PlacesTaken, ConstantInputsAreListed
    <2> QED BY <1>2, <1>3, <2>1
  <1>5. ASSUME NEW t \in Tensor PROVE VectorTells(t) /\ LiesSomehow(t)
    BY <1>2, <1>3 DEF VectorTells, LiesSomehow, Layouts
  <1>6. \A t \in src_graph.outputs : WrittenWhenMade(t) /\ WrittenPlain(t)
    BY <1>1, <1>2 DEF WrittenWhenMade, WrittenPlain
  <1>7. WrittenByVisited
    BY <1>2 DEF WrittenByVisited
  <1>8. /\ src_graph.inputs \in Seq(Tensor) /\ GetConstantInputs(src_graph) \in Seq(Tensor)
        /\ tensor_queue = src_graph.inputs \o GetConstantInputs(src_graph) /\ consumers = <<>>
    BY <1>1, GraphsAssumption, ConstantInputsAreListed DEF Init, IsGraph
  <1>9. /\ tensor_queue \in Seq(Tensor)
        /\ Range(tensor_queue) = inputs \cup Range(GetConstantInputs(src_graph))
    BY <1>8, ConcatProperties, RangeOfConcat
  <1>10. ASSUME NEW o \in ToHandle, \A t \in Range(Op(o).ins) : Available(t) PROVE Ahead(o)
    <2> o \in Ops
      BY DEF ToHandle
    <2>1. CASE ReadsConstants(src_graph, o)
      <3>1. 1 \in ConstantInputsTensor(src_graph, o)
        BY <1>1, <2>1, PlacesTaken
      <3>2. Op(o).ins[1] \in Range(tensor_queue) /\ Op(o).ins[1] \in Range(Op(o).ins)
        BY <1>1, <1>9, <3>1, ConstantInputsAreListed, OperationFacts
      <3> QED BY <3>2 DEF Ahead
    <2>2. CASE ~ReadsConstants(src_graph, o)
      BY <1>1, <1>9, <1>10, <2>2 DEF Ahead, Available, ReadsConstants, IsConst, Op
    <2> QED BY <2>1, <2>2
  <1>11. \A t \in Tensor : Available(t) /\ ~IsConst(t) => tensor_pv[t] # Unset
    BY <1>1, <1>2, <1>3 DEF Available
  <1>12. Walk
    BY <1>8, <1>9, <1>10, <1>11, EmptySeq DEF Walk
  <1> QED BY <1>1, <1>4, <1>5, <1>6, <1>7, <1>12 DEF IInv

\* Taking a tensor from the queue, leaving out a consumer and crashing change no vector.
LEMMA NothingTold ==
  ASSUME IInv, UNCHANGED <<src_graph, tensor_pv, lies, out_lies, on_output, slips>>,
         op_visited \subseteq op_visited', op_visited' \subseteq ToHandle,
         \/ UNCHANGED <<op_visited, crashed>> /\ (~crashed => Walk')
         \/ crashed' /\ \E o \in op_visited' : Unguided(o)
  PROVE  IInv'
  <1>1. /\ Ops' = Ops /\ \A u : Op(u)' = Op(u) /\ ToHandle' = ToHandle
        /\ \A u : ConstantInputsTensor(src_graph, u)' = ConstantInputsTensor(src_graph, u)
        /\ \A u : Unguided(u)' = Unguided(u)
        /\ \A t : IsRead(t)' = IsRead(t)
        /\ \A t : Plain(t)' = Plain(t)
    BY GraphStays
  <1>2. src_graph' \in Graphs /\ op_visited' \subseteq ToHandle'
    BY <1>1 DEF IInv
  <1>3. ConstantsKnown'
    BY <1>1 DEF IInv, ConstantsKnown
  <1>4. WrittenByVisited'
    BY <1>1 DEF IInv, WrittenByVisited
  <1>5. \A t \in Tensor : LiesSomehow(t)' = LiesSomehow(t) /\ VectorTells(t)' = VectorTells(t)
    BY <1>1 DEF LiesSomehow, VectorTells
  <1>6. \A t \in src_graph.outputs : WrittenPlain(t)' = WrittenPlain(t)
    BY <1>1 DEF WrittenPlain
  <1>7. ~crashed' => /\ ~crashed /\ Walk'
                     /\ \A t \in src_graph.outputs : WrittenWhenMade(t)' = WrittenWhenMade(t)
    BY <1>1 DEF WrittenWhenMade
  <1>8. crashed' => \E o \in op_visited' : Unguided(o)'
    BY <1>1 DEF IInv
  <1> QED BY <1>2, <1>3, <1>4, <1>5, <1>6, <1>7, <1>8 DEF IInv

\* The readers of the tensor that leaves the queue are looked at next.
LEMMA NextTensorKeeps == ASSUME IInv, NextTensor PROVE IInv'
  <1>1. PICK q, t : q = tensor_queue /\ t = Head(q)
    OBVIOUS
  <1>2. /\ q \in Seq(Tensor) /\ q # <<>> /\ Range(consumers) = {} /\ ~crashed
        /\ tensor_queue' = Tail(q) /\ consumers' = ConsumersOf(t)
        /\ UNCHANGED <<src_graph, op_visited, tensor_pv, lies, out_lies, on_output, slips, crashed>>
    BY <1>1 DEF IInv, Walk, NextTensor, Range
  <1>3. /\ Ops' = Ops /\ \A u : Op(u)' = Op(u)
        /\ \A u : Available(u)' = Available(u) /\ IsConst(u)' = IsConst(u)
        /\ ToHandle' = ToHandle /\ ToHandle \subseteq Ops
    BY <1>2 DEF Ops, Op, Available, IsConst, ToHandle
  <1>4. tensor_queue' \in Seq(Tensor) /\ Range(q) \subseteq {t} \cup Range(tensor_queue')
    BY <1>1, <1>2, TailLeaves
  <1>5. /\ consumers' \in Seq(Ops)
        /\ \A o \in Ops : t \in Range(Op(o).ins) => o \in Range(consumers')
    BY <1>2, ConsumersRead DEF IInv
  <1>6. ASSUME NEW o \in ToHandle \ op_visited, \A u \in Range(Op(o).ins) : Available(u)
        PROVE  Ahead(o)'
    <2>1. Range(Op(o).ins) \cap Range(q) # {}
      BY <1>1, <1>2, <1>6 DEF IInv, Walk, Ahead
    <2>2. \/ o \in Range(consumers')
          \/ Range(Op(o).ins) \cap Range(tensor_queue') # {}
      BY <1>3, <1>4, <1>5, <2>1
    <2> QED BY <1>3, <2>2 DEF Ahead
  <1>7. Walk'
    BY <1>2, <1>3, <1>4, <1>5, <1>6 DEF IInv, Walk
  <1> QED BY <1>2, <1>7, NothingTold DEF IInv

\* A consumer that is left out is handled, or waits for a tensor that is yet to come.
LEMMA SkipConsumerKeeps == ASSUME IInv, SkipConsumer PROVE IInv'
  <1>1. PICK c, h : c = consumers /\ h = Head(c)
    OBVIOUS
  <1>2. /\ c \in Seq(Ops) /\ c # <<>>
        /\ ~crashed /\ (h \in ToHandle \ op_visited => ~IsReadyForInfer(h))
        /\ consumers' = Tail(c)
        /\ UNCHANGED <<src_graph, tensor_queue, op_visited, tensor_pv, lies, out_lies,
                       on_output, slips, crashed>>
    BY <1>1 DEF IInv, Walk, SkipConsumer, Due
  <1>3. /\ Ops' = Ops /\ \A u : Op(u)' = Op(u)
        /\ \A u : Available(u)' = Available(u) /\ IsConst(u)' = IsConst(u)
        /\ ToHandle' = ToHandle /\ ToHandle \subseteq Ops
    BY <1>2 DEF Ops, Op, Available, IsConst, ToHandle
  <1>4. /\ consumers' \in Seq(Ops) /\ h \in Ops
        /\ Range(c) \subseteq {h} \cup Range(consumers')
    <2>1. /\ Tail(c) \in Seq(Ops) /\ Head(c) \in Ops
          /\ Range(c) \subseteq {Head(c)} \cup Range(Tail(c))
      BY <1>2, TailLeaves
    <2> QED BY <1>1, <1>2, <2>1
  <1>5. ASSUME NEW o \in ToHandle \ op_visited, \A u \in Range(Op(o).ins) : Available(u)
        PROVE  Ahead(o)'
    <2>1. o # h
      <3>1. IsReadyForInfer(o)
        BY <1>2, <1>3, <1>5, OperationFacts DEF IInv, Walk, IsReadyForInfer
      <3> QED BY <1>2, <3>1
    <2>2. Ahead(o)
      BY <1>2, <1>5 DEF IInv, Walk
    <2> QED BY <1>1, <1>2, <1>3, <1>4, <2>1, <2>2 DEF Ahead
  <1>6. Walk'
    BY <1>2, <1>3, <1>4, <1>5 DEF IInv, Walk
  <1> QED BY <1>2, <1>6, NothingTold DEF IInv

\* An operation without a vector to work from is one of those for which none can be had:
\* what it reads and is no constant has one, and so has a constant that is convolved with
\* another.
LEMMA CrashKeeps == ASSUME IInv, Crash PROVE IInv'
  <1>1. PICK o \in Ops :
          /\ Due(o) /\ NoVector(o) /\ op_visited' = op_visited \cup {o} /\ crashed'
          /\ UNCHANGED <<src_graph, tensor_pv, lies, out_lies, on_output, slips>>
    BY DEF Crash
  <1>2. src_graph \in Graphs /\ o \in ToHandle /\ op_visited \subseteq ToHandle
    BY <1>1 DEF IInv, Due
  <1>3. ASSUME Op(o).kind = "conv2d", tensor_pv[Op(o).ins[1]] = Unset
        PROVE  IsConst(Op(o).ins[1]) /\ ~IsConst(Op(o).ins[2])
    <2>1. IsConst(Op(o).ins[1])
      BY <1>1, <1>2, <1>3, OperationFacts DEF Due, IsReadyForInfer
    <2>2. ~ReadsConstants(src_graph, o)
      BY <1>2, <1>3, PlacesTaken DEF IInv, ConstantsKnown
    <2>3. Len(Op(o).ins) = 2 /\ DOMAIN Op(o).ins = 1 .. Len(Op(o).ins)
      BY <1>2, <1>3, OperationFacts DEF Fits
    <2>4. Range(Op(o).ins) = {Op(o).ins[1], Op(o).ins[2]}
      BY <2>3 DEF Range
    <2> QED BY <2>1, <2>2, <2>4 DEF ReadsConstants, IsConst, Op
  <1>4. Unguided(o)
    BY <1>1, <1>3 DEF NoVector, Unguided
  <1> QED BY <1>1, <1>2, <1>4, NothingTold

\* A step is one of the walk alone, or handles an operation.
Handled ==
  \/ Activation \/ Softmax \/ Split \/ ElementWise \/ AddN \/ Concat \/ Stack
  \/ Reduce \/ Transpose \/ Conv2d \/ Pool2d \/ Resize \/ BatchNorm \/ Default

LEMMA HandledKeepsInv == ASSUME IInv, Handled PROVE IInv'
  <1>1. CASE Activation \/ Softmax \/ Split
    BY <1>1, VectorGoesThrough
  <1>2. CASE ElementWise \/ AddN \/ Concat
    BY <1>2, OperandsAreAligned
  <1>3. CASE Stack
    BY <1>3, StackKeeps
  <1>4. CASE Reduce
    BY <1>4, ReduceKeeps
  <1>5. CASE Transpose
    BY <1>5, TransposeKeeps
  <1>6. CASE Conv2d
    BY <1>6, Conv2dKeeps
  <1>7. CASE Pool2d
    BY <1>7, Pool2dKeeps
  <1>8. CASE Resize
    BY <1>8, ResizeKeeps
  <1>9. CASE BatchNorm
    BY <1>9, BatchNormKeeps
  <1>10. CASE Default
    BY <1>10, DefaultKeeps
  <1> QED BY <1>1, <1>2, <1>3, <1>4, <1>5, <1>6, <1>7, <1>8, <1>9, <1>10 DEF Handled

LEMMA NextKeepsInv == IInv /\ [Next]_vars => IInv'
  <1> SUFFICES ASSUME IInv, [Next]_vars PROVE IInv'
    OBVIOUS
  <1>1. CASE NextTensor
    BY <1>1, NextTensorKeeps
  <1>2. CASE SkipConsumer
    BY <1>2, SkipConsumerKeeps
  <1>3. CASE Crash
    BY <1>3, CrashKeeps
  <1>4. CASE Handled
    BY <1>4, HandledKeepsInv
  <1>5. CASE UNCHANGED vars
    <2>1. ~crashed => Walk'
      BY <1>5 DEF IInv, Walk, Ahead, Available, IsConst, Ops, Op, ToHandle, vars
    <2> QED BY <1>5, <2>1, NothingTold DEF IInv, vars
  <1> QED BY <1>1, <1>2, <1>3, <1>4, <1>5 DEF Next, Handled

\* The invariant above, of the walk and of the layouts together.
THEOREM InvariantHolds == Spec => []IInv
  BY InitInv, NextKeepsInv, PTL DEF Spec

\* The permute vector of a tensor that is read tells how the data of its counterpart
\* lies, whatever the graph, the operations and the layouts, as long as no vector was set
\* and no data moved by another one.
THEOREM VectorsTellLayoutHolds == Spec => []VectorsTellLayout
  <1>1. IInv => VectorsTellLayout
    BY DEF IInv, VectorTells, VectorsTellLayout
  <1> QED BY <1>1, InvariantHolds, PTL

\* An operation with a result is to be handled.
LEMMA HasResults ==
  ASSUME src_graph \in Graphs, NEW o \in Ops, NEW t \in Range(Op(o).outs)
  PROVE  o \in ToHandle
  <1>1. Op(o).outs # <<>>
    BY DEF Range
  <1>2. Fits(src_graph, Op(o))
    BY OperationFacts
  <1> QED BY <1>1, <1>2 DEF Fits, ToHandle

\* When the walk is over every operation is handled: one that is not, and reads no result
\* of another that is not, would have all it needs and be still ahead.
LEMMA NothingLeft == ASSUME IInv, Done PROVE op_visited = ToHandle
  <1>1. src_graph \in Graphs /\ op_visited \subseteq ToHandle /\ Walk
    BY DEF IInv, Done
  <1>2. PICK S : S = ToHandle \ op_visited /\ S \subseteq Ops
    BY DEF ToHandle
  <1>3. ASSUME S # {} PROVE FALSE
    <2>1. PICK o \in S : \A other \in S : Range(Op(o).ins) \cap Range(Op(other).outs) = {}
      <3>1. S \in SUBSET DOMAIN src_graph.ops
        BY <1>2 DEF Ops
      <3>2. \E o \in S : \A other \in S :
              Range(src_graph.ops[o].ins) \cap Range(src_graph.ops[other].outs) = {}
        <4>1. IsGraph(src_graph)
          BY <1>1, GraphsAssumption
        <4>2. \A T \in SUBSET DOMAIN src_graph.ops : T # {} =>
                \E o \in T : \A other \in T :
                  Range(src_graph.ops[o].ins) \cap Range(src_graph.ops[other].outs) = {}
          BY <4>1, Zenon DEF IsGraph
        <4> QED BY <1>3, <3>1, <4>2, Zenon
      <3> QED BY <3>2 DEF Op
    <2>2. ASSUME NEW t \in Range(Op(o).ins) PROVE Available(t)
      <3>1. t \in src_graph.constants \cup Range(src_graph.inputs) \cup Results(src_graph)
        BY <1>1, <1>2, GraphsAssumption DEF IsGraph, Op, Ops
      <3>2. CASE t \in Results(src_graph)
        <4>1. PICK u \in Ops : t \in Range(Op(u).outs)
          BY <3>2 DEF Results, Op, Ops
        <4>2. u \in op_visited
          BY <1>1, <1>2, <2>1, <4>1, HasResults
        <4> QED BY <4>1, <4>2 DEF Available
      <3> QED BY <3>1, <3>2 DEF Available, IsConst
    <2>3. Ahead(o)
      BY <1>1, <1>2, <2>2 DEF Walk
    <2> QED BY <2>3 DEF Done, Ahead, Range
  <1> QED BY <1>1, <1>2, <1>3

\* The walk does not stop short: when it ends every operation of the source graph but the
\* composite ones has its counterpart, and the program only ends before at an operation for
\* which no vector can be had.  That it ends is left to the model checker.
THEOREM EveryOpIsHandled ==
  Spec => [](/\ Done => op_visited = ToHandle
             /\ crashed => \E o \in op_visited : Unguided(o))
  <1>1. IInv => /\ Done => op_visited = ToHandle
                /\ crashed => \E o \in op_visited : Unguided(o)
    BY NothingLeft DEF IInv
  <1> QED BY <1>1, InvariantHolds, PTL

\* At the end every output of the new graph is written, with plain data, whatever the
\* graph and the order in which the walk came to its operations.
THEOREM OutputsWrittenHolds == Spec => []OutputsWritten
  <1>1. ASSUME IInv, Done, NEW t \in src_graph.outputs
        PROVE  /\ "remapped" \notin slips => out_lies[t] # Unset
               /\ slips = {} => out_lies[t] = Plain(t)
    <2>1. PICK o \in op_visited : t \in Range(Op(o).outs)
      <3>1. t \in Results(src_graph)
        BY <1>1, GraphsAssumption DEF IInv, IsGraph
      <3>2. PICK o \in Ops : t \in Range(Op(o).outs)
        BY <3>1 DEF Results, Op, Ops
      <3>3. o \in op_visited
        BY <1>1, <3>2, HasResults, NothingLeft DEF IInv
      <3> QED BY <3>2, <3>3
    <2>2. "remapped" \notin slips => out_lies[t] # Unset
      BY <1>1, <2>1 DEF IInv, Done, WrittenWhenMade
    <2>3. slips = {} => "remapped" \notin slips /\ WrittenPlain(t)
      BY <1>1 DEF IInv
    <2> QED BY <2>2, <2>3 DEF WrittenPlain
  <1>2. IInv => OutputsWritten
    BY <1>1 DEF OutputsWritten
  <1> QED BY <1>2, InvariantHolds, PTL
====
