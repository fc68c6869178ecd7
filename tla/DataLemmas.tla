----------------------------- MODULE DataLemmas -----------------------------
(***************************************************************************)
(* Lemmas about data that the proofs of several components need: induction  *)
(* over the natural numbers, for what is defined by recursion (what is      *)
(* proved of each number is stated as a set of numbers, and every set of    *)
(* numbers that is not empty has a least element); flattened sequences;     *)
(* sums; files that hold one line after another; the numbers of a set in    *)
(* ascending order; and records that are put together of fields.            *)
(***************************************************************************)
EXTENDS Positions, Fields, SequencesExt, SequenceTheorems, FiniteSetTheorems,
        WellFoundedInduction, TLAPS

\* The least of some numbers.
LEMMA Least ==
  ASSUME NEW T, T \subseteq Nat, T # {}
  PROVE \E m \in T : \A k \in T : m <= k
<1> DEFINE R == {ss \in Nat \X Nat : ss[1] < ss[2]}
<1>1. IsWellFoundedOn(R, Nat)
  BY NatLessThanWellFounded DEF OpToRel
<1>2. PICK m \in T : \A k \in T : ~(<<k,m>> \in R)
  <2> HIDE DEF R
  <2> QED BY <1>1, WFMin
<1>3. \A k \in T : ~(k < m)
  BY <1>2
<1> QED BY <1>3

\* A set that has each number whose predecessors it has holds all numbers.
LEMMA Induction ==
  ASSUME NEW Good, \A m \in Nat : 0..(m-1) \subseteq Good => m \in Good
  PROVE  Nat \subseteq Good
<1> SUFFICES ASSUME Nat \ Good # {} PROVE FALSE
  OBVIOUS
<1>1. PICK m \in Nat \ Good : \A k \in Nat \ Good : m <= k
  BY Least
<1>2. 0..(m-1) \subseteq Good
  BY <1>1
<1> QED BY <1>1, <1>2

\* A sequence of sequences flattens to a sequence, by induction over the recursive
\* function that FlattenSeq of the community modules is defined with.
LEMMA FlattenType ==
  ASSUME NEW S, NEW seqs \in Seq(Seq(S))
  PROVE  FlattenSeq(seqs) \in Seq(S)
<1> DEFINE n == Len(seqs)
           IsFlat(g, m) == g = [i \in 1..m |-> IF i = 1 THEN seqs[i] ELSE g[i-1] \o seqs[i]]
           flatten[i \in 1..n] == IF i = 1 THEN seqs[i] ELSE flatten[i-1] \o seqs[i]
           Good == {m \in Nat : m \in 1..n => \E g \in [1..m -> Seq(S)] : IsFlat(g, m)}
<1>1. n \in Nat /\ \A i \in 1..n : seqs[i] \in Seq(S)
  BY LenProperties
<1>2. ASSUME NEW m \in Nat, 0..(m-1) \subseteq Good, m \in 1..n
      PROVE  \E g \in [1..m -> Seq(S)] : IsFlat(g, m)
  <2>1. CASE m = 1
    <3> DEFINE g == [i \in 1..m |-> seqs[i]]
    <3>1. g \in [1..m -> Seq(S)]
      BY <1>1, <1>2
    <3>2. IsFlat(g, m)
      BY <2>1
    <3> QED BY <3>1, <3>2
  <2>2. CASE m > 1
    <3>1. m - 1 \in 0..(m-1) /\ m - 1 \in 1..n
      BY <2>2, <1>1, <1>2
    <3>2. PICK h \in [1..(m-1) -> Seq(S)] : IsFlat(h, m-1)
      BY <3>1, <1>2
    <3> DEFINE last == h[m-1] \o seqs[m]
               g == [i \in 1..m |-> IF i = m THEN last ELSE h[i]]
    <3>3. last \in Seq(S)
      <4>1. h[m-1] \in Seq(S) /\ seqs[m] \in Seq(S)
        BY <2>2, <1>2, <1>1
      <4> QED BY <4>1, ConcatProperties
    <3>4. g \in [1..m -> Seq(S)]
      <4> HIDE DEF last
      <4>1. \A i \in 1..m : i # m => i \in 1..(m-1)
        BY <1>1, <1>2
      <4> QED BY <3>3, <4>1
    <3>5. ASSUME NEW i \in 1..m
          PROVE g[i] = IF i = 1 THEN seqs[i] ELSE g[i-1] \o seqs[i]
      <4>1. CASE i = m
        <5>1. i # 1 /\ m - 1 \in 1..m /\ m - 1 # m
          BY <4>1, <2>2
        <5> QED BY <4>1, <5>1
      <4>2. CASE i # m
        <5>1. i \in 1..(m-1) /\ (i # 1 => i - 1 \in 1..m /\ i - 1 # m)
          BY <4>2, <1>2
        <5>2. h[i] = IF i = 1 THEN seqs[i] ELSE h[i-1] \o seqs[i]
          BY <5>1, <3>2
        <5>3. g[i] = h[i] /\ (i # 1 => g[i-1] = h[i-1])
          BY <4>2, <5>1
        <5> QED BY <5>2, <5>3
      <4> QED BY <4>1, <4>2
    <3>6. g = [i \in 1..m |-> IF i = 1 THEN seqs[i] ELSE g[i-1] \o seqs[i]]
      <4>1. g = [i \in 1..m |-> g[i]]
        OBVIOUS
      <4> HIDE DEF g
      <4> QED BY <3>5, <4>1
    <3> QED BY <3>4, <3>6
  <2>3. m = 1 \/ m > 1
    BY <1>2, <1>1
  <2> QED
    BY <2>1, <2>2, <2>3
<1>3. Nat \subseteq Good
  <2>1. \A m \in Nat : 0..(m-1) \subseteq Good => m \in Good
    BY <1>2
  <2> HIDE DEF Good
  <2> QED BY <2>1, Induction
<1>4. CASE n = 0
  <2>1. seqs = <<>>
    BY <1>4, EmptySeq
  <2> QED BY <2>1, <1>4, EmptySeq DEF FlattenSeq
<1>5. CASE n # 0
  <2>1. n \in 1..n
    BY <1>1, <1>5
  <2>2. \E g : IsFlat(g, n)
    <3>1. n \in Good
      <4> HIDE DEF Good
      <4> QED BY <1>1, <1>3
    <3> QED BY <2>1, <3>1
  <2>3. IsFlat(flatten, n)
    BY <2>2
  <2>4. FlattenSeq(seqs) = flatten[n]
    BY <1>5 DEF FlattenSeq
  <2>5. \A m \in Nat : m \in 1..n => flatten[m] \in Seq(S)
    <3> DEFINE Typed == {m \in Nat : m \in 1..n => flatten[m] \in Seq(S)}
    <3>1. ASSUME NEW m \in Nat, 0..(m-1) \subseteq Typed, m \in 1..n
          PROVE  flatten[m] \in Seq(S)
      <4> HIDE DEF flatten
      <4>1. flatten[m] = IF m = 1 THEN seqs[m] ELSE flatten[m-1] \o seqs[m]
        BY <3>1, <2>3
      <4>2. CASE m = 1
        BY <4>1, <4>2, <1>1, <3>1
      <4>3. CASE m # 1
        <5>1. m - 1 \in 0..(m-1) /\ m - 1 \in 1..n
          BY <4>3, <1>1, <3>1
        <5>2. flatten[m-1] \in Seq(S) /\ seqs[m] \in Seq(S)
          BY <5>1, <3>1, <1>1
        <5> QED BY <4>1, <4>3, <5>2, ConcatProperties
      <4> QED BY <4>2, <4>3
    <3>2. \A m \in Nat : 0..(m-1) \subseteq Typed => m \in Typed
      BY <3>1
    <3>3. Nat \subseteq Typed
      <4> HIDE DEF Typed
      <4> QED BY <3>2, Induction
    <3> QED BY <3>3
  <2> QED BY <1>1, <2>1, <2>4, <2>5
<1> QED BY <1>4, <1>5

----------------------------------------------------------------------------
(***************************************************************************)
(* Sums: FoldFunction of the community modules takes the arguments of a     *)
(* function in the order in which CHOOSE picks them.                        *)
(***************************************************************************)
AnyOf(s) == CHOOSE x \in s : TRUE

\* it holds the sum of f over each of the sets.
AddsUp(f, it, Sets) ==
    it = [s \in Sets |-> IF s = {} THEN 0 ELSE f[AnyOf(s)] + it[s \ {AnyOf(s)}]]

\* Induction over the subsets of a finite set, one element after another.
LEMMA SubsetInduction ==
  ASSUME NEW D, IsFiniteSet(D), NEW Good,
         \A s \in SUBSET D : (s # {} => s \ {AnyOf(s)} \in Good) => s \in Good
  PROVE  SUBSET D \subseteq Good
<1> DEFINE Sized == {m \in Nat : \A s \in SUBSET D : Cardinality(s) = m => s \in Good}
<1>1. ASSUME NEW m \in Nat, 0..(m-1) \subseteq Sized, NEW s \in SUBSET D, Cardinality(s) = m
      PROVE  s \in Good
  <2>1. ASSUME s # {}
        PROVE  s \ {AnyOf(s)} \in Good
    <3>1. AnyOf(s) \in s
      BY <2>1 DEF AnyOf
    <3>2. IsFiniteSet(s)
      BY FS_Subset
    <3>3. Cardinality(s \ {AnyOf(s)}) = m - 1 /\ m # 0
      BY <3>1, <3>2, <1>1, <2>1, FS_RemoveElement, FS_EmptySet
    <3>4. m - 1 \in Sized
      BY <3>3, <1>1
    <3> QED BY <3>3, <3>4
  <2> QED BY <2>1
<1>2. Nat \subseteq Sized
  <2>1. \A m \in Nat : 0..(m-1) \subseteq Sized => m \in Sized
    BY <1>1
  <2> HIDE DEF Sized
  <2> QED BY <2>1, Induction
<1>3. \A s \in SUBSET D : Cardinality(s) \in Nat
  BY FS_Subset, FS_CardinalityType
<1> QED BY <1>2, <1>3

\* The recursion that FoldFunction is defined with has a solution.
LEMMA AddsUpExists ==
  ASSUME NEW f, IsFiniteSet(DOMAIN f)
  PROVE  \E it : AddsUp(f, it, SUBSET DOMAIN f)
<1> DEFINE Small(m) == {s \in SUBSET DOMAIN f : Cardinality(s) <= m}
           Good == {m \in Nat : \E it : AddsUp(f, it, Small(m))}
<1>1. \A s \in SUBSET DOMAIN f :
         /\ Cardinality(s) \in Nat
         /\ s # {} => /\ Cardinality(s \ {AnyOf(s)}) = Cardinality(s) - 1
                      /\ s \ {AnyOf(s)} \in SUBSET DOMAIN f
  <2> TAKE s \in SUBSET DOMAIN f
  <2>1. IsFiniteSet(s) /\ (s # {} => AnyOf(s) \in s)
    BY FS_Subset DEF AnyOf
  <2> QED BY <2>1, FS_RemoveElement, FS_CardinalityType
<1>2. ASSUME NEW m \in Nat, 0..(m-1) \subseteq Good
      PROVE  \E it : AddsUp(f, it, Small(m))
  <2>1. CASE m = 0
    <3> DEFINE it == [s \in Small(m) |-> 0]
    <3>1. ASSUME NEW s \in Small(m) PROVE s = {}
      <4>1. IsFiniteSet(s) /\ Cardinality(s) <= 0 /\ Cardinality(s) \in Nat
        BY <2>1, <1>1, FS_Subset
      <4>2. Cardinality(s) = 0
        BY <4>1
      <4> QED BY <4>1, <4>2, FS_EmptySet
    <3>2. AddsUp(f, it, Small(m))
      BY <3>1 DEF AddsUp
    <3> QED BY <3>2
  <2>2. CASE m # 0
    <3>1. PICK h : AddsUp(f, h, Small(m-1))
      <4>1. m - 1 \in 0..(m-1)
        BY <2>2
      <4>2. m - 1 \in Good
        <5> HIDE DEF Good
        <5> QED BY <4>1, <1>2
      <4> QED BY <4>2
    <3> DEFINE it == [s \in Small(m) |-> IF s = {} THEN 0 ELSE f[AnyOf(s)] + h[s \ {AnyOf(s)}]]
    <3>2. ASSUME NEW s \in Small(m-1)
          PROVE  it[s] = h[s]
      <4>1. s \in Small(m)
        <5>1. Cardinality(s) <= m - 1 /\ s \in SUBSET DOMAIN f
          OBVIOUS
        <5>2. Cardinality(s) \in Nat
          BY <5>1, <1>1
        <5>3. Cardinality(s) <= m
          BY <5>1, <5>2
        <5> QED BY <5>1, <5>3
      <4>2. h[s] = IF s = {} THEN 0 ELSE f[AnyOf(s)] + h[s \ {AnyOf(s)}]
        BY <3>1 DEF AddsUp
      <4> QED BY <4>1, <4>2
    <3>3. ASSUME NEW s \in Small(m), s # {}
          PROVE  it[s \ {AnyOf(s)}] = h[s \ {AnyOf(s)}]
      <4>1. s \ {AnyOf(s)} \in Small(m-1)
        BY <1>1, <3>3
      <4> HIDE DEF it
      <4> QED BY <4>1, <3>2
    <3>4. AddsUp(f, it, Small(m))
      BY <3>3 DEF AddsUp
    <3> HIDE DEF it
    <3> QED BY <3>4
  <2> QED BY <2>1, <2>2
<1>3. Nat \subseteq Good
  <2>1. \A m \in Nat : 0..(m-1) \subseteq Good => m \in Good
    BY <1>2
  <2> HIDE DEF Good
  <2> QED BY <2>1, Induction
<1>4. PICK c \in Nat : c = Cardinality(DOMAIN f)
  BY FS_CardinalityType
<1>5. Small(c) = SUBSET DOMAIN f
  BY <1>1, <1>4, FS_Subset
<1> QED BY <1>3, <1>5

\* What FoldFunction(+, 0, f) adds up, one argument of f after another.
LEMMA Sums ==
  ASSUME NEW D, IsFiniteSet(D), NEW f, DOMAIN f = D
  PROVE  \E it : /\ AddsUp(f, it, SUBSET D)
                 /\ FoldFunction(+, 0, f) = it[D]
<1> DEFINE iter[s \in SUBSET DOMAIN f] ==
             IF s = {} THEN 0
             ELSE f[CHOOSE x \in s : TRUE] + iter[s \ {CHOOSE x \in s : TRUE}]
<1>1. AddsUp(f, iter, SUBSET DOMAIN f)
  BY AddsUpExists DEF AddsUp, AnyOf
<1>2. FoldFunction(+, 0, f) = iter[DOMAIN f]
  BY DEF FoldFunction, FoldFunctionOnSet, MapThenFoldSet
<1> HIDE DEF iter
<1> QED BY <1>1, <1>2

\* What a sum over a set is, given the sum over the set without one element.
LEMMA SumStep ==
  ASSUME NEW D, NEW f, NEW it, AddsUp(f, it, SUBSET D), NEW s \in SUBSET D
  PROVE  /\ s = {} => it[s] = 0
         /\ s # {} => it[s] = f[AnyOf(s)] + it[s \ {AnyOf(s)}] /\ AnyOf(s) \in s
<1>1. it[s] = IF s = {} THEN 0 ELSE f[AnyOf(s)] + it[s \ {AnyOf(s)}]
  BY DEF AddsUp
<1>2. s # {} => AnyOf(s) \in s
  BY DEF AnyOf
<1> QED BY <1>1, <1>2

\* A sum of natural numbers is one.
LEMMA SumType ==
  ASSUME NEW D, IsFiniteSet(D), NEW f \in [D -> Nat]
  PROVE  FoldFunction(+, 0, f) \in Nat
<1>1. PICK it : AddsUp(f, it, SUBSET D) /\ FoldFunction(+, 0, f) = it[D]
  BY Sums
<1> DEFINE Good == {s \in SUBSET D : it[s] \in Nat}
<1>2. ASSUME NEW s \in SUBSET D, s # {} => s \ {AnyOf(s)} \in Good
      PROVE  s \in Good
  <2>1. /\ s = {} => it[s] = 0
        /\ s # {} => it[s] = f[AnyOf(s)] + it[s \ {AnyOf(s)}] /\ AnyOf(s) \in s
    BY <1>1, SumStep, Zenon
  <2>2. s # {} => it[s \ {AnyOf(s)}] \in Nat /\ f[AnyOf(s)] \in Nat
    BY <2>1, <1>2
  <2> QED BY <2>1, <2>2
<1>3. SUBSET D \subseteq Good
  <2> HIDE DEF Good
  <2> QED BY <1>2, SubsetInduction
<1> QED BY <1>1, <1>3

\* The sum grows with each of its terms.
LEMMA SumMonotone ==
  ASSUME NEW D, IsFiniteSet(D), NEW f \in [D -> Nat], NEW g \in [D -> Nat],
         \A x \in D : f[x] <= g[x]
  PROVE  FoldFunction(+, 0, f) <= FoldFunction(+, 0, g)
<1>1. PICK it : AddsUp(f, it, SUBSET D) /\ FoldFunction(+, 0, f) = it[D]
  BY Sums
<1>2. PICK jt : AddsUp(g, jt, SUBSET D) /\ FoldFunction(+, 0, g) = jt[D]
  BY Sums
<1> DEFINE Good == {s \in SUBSET D : it[s] \in Nat /\ jt[s] \in Nat /\ it[s] <= jt[s]}
<1>3. ASSUME NEW s \in SUBSET D, s # {} => s \ {AnyOf(s)} \in Good
      PROVE  s \in Good
  <2>1. /\ s = {} => it[s] = 0
        /\ s # {} => it[s] = f[AnyOf(s)] + it[s \ {AnyOf(s)}] /\ AnyOf(s) \in s
    BY <1>1, SumStep, Zenon
  <2>2. /\ s = {} => jt[s] = 0
        /\ s # {} => jt[s] = g[AnyOf(s)] + jt[s \ {AnyOf(s)}] /\ AnyOf(s) \in s
    BY <1>2, SumStep, Zenon
  <2>3. ASSUME s # {}
        PROVE  s \in Good
    <3>1. PICK y \in D : y = AnyOf(s)
      BY <2>1, <2>3
    <3>2. it[s] = f[y] + it[s \ {y}] /\ jt[s] = g[y] + jt[s \ {y}] /\ s \ {y} \in Good
      BY <2>1, <2>2, <2>3, <1>3, <3>1
    <3>3. f[y] \in Nat /\ g[y] \in Nat /\ f[y] <= g[y]
      OBVIOUS
    <3> QED BY <3>2, <3>3
  <2> QED BY <2>1, <2>2, <2>3
<1>4. SUBSET D \subseteq Good
  <2> HIDE DEF Good
  <2> QED BY <1>3, SubsetInduction
<1> QED BY <1>1, <1>2, <1>4

\* A sum of zeros.
LEMMA SumZero ==
  ASSUME NEW D, IsFiniteSet(D), NEW f \in [D -> Nat], \A x \in D : f[x] = 0
  PROVE  FoldFunction(+, 0, f) = 0
<1>1. PICK it : AddsUp(f, it, SUBSET D) /\ FoldFunction(+, 0, f) = it[D]
  BY Sums
<1> DEFINE Good == {s \in SUBSET D : it[s] = 0}
<1>2. ASSUME NEW s \in SUBSET D, s # {} => s \ {AnyOf(s)} \in Good
      PROVE  s \in Good
  <2>1. /\ s = {} => it[s] = 0
        /\ s # {} => it[s] = f[AnyOf(s)] + it[s \ {AnyOf(s)}] /\ AnyOf(s) \in s
    BY <1>1, SumStep, Zenon
  <2>2. s # {} => it[s \ {AnyOf(s)}] = 0 /\ f[AnyOf(s)] = 0
    BY <2>1, <1>2
  <2> QED BY <2>1, <2>2
<1>3. SUBSET D \subseteq Good
  <2> HIDE DEF Good
  <2> QED BY <1>2, SubsetInduction
<1> QED BY <1>1, <1>3

\* A sum is at least each of its terms.
LEMMA SumBounds ==
  ASSUME NEW D, IsFiniteSet(D), NEW f \in [D -> Nat], NEW x \in D
  PROVE  f[x] <= FoldFunction(+, 0, f)
<1>1. PICK it : AddsUp(f, it, SUBSET D) /\ FoldFunction(+, 0, f) = it[D]
  BY Sums
<1> DEFINE Good == {s \in SUBSET D : it[s] \in Nat /\ (x \in s => f[x] <= it[s])}
<1>2. ASSUME NEW s \in SUBSET D, s # {} => s \ {AnyOf(s)} \in Good
      PROVE  s \in Good
  <2>1. /\ s = {} => it[s] = 0
        /\ s # {} => it[s] = f[AnyOf(s)] + it[s \ {AnyOf(s)}] /\ AnyOf(s) \in s
    BY <1>1, SumStep, Zenon
  <2>2. ASSUME s # {}
        PROVE  s \in Good
    <3>1. PICK y \in s : y = AnyOf(s)
      BY <2>1, <2>2
    <3>2. it[s] = f[y] + it[s \ {y}] /\ s \ {y} \in Good
      BY <2>1, <2>2, <1>2, <3>1
    <3>3. f[y] \in Nat /\ it[s \ {y}] \in Nat /\ it[s] \in Nat
      BY <3>2
    <3>4. CASE y = x
      BY <3>2, <3>3, <3>4
    <3>5. CASE y # x
      <4>1. x \in s => f[x] <= it[s \ {y}]
        BY <3>2, <3>5
      <4> QED BY <3>2, <3>3, <4>1
    <3> QED BY <3>4, <3>5
  <2> QED BY <2>1, <2>2
<1>3. SUBSET D \subseteq Good
  <2> HIDE DEF Good
  <2> QED BY <1>2, SubsetInduction
<1> QED BY <1>1, <1>3

\* One term is increased by one.
LEMMA SumIncrement ==
  ASSUME NEW D, IsFiniteSet(D), NEW f \in [D -> Nat], NEW x \in D
  PROVE  FoldFunction(+, 0, [f EXCEPT ![x] = @ + 1]) = FoldFunction(+, 0, f) + 1
<1> DEFINE g == [f EXCEPT ![x] = @ + 1]
<1>0. g \in [D -> Nat] /\ g[x] = f[x] + 1 /\ \A y \in D : y # x => g[y] = f[y]
  OBVIOUS
<1> HIDE DEF g
<1>1. PICK it : AddsUp(f, it, SUBSET D) /\ FoldFunction(+, 0, f) = it[D]
  BY Sums
<1>2. PICK jt : AddsUp(g, jt, SUBSET D) /\ FoldFunction(+, 0, g) = jt[D]
  BY Sums, <1>0
<1> DEFINE Good == {s \in SUBSET D : /\ it[s] \in Nat
                                     /\ x \in s => jt[s] = it[s] + 1
                                     /\ x \notin s => jt[s] = it[s]}
<1>3. ASSUME NEW s \in SUBSET D, s # {} => s \ {AnyOf(s)} \in Good
      PROVE  s \in Good
  <2>1. /\ s = {} => it[s] = 0
        /\ s # {} => it[s] = f[AnyOf(s)] + it[s \ {AnyOf(s)}] /\ AnyOf(s) \in s
    BY <1>1, SumStep, Zenon
  <2>2. /\ s = {} => jt[s] = 0
        /\ s # {} => jt[s] = g[AnyOf(s)] + jt[s \ {AnyOf(s)}] /\ AnyOf(s) \in s
    BY <1>2, SumStep, Zenon
  <2>3. ASSUME s # {}
        PROVE  s \in Good
    <3>1. PICK y \in s : y = AnyOf(s)
      BY <2>1, <2>3
    <3>2. it[s] = f[y] + it[s \ {y}] /\ jt[s] = g[y] + jt[s \ {y}] /\ s \ {y} \in Good
      BY <2>1, <2>2, <2>3, <1>3, <3>1
    <3>3. f[y] \in Nat /\ (y = x => g[y] = f[y] + 1) /\ (y # x => g[y] = f[y])
      BY <1>0
    <3>4. it[s \ {y}] \in Nat
      BY <3>2
    <3>5. CASE y = x
      <4>1. jt[s \ {y}] = it[s \ {y}] /\ x \in s
        BY <3>2, <3>5
      <4> QED BY <3>2, <3>3, <3>4, <3>5, <4>1
    <3>6. CASE y # x
      <4>1. /\ x \in s => jt[s \ {y}] = it[s \ {y}] + 1
            /\ x \notin s => jt[s \ {y}] = it[s \ {y}]
        BY <3>2, <3>6
      <4> QED BY <3>2, <3>3, <3>4, <3>6, <4>1
    <3> QED BY <3>5, <3>6
  <2> QED BY <2>1, <2>2, <2>3
<1>4. SUBSET D \subseteq Good
  <2> HIDE DEF Good
  <2> QED BY <1>3, SubsetInduction
<1>5. D \in Good
  <2> HIDE DEF Good
  <2> QED BY <1>4
<1> QED BY <1>1, <1>2, <1>5 DEF g

\* The sum of a single term.
LEMMA SumSingle ==
  ASSUME NEW f, DOMAIN f = {1}, f[1] \in Nat
  PROVE  FoldFunction(+, 0, f) = f[1]
<1>0. IsFiniteSet({1})
  BY FS_Singleton
<1>1. PICK it : AddsUp(f, it, SUBSET {1}) /\ FoldFunction(+, 0, f) = it[{1}]
  BY <1>0, Sums, Zenon
<1>2. AnyOf({1}) = 1 /\ {1} \ {1} = {}
  BY DEF AnyOf
<1>3. it[{1}] = f[1] + it[{}]
  BY <1>1, <1>2 DEF AddsUp
<1>4. it[{}] = 0
  BY <1>1 DEF AddsUp
<1>5. it[{1}] = f[1]
  BY <1>3, <1>4
<1> QED BY <1>1, <1>5, Zenon

----------------------------------------------------------------------------
(***************************************************************************)
(* Files of lines.  Byte k of the line of s is <<s, k>> and the last is its *)
(* newline; len gives the length of each line.  A file f is n lines, those  *)
(* of sp[1], ..., sp[n], the i-th of which ends at the offset o[i].         *)
(***************************************************************************)
Laid(f, len, n, o, sp) ==
    /\ n \in Nat /\ o \in [0..n -> Nat] /\ sp \in [1..n -> DOMAIN len]
    /\ o[0] = 0 /\ o[n] = Len(f)
    /\ \A i \in 1..n :
          /\ o[i] = o[i-1] + len[sp[i]]
          /\ \A k \in 1..len[sp[i]] : f[o[i-1] + k] = <<sp[i], k>>

\* Later lines end at greater offsets.
LEMMA LaidOrder ==
  ASSUME NEW S, NEW len \in [S -> Nat \ {0, 1}], NEW f, NEW n, NEW o, NEW sp,
         Laid(f, len, n, o, sp), NEW i \in 0..n, NEW j \in 0..n
  PROVE  /\ i < j => o[i] < o[j]
         /\ i # j => o[i] # o[j]
<1> DEFINE Good == {m \in Nat : m \in 0..n => \A a \in 0..(m-1) : o[a] < o[m]}
<1>1. ASSUME NEW m \in Nat, 0..(m-1) \subseteq Good, m \in 0..n, NEW a \in 0..(m-1)
      PROVE  o[a] < o[m]
  <2>1. n \in Nat /\ m \in 1..n /\ m - 1 \in 0..(m-1) /\ m - 1 \in 0..n /\ a \in 0..n
    BY <1>1 DEF Laid
  <2>2. sp[m] \in S /\ o[m] \in Nat /\ o[m-1] \in Nat /\ o[a] \in Nat
    BY <2>1 DEF Laid
  <2>3. o[m] = o[m-1] + len[sp[m]] /\ len[sp[m]] \in Nat \ {0, 1}
    BY <2>1, <2>2 DEF Laid
  <2>4. m - 1 \in Good
    <3> HIDE DEF Good
    <3> QED BY <2>1, <1>1
  <2>5. a < m - 1 => o[a] < o[m-1]
    BY <2>1, <2>4
  <2>6. a < m - 1 \/ a = m - 1
    BY <2>1
  <2> QED BY <2>2, <2>3, <2>5, <2>6
<1>2. Nat \subseteq Good
  <2>1. \A m \in Nat : 0..(m-1) \subseteq Good => m \in Good
    BY <1>1
  <2> HIDE DEF Good
  <2> QED BY <2>1, Induction
<1>3. ASSUME NEW a \in 0..n, NEW b \in 0..n, a < b
      PROVE  o[a] < o[b]
  <2>1. b \in Nat /\ a \in 0..(b-1)
    BY <1>3 DEF Laid
  <2>2. b \in Good
    <3> HIDE DEF Good
    <3> QED BY <1>2, <2>1
  <2> QED BY <2>1, <2>2
<1>4. o[i] \in Nat /\ o[j] \in Nat /\ n \in Nat
  BY DEF Laid
<1>5. i \in Int /\ j \in Int /\ (i < j \/ j < i \/ i = j)
  BY <1>4
<1> QED BY <1>3, <1>4, <1>5

\* The line after the first i lies between two offsets and ends in its newline.
LiesAt(f, len, n, o, sp, i) ==
    /\ n \in Nat /\ i \in Nat /\ i + 1 \in 1..n /\ sp[i+1] \in DOMAIN len
    /\ o[i] \in Nat /\ o[i+1] = o[i] + len[sp[i+1]] /\ o[i+1] <= o[n] /\ o[n] = Len(f)
    /\ \A k \in 1..len[sp[i+1]] : f[o[i] + k] = <<sp[i+1], k>>
    /\ f[o[i+1]] = <<sp[i+1], len[sp[i+1]]>>

\* Where the next line of a file lies.
LEMMA LaidLine ==
  ASSUME NEW S, NEW len \in [S -> Nat \ {0, 1}], NEW f, NEW n, NEW o, NEW sp,
         Laid(f, len, n, o, sp), NEW i \in 0..(n-1)
  PROVE  LiesAt(f, len, n, o, sp, i)
<1>1. n \in Nat /\ i \in Nat /\ i + 1 \in 1..n /\ i \in 0..n /\ i + 1 \in 0..n /\ n \in 0..n
      /\ (i + 1) - 1 = i
  BY DEF Laid
<1>2. PICK s \in S : s = sp[i+1]
  BY <1>1 DEF Laid
<1>3. PICK L \in Nat \ {0, 1} : L = len[s]
  OBVIOUS
<1>4. PICK a \in Nat : a = o[i]
  BY <1>1 DEF Laid
<1>5. PICK e \in Nat : e = o[n] /\ e = Len(f)
  BY <1>1 DEF Laid
<1>6. o[i+1] = a + L /\ \A k \in 1..L : f[a + k] = <<s, k>>
  <2>1. /\ o[i+1] = o[(i+1)-1] + len[sp[i+1]]
        /\ \A k \in 1..len[sp[i+1]] : f[o[(i+1)-1] + k] = <<sp[i+1], k>>
    BY <1>1 DEF Laid
  <2> QED BY <2>1, <1>1, <1>2, <1>3, <1>4
<1>7. a + L <= e
  <2>1. i + 1 = n \/ i + 1 < n
    BY <1>1
  <2>2. i + 1 < n => o[i+1] < o[n]
    BY <1>1, LaidOrder
  <2>3. CASE i + 1 = n
    <3>1. o[i+1] = o[n]
      BY <2>3
    <3> QED BY <3>1, <1>5, <1>6
  <2>4. CASE i + 1 < n
    BY <2>4, <2>2, <1>5, <1>6
  <2> QED BY <2>1, <2>3, <2>4
<1>8. f[a + L] = <<s, L>>
  <2>1. L \in 1..L
    BY <1>3
  <2> QED BY <2>1, <1>6
<1>9. DOMAIN len = S
  OBVIOUS
<1> QED BY <1>1, <1>2, <1>3, <1>4, <1>5, <1>6, <1>7, <1>8, <1>9 DEF LiesAt

\* The line of s, what lies behind an offset, and where the newlines of u are.
LineOf(len, s) == [k \in 1..len[s] |-> <<s, k>>]
Behind(f, a) == SubSeq(f, a + 1, Len(f))
Breaks(len, u) == {k \in 1..Len(u) : u[k][2] = len[u[k][1]]}

\* The first line of u is the one of s, and ends at the first newline.
StartsWith(len, u, s) ==
    /\ Len(u) \in Nat /\ len[s] <= Len(u)
    /\ u[1] = <<s, 1>>
    /\ Breaks(len, u) # {}
    /\ SubSeq(u, 1, Min(Breaks(len, u))) = LineOf(len, s)

\* What readline() finds after the first i lines: the line after them.
LEMMA LaidNext ==
  ASSUME NEW S, NEW len \in [S -> Nat \ {0, 1}], NEW B, NEW f \in Seq(B), NEW n, NEW o, NEW sp,
         Laid(f, len, n, o, sp), NEW i \in 0..(n-1), LineOf(len, sp[i+1]) \in Seq(B)
  PROVE  StartsWith(len, Behind(f, o[i]), sp[i+1])
<1>8. PICK line \in Seq(B) : line = LineOf(len, sp[i+1])
  OBVIOUS
<1>0. /\ sp[i+1] \in S /\ o[i] \in Nat
      /\ o[i+1] = o[i] + len[sp[i+1]] /\ o[i+1] <= o[n] /\ o[n] = Len(f)
      /\ \A k \in 1..len[sp[i+1]] : f[o[i] + k] = <<sp[i+1], k>>
  BY LaidLine DEF LiesAt
<1>1. PICK s \in S : s = sp[i+1]
  BY <1>0
<1>2. PICK L \in Nat \ {0, 1} : L = len[s]
  OBVIOUS
<1>3. PICK a \in Nat : a = o[i]
  BY <1>0
<1>4. PICK e \in Nat : e = Len(f)
  OBVIOUS
<1>5. a + L <= e /\ \A k \in 1..L : f[a + k] = <<s, k>>
  BY <1>0, <1>1, <1>2, <1>3, <1>4
<1>6. PICK rest : rest = Behind(f, o[i])
  OBVIOUS
<1>7. PICK newlines : newlines = Breaks(len, rest)
  OBVIOUS
<1>9. /\ Len(rest) = e - a
      /\ \A k \in 1..L : rest[k] = <<s, k>>
      /\ SubSeq(rest, 1, L) = line
  <2>0. Len(line) = L /\ \A k \in 1..L : line[k] = <<s, k>>
    <3>1. DOMAIN line = 1..L /\ \A k \in 1..L : line[k] = <<s, k>>
      BY <1>1, <1>2, <1>8 DEF LineOf
    <3> QED BY <3>1, LenProperties
  <2>1. \A k \in (a + 1)..e : f[k] \in B
    BY <1>4, ElementOfSeq
  <2>2. rest = SubSeq(f, a + 1, e)
    BY <1>3, <1>4, <1>6 DEF Behind
  <2>3. /\ rest \in Seq(B)
        /\ Len(rest) = IF a + 1 <= e THEN e - (a + 1) + 1 ELSE 0
        /\ \A k \in 1..(e - (a + 1) + 1) : rest[k] = f[a + 1 + k - 1]
    <3>1. a + 1 \in Int /\ e \in Int
      OBVIOUS
    <3> QED BY <2>1, <2>2, <3>1, SubSeqProperties
  <2>4. Len(rest) = e - a
    BY <2>3, <1>5
  <2>5. \A k \in 1..(e - a) : rest[k] = f[a + k]
    <3> TAKE k \in 1..(e - a)
    <3>1. k \in 1..(e - (a + 1) + 1) /\ a + 1 + k - 1 = a + k
      OBVIOUS
    <3> QED BY <3>1, <2>3
  <2>6. \A k \in 1..L : rest[k] = <<s, k>> /\ k \in 1..(e - a)
    <3> TAKE k \in 1..L
    <3>1. k \in 1..(e - a)
      BY <1>5
    <3>2. f[a + k] = <<s, k>>
      BY <1>5
    <3> QED BY <3>1, <3>2, <2>5
  <2>7. \A k \in 1..L : rest[k] \in B
    <3> TAKE k \in 1..L
    <3>1. k \in 1..Len(rest)
      BY <2>4, <2>6
    <3> QED BY <2>3, <3>1, ElementOfSeq
  <2>8. /\ SubSeq(rest, 1, L) \in Seq(B) /\ Len(SubSeq(rest, 1, L)) = L
        /\ \A k \in 1..L : SubSeq(rest, 1, L)[k] = rest[k]
    <3>1. /\ SubSeq(rest, 1, L) \in Seq(B)
          /\ Len(SubSeq(rest, 1, L)) = IF 1 <= L THEN L - 1 + 1 ELSE 0
          /\ \A k \in 1..(L - 1 + 1) : SubSeq(rest, 1, L)[k] = rest[1 + k - 1]
      <4>1. 1 \in Int /\ L \in Int
        OBVIOUS
      <4> QED BY <2>7, <4>1, SubSeqProperties
    <3>2. \A k \in 1..L : k \in 1..(L - 1 + 1) /\ 1 + k - 1 = k
      OBVIOUS
    <3>3. Len(SubSeq(rest, 1, L)) = L
      BY <3>1
    <3> QED BY <3>1, <3>2, <3>3
  <2>9. SubSeq(rest, 1, L) = line
    <3>1. PICK u \in Seq(B) : u = SubSeq(rest, 1, L)
      BY <2>8
    <3>2. Len(u) = Len(line) /\ \A k \in 1..Len(u) : u[k] = line[k]
      BY <3>1, <2>0, <2>8, <2>6
    <3> QED BY <3>1, <3>2, SeqEqual
  <2> QED BY <2>4, <2>6, <2>9
<1>10. PICK r \in Nat : r = Len(rest) /\ L <= r
  <2>1. e - a \in Nat /\ L <= e - a
    BY <1>5
  <2> QED BY <2>1, <1>9
<1>11. L \in newlines
  <2>1. L \in 1..r /\ L \in 1..L
    BY <1>10
  <2>2. rest[L] = <<s, L>>
    BY <1>9, <2>1
  <2>3. rest[L][2] = len[rest[L][1]]
    BY <2>2, <1>2
  <2> QED BY <2>1, <2>3, <1>10, <1>7 DEF Breaks
<1>12. ASSUME NEW k \in newlines PROVE k \in Nat /\ L <= k
  <2>1. k \in 1..r /\ rest[k][2] = len[rest[k][1]]
    BY <1>10, <1>7 DEF Breaks
  <2>2. k \in Nat \ {0}
    BY <2>1
  <2>3. ASSUME ~(L <= k) PROVE FALSE
    <3>1. k \in 1..L /\ k # L
      BY <2>2, <2>3
    <3>2. rest[k] = <<s, k>>
      BY <3>1, <1>9
    <3>3. rest[k][2] = k /\ rest[k][1] = s
      BY <3>2
    <3> QED BY <3>1, <3>3, <2>1, <1>2
  <2> QED BY <2>2, <2>3
<1>13. Min(newlines) = L
  <2>1. L \in newlines /\ \A k \in newlines : L <= k
    BY <1>11, <1>12
  <2>2. Min(newlines) \in newlines /\ \A k \in newlines : Min(newlines) <= k
    BY <2>1 DEF Min
  <2>3. PICK m \in Nat : m = Min(newlines)
    BY <2>2, <1>12
  <2>4. L <= m /\ m <= L
    BY <2>1, <2>2, <2>3
  <2>5. m = L
    BY <2>4
  <2> QED BY <2>3, <2>5
<1>14. newlines # {}
  BY <1>11
<1>15. rest[1] = <<s, 1>>
  <2>1. 1 \in 1..L
    OBVIOUS
  <2> QED BY <2>1, <1>9
<1> QED BY <1>1, <1>2, <1>6, <1>7, <1>8, <1>9, <1>10, <1>13, <1>14, <1>15 DEF StartsWith

\* No line.
LEMMA LaidEmpty ==
  ASSUME NEW S, NEW len \in [S -> Nat \ {0, 1}]
  PROVE  \E o, sp : Laid(<<>>, len, 0, o, sp) /\ o[0] = 0
<1> DEFINE o == [i \in 0..0 |-> 0]
           sp == [i \in 1..0 |-> CHOOSE s \in S : TRUE]
<1>1. o \in [0..0 -> Nat] /\ o[0] = 0
  OBVIOUS
<1>2. sp \in [1..0 -> DOMAIN len]
  OBVIOUS
<1>3. Len(<<>>) = 0
  OBVIOUS
<1> HIDE DEF o, sp
<1>4. \A i \in 1..0 : FALSE
  OBVIOUS
<1>5. Laid(<<>>, len, 0, o, sp)
  BY <1>1, <1>2, <1>3, <1>4 DEF Laid
<1> QED BY <1>1, <1>5

\* p and q lay out a file that has the line of s behind those o and sp lay out.
Longer(g, len, n, o, sp, s, p, q) ==
    /\ Laid(g, len, n + 1, p, q)
    /\ \A i \in 0..n : p[i] = o[i]
    /\ \A i \in 1..n : q[i] = sp[i]
    /\ q[n+1] = s

\* A line more.
LEMMA LaidAppend ==
  ASSUME NEW S, NEW len \in [S -> Nat \ {0, 1}], NEW B, NEW f \in Seq(B), NEW n, NEW o, NEW sp,
         Laid(f, len, n, o, sp), NEW s \in S,
         LineOf(len, s) \in Seq(B)
  PROVE  \E p, q : Longer(f \o LineOf(len, s), len, n, o, sp, s, p, q)
<1> DEFINE p == [i \in 0..(n+1) |-> IF i = n + 1 THEN o[n] + len[s] ELSE o[i]]
           q == [i \in 1..(n+1) |-> IF i = n + 1 THEN s ELSE sp[i]]
<1>0. PICK line \in Seq(B) : line = LineOf(len, s)
  OBVIOUS
<1>line. \A k \in 1..len[s] : line[k] = <<s, k>>
  BY <1>0 DEF LineOf
<1>dom. DOMAIN line = 1..len[s]
  BY <1>0 DEF LineOf
<1> HIDE DEF p, q
<1>1. n \in Nat /\ n \in 0..n
  BY DEF Laid
<1>2. PICK L \in Nat \ {0, 1} : L = len[s]
  OBVIOUS
<1>3. PICK e \in Nat : e = o[n]
  BY <1>1 DEF Laid
<1>4. PICK g : g = f \o line
  OBVIOUS
<1>5. Len(line) = L /\ Len(f) = e
  <2>1. DOMAIN line = 1..L /\ Len(line) \in Nat /\ DOMAIN line = 1..Len(line)
    BY <1>2, <1>dom, LenProperties
  <2> QED BY <2>1, <1>3 DEF Laid
<1>6. /\ Len(g) = e + L
      /\ \A k \in 1..(e + L) : g[k] = IF k <= e THEN f[k] ELSE line[k - e]
  <2>1. /\ Len(g) = Len(f) + Len(line)
        /\ \A k \in 1..(Len(f) + Len(line)) : g[k] = IF k <= Len(f) THEN f[k] ELSE line[k - Len(f)]
    BY <1>4, ConcatProperties
  <2> QED BY <2>1, <1>5
<1>7. p \in [0..(n+1) -> Nat] /\ q \in [1..(n+1) -> S]
  <2>1. \A i \in 0..(n+1) : i # n + 1 => o[i] \in Nat
    BY <1>1 DEF Laid
  <2>2. \A i \in 1..(n+1) : i # n + 1 => sp[i] \in S
    BY <1>1 DEF Laid
  <2>3. o[n] + len[s] \in Nat
    BY <1>2, <1>3
  <2> QED BY <2>1, <2>2, <2>3 DEF p, q
<1>8. p[0] = 0 /\ p[n+1] = e + L /\ n + 1 \in Nat
  BY <1>1, <1>2, <1>3 DEF Laid, p
<1>9. ASSUME NEW i \in 1..(n+1)
      PROVE  /\ p[i] = p[i-1] + len[q[i]]
             /\ \A k \in 1..len[q[i]] : g[p[i-1] + k] = <<q[i], k>>
  <2>1. CASE i = n + 1
    <3>1. p[i] = e + L /\ p[i-1] = e /\ q[i] = s
      BY <2>1, <1>1, <1>2, <1>3 DEF p, q
    <3>2. ASSUME NEW k \in 1..L PROVE g[e + k] = <<s, k>>
      <4>1. e + k \in 1..(e + L) /\ ~(e + k <= e) /\ (e + k) - e = k
        OBVIOUS
      <4>2. line[k] = <<s, k>>
        BY <1>2, <1>line
      <4> QED BY <4>1, <4>2, <1>6
    <3> QED BY <3>1, <3>2, <1>2
  <2>2. CASE i # n + 1
    <3>1. i \in 1..n /\ i - 1 \in 0..n /\ i \in 0..n
      BY <2>2, <1>1
    <3>2. p[i] = o[i] /\ p[i-1] = o[i-1] /\ q[i] = sp[i]
      BY <3>1, <1>1 DEF p, q
    <3>3. PICK t \in S, M \in Nat : t = sp[i] /\ M = len[t]
      BY <3>1 DEF Laid
    <3>4. PICK a \in Nat, c \in Nat : a = o[i-1] /\ c = o[i]
      BY <3>1 DEF Laid
    <3>5. c = a + M /\ \A k \in 1..M : f[a + k] = <<t, k>>
      BY <3>1, <3>3, <3>4 DEF Laid
    <3>6. c <= e
      <4>1. i < n \/ i = n
        BY <3>1, <1>1
      <4>2. i < n => o[i] < o[n]
        BY <3>1, <1>1, LaidOrder
      <4> QED BY <4>1, <4>2, <3>4, <1>3
    <3>7. ASSUME NEW k \in 1..M PROVE g[a + k] = f[a + k]
      <4>1. a + k \in 1..(e + L) /\ a + k <= e
        BY <3>5, <3>6
      <4> QED BY <4>1, <1>6
    <3>8. p[i] = c /\ p[i-1] = a /\ q[i] = t
      BY <3>2, <3>3, <3>4
    <3>9. \A k \in 1..M : g[a + k] = <<t, k>>
      BY <3>5, <3>7
    <3> QED BY <3>3, <3>5, <3>8, <3>9
  <2> QED BY <2>1, <2>2
<1>10. DOMAIN len = S
  OBVIOUS
<1>11. Laid(g, len, n + 1, p, q)
  BY <1>6, <1>7, <1>8, <1>9, <1>10 DEF Laid
<1>12. (\A i \in 0..n : p[i] = o[i]) /\ (\A i \in 1..n : q[i] = sp[i]) /\ q[n+1] = s
  BY <1>1 DEF p, q
<1>13. Longer(g, len, n, o, sp, s, p, q)
  BY <1>11, <1>12 DEF Longer
<1> QED BY <1>0, <1>4, <1>13

(***************************************************************************)
(* Positions in ascending order: a strictly increasing sequence of the      *)
(* numbers of a set.                                                        *)
(***************************************************************************)
Increasing(a, S) ==
    /\ a \in Seq(S) /\ S = {a[i] : i \in 1..Len(a)}
    /\ \A i, j \in 1..Len(a) : i < j => a[i] < a[j]

\* An increasing sequence of the numbers in a set is the set's ascending sequence.
LEMMA IncreasingIsAscending ==
  ASSUME NEW S \in SUBSET Nat, NEW a, Increasing(a, S)
  PROVE  a = Ascending(S) /\ IsFiniteSet(S) /\ Cardinality(S) = Len(a)
<1>1. PICK n \in Nat : n = Len(a) /\ a \in [1..n -> S]
  BY DEF Increasing
<1>2. ASSUME NEW k \in 0..n
      PROVE  LET T == {a[i] : i \in 1..k} IN IsFiniteSet(T) /\ Cardinality(T) = k
  <2> DEFINE T == {a[i] : i \in 1..k}
             f == [i \in 1..k |-> a[i]]
  <2>1. f \in Bijection(1..k, T)
    <3>1. f \in Surjection(1..k, T)
      BY <1>1 DEF Surjection
    <3>2. \A i, j \in 1..k : f[i] = f[j] => i = j
      <4> SUFFICES ASSUME NEW i \in 1..k, NEW j \in 1..k, i < j PROVE f[i] # f[j]
        BY SMT
      <4>0. i \in 1..n /\ j \in 1..n /\ i \in 1..Len(a) /\ j \in 1..Len(a)
        BY <1>1
      <4>1. a[i] < a[j] /\ a[i] \in Nat /\ a[j] \in Nat
        BY <1>1, <4>0 DEF Increasing
      <4> QED
        BY <4>1
    <3> QED
      BY <3>1, <3>2 DEF Bijection, Injection, Surjection, IsInjective
  <2>2. IsFiniteSet(1..k) /\ Cardinality(1..k) = k
    BY FS_Interval
  <2>3. ExistsBijection(1..k, T)
    BY <2>1 DEF ExistsBijection
  <2> QED
    BY <2>2, <2>3, FS_Bijection
<1>3. IsFiniteSet(S) /\ Cardinality(S) = n
  <2>1. n \in 0..n /\ S = {a[i] : i \in 1..n}
    BY <1>1 DEF Increasing
  <2>2. LET T == {a[i] : i \in 1..n} IN IsFiniteSet(T) /\ Cardinality(T) = n
    BY <1>2, <2>1
  <2> QED
    BY <2>1, <2>2
<1>4. ASSUME NEW k \in 1..n
      PROVE  a[k] \in S /\ Cardinality({y \in S : y < a[k]}) = k - 1
  <2>1. k - 1 \in 0..n /\ a[k] \in S
    BY <1>1
  <2>2. {y \in S : y < a[k]} = {a[i] : i \in 1..(k - 1)}
    <3>1. ASSUME NEW y \in S, y < a[k] PROVE y \in {a[i] : i \in 1..(k - 1)}
      <4>1. PICK i \in 1..n : y = a[i]
        BY <1>1 DEF Increasing
      <4>2. a[i] \in Nat /\ a[k] \in Nat
        BY <1>1
      <4>3. i < k
        BY <1>1, <3>1, <4>1, <4>2 DEF Increasing
      <4> QED
        BY <4>1, <4>3
    <3>2. ASSUME NEW i \in 1..(k - 1) PROVE a[i] \in S /\ a[i] < a[k]
      BY <1>1 DEF Increasing
    <3> QED
      BY <3>1, <3>2
  <2> QED
    BY <1>2, <2>1, <2>2
<1>5. ASSUME NEW k \in 1..n, NEW x \in S, Cardinality({y \in S : y < x}) = k - 1 PROVE x = a[k]
  <2>1. PICK i \in 1..n : x = a[i]
    BY <1>1 DEF Increasing
  <2>2. i - 1 = k - 1
    BY <1>4, <1>5, <2>1
  <2> QED
    BY <2>1, <2>2
<1>6. ASSUME NEW k \in 1..n PROVE a[k] = CHOOSE x \in S : Cardinality({y \in S : y < x}) = k - 1
  BY <1>4, <1>5
<1>7. a = [k \in 1..n |-> CHOOSE x \in S : Cardinality({y \in S : y < x}) = k - 1]
  BY <1>1, <1>6
<1> QED
  BY <1>1, <1>3, <1>7 DEF Ascending

\* A greater number at the end.
LEMMA IncreasingAppend ==
  ASSUME NEW n \in Nat, NEW S \in SUBSET (1..n), NEW m \in Nat, n < m, NEW a, Increasing(a, S)
  PROVE  Increasing(Append(a, m), S \cup {m})
<1>1. PICK k \in Nat : k = Len(a) /\ a \in [1..k -> S]
  BY DEF Increasing
<1>2. PICK b : b = Append(a, m)
  OBVIOUS
<1>3. b \in Seq(S \cup {m}) /\ Len(b) = k + 1 /\ b[k + 1] = m /\ \A i \in 1..k : b[i] = a[i]
  BY <1>1, <1>2 DEF Increasing
<1>4. \A x \in S : x \in Nat /\ x < m
  OBVIOUS
<1>5. S \cup {m} = {b[i] : i \in 1..(k + 1)}
  <2>1. S = {a[i] : i \in 1..k}
    BY <1>1 DEF Increasing
  <2> QED
    BY <1>1, <1>3, <2>1
<1>6. ASSUME NEW i \in 1..(k + 1), NEW j \in 1..(k + 1), i < j PROVE b[i] < b[j]
  <2>1. i \in 1..k /\ b[i] = a[i] /\ a[i] \in S
    BY <1>1, <1>3, <1>6
  <2>2. CASE j \in 1..k
    BY <1>1, <1>3, <1>6, <2>1, <2>2 DEF Increasing
  <2>3. CASE j = k + 1
    BY <1>3, <1>4, <2>1, <2>3
  <2> QED
    BY <2>2, <2>3
<1> QED
  BY <1>2, <1>3, <1>5, <1>6 DEF Increasing

\* Positions in ascending order exist for every set of positions: each once, in order.
LEMMA AscendingIncreases ==
  ASSUME NEW n \in Nat, NEW S \in SUBSET (1..n)
  PROVE  Increasing(Ascending(S), S)
<1> DEFINE Good == {m \in Nat : \A T \in SUBSET (1..m) : \E a : Increasing(a, T)}
<1>1. ASSUME NEW m \in Nat, 0..(m-1) \subseteq Good, NEW T \in SUBSET (1..m)
      PROVE  \E a : Increasing(a, T)
  <2>1. CASE m = 0
    <3>1. T = {} /\ <<>> \in Seq(T) /\ 1..Len(<<>>) = {}
      BY <2>1
    <3>2. T = {<<>>[i] : i \in 1..Len(<<>>)}
      BY <3>1
    <3> QED
      BY <3>1, <3>2 DEF Increasing
  <2>2. CASE m # 0
    <3>1. m - 1 \in Good /\ m - 1 \in Nat /\ m - 1 < m
      BY <1>1, <2>2
    <3>2. T \ {m} \in SUBSET (1..(m - 1))
      OBVIOUS
    <3>3. PICK a : Increasing(a, T \ {m})
      BY <3>1, <3>2
    <3>4. CASE m \in T
      <4>1. (T \ {m}) \cup {m} = T
        BY <3>4
      <4>2. Increasing(Append(a, m), (T \ {m}) \cup {m})
        BY <3>1, <3>2, <3>3, IncreasingAppend
      <4> QED
        BY <4>1, <4>2
    <3>5. CASE m \notin T
      <4>1. T \ {m} = T
        BY <3>5
      <4> QED
        BY <3>3, <4>1
    <3> QED
      BY <3>4, <3>5
  <2> QED
    BY <2>1, <2>2
<1>2. Nat \subseteq Good
  <2>1. \A m \in Nat : 0..(m-1) \subseteq Good => m \in Good
    BY <1>1
  <2> HIDE DEF Good
  <2> QED
    BY <2>1, Induction
<1>3. PICK a : Increasing(a, S)
  BY <1>2
<1>4. S \in SUBSET Nat
  OBVIOUS
<1> QED
  BY <1>3, <1>4, IncreasingIsAscending

\* A greater position comes last.
LEMMA AscendingAppend ==
  ASSUME NEW n \in Nat, NEW S \in SUBSET (1..n), NEW m \in Nat, n < m
  PROVE  Ascending(S \cup {m}) = Append(Ascending(S), m)
<1>1. Increasing(Append(Ascending(S), m), S \cup {m})
  BY AscendingIncreases, IncreasingAppend
<1>2. S \cup {m} \in SUBSET Nat
  OBVIOUS
<1> QED
  BY <1>1, <1>2, IncreasingIsAscending

\* The union of two parts of an event (dict.update): its fields and what they hold.
LEMMA PutTogether ==
  ASSUME NEW f, NEW g
  PROVE  /\ DOMAIN (f ++ g) = DOMAIN f \cup DOMAIN g
         /\ \A x \in DOMAIN f : (f ++ g)[x] = f[x]
         /\ \A x \in DOMAIN g \ DOMAIN f : (f ++ g)[x] = g[x]
BY DEF ++

\* An event's part of one field.
LEMMA OneField ==
  ASSUME NEW x, NEW value
  PROVE  DOMAIN (x <: value) = {x} /\ (x <: value)[x] = value
BY DEF <:

\* The elements of a sequence that is one of its own elements, as it grows (Ledger.commit).
LEMMA Grows ==
  ASSUME NEW s, s \in Seq(ToSet(s)), NEW e
  PROVE  /\ Append(s, e) \in Seq(ToSet(Append(s, e)))
         /\ Len(Append(s, e)) = Len(s) + 1 /\ Len(s) \in Nat
         /\ DOMAIN s = 1..Len(s) /\ DOMAIN Append(s, e) = 1..(Len(s) + 1)
         /\ \A i \in 1..Len(s) : Append(s, e)[i] = s[i]
         /\ Append(s, e)[Len(s) + 1] = e
<1> DEFINE S == ToSet(s) \cup {e}
           a == Append(s, e)
<1>1. s \in Seq(S) /\ a \in Seq(S)
  OBVIOUS
<1>2. /\ Len(a) = Len(s) + 1 /\ Len(s) \in Nat /\ a[Len(s) + 1] = e
      /\ \A i \in 1..Len(s) : a[i] = s[i]
  BY <1>1
<1>3. a \in Seq(ToSet(a))
  <2>1. DOMAIN a = 1..Len(a) /\ Len(a) \in Nat
    BY <1>1
  <2>2. \A i \in 1..Len(a) : a[i] \in ToSet(a)
    BY <2>1 DEF ToSet
  <2> HIDE DEF a
  <2> QED
    BY <1>1, <2>1, <2>2, ElementOfSeq, SeqDef
<1> QED
  BY <1>1, <1>2, <1>3
=============================================================================
