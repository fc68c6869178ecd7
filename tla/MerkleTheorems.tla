--------------------------- MODULE MerkleTheorems ---------------------------
(***************************************************************************)
(* What the roots and the proofs of merkle.py bind, for trees of any size:  *)
(* a root has one sequence of leaves, an inclusion proof that verifies has  *)
(* the leaf at its index, and a consistency proof that verifies has the     *)
(* head of the same log at the earlier size, whatever the proof's nodes.    *)
(* And what the generators yield is accepted: the audit path of every leaf, *)
(* and the proof from every earlier size.  At the end, the Go core: it      *)
(* computes and accepts the same.                                          *)
(***************************************************************************)
EXTENDS MerkleGo, DataLemmas

(***************************************************************************)
(* Powers of two.                                                          *)
(***************************************************************************)
Doubles(g, d) == g \in [0..d -> Nat \ {0}] /\ \A n \in 0..d : g[n] = IF n = 0 THEN 1 ELSE 2 * g[n - 1]

\* The table of the powers up to d exists, is unique,
LEMMA DoublesExist == \A d \in Nat : \E g : Doubles(g, d)
<1> DEFINE Good == {d \in Nat : \E g : Doubles(g, d)}
<1>1. ASSUME NEW d \in Nat, 0..(d-1) \subseteq Good
      PROVE  \E g : Doubles(g, d)
  <2>1. CASE d = 0
    <3> DEFINE g == [n \in 0..d |-> 1]
    <3>1. Doubles(g, d)
      BY <2>1 DEF Doubles
    <3> QED
      BY <3>1
  <2>2. CASE d > 0
    <3>1. d - 1 \in 0..(d-1) /\ d - 1 \in Nat
      BY <2>2
    <3>2. PICK h : Doubles(h, d - 1)
      BY <1>1, <3>1
    <3> DEFINE g == [n \in 0..d |-> IF n = 0 THEN 1 ELSE 2 * h[n - 1]]
    <3>3. h \in [0..(d-1) -> Nat \ {0}] /\ \A n \in 0..(d-1) : h[n] = IF n = 0 THEN 1 ELSE 2 * h[n - 1]
      BY <3>2 DEF Doubles
    <3>4. \A n \in 0..d : n # 0 => n - 1 \in 0..(d-1) /\ n - 1 \in 0..d
      BY <2>2
    <3>5. g \in [0..d -> Nat \ {0}]
      <4>1. \A n \in 0..d : n # 0 => 2 * h[n - 1] \in Nat \ {0}
        BY <3>3, <3>4
      <4> QED
        BY <4>1
    <3>6. \A n \in 0..(d-1) : g[n] = h[n]
      BY <3>3, <2>2
    <3>7. \A n \in 0..d : g[n] = IF n = 0 THEN 1 ELSE 2 * g[n - 1]
      BY <3>4, <3>6
    <3>8. Doubles(g, d)
      BY <3>5, <3>7 DEF Doubles
    <3> QED
      BY <3>8
  <2> QED
    BY <2>1, <2>2
<1>2. \A d \in Nat : 0..(d-1) \subseteq Good => d \in Good
  BY <1>1
<1> HIDE DEF Good
<1>3. Nat \subseteq Good
  BY <1>2, Induction
<1> QED
  BY <1>3 DEF Good

\* agrees with the one of any larger d,
LEMMA DoublesOne ==
    ASSUME NEW c \in Nat, NEW d \in Nat, NEW g, NEW h, Doubles(g, c), Doubles(h, d),
           NEW n \in 0..c, n \in 0..d
    PROVE  g[n] = h[n]
<1> DEFINE Good == {m \in Nat : m \in 0..c /\ m \in 0..d => g[m] = h[m]}
<1>1. ASSUME NEW m \in Nat, 0..(m-1) \subseteq Good, m \in 0..c, m \in 0..d
      PROVE  g[m] = h[m]
  <2>1. m # 0 => m - 1 \in 0..(m-1) /\ m - 1 \in 0..c /\ m - 1 \in 0..d
    BY <1>1
  <2>2. m # 0 => g[m-1] = h[m-1]
    BY <1>1, <2>1
  <2> QED
    BY <1>1, <2>2 DEF Doubles
<1>2. \A m \in Nat : 0..(m-1) \subseteq Good => m \in Good
  BY <1>1
<1> HIDE DEF Good
<1>3. n \in Good
  BY <1>2, Induction
<1> QED
  BY <1>3 DEF Good

\* and is what the recursive definition of Pow2 computes.
LEMMA Pow2Value ==
    /\ Pow2 \in [Nat -> Nat \ {0}] /\ Pow2[0] = 1
    /\ \A n \in Nat : Pow2[n + 1] = 2 * Pow2[n]
<1> DEFINE g(d) == CHOOSE f : Doubles(f, d)
           F == [n \in Nat |-> g(n)[n]]
<1>1. \A d \in Nat : Doubles(g(d), d)
  BY DoublesExist
<1> HIDE DEF g
<1>2. \A n \in Nat : n \in 0..n /\ g(n)[n] \in Nat \ {0}
  BY <1>1 DEF Doubles
<1>3. ASSUME NEW n \in Nat
      PROVE  F[n] = IF n = 0 THEN 1 ELSE 2 * F[n - 1]
  <2>1. g(n)[n] = IF n = 0 THEN 1 ELSE 2 * g(n)[n - 1]
    BY <1>1, <1>2 DEF Doubles
  <2>2. ASSUME n # 0
        PROVE  g(n)[n - 1] = g(n - 1)[n - 1]
    <3>1. n - 1 \in Nat /\ n - 1 \in 0..n /\ n - 1 \in 0..(n-1)
      BY <2>2
    <3> QED
      BY <3>1, <1>1, DoublesOne
  <2>3. n # 0 => n - 1 \in Nat
    OBVIOUS
  <2> QED
    BY <2>1, <2>2, <2>3
<1>4. F = [n \in Nat |-> IF n = 0 THEN 1 ELSE 2 * F[n - 1]]
  BY <1>3
<1>5. \E f : f = [n \in Nat |-> IF n = 0 THEN 1 ELSE 2 * f[n - 1]]
  BY <1>4
<1>6. Pow2 = [n \in Nat |-> IF n = 0 THEN 1 ELSE 2 * Pow2[n - 1]]
  <2> DEFINE D(f) == f = [n \in Nat |-> IF n = 0 THEN 1 ELSE 2 * f[n - 1]]
  <2>1. Pow2 = CHOOSE f : D(f)
    BY Zenon DEF Pow2
  <2>2. \E f : D(f)
    BY <1>5
  <2> HIDE DEF D
  <2>3. D(Pow2)
    BY <2>1, <2>2
  <2> QED
    BY <2>3 DEF D
<1>7. \A n \in Nat : Pow2[n] = IF n = 0 THEN 1 ELSE 2 * Pow2[n - 1]
  BY <1>6
<1> DEFINE Good == {n \in Nat : Pow2[n] \in Nat \ {0}}
<1>8. \A n \in Nat : 0..(n-1) \subseteq Good => n \in Good
  <2> SUFFICES ASSUME NEW n \in Nat, 0..(n-1) \subseteq Good
               PROVE  Pow2[n] \in Nat \ {0}
    OBVIOUS
  <2>1. n # 0 => n - 1 \in Good
    <3>1. n # 0 => n - 1 \in 0..(n-1)
      OBVIOUS
    <3> QED
      BY <3>1
  <2>2. n # 0 => Pow2[n - 1] \in Nat \ {0}
    BY <2>1
  <2> QED
    BY <1>7, <2>2
<1> HIDE DEF Good
<1>9. Nat \subseteq Good
  BY <1>8, Induction
<1>10. \A n \in Nat : Pow2[n] \in Nat \ {0}
  BY <1>9 DEF Good
<1>11. \A n \in Nat : n + 1 \in Nat /\ n + 1 # 0 /\ (n + 1) - 1 = n
  OBVIOUS
<1>12. \A n \in Nat : Pow2[n + 1] = 2 * Pow2[n]
  BY <1>7, <1>11
<1>13. Pow2 \in [Nat -> Nat \ {0}]
  BY <1>6, <1>10
<1> QED
  BY <1>7, <1>12, <1>13

\* A larger exponent at least doubles the power.
LEMMA Pow2Order ==
    ASSUME NEW i \in Nat, NEW j \in Nat, i < j
    PROVE  2 * Pow2[i] <= Pow2[j]
<1> DEFINE Good == {m \in Nat : i < m => 2 * Pow2[i] <= Pow2[m]}
<1>1. ASSUME NEW m \in Nat, 0..(m-1) \subseteq Good, i < m
      PROVE  2 * Pow2[i] <= Pow2[m]
  <2>1. m - 1 \in Nat /\ m - 1 \in 0..(m-1) /\ (m - 1) + 1 = m
    BY <1>1
  <2>2. i < m - 1 => 2 * Pow2[i] <= Pow2[m - 1]
    BY <1>1, <2>1
  <2>3. Pow2[m] = 2 * Pow2[m - 1]
    BY <2>1, Pow2Value
  <2>4. PICK a \in Nat \ {0}, b \in Nat \ {0}, c \in Nat \ {0} :
            a = Pow2[i] /\ b = Pow2[m - 1] /\ c = Pow2[m]
    BY <2>1, Pow2Value
  <2>5. i < m - 1 \/ i = m - 1
    BY <1>1
  <2>6. (2 * a <= b \/ a = b) /\ c = 2 * b
    BY <2>2, <2>3, <2>4, <2>5
  <2>7. 2 * a <= c
    BY <2>6
  <2> QED
    BY <2>4, <2>7
<1>2. \A m \in Nat : 0..(m-1) \subseteq Good => m \in Good
  BY <1>1
<1> HIDE DEF Good
<1>3. j \in Good
  BY <1>2, Induction
<1> QED
  BY <1>3 DEF Good

\* Some power exceeds every number.
LEMMA Pow2Bound == ASSUME NEW n \in Nat PROVE n < Pow2[n]
<1> DEFINE Good == {m \in Nat : m < Pow2[m]}
<1>1. ASSUME NEW m \in Nat, 0..(m-1) \subseteq Good
      PROVE  m < Pow2[m]
  <2>1. CASE m = 0
    BY <2>1, Pow2Value
  <2>2. CASE m # 0
    <3>1. m - 1 \in Nat /\ m - 1 \in 0..(m-1) /\ (m - 1) + 1 = m
      BY <2>2
    <3>2. PICK b \in Nat : b = Pow2[m - 1] /\ Pow2[m] = 2 * b
      BY <3>1, Pow2Value
    <3>3. m - 1 < b
      BY <1>1, <3>1, <3>2
    <3>4. m < 2 * b
      BY <3>1, <3>3
    <3> QED
      BY <3>2, <3>4
  <2> QED
    BY <2>1, <2>2
<1>2. \A m \in Nat : 0..(m-1) \subseteq Good => m \in Good
  BY <1>1
<1> HIDE DEF Good
<1>3. n \in Good
  BY <1>2, Induction
<1> QED
  BY <1>3 DEF Good

\* n leaves are split after the first Pow2[e].
Splits(n, e) == e \in Nat /\ Pow2[e] < n /\ n <= 2 * Pow2[e]

\* Every tree of several leaves has a split,
LEMMA SplitExists ==
    ASSUME NEW n \in Nat \ {0, 1}
    PROVE  \E e : Splits(n, e) /\ e \in 0..n
<1> DEFINE T == {e \in Nat : n <= Pow2[e]}
<1>1. n \in T
  <2>1. n < Pow2[n] /\ Pow2[n] \in Nat
    BY Pow2Bound, Pow2Value
  <2> QED
    BY <2>1
<1>2. T \subseteq Nat /\ T # {}
  BY <1>1
<1>3. PICK m \in T : \A k \in T : m <= k
  <2> HIDE DEF T
  <2> QED
    BY <1>2, Least
<1>4. m \in Nat /\ n <= Pow2[m] /\ m <= n
  BY <1>1, <1>3
<1>5. m # 0
  BY <1>4, Pow2Value
<1>6. m - 1 \in Nat /\ (m - 1) + 1 = m /\ m - 1 \in 0..n
  BY <1>4, <1>5
<1>7. m - 1 \notin T
  <2>1. ~(m <= m - 1)
    BY <1>4
  <2> QED
    BY <1>3, <2>1
<1>8. ~(n <= Pow2[m - 1]) /\ Pow2[m - 1] \in Nat /\ Pow2[m] = 2 * Pow2[m - 1]
  BY <1>6, <1>7, Pow2Value
<1>9. Pow2[m - 1] < n /\ n <= 2 * Pow2[m - 1]
  BY <1>4, <1>8
<1> QED
  BY <1>6, <1>9 DEF Splits

\* only one,
LEMMA SplitOne ==
    ASSUME NEW n \in Nat, NEW d, NEW e, Splits(n, d), Splits(n, e)
    PROVE  d = e
<1>1. d \in Nat /\ e \in Nat
  BY DEF Splits
<1>2. PICK a \in Nat, b \in Nat : a = Pow2[d] /\ b = Pow2[e]
  BY <1>1, Pow2Value
<1>3. a < n /\ n <= 2 * a /\ b < n /\ n <= 2 * b
  BY <1>2 DEF Splits
<1>4. ASSUME d < e PROVE FALSE
  BY <1>1, <1>2, <1>3, <1>4, Pow2Order
<1>5. ASSUME e < d PROVE FALSE
  BY <1>1, <1>2, <1>3, <1>5, Pow2Order
<1> QED
  BY <1>1, <1>4, <1>5

\* and it is the one _largest_pow2_lt finds.
LEMMA SplitValue ==
    ASSUME NEW n \in Nat, NEW e, Splits(n, e)
    PROVE  LargestPow2(n) = Pow2[e]
<1>1. e \in Nat /\ n # 0 /\ n # 1
  <2>1. e \in Nat /\ Pow2[e] < n /\ Pow2[e] \in Nat \ {0}
    BY Pow2Value DEF Splits
  <2> QED
    BY <2>1
<1> DEFINE D(d) == Pow2[d] < n /\ n <= Pow2[d + 1]
           d == CHOOSE d \in 0..n : D(d)
<1>2. \A x \in Nat : D(x) <=> Splits(n, x)
  BY Pow2Value DEF Splits
<1>3. \E x \in 0..n : D(x)
  <2>1. PICK x : Splits(n, x) /\ x \in 0..n
    BY <1>1, SplitExists
  <2>2. x \in Nat
    BY <2>1
  <2> QED
    BY <1>2, <2>1, <2>2
<1>4. LargestPow2(n) = Pow2[d]
  BY DEF LargestPow2
<1> HIDE DEF D
<1>5. d \in 0..n /\ D(d)
  BY <1>3
<1> HIDE DEF d
<1>6. Splits(n, d)
  <2>1. d \in Nat
    BY <1>5
  <2> QED
    BY <1>2, <1>5, <2>1
<1>7. d = e
  BY <1>6, SplitOne
<1> QED
  BY <1>4, <1>7

\* Both parts are smaller.
LEMMA SplitParts ==
    ASSUME NEW n \in Nat \ {0, 1}
    PROVE  /\ LargestPow2(n) \in 1..(n-1) /\ n - LargestPow2(n) \in 1..(n-1)
           /\ \E e : Splits(n, e) /\ LargestPow2(n) = Pow2[e]
<1>1. PICK e : Splits(n, e)
  BY SplitExists
<1>2. LargestPow2(n) = Pow2[e]
  BY <1>1, SplitValue
<1>3. PICK k \in Nat \ {0} : k = Pow2[e]
  BY <1>1, Pow2Value DEF Splits
<1>4. k < n
  BY <1>1, <1>3 DEF Splits
<1>5. k \in 1..(n-1) /\ n - k \in 1..(n-1)
  BY <1>4
<1> QED
  BY <1>1, <1>2, <1>3, <1>5

(***************************************************************************)
(* The recursion of tree_hash.                                             *)
(***************************************************************************)

\* What is hashed over n leaves after the first lo, where g has the subtrees.
Hashed(ls, g, n, lo) ==
    IF n = 1 THEN ls[lo + 1]
    ELSE NodeHash(g[LargestPow2(n)][lo], g[n - LargestPow2(n)][lo + LargestPow2(n)])

\* The recursive function Subtree satisfies its own equation.
LEMMA SubtreeValue ==
    ASSUME NEW ls, NEW L \in Nat, L = Len(ls)
    PROVE  \A n \in 1..L : \A lo \in 0..(L-n) :
               Subtree(ls)[n][lo] = Hashed(ls, Subtree(ls), n, lo)
<1> DEFINE Right(g, d) == \A n \in 1..L : n <= d => \A lo \in 0..(L-n) : g[n][lo] = Hashed(ls, g, n, lo)
           Good == {d \in Nat : \E g : Right(g, d)}
<1>1. ASSUME NEW n \in 1..L, n # 1, NEW lo \in 0..(L-n)
      PROVE  /\ LargestPow2(n) \in 1..L /\ LargestPow2(n) <= n - 1 /\ lo \in 0..(L - LargestPow2(n))
             /\ n - LargestPow2(n) \in 1..L /\ n - LargestPow2(n) <= n - 1
             /\ lo + LargestPow2(n) \in 0..(L - (n - LargestPow2(n)))
  <2>1. n \in Nat \ {0, 1}
    BY <1>1
  <2>2. PICK k \in 1..(n-1) : k = LargestPow2(n)
    BY <2>1, SplitParts
  <2>3. k \in 1..L /\ k <= n - 1 /\ lo \in 0..(L-k) /\ n - k \in 1..L /\ n - k <= n - 1 /\ lo + k \in 0..(L-(n-k))
    OBVIOUS
  <2> QED
    BY <2>2, <2>3
<1>2. ASSUME NEW d \in Nat, 0..(d-1) \subseteq Good
      PROVE  \E g : Right(g, d)
  <2>1. CASE d = 0
    <3>1. \A n \in 1..L : ~(n <= 0)
      OBVIOUS
    <3>2. Right(<<>>, d)
      BY <2>1, <3>1
    <3> QED
      BY <3>2
  <2>2. CASE d # 0
    <3>1. d - 1 \in 0..(d-1)
      BY <2>2
    <3>2. PICK h : Right(h, d - 1)
      BY <1>2, <3>1
    <3> DEFINE g == [n \in 1..L |-> [lo \in 0..(L-n) |-> Hashed(ls, h, n, lo)]]
    <3>3. \A n \in 1..L : \A lo \in 0..(L-n) : g[n][lo] = Hashed(ls, h, n, lo)
      OBVIOUS
    <3> HIDE DEF g
    <3>4. \A n \in 1..L : n <= d - 1 => \A lo \in 0..(L-n) : g[n][lo] = h[n][lo]
      BY <3>2, <3>3
    <3>5. ASSUME NEW n \in 1..L, n <= d, NEW lo \in 0..(L-n)
          PROVE  Hashed(ls, h, n, lo) = Hashed(ls, g, n, lo)
      <4>1. CASE n = 1
        BY <4>1 DEF Hashed
      <4>2. CASE n # 1
        <5>1. PICK k : k = LargestPow2(n)
          OBVIOUS
        <5>2. /\ k \in 1..L /\ k <= n - 1 /\ lo \in 0..(L-k)
              /\ n - k \in 1..L /\ n - k <= n - 1 /\ lo + k \in 0..(L-(n-k))
          BY <1>1, <4>2, <5>1
        <5>3. k <= d - 1 /\ n - k <= d - 1
          BY <3>5, <5>2
        <5>4. g[k][lo] = h[k][lo] /\ g[n-k][lo+k] = h[n-k][lo+k]
          BY <3>4, <5>2, <5>3
        <5> QED
          BY <5>1, <5>4 DEF Hashed
      <4> QED
        BY <4>1, <4>2
    <3>6. Right(g, d)
      BY <3>3, <3>5
    <3> QED
      BY <3>6
  <2> QED
    BY <2>1, <2>2
<1>3. \A d \in Nat : 0..(d-1) \subseteq Good => d \in Good
  BY <1>2
<1>4. L \in Good
  <2> HIDE DEF Good
  <2> QED
    BY <1>3, Induction
<1>5. PICK h : Right(h, L)
  BY <1>4
<1> DEFINE F == [n \in 1..L |-> [lo \in 0..(L-n) |-> Hashed(ls, h, n, lo)]]
           D(f) == f = [n \in 1..L |-> [lo \in 0..(L-n) |-> Hashed(ls, f, n, lo)]]
<1>6. \A n \in 1..L : \A lo \in 0..(L-n) : F[n][lo] = Hashed(ls, h, n, lo) /\ h[n][lo] = Hashed(ls, h, n, lo)
  BY <1>5
<1>7. ASSUME NEW n \in 1..L, NEW lo \in 0..(L-n)
      PROVE  Hashed(ls, h, n, lo) = Hashed(ls, F, n, lo)
  <2> HIDE DEF F
  <2>1. CASE n = 1
    BY <2>1 DEF Hashed
  <2>2. CASE n # 1
    <3>1. PICK k : k = LargestPow2(n)
      OBVIOUS
    <3>2. k \in 1..L /\ lo \in 0..(L-k) /\ n - k \in 1..L /\ lo + k \in 0..(L-(n-k))
      BY <1>1, <2>2, <3>1
    <3>3. F[k][lo] = h[k][lo] /\ F[n-k][lo+k] = h[n-k][lo+k]
      BY <1>6, <3>2, ZenonT(30)
    <3> QED
      BY <3>1, <3>3 DEF Hashed
  <2> QED
    BY <2>1, <2>2
<1>8. D(F)
  BY <1>7
<1>9. Subtree(ls) = CHOOSE f : D(f)
  BY Zenon DEF Subtree, Hashed
<1>10. D(Subtree(ls))
  <2>1. \E f : D(f)
    BY <1>8
  <2> HIDE DEF D
  <2> QED
    BY <1>9, <2>1
<1>11. PICK f : f = Subtree(ls) /\ f = [n \in 1..L |-> [lo \in 0..(L-n) |-> Hashed(ls, f, n, lo)]]
  BY <1>10
<1>12. ASSUME NEW n \in 1..L, NEW lo \in 0..(L-n)
       PROVE  f[n][lo] = Hashed(ls, f, n, lo)
  <2>1. f[n] = [x \in 0..(L-n) |-> Hashed(ls, f, n, x)]
    BY <1>11
  <2> QED
    BY <2>1
<1> QED
  BY <1>11, <1>12

\* The root over the leaves of ls from a to b, b left out.
Over(ls, a, b) == Subtree(ls)[b - a][a]

\* A node has one left and one right part.
LEMMA NodeBinds ==
    ASSUME NEW l, NEW r, NEW x, NEW y, NodeHash(l, r) = NodeHash(x, y)
    PROVE  l = x /\ r = y
<1>1. <<"node", <<l, r>>>>[2] = <<"node", <<x, y>>>>[2]
  BY Zenon DEF NodeHash
<1>2. <<"node", <<l, r>>>>[2] = <<l, r>> /\ <<"node", <<x, y>>>>[2] = <<x, y>>
  OBVIOUS
<1>3. <<l, r>> = <<x, y>>
  BY <1>1, <1>2
<1> QED
  BY <1>3

\* The root over one leaf, over a split run, and over all leaves.
LEMMA OverLeaf ==
    ASSUME NEW S, NEW ls \in Seq(S), NEW a \in Nat, a < Len(ls)
    PROVE  Over(ls, a, a + 1) = ls[a + 1]
<1>1. PICK L \in Nat : L = Len(ls)
  OBVIOUS
<1>2. 1 \in 1..L /\ a \in 0..(L - 1) /\ (a + 1) - a = 1
  BY <1>1
<1>3. Subtree(ls)[1][a] = Hashed(ls, Subtree(ls), 1, a)
  BY <1>1, <1>2, SubtreeValue
<1> QED
  BY <1>2, <1>3 DEF Over, Hashed

\* A tree over more than one leaf is a node over the trees of its two parts.
LEMMA OverSplit ==
    ASSUME NEW S, NEW ls \in Seq(S), NEW a \in Nat, NEW b \in Nat, NEW e \in Nat,
           b <= Len(ls), a + Pow2[e] < b, b <= a + 2 * Pow2[e]
    PROVE  Over(ls, a, b) = NodeHash(Over(ls, a, a + Pow2[e]), Over(ls, a + Pow2[e], b))
<1>1. PICK L \in Nat : L = Len(ls)
  OBVIOUS
<1>2. PICK k \in Nat \ {0} : k = Pow2[e]
  BY Pow2Value
<1>3. PICK n \in Nat : n = b - a
  BY <1>2
<1>4. n \in 1..L /\ n # 1 /\ a \in 0..(L - n) /\ k < n /\ n <= 2 * k
  BY <1>1, <1>2, <1>3, SMTT(30)
<1>5. Splits(n, e)
  BY <1>2, <1>4 DEF Splits
<1>6. LargestPow2(n) = k
  BY <1>2, <1>5, SplitValue
<1>7. Subtree(ls)[n][a] = Hashed(ls, Subtree(ls), n, a)
  BY <1>1, <1>4, SubtreeValue
<1>8. Subtree(ls)[n][a] = NodeHash(Subtree(ls)[k][a], Subtree(ls)[n - k][a + k])
  BY <1>4, <1>6, <1>7 DEF Hashed
<1>9. (a + k) - a = k /\ b - (a + k) = n - k
  BY <1>3
<1> QED
  BY <1>2, <1>3, <1>8, <1>9 DEF Over

\* tree_hash is the hash over all leaves.
LEMMA TreeIsOver ==
    ASSUME NEW S, NEW ls \in Seq(S), Len(ls) # 0
    PROVE  TreeHash(ls) = Over(ls, 0, Len(ls))
<1>1. ls # <<>> /\ Len(ls) - 0 = Len(ls)
  OBVIOUS
<1> QED
  BY <1>1 DEF TreeHash, Over

(***************************************************************************)
(* Where a walk is.                                                        *)
(***************************************************************************)

\* f is the node above leaf x at level k, whose nodes have Pow2[k] leaves.
Above(x, k, f) == f \in Nat /\ f * Pow2[k] <= x /\ x < (f + 1) * Pow2[k]

\* Climbing i levels and then j is climbing i + j.
LEMMA Pow2Sum ==
    ASSUME NEW i \in Nat, NEW j \in Nat
    PROVE  Pow2[i + j] = Pow2[i] * Pow2[j]
<1> DEFINE Good == {m \in Nat : Pow2[i + m] = Pow2[i] * Pow2[m]}
<1>1. ASSUME NEW m \in Nat, 0..(m-1) \subseteq Good
      PROVE  Pow2[i + m] = Pow2[i] * Pow2[m]
  <2>1. CASE m = 0
    BY <2>1, Pow2Value
  <2>2. CASE m # 0
    <3>1. m - 1 \in Nat /\ m - 1 \in 0..(m-1) /\ (m - 1) + 1 = m /\ i + (m - 1) \in Nat /\ (i + (m - 1)) + 1 = i + m
      BY <2>2
    <3>2. PICK a \in Nat, b \in Nat, c \in Nat :
              a = Pow2[i] /\ b = Pow2[m - 1] /\ c = Pow2[i + (m - 1)]
      BY <3>1, Pow2Value
    <3>3. c = a * b
      BY <1>1, <3>1, <3>2
    <3>4. Pow2[i + m] = 2 * c /\ Pow2[m] = 2 * b
      BY <3>1, <3>2, Pow2Value
    <3>5. 2 * (a * b) = a * (2 * b)
      OBVIOUS
    <3> QED
      BY <3>2, <3>3, <3>4, <3>5
  <2> QED
    BY <2>1, <2>2
<1>2. \A m \in Nat : 0..(m-1) \subseteq Good => m \in Good
  BY <1>1
<1> HIDE DEF Good
<1>3. j \in Good
  BY <1>2, Induction
<1> QED
  BY <1>3 DEF Good

\* A leaf has one node above it at a level,
LEMMA AboveOne ==
    ASSUME NEW x \in Nat, NEW k \in Nat, NEW f, NEW g, Above(x, k, f), Above(x, k, g)
    PROVE  f = g
<1>1. PICK p \in Nat \ {0} : p = Pow2[k]
  BY Pow2Value
<1>2. f \in Nat /\ g \in Nat /\ f * p <= x /\ x < (f + 1) * p /\ g * p <= x /\ x < (g + 1) * p
  BY <1>1 DEF Above
<1>3. ASSUME NEW u \in Nat, NEW v \in Nat, u < v PROVE (u + 1) * p <= v * p
  BY <1>3
<1>4. ~(f < g) /\ ~(g < f)
  <2>1. ASSUME f < g PROVE FALSE
    <3>1. (f + 1) * p <= g * p
      BY <1>2, <1>3, <2>1
    <3> QED
      BY <1>2, <3>1
  <2>2. ASSUME g < f PROVE FALSE
    <3>1. (g + 1) * p <= f * p
      BY <1>2, <1>3, <2>2
    <3> QED
      BY <1>2, <3>1
  <2> QED
    BY <2>1, <2>2
<1> QED
  BY <1>2, <1>4

\* a later leaf no earlier node,
LEMMA AboveOrder ==
    ASSUME NEW x \in Nat, NEW y \in Nat, x <= y, NEW k \in Nat, NEW f, NEW g, Above(x, k, f), Above(y, k, g)
    PROVE  f <= g
<1>1. PICK p \in Nat \ {0} : p = Pow2[k]
  BY Pow2Value
<1>2. f \in Nat /\ g \in Nat /\ f * p <= x /\ y < (g + 1) * p
  BY <1>1 DEF Above
<1>3. ASSUME g < f PROVE FALSE
  <2>1. (g + 1) * p <= f * p
    BY <1>2, <1>3
  <2> QED
    BY <1>2, <2>1
<1> QED
  BY <1>2, <1>3

\* and the nodes further up are found by division.
LEMMA AboveRise ==
    ASSUME NEW x \in Nat, NEW k \in Nat, NEW f, Above(x, k, f), NEW r \in Nat
    PROVE  Above(x, k + r, f \div Pow2[r])
<1>1. PICK p \in Nat \ {0}, q \in Nat \ {0} : p = Pow2[k] /\ q = Pow2[r] /\ Pow2[k + r] = p * q
  <2>1. PICK p \in Nat \ {0}, q \in Nat \ {0} : p = Pow2[k] /\ q = Pow2[r]
    BY Pow2Value
  <2>2. Pow2[k + r] = p * q
    BY <2>1, Pow2Sum
  <2> QED
    BY <2>1, <2>2
<1>2. f \in Nat /\ f * p <= x /\ x < (f + 1) * p
  BY <1>1 DEF Above
<1>3. PICK d \in Nat, m \in Nat : d = f \div q /\ f = d * q + m /\ m < q
  BY <1>2
<1>4. d * q <= f /\ f + 1 <= (d + 1) * q
  BY <1>2, <1>3
<1>5. (d * q) * p <= f * p /\ (f + 1) * p <= ((d + 1) * q) * p
  BY <1>2, <1>4
<1>6. (d * q) * p = d * (p * q) /\ ((d + 1) * q) * p = (d + 1) * (p * q)
  OBVIOUS
<1>7. d * (p * q) <= x /\ x < (d + 1) * (p * q)
  BY <1>2, <1>5, <1>6
<1> QED
  BY <1>1, <1>3, <1>7 DEF Above

\* What Twos yields: the odd part of a number.
LEMMA TwosValue ==
    ASSUME NEW n \in Nat \ {0}
    PROVE  Twos(n) \in Nat /\ \E q \in Nat : n = q * Pow2[Twos(n)] /\ q % 2 = 1
<1> DEFINE E(m, e) == m % Pow2[e] = 0 /\ (m \div Pow2[e]) % 2 = 1
           Good == {m \in Nat : m # 0 => \E e \in 0..m : E(m, e)}
<1>1. ASSUME NEW m \in Nat, NEW e \in Nat, NEW q \in Nat, m = q * Pow2[e], q % 2 = 1
      PROVE  E(m, e)
  <2>1. PICK p \in Nat \ {0} : p = Pow2[e]
    BY Pow2Value
  <2>2. PICK d \in Nat, r \in Nat : d = m \div p /\ r = m % p /\ m = d * p + r /\ r < p
    OBVIOUS
  <2>3. m = q * p
    BY <1>1, <2>1
  <2>4. Above(m, e, q)
    <3>1. (q + 1) * p = q * p + p
      OBVIOUS
    <3> QED
      BY <2>1, <2>3, <3>1 DEF Above
  <2>5. Above(m, e, d)
    <3>1. PICK x \in Nat : x = d * p
      OBVIOUS
    <3>2. (d + 1) * p = x + p
      BY <3>1
    <3>3. x <= m /\ m < x + p
      BY <2>2, <3>1
    <3> QED
      BY <2>1, <3>1, <3>2, <3>3 DEF Above
  <2>6. d = q
    BY <2>4, <2>5, AboveOne
  <2>7. r = 0
    <3>1. PICK x \in Nat : x = q * p
      OBVIOUS
    <3>2. m = x /\ m = x + r
      BY <2>2, <2>3, <2>6, <3>1
    <3> QED
      BY <3>2
  <2> QED
    BY <1>1, <2>1, <2>2, <2>6, <2>7
<1>2. ASSUME NEW m \in Nat, NEW e \in Nat, E(m, e)
      PROVE  \E q \in Nat : m = q * Pow2[e] /\ q % 2 = 1
  <2>1. PICK p \in Nat \ {0} : p = Pow2[e]
    BY Pow2Value
  <2>2. m % p = 0 /\ (m \div p) % 2 = 1
    BY <1>2, <2>1
  <2>3. PICK q \in Nat, r \in Nat : q = m \div p /\ r = m % p /\ m = q * p + r
    OBVIOUS
  <2>4. m = q * p
    BY <2>2, <2>3
  <2> QED
    BY <2>1, <2>2, <2>3, <2>4
<1>3. ASSUME NEW m \in Nat, 0..(m-1) \subseteq Good, m # 0
      PROVE  \E e \in 0..m : E(m, e)
  <2>1. CASE m % 2 = 1
    <3>1. m = m * Pow2[0] /\ 0 \in Nat
      BY Pow2Value
    <3>2. E(m, 0)
      BY <1>1, <2>1, <3>1
    <3> QED
      BY <3>2
  <2>2. CASE m % 2 = 0
    <3>1. PICK h \in Nat : m = 2 * h
      BY <2>2
    <3>2. h \in 0..(m-1) /\ h # 0
      BY <1>3, <3>1
    <3>3. PICK e \in 0..h : E(h, e)
      BY <1>3, <3>2
    <3>4. e \in Nat /\ e + 1 \in Nat /\ e + 1 \in 0..m
      BY <3>1, <3>2
    <3>5. PICK q \in Nat : h = q * Pow2[e] /\ q % 2 = 1
      BY <1>2, <3>3, <3>4
    <3>6. PICK p \in Nat : p = Pow2[e] /\ Pow2[e + 1] = 2 * p
      BY <3>4, Pow2Value
    <3>7. m = q * (2 * p)
      BY <3>1, <3>5, <3>6
    <3>8. m = q * Pow2[e + 1]
      BY <3>6, <3>7
    <3>9. E(m, e + 1)
      BY <1>1, <3>4, <3>5, <3>8
    <3> QED
      BY <3>4, <3>9
  <2> QED
    BY <2>1, <2>2
<1>4. \A m \in Nat : 0..(m-1) \subseteq Good => m \in Good
  BY <1>3
<1>5. n \in Good
  <2> HIDE DEF Good
  <2> QED
    BY <1>4, Induction
<1>6. \E e \in 0..n : E(n, e)
  BY <1>5
<1>7. Twos(n) = CHOOSE e \in 0..n : E(n, e)
  BY DEF Twos
<1> HIDE DEF E, Good
<1>8. Twos(n) \in 0..n /\ E(n, Twos(n))
  BY <1>6, <1>7
<1>9. Twos(n) \in Nat
  BY <1>8
<1> QED
  BY <1>2, <1>8, <1>9

\* The levels a walk at w rises before the last one of a step.
Skipped(w) == IF (w.fn % 2 = 1 \/ w.fn = w.sn) /\ w.fn % 2 = 0 THEN Twos(w.fn) ELSE 0

\* A step from w at level k to v, with the sibling c, that joins two nodes of level e.
JoinsRight(w, c, v, k, e) ==
    /\ v.fr = NodeHash(c, w.fr) /\ v.sr = NodeHash(c, w.sr)
    /\ w.fn * Pow2[k] = (2 * v.fn + 1) * Pow2[e]
    /\ e = k \/ w.fn = w.sn

JoinsLeft(w, c, v, k, e) ==
    /\ v.fr = w.fr /\ v.sr = NodeHash(w.sr, c)
    /\ e = k /\ w.fn = 2 * v.fn /\ w.fn < w.sn

\* Every step climbs to the level above e and joins two nodes of level e.
LEMMA Climbs ==
    ASSUME NEW x \in Nat, NEW y \in Nat, x <= y, NEW k \in Nat, NEW w, NEW c,
           Above(x, k, w.fn), Above(y, k, w.sn), w.sn # 0
    PROVE  \E e \in Nat : /\ k <= e /\ Step(w, c).ok = w.ok
                          /\ Above(x, e + 1, Step(w, c).fn) /\ Above(y, e + 1, Step(w, c).sn)
                          /\ (JoinsRight(w, c, Step(w, c), k, e) \/ JoinsLeft(w, c, Step(w, c), k, e))
<1> DEFINE onRight == w.fn % 2 = 1 \/ w.fn = w.sn
           t == Skipped(w)
<1>1. w.fn \in Nat /\ w.sn \in Nat /\ w.fn <= w.sn
  BY AboveOrder DEF Above
<1>2. t \in Nat
  <2>1. (w.fn % 2 = 0 /\ w.fn = w.sn) => w.fn \in Nat \ {0}
    BY <1>1
  <2> QED
    BY <1>1, <2>1, TwosValue DEF Skipped
<1>3. Step(w, c) = [fn |-> w.fn \div Pow2[t + 1], sn |-> w.sn \div Pow2[t + 1],
                    fr |-> IF onRight THEN NodeHash(c, w.fr) ELSE w.fr,
                    sr |-> IF onRight THEN NodeHash(c, w.sr) ELSE NodeHash(w.sr, c), ok |-> w.ok]
  <2>1. (IF onRight /\ w.fn % 2 = 0 THEN Twos(w.fn) + 1 ELSE 1) = t + 1
    BY DEF Skipped
  <2> QED
    BY <2>1 DEF Step
<1>4. PICK v : v = Step(w, c)
  OBVIOUS
<1>5. /\ v.ok = w.ok /\ v.fn = w.fn \div Pow2[t + 1] /\ v.sn = w.sn \div Pow2[t + 1]
      /\ v.fr = IF onRight THEN NodeHash(c, w.fr) ELSE w.fr
      /\ v.sr = IF onRight THEN NodeHash(c, w.sr) ELSE NodeHash(w.sr, c)
  BY <1>3, <1>4
<1>6. PICK e \in Nat : e = k + t
  BY <1>2
<1>7. Above(x, e + 1, v.fn) /\ Above(y, e + 1, v.sn)
  <2>1. t + 1 \in Nat /\ k + (t + 1) = e + 1
    BY <1>2, <1>6
  <2>2. Above(x, k + (t + 1), w.fn \div Pow2[t + 1]) /\ Above(y, k + (t + 1), w.sn \div Pow2[t + 1])
    BY <2>1, AboveRise
  <2> QED
    BY <1>5, <2>1, <2>2
<1>8. CASE onRight
  <2>1. PICK q \in Nat : w.fn = q * Pow2[t] /\ q % 2 = 1
    <3>1. CASE w.fn % 2 = 1
      <4>1. t = 0 /\ w.fn = w.fn * Pow2[0]
        BY <1>1, <3>1, Pow2Value DEF Skipped
      <4> QED
        BY <1>1, <3>1, <4>1
    <3>2. CASE w.fn % 2 = 0
      <4>1. t = Twos(w.fn) /\ w.fn \in Nat \ {0}
        BY <1>1, <1>8, <3>2 DEF Skipped
      <4> QED
        BY <4>1, TwosValue
    <3> QED
      BY <1>1, <3>1, <3>2
  <2>2. PICK p \in Nat \ {0}, s \in Nat \ {0} :
            p = Pow2[t] /\ s = Pow2[k] /\ Pow2[t + 1] = 2 * p
    BY <1>2, Pow2Value
  <2>3. PICK h \in Nat : q = 2 * h + 1
    BY <2>1
  <2>4. w.fn = h * (2 * p) + p /\ p < 2 * p
    BY <2>1, <2>2, <2>3
  <2>5. v.fn = h
    <3>1. ASSUME NEW r \in Nat, p < r PROVE (h * r + p) \div r = h
      BY <3>1
    <3>2. (h * (2 * p) + p) \div (2 * p) = h
      BY <2>4, <3>1
    <3> QED
      BY <1>5, <2>2, <2>4, <3>2
  <2>6. Pow2[e] = s * p
    BY <1>2, <1>6, <2>2, Pow2Sum
  <2>7. (q * p) * s = q * (s * p)
    OBVIOUS
  <2>8. w.fn * s = (2 * v.fn + 1) * Pow2[e]
    BY <2>1, <2>2, <2>3, <2>5, <2>6, <2>7
  <2>9. e = k \/ w.fn = w.sn
    BY <1>1, <1>6, <1>8 DEF Skipped
  <2>10. JoinsRight(w, c, v, k, e)
    BY <1>5, <1>8, <2>2, <2>8, <2>9 DEF JoinsRight
  <2> QED
    BY <1>2, <1>4, <1>5, <1>6, <1>7, <2>10
<1>9. CASE ~onRight
  <2>1. t = 0 /\ e = k
    BY <1>6, <1>9 DEF Skipped
  <2>2. Pow2[t + 1] = 2
    BY <2>1, Pow2Value
  <2>3. w.fn % 2 = 0 /\ w.fn < w.sn
    BY <1>1, <1>9
  <2>4. w.fn = 2 * v.fn
    BY <1>1, <1>5, <2>2, <2>3
  <2>5. JoinsLeft(w, c, v, k, e)
    BY <1>5, <1>9, <2>1, <2>3, <2>4 DEF JoinsLeft
  <2> QED
    BY <1>2, <1>4, <1>5, <1>6, <1>7, <2>5
<1> QED
  BY <1>8, <1>9

\* The node f of level k of the tree over ls, which the last of a level may not fill.
NodeAt(ls, k, f) ==
    Over(ls, f * Pow2[k], IF (f + 1) * Pow2[k] <= Len(ls) THEN (f + 1) * Pow2[k] ELSE Len(ls))

\* A node is the hash of its two children, when it has both;
LEMMA NodeJoin ==
    ASSUME NEW S, NEW ls \in Seq(S), NEW e \in Nat, NEW h \in Nat, (2 * h + 1) * Pow2[e] < Len(ls)
    PROVE  NodeAt(ls, e + 1, h) = NodeHash(NodeAt(ls, e, 2 * h), NodeAt(ls, e, 2 * h + 1))
<1>0. PICK L \in Nat : L = Len(ls)
  OBVIOUS
<1>1. PICK p \in Nat \ {0} : p = Pow2[e] /\ Pow2[e + 1] = 2 * p /\ L = Len(ls)
  BY <1>0, Pow2Value
<1>2. (2 * h + 1) * p < L
  BY <1>1
<1>3. PICK a \in Nat : a = h * (2 * p)
  OBVIOUS
<1>4. (2 * h) * p = a /\ (2 * h + 1) * p = a + p /\ ((2 * h) + 1) * p = a + p
      /\ ((2 * h + 1) + 1) * p = a + 2 * p /\ (h + 1) * (2 * p) = a + 2 * p
  BY <1>3
<1>5. PICK z \in Nat : z = IF a + 2 * p <= L THEN a + 2 * p ELSE L
  OBVIOUS
<1>6. a + p <= L /\ a + p < z /\ z <= a + 2 * p /\ z <= L
  BY <1>2, <1>4, <1>5
<1>7. Over(ls, a, z) = NodeHash(Over(ls, a, a + p), Over(ls, a + p, z))
  BY <1>1, <1>6, OverSplit
<1>8. NodeAt(ls, e + 1, h) = Over(ls, a, z)
  BY <1>1, <1>3, <1>4, <1>5 DEF NodeAt
<1>9. NodeAt(ls, e, 2 * h) = Over(ls, a, a + p)
  BY <1>1, <1>4, <1>6 DEF NodeAt
<1>10. NodeAt(ls, e, 2 * h + 1) = Over(ls, a + p, z)
  BY <1>1, <1>4, <1>5 DEF NodeAt
<1> QED
  BY <1>7, <1>8, <1>9, <1>10

\* the last node of a level without a sibling is the node above it.
LEMMA NodeRise ==
    ASSUME NEW S, NEW ls \in Seq(S), NEW k \in Nat, NEW e \in Nat, k <= e, NEW f \in Nat, NEW q \in Nat,
           f * Pow2[k] = q * Pow2[e], Len(ls) <= (f + 1) * Pow2[k]
    PROVE  NodeAt(ls, k, f) = NodeAt(ls, e, q)
<1>0. PICK L \in Nat : L = Len(ls)
  OBVIOUS
<1>1. PICK p \in Nat \ {0}, r \in Nat \ {0} : p = Pow2[k] /\ r = Pow2[e] /\ L = Len(ls)
  BY <1>0, Pow2Value
<1>2. p <= r
  <2>1. k = e => p = r
    BY <1>1
  <2>2. k < e => 2 * p <= r
    BY <1>1, Pow2Order
  <2> QED
    BY <2>1, <2>2
<1>3. f * p = q * r /\ L <= (f + 1) * p
  BY <1>1
<1>4. (f + 1) * p = f * p + p /\ (q + 1) * r = q * r + r
  OBVIOUS
<1>5. (f + 1) * p <= (q + 1) * r
  BY <1>2, <1>3, <1>4
<1>6. (IF (f + 1) * p <= L THEN (f + 1) * p ELSE L) = L /\ (IF (q + 1) * r <= L THEN (q + 1) * r ELSE L) = L
  BY <1>3, <1>5
<1> QED
  BY <1>1, <1>3, <1>6 DEF NodeAt

\* A step joins the node it is at with its sibling.
LEMMA StepJoins ==
    ASSUME NEW S, NEW ls \in Seq(S), NEW x \in Nat, x < Len(ls), NEW k \in Nat, NEW e \in Nat, k <= e,
           NEW w, NEW c, NEW v, Above(x, k, w.fn), Above(Len(ls) - 1, k, w.sn), v.fn \in Nat
    PROVE  /\ JoinsRight(w, c, v, k, e) =>
                NodeAt(ls, e + 1, v.fn) = NodeHash(NodeAt(ls, e, 2 * v.fn), NodeAt(ls, k, w.fn))
           /\ JoinsLeft(w, c, v, k, e) =>
                NodeAt(ls, e + 1, v.fn) = NodeHash(NodeAt(ls, k, w.fn), NodeAt(ls, k, w.fn + 1))
<1>0. PICK L \in Nat : L = Len(ls)
  OBVIOUS
<1>1. PICK p \in Nat \ {0}, r \in Nat \ {0} : L = Len(ls) /\ p = Pow2[k] /\ r = Pow2[e]
  BY <1>0, Pow2Value
<1>2. PICK f \in Nat, s \in Nat, h \in Nat : f = w.fn /\ s = w.sn /\ h = v.fn
  BY DEF Above
<1>3. f * p <= x /\ s * p <= L - 1 /\ L - 1 < (s + 1) * p /\ x < L
  BY <1>1, <1>2 DEF Above
<1>4. ASSUME JoinsRight(w, c, v, k, e)
      PROVE  NodeAt(ls, e + 1, h) = NodeHash(NodeAt(ls, e, 2 * h), NodeAt(ls, k, f))
  <2>1. f * p = (2 * h + 1) * r /\ (e = k \/ f = s)
    BY <1>1, <1>2, <1>4 DEF JoinsRight
  <2>2. (2 * h + 1) * r < L
    BY <1>3, <2>1
  <2>3. NodeAt(ls, k, f) = NodeAt(ls, e, 2 * h + 1)
    <3>1. CASE e = k
      <4>1. f * p = (2 * h + 1) * p
        BY <1>1, <2>1, <3>1
      <4>2. f = 2 * h + 1
        <5>1. ASSUME NEW i \in Nat, NEW j \in Nat, i < j PROVE i * p < j * p
          BY <5>1
        <5>2. 2 * h + 1 \in Nat
          OBVIOUS
        <5> QED
          BY <4>1, <5>1, <5>2
      <4> QED
        BY <3>1, <4>2
    <3>2. CASE f = s
      <4>1. L <= (f + 1) * p
        BY <1>3, <3>2
      <4>2. 2 * h + 1 \in Nat
        OBVIOUS
      <4> QED
        BY <1>1, <2>1, <4>1, <4>2, NodeRise, SMTT(30)
    <3> QED
      BY <2>1, <3>1, <3>2
  <2>4. NodeAt(ls, e + 1, h) = NodeHash(NodeAt(ls, e, 2 * h), NodeAt(ls, e, 2 * h + 1))
    BY <1>1, <2>2, NodeJoin
  <2> QED
    BY <2>3, <2>4
<1>5. ASSUME JoinsLeft(w, c, v, k, e)
      PROVE  NodeAt(ls, e + 1, h) = NodeHash(NodeAt(ls, k, f), NodeAt(ls, k, f + 1))
  <2>1. e = k /\ f = 2 * h /\ f < s
    BY <1>2, <1>5 DEF JoinsLeft
  <2>2. (f + 1) * p <= s * p
    BY <2>1
  <2>3. (2 * h + 1) * p < L
    BY <1>3, <2>1, <2>2
  <2>4. NodeAt(ls, k + 1, h) = NodeHash(NodeAt(ls, k, 2 * h), NodeAt(ls, k, 2 * h + 1))
    BY <1>1, <2>3, NodeJoin
  <2> QED
    BY <2>1, <2>4
<1> QED
  BY <1>2, <1>4, <1>5

\* Every state of a walk.
Stepped(W, fn, sn, h, proof) ==
    /\ W[0] = [fn |-> fn, sn |-> sn, fr |-> h, sr |-> h, ok |-> TRUE]
    /\ \A i \in 1..Len(proof) : W[i] = Step(W[i - 1], proof[i])

\* The recursive function of Walk satisfies its own equations.
LEMMA WalkSteps ==
    ASSUME NEW fn, NEW sn, NEW h, NEW proof, NEW L \in Nat, L = Len(proof)
    PROVE  \E W : Stepped(W, fn, sn, h, proof) /\ Walk(fn, sn, h, proof) = W[L]
<1> DEFINE Start == [fn |-> fn, sn |-> sn, fr |-> h, sr |-> h, ok |-> TRUE]
           To(g, i) == IF i = 0 THEN Start ELSE Step(g[i - 1], proof[i])
           Right(g, d) == \A i \in 0..d : g[i] = To(g, i)
           Good == {d \in Nat : \E g : Right(g, d)}
<1>1. ASSUME NEW d \in Nat, 0..(d-1) \subseteq Good
      PROVE  \E g : Right(g, d)
  <2>1. CASE d = 0
    <3> DEFINE g == [i \in 0..0 |-> Start]
    <3>1. Right(g, d)
      BY <2>1
    <3> QED
      BY <3>1
  <2>2. CASE d # 0
    <3>1. d - 1 \in 0..(d-1)
      BY <2>2
    <3>2. PICK g : Right(g, d - 1)
      BY <1>1, <3>1
    <3> DEFINE f == [i \in 0..d |-> To(g, i)]
    <3>3. \A i \in 0..d : f[i] = To(g, i)
      OBVIOUS
    <3>4. \A i \in 0..d : i # 0 => i - 1 \in 0..(d-1) /\ i - 1 \in 0..d
      BY <2>2
    <3> HIDE DEF f
    <3>5. \A i \in 0..(d-1) : f[i] = g[i]
      <4> HIDE DEF To
      <4>1. \A i \in 0..(d-1) : i \in 0..d
        BY <2>2
      <4>2. \A i \in 0..(d-1) : g[i] = To(g, i)
        BY <3>2
      <4> QED
        BY <3>3, <4>1, <4>2
    <3>6. \A i \in 0..d : To(g, i) = To(f, i)
      BY <3>4, <3>5
    <3>7. Right(f, d)
      BY <3>3, <3>6
    <3> QED
      BY <3>7
  <2> QED
    BY <2>1, <2>2
<1>2. \A d \in Nat : 0..(d-1) \subseteq Good => d \in Good
  BY <1>1
<1>3. L \in Good
  <2> HIDE DEF Good
  <2> QED
    BY <1>2, Induction
<1>4. PICK g : Right(g, L)
  BY <1>3
<1> DEFINE F == [i \in 0..L |-> To(g, i)]
           D(f) == f = [i \in 0..L |-> To(f, i)]
<1>5. \A i \in 0..L : F[i] = To(g, i) /\ g[i] = To(g, i)
  BY <1>4
<1>6. \A i \in 0..L : To(F, i) = To(g, i)
  <2> HIDE DEF F
  <2>1. \A i \in 0..L : i # 0 => i - 1 \in 0..L
    OBVIOUS
  <2> QED
    BY <1>5, <2>1
<1>7. D(F)
  BY <1>6
<1> DEFINE V == CHOOSE f : D(f)
<1>8. Walk(fn, sn, h, proof) = V[L]
  BY Zenon DEF Walk
<1>9. D(V)
  <2>1. \E f : D(f)
    BY <1>7
  <2> HIDE DEF D
  <2> QED
    BY <2>1
<1> HIDE DEF V
<1>10. ASSUME NEW i \in 0..L PROVE V[i] = To(V, i)
  BY <1>9
<1>11. V[0] = Start /\ \A i \in 1..L : V[i] = Step(V[i - 1], proof[i])
  <2> HIDE DEF Start
  <2>1. 0 \in 0..L /\ \A i \in 1..L : i \in 0..L /\ i # 0
    OBVIOUS
  <2> QED
    BY <1>10, <2>1
<1>12. Stepped(V, fn, sn, h, proof)
  BY <1>11 DEF Stepped
<1> QED
  BY <1>8, <1>12

\* A walk that has reached the root refuses another node.
LEMMA StepStops ==
    ASSUME NEW w, NEW c, "ok" \in DOMAIN w
    PROVE  "ok" \in DOMAIN Step(w, c) /\ Step(w, c).ok = IF w.sn = 0 THEN FALSE ELSE w.ok
<1>1. CASE w.sn = 0
  <2>1. Step(w, c) = [w EXCEPT !.ok = FALSE]
    BY <1>1 DEF Step
  <2> QED
    BY <1>1, <2>1
<1>2. CASE w.sn # 0
  <2>1. PICK fn, sn, fr, sr : Step(w, c) = [fn |-> fn, sn |-> sn, fr |-> fr, sr |-> sr, ok |-> w.ok]
    BY <1>2 DEF Step
  <2> QED
    BY <1>2, <2>1
<1> QED
  BY <1>1, <1>2

\* A walk from above leaf x that ends well.
Climb(ls, x, W, fn, sn, h, proof, L) ==
    /\ x \in Nat /\ x < Len(ls) /\ L \in Nat /\ L = Len(proof)
    /\ Stepped(W, fn, sn, h, proof)
    /\ W[L].ok /\ W[L].sn = 0 /\ W[L].sr = TreeHash(ls)

\* The walk is at the nodes k levels above leaf x and the last leaf.
At(ls, x, w, k) == k \in Nat /\ Above(x, k, w.fn) /\ Above(Len(ls) - 1, k, w.sn)

\* Before its end a walk is below the root, at a level above the one it had before.
LEMMA ClimbGoesOn ==
    ASSUME NEW ls, NEW x, NEW W, NEW fn, NEW sn, NEW h, NEW proof, NEW L \in Nat,
           Climb(ls, x, W, fn, sn, h, proof, L), NEW i \in 0..L
    PROVE  W[i].ok /\ (i < L => W[i].sn # 0)
<1>1. /\ W[0] = [fn |-> fn, sn |-> sn, fr |-> h, sr |-> h, ok |-> TRUE]
      /\ \A j \in 1..L : W[j] = Step(W[j - 1], proof[j])
      /\ W[L].ok
  BY DEF Climb, Stepped
<1> DEFINE Good == {j \in Nat : j \in 0..L => "ok" \in DOMAIN W[j]}
<1>2. ASSUME NEW j \in Nat, 0..(j-1) \subseteq Good, j \in 0..L
      PROVE  "ok" \in DOMAIN W[j]
  <2>1. CASE j = 0
    BY <1>1, <2>1
  <2>2. CASE j # 0
    <3>1. j - 1 \in 0..(j-1) /\ j - 1 \in 0..L /\ j \in 1..L
      BY <1>2, <2>2
    <3>2. "ok" \in DOMAIN W[j - 1]
      BY <1>2, <3>1
    <3>3. W[j] = Step(W[j - 1], proof[j])
      BY <1>1, <3>1
    <3> QED
      BY <3>2, <3>3, StepStops
  <2> QED
    BY <2>1, <2>2
<1>3. \A j \in Nat : 0..(j-1) \subseteq Good => j \in Good
  BY <1>2
<1>4. Nat \subseteq Good
  <2> HIDE DEF Good
  <2> QED
    BY <1>3, Induction
<1>5. ASSUME NEW j \in 0..L PROVE "ok" \in DOMAIN W[j]
  BY <1>4
<1>6. ASSUME NEW j \in 0..(L-1), W[j + 1].ok
      PROVE  W[j].ok /\ W[j].sn # 0
  <2>1. j + 1 \in 1..L /\ (j + 1) - 1 = j /\ j \in 0..L
    OBVIOUS
  <2>2. W[j + 1] = Step(W[j], proof[j + 1])
    BY <1>1, <2>1
  <2>3. "ok" \in DOMAIN W[j]
    BY <1>5, <2>1
  <2>4. W[j + 1].ok = IF W[j].sn = 0 THEN FALSE ELSE W[j].ok
    BY <2>2, <2>3, StepStops
  <2> QED
    BY <1>6, <2>4
<1> DEFINE Back == {d \in Nat : d <= L => W[L - d].ok}
<1>7. ASSUME NEW d \in Nat, 0..(d-1) \subseteq Back, d <= L
      PROVE  W[L - d].ok
  <2>1. CASE d = 0
    BY <1>1, <2>1
  <2>2. CASE d # 0
    <3>1. d - 1 \in 0..(d-1) /\ d - 1 \in Nat /\ d - 1 <= L /\ L - d \in 0..(L-1) /\ (L - d) + 1 = L - (d - 1)
      BY <1>7, <2>2
    <3>2. W[(L - d) + 1].ok
      BY <1>7, <3>1
    <3> QED
      BY <1>6, <3>1, <3>2
  <2> QED
    BY <2>1, <2>2
<1>8. \A d \in Nat : 0..(d-1) \subseteq Back => d \in Back
  BY <1>7
<1>9. Nat \subseteq Back
  <2> HIDE DEF Back
  <2> QED
    BY <1>8, Induction
<1>10. ASSUME NEW j \in 0..L PROVE W[j].ok
  <2>1. L - j \in Nat /\ L - j <= L /\ L - (L - j) = j
    OBVIOUS
  <2>2. L - j \in Back
    BY <1>9, <2>1
  <2> QED
    BY <2>1, <2>2
<1>11. i < L => W[i].sn # 0
  <2>1. i < L => i \in 0..(L-1) /\ i + 1 \in 0..L
    OBVIOUS
  <2> QED
    BY <1>6, <1>10, <2>1
<1> QED
  BY <1>10, <1>11

\* The hash a walk has at a node is the hash of that node, and a sibling on the left is
\* the one that the tree has there.
LEMMA ClimbBinds ==
    ASSUME NEW S, NEW ls \in Seq(S), NEW x \in Nat, NEW W, NEW fn, NEW sn, NEW h, NEW proof, NEW L \in Nat,
           Climb(ls, x, W, fn, sn, h, proof, L), NEW i \in 0..L, NEW k \in Nat, At(ls, x, W[i], k)
    PROVE  W[i].sr = NodeAt(ls, k, W[i].fn)
<1>1. PICK n \in Nat : n = Len(ls) /\ x < n /\ x <= n - 1 /\ n - 1 \in Nat
  BY DEF Climb
<1>2. /\ \A j \in 1..L : W[j] = Step(W[j - 1], proof[j])
      /\ W[L].ok /\ W[L].sn = 0 /\ W[L].sr = TreeHash(ls)
  BY DEF Climb, Stepped
<1> DEFINE Bound(j) == \A l \in Nat : At(ls, x, W[j], l) => W[j].sr = NodeAt(ls, l, W[j].fn)
           Back == {d \in Nat : d <= L => Bound(L - d)}
<1>3. ASSUME NEW l \in Nat, At(ls, x, W[L], l)
      PROVE  W[L].sr = NodeAt(ls, l, W[L].fn)
  <2>1. Above(x, l, W[L].fn) /\ Above(n - 1, l, W[L].sn)
    BY <1>1, <1>3 DEF At
  <2>2. W[L].fn \in Nat /\ W[L].fn <= W[L].sn
    BY <1>1, <2>1, AboveOrder DEF Above
  <2>3. W[L].fn = 0
    BY <1>2, <2>2
  <2>4. PICK p \in Nat : p = Pow2[l]
    BY Pow2Value
  <2>5. n - 1 < (0 + 1) * p
    BY <1>2, <2>1, <2>4 DEF Above
  <2>6. 0 * p = 0 /\ (IF (0 + 1) * p <= n THEN (0 + 1) * p ELSE n) = n
    BY <2>5
  <2>7. NodeAt(ls, l, 0) = Over(ls, 0, n)
    BY <1>1, <2>4, <2>6 DEF NodeAt
  <2>8. TreeHash(ls) = Over(ls, 0, n)
    BY <1>1, TreeIsOver
  <2> QED
    BY <1>2, <2>3, <2>7, <2>8
<1>4. ASSUME NEW j \in 0..(L-1), Bound(j + 1), NEW l \in Nat, At(ls, x, W[j], l)
      PROVE  W[j].sr = NodeAt(ls, l, W[j].fn)
  <2>1. j + 1 \in 1..L /\ (j + 1) - 1 = j /\ j \in 0..L /\ j < L
    OBVIOUS
  <2>2. W[j].sn # 0
    BY <2>1, ClimbGoesOn
  <2>3. Above(x, l, W[j].fn) /\ Above(n - 1, l, W[j].sn)
    BY <1>1, <1>4 DEF At
  <2>4. PICK v, c : v = W[j + 1] /\ c = proof[j + 1] /\ v = Step(W[j], c)
    BY <1>2, <2>1
  <2>5. PICK e \in Nat : /\ l <= e /\ Above(x, e + 1, v.fn) /\ Above(n - 1, e + 1, v.sn)
                         /\ (JoinsRight(W[j], c, v, l, e) \/ JoinsLeft(W[j], c, v, l, e))
    <3> DEFINE w == W[j]
    <3>1. Above(x, l, w.fn) /\ Above(n - 1, l, w.sn) /\ w.sn # 0
      BY <2>2, <2>3
    <3> HIDE DEF w
    <3>2. PICK e \in Nat : /\ l <= e /\ Step(w, c).ok = w.ok
                           /\ Above(x, e + 1, Step(w, c).fn) /\ Above(n - 1, e + 1, Step(w, c).sn)
                           /\ (JoinsRight(w, c, Step(w, c), l, e) \/ JoinsLeft(w, c, Step(w, c), l, e))
      BY <1>1, <3>1, Climbs
    <3>3. v = Step(w, c)
      BY <2>4 DEF w
    <3> QED
      BY <3>2, <3>3 DEF w
  <2>6. v.sr = NodeAt(ls, e + 1, v.fn)
    BY <1>1, <1>4, <2>4, <2>5 DEF At
  <2>7. v.fn \in Nat
    BY <2>5 DEF Above
  <2>8. /\ JoinsRight(W[j], c, v, l, e) =>
             NodeAt(ls, e + 1, v.fn) = NodeHash(NodeAt(ls, e, 2 * v.fn), NodeAt(ls, l, W[j].fn))
        /\ JoinsLeft(W[j], c, v, l, e) =>
             NodeAt(ls, e + 1, v.fn) = NodeHash(NodeAt(ls, l, W[j].fn), NodeAt(ls, l, W[j].fn + 1))
    <3> DEFINE w == W[j]
    <3>1. Above(x, l, w.fn) /\ Above(Len(ls) - 1, l, w.sn) /\ x < Len(ls) /\ l <= e
      BY <1>1, <2>3, <2>5
    <3> HIDE DEF w
    <3>2. /\ JoinsRight(w, c, v, l, e) =>
               NodeAt(ls, e + 1, v.fn) = NodeHash(NodeAt(ls, e, 2 * v.fn), NodeAt(ls, l, w.fn))
          /\ JoinsLeft(w, c, v, l, e) =>
               NodeAt(ls, e + 1, v.fn) = NodeHash(NodeAt(ls, l, w.fn), NodeAt(ls, l, w.fn + 1))
      BY <2>7, <3>1, StepJoins
    <3> QED
      BY <3>2 DEF w
  <2>9. CASE JoinsRight(W[j], c, v, l, e)
    <3>1. v.sr = NodeHash(c, W[j].sr)
      BY <2>9 DEF JoinsRight
    <3> QED
      BY <2>6, <2>8, <2>9, <3>1, NodeBinds
  <2>10. CASE JoinsLeft(W[j], c, v, l, e)
    <3>1. v.sr = NodeHash(W[j].sr, c)
      BY <2>10 DEF JoinsLeft
    <3> QED
      BY <2>6, <2>8, <2>10, <3>1, NodeBinds
  <2> QED
    BY <2>5, <2>9, <2>10
<1>5. ASSUME NEW d \in Nat, 0..(d-1) \subseteq Back, d <= L
      PROVE  Bound(L - d)
  <2>1. CASE d = 0
    BY <1>3, <2>1
  <2>2. CASE d # 0
    <3>1. d - 1 \in 0..(d-1) /\ d - 1 \in Nat /\ d - 1 <= L /\ L - d \in 0..(L-1) /\ (L - d) + 1 = L - (d - 1)
      BY <1>5, <2>2
    <3>2. Bound(L - (d - 1))
      BY <1>5, <3>1
    <3> HIDE DEF Bound
    <3>3. Bound((L - d) + 1)
      BY <3>1, <3>2
    <3> USE DEF Bound
    <3> QED
      BY <1>4, <3>1, <3>3
  <2> QED
    BY <2>1, <2>2
<1> HIDE DEF Bound
<1>6. \A d \in Nat : 0..(d-1) \subseteq Back => d \in Back
  BY <1>5
<1>7. L - i \in Back
  <2>1. L - i \in Nat
    OBVIOUS
  <2> HIDE DEF Back
  <2> QED
    BY <1>6, <2>1, Induction
<1>8. L - (L - i) = i /\ L - i <= L
  OBVIOUS
<1>9. Bound(i)
  BY <1>7, <1>8
<1> QED
  BY <1>9 DEF Bound

\* merkle.py:107, what verify_inclusion accepts at an index is the leaf at that index,
\* whatever the proof: an interior node does not pass for a leaf.
THEOREM InclusionSound ==
    ASSUME NEW S, NEW ls \in Seq(S), NEW index \in Nat, NEW leaf, NEW C, NEW proof \in Seq(C),
           VerifyInclusion(index, Len(ls), leaf, proof, TreeHash(ls))
    PROVE  leaf = ls[index + 1]
<1>1. PICK L \in Nat, n \in Nat : L = Len(proof) /\ n = Len(ls)
  OBVIOUS
<1>2. index < n /\ n - 1 \in Nat
  BY <1>1 DEF VerifyInclusion
<1>3. PICK W : Stepped(W, index, n - 1, leaf, proof) /\ Walk(index, n - 1, leaf, proof) = W[L]
  BY <1>1, WalkSteps
<1>4. W[L].ok /\ W[L].sn = 0 /\ W[L].sr = TreeHash(ls)
  BY <1>1, <1>3 DEF VerifyInclusion
<1>5. Climb(ls, index, W, index, n - 1, leaf, proof, L)
  BY <1>1, <1>2, <1>3, <1>4 DEF Climb
<1>6. W[0].fn = index /\ W[0].sn = n - 1 /\ W[0].sr = leaf
  BY <1>3 DEF Stepped
<1>7. \A f \in Nat : Above(f, 0, f)
  BY Pow2Value DEF Above
<1>8. At(ls, index, W[0], 0)
  BY <1>1, <1>2, <1>6, <1>7 DEF At
<1>9. leaf = NodeAt(ls, 0, index)
  <2>1. 0 \in 0..L /\ 0 \in Nat
    OBVIOUS
  <2> QED
    BY <1>5, <1>6, <1>8, <2>1, ClimbBinds
<1>10. NodeAt(ls, 0, index) = Over(ls, index, index + 1)
  <2>1. index * 1 = index /\ (index + 1) * 1 = index + 1 /\ index + 1 <= n
    BY <1>2
  <2> QED
    BY <1>1, <2>1, Pow2Value DEF NodeAt
<1> QED
  BY <1>1, <1>2, <1>9, <1>10, OverLeaf

(***************************************************************************)
(* A tree over an earlier part of the leaves.                              *)
(***************************************************************************)

\* A root is the same in two logs that agree on its leaves.
LEMMA OverAgrees ==
    ASSUME NEW S, NEW ls \in Seq(S), NEW T, NEW ms \in Seq(T), NEW m \in Nat, m <= Len(ls), m <= Len(ms),
           \A i \in 1..m : ls[i] = ms[i],
           NEW a \in Nat, NEW b \in Nat, a < b, b <= m
    PROVE  Over(ls, a, b) = Over(ms, a, b)
<1> DEFINE Same(n) == \A lo \in Nat : lo + n <= m => Over(ls, lo, lo + n) = Over(ms, lo, lo + n)
           Good == {n \in Nat : n # 0 => Same(n)}
<1>1. ASSUME NEW n \in Nat, 0..(n-1) \subseteq Good, n # 0, NEW lo \in Nat, lo + n <= m
      PROVE  Over(ls, lo, lo + n) = Over(ms, lo, lo + n)
  <2>1. CASE n = 1
    <3>1. lo < Len(ls) /\ lo < Len(ms) /\ lo + 1 \in 1..m
      BY <1>1, <2>1
    <3>2. Over(ls, lo, lo + 1) = ls[lo + 1]
      BY <3>1, OverLeaf
    <3>3. Over(ms, lo, lo + 1) = ms[lo + 1]
      BY <3>1, OverLeaf
    <3> QED
      BY <2>1, <3>1, <3>2, <3>3
  <2>2. CASE n # 1
    <3>1. PICK e : Splits(n, e)
      BY <1>1, <2>2, SplitExists
    <3>2. e \in Nat /\ Pow2[e] \in Nat \ {0}
      BY <3>1, Pow2Value DEF Splits
    <3>3. PICK k \in Nat \ {0} : k = Pow2[e] /\ k < n /\ n <= 2 * k
      BY <3>1, <3>2 DEF Splits
    <3> HIDE DEF Same, Good
    <3>4. k \in 0..(n-1) /\ n - k \in 0..(n-1) /\ n - k # 0 /\ lo + k \in Nat
      <4>1. k \in Nat \ {0} /\ k < n
        BY <3>3
      <4> QED
        BY <4>1
    <3> USE DEF Good
    <3>5. Same(k) /\ Same(n - k)
      BY <1>1, <3>3, <3>4
    <3>6. lo + k <= m /\ (lo + k) + (n - k) = lo + n
      BY <1>1, <3>3
    <3>7. Over(ls, lo, lo + k) = Over(ms, lo, lo + k)
      BY <3>3, <3>5, <3>6 DEF Same
    <3>8. Over(ls, lo + k, lo + n) = Over(ms, lo + k, lo + n)
      BY <1>1, <3>4, <3>5, <3>6 DEF Same
    <3>9. lo + n \in Nat /\ lo + n <= Len(ls) /\ lo + n <= Len(ms) /\ lo + k < lo + n /\ lo + n <= lo + 2 * k
      BY <1>1, <3>3, SMTT(30)
    <3>10. PICK z \in Nat : z = lo + n
      BY <3>9
    <3>11. z <= Len(ls) /\ z <= Len(ms) /\ lo + Pow2[e] < z /\ z <= lo + 2 * Pow2[e]
      BY <3>3, <3>9, <3>10
    <3>12. Over(ls, lo, z) = NodeHash(Over(ls, lo, lo + Pow2[e]), Over(ls, lo + Pow2[e], z))
      BY <3>2, <3>11, OverSplit
    <3>13. Over(ms, lo, z) = NodeHash(Over(ms, lo, lo + Pow2[e]), Over(ms, lo + Pow2[e], z))
      BY <3>2, <3>11, OverSplit
    <3> QED
      BY <3>3, <3>7, <3>8, <3>10, <3>12, <3>13
  <2> QED
    BY <2>1, <2>2
<1>2. \A n \in Nat : 0..(n-1) \subseteq Good => n \in Good
  BY <1>1
<1>3. PICK n \in Nat : n = b - a /\ n # 0 /\ a + n = b
  OBVIOUS
<1>4. n \in Good
  <2> HIDE DEF Good
  <2> QED
    BY <1>2, Induction
<1> QED
  BY <1>3, <1>4

\* The root of an earlier size is the root over a prefix of the leaves.
LEMMA TreeOfPrefix ==
    ASSUME NEW S, NEW ls \in Seq(S), NEW m \in Nat, 0 < m, m <= Len(ls)
    PROVE  TreeHash(SubSeq(ls, 1, m)) = Over(ls, 0, m)
<1>1. PICK ms : ms = SubSeq(ls, 1, m)
  OBVIOUS
<1>2. ms \in Seq(S) /\ Len(ms) = m /\ \A i \in 1..m : ms[i] = ls[i]
  BY <1>1
<1>3. TreeHash(ms) = Over(ms, 0, m)
  BY <1>2, TreeIsOver
<1>4. Over(ls, 0, m) = Over(ms, 0, m)
  BY <1>2, OverAgrees
<1> QED
  BY <1>1, <1>3, <1>4

(***************************************************************************)
(* Consistency.                                                            *)
(***************************************************************************)

\* The root over the leaves of the old tree, the first m, from the node f of level k on.
OldAt(ls, m, k, f) == Over(ls, f * Pow2[k], m)

\* A step joins the hash of the old tree with a left sibling, or leaves it alone.
LEMMA OldJoins ==
    ASSUME NEW S, NEW ls \in Seq(S), NEW m \in Nat, 0 < m, m < Len(ls), NEW k \in Nat, NEW e \in Nat, k <= e,
           NEW w, NEW c, NEW v, Above(m - 1, k, w.fn), v.fn \in Nat
    PROVE  /\ JoinsRight(w, c, v, k, e) =>
                OldAt(ls, m, e + 1, v.fn) = NodeHash(NodeAt(ls, e, 2 * v.fn), OldAt(ls, m, k, w.fn))
           /\ JoinsLeft(w, c, v, k, e) => OldAt(ls, m, e + 1, v.fn) = OldAt(ls, m, k, w.fn)
<1>0. PICK L \in Nat : L = Len(ls)
  OBVIOUS
<1>1. PICK p \in Nat \ {0}, r \in Nat \ {0} : p = Pow2[k] /\ r = Pow2[e]
  BY Pow2Value
<1>2. PICK f \in Nat, h \in Nat : f = w.fn /\ h = v.fn
  BY DEF Above
<1>3. f * p <= m - 1 /\ m - 1 < (f + 1) * p /\ m < L
  BY <1>0, <1>1, <1>2 DEF Above
<1>4. Pow2[e + 1] = 2 * r
  BY <1>1, Pow2Value
<1>5. p <= r
  <2>1. k = e => p = r
    BY <1>1
  <2>2. k < e => 2 * p <= r
    BY <1>1, Pow2Order
  <2> QED
    BY <2>1, <2>2
<1>6. ASSUME JoinsRight(w, c, v, k, e)
      PROVE  OldAt(ls, m, e + 1, h) = NodeHash(NodeAt(ls, e, 2 * h), OldAt(ls, m, k, f))
  <2>1. f * p = (2 * h + 1) * r
    BY <1>1, <1>2, <1>6 DEF JoinsRight
  <2>2. PICK a \in Nat : a = h * (2 * r)
    OBVIOUS
  <2>3. (2 * h) * r = a /\ (2 * h + 1) * r = a + r /\ ((2 * h) + 1) * r = a + r
    BY <2>2
  <2>4. (f + 1) * p = f * p + p
    OBVIOUS
  <2>5. a + r < m /\ m <= a + 2 * r /\ m <= L /\ a + r <= L
    BY <1>3, <1>5, <2>1, <2>3, <2>4
  <2>6. Over(ls, a, m) = NodeHash(Over(ls, a, a + r), Over(ls, a + r, m))
    BY <1>0, <1>1, <2>5, OverSplit
  <2>7. NodeAt(ls, e, 2 * h) = Over(ls, a, a + r)
    BY <1>0, <1>1, <2>3, <2>5 DEF NodeAt
  <2>8. OldAt(ls, m, e + 1, h) = Over(ls, a, m) /\ OldAt(ls, m, k, f) = Over(ls, a + r, m)
    BY <1>1, <1>4, <2>1, <2>2, <2>3 DEF OldAt
  <2> QED
    BY <2>6, <2>7, <2>8
<1>7. ASSUME JoinsLeft(w, c, v, k, e)
      PROVE  OldAt(ls, m, e + 1, h) = OldAt(ls, m, k, f)
  <2>1. e = k /\ f = 2 * h
    BY <1>2, <1>7 DEF JoinsLeft
  <2>2. h * (2 * r) = f * p
    BY <1>1, <2>1
  <2> QED
    BY <1>1, <1>4, <2>2 DEF OldAt
<1> QED
  BY <1>2, <1>6, <1>7

\* Both hashes of a walk that starts from a node that ends the old tree.
LEMMA ClimbKeepsOld ==
    ASSUME NEW S, NEW ls \in Seq(S), NEW m \in Nat, 0 < m, m < Len(ls),
           NEW W, NEW fn, NEW sn, NEW h, NEW proof, NEW L \in Nat,
           Climb(ls, m - 1, W, fn, sn, h, proof, L),
           NEW k0 \in Nat, At(ls, m - 1, W[0], k0), W[0].fr = OldAt(ls, m, k0, W[0].fn)
    PROVE  W[L].fr = Over(ls, 0, m)
<1>0. PICK n \in Nat : n = Len(ls) /\ m < n /\ m - 1 \in Nat /\ n - 1 \in Nat /\ m - 1 <= n - 1
  OBVIOUS
<1>1. /\ \A j \in 1..L : W[j] = Step(W[j - 1], proof[j])
      /\ W[L].ok /\ W[L].sn = 0
  BY DEF Climb, Stepped
<1> DEFINE Kept(j) == \E k \in Nat : At(ls, m - 1, W[j], k) /\ W[j].fr = OldAt(ls, m, k, W[j].fn)
           Good == {j \in Nat : j \in 0..L => Kept(j)}
<1>2. ASSUME NEW j \in Nat, 0..(j-1) \subseteq Good, j \in 0..L
      PROVE  Kept(j)
  <2>1. CASE j = 0
    BY <2>1
  <2>2. CASE j # 0
    <3>1. j - 1 \in 0..(j-1) /\ j - 1 \in 0..L /\ j \in 1..L /\ j - 1 < L
      BY <1>2, <2>2
    <3>2. PICK k \in Nat : At(ls, m - 1, W[j - 1], k) /\ W[j - 1].fr = OldAt(ls, m, k, W[j - 1].fn)
      BY <1>2, <3>1
    <3>3. PICK w, c, v : w = W[j - 1] /\ v = W[j] /\ c = proof[j]
      OBVIOUS
    <3>4. v = Step(w, c)
      BY <1>1, <3>1, <3>3
    <3>5. Above(m - 1, k, w.fn) /\ Above(n - 1, k, w.sn) /\ w.sn # 0
      BY <1>0, <3>1, <3>2, <3>3, ClimbGoesOn DEF At
    <3>6. PICK e \in Nat : /\ k <= e /\ Step(w, c).ok = w.ok
                           /\ Above(m - 1, e + 1, Step(w, c).fn) /\ Above(n - 1, e + 1, Step(w, c).sn)
                           /\ (JoinsRight(w, c, Step(w, c), k, e) \/ JoinsLeft(w, c, Step(w, c), k, e))
      <4>1. PICK x \in Nat, y \in Nat : x = m - 1 /\ y = n - 1 /\ x <= y
        BY <1>0
      <4>2. Above(x, k, w.fn) /\ Above(y, k, w.sn) /\ w.sn # 0
        BY <3>5, <4>1
      <4>3. PICK e \in Nat : /\ k <= e /\ Step(w, c).ok = w.ok
                             /\ Above(x, e + 1, Step(w, c).fn) /\ Above(y, e + 1, Step(w, c).sn)
                             /\ (JoinsRight(w, c, Step(w, c), k, e) \/ JoinsLeft(w, c, Step(w, c), k, e))
        BY <4>1, <4>2, Climbs
      <4> QED
        BY <4>1, <4>3
    <3>7. At(ls, m - 1, v, e + 1) /\ v.fn \in Nat /\ e + 1 \in Nat
      BY <1>0, <3>4, <3>6 DEF At, Above
    <3>8. v.sr = NodeAt(ls, e + 1, v.fn)
      BY <1>0, <1>2, <3>3, <3>7, ClimbBinds
    <3>9. v.fr = OldAt(ls, m, e + 1, v.fn)
      <4>1. CASE JoinsRight(w, c, v, k, e)
        <5>1. NodeAt(ls, e + 1, v.fn) = NodeHash(NodeAt(ls, e, 2 * v.fn), NodeAt(ls, k, w.fn))
          BY <1>0, <3>5, <3>6, <3>7, <4>1, StepJoins, SMTT(30)
        <5>2. v.sr = NodeHash(c, w.sr) /\ v.fr = NodeHash(c, w.fr)
          BY <4>1 DEF JoinsRight
        <5>3. c = NodeAt(ls, e, 2 * v.fn)
          BY <3>8, <5>1, <5>2, NodeBinds
        <5>4. OldAt(ls, m, e + 1, v.fn) = NodeHash(NodeAt(ls, e, 2 * v.fn), OldAt(ls, m, k, w.fn))
          BY <3>5, <3>6, <3>7, <4>1, OldJoins
        <5> QED
          BY <3>2, <3>3, <5>2, <5>3, <5>4
      <4>2. CASE JoinsLeft(w, c, v, k, e)
        <5>1. OldAt(ls, m, e + 1, v.fn) = OldAt(ls, m, k, w.fn)
          BY <3>5, <3>6, <3>7, <4>2, OldJoins
        <5>2. v.fr = w.fr
          BY <4>2 DEF JoinsLeft
        <5> QED
          BY <3>2, <3>3, <5>1, <5>2
      <4> QED
        BY <3>4, <3>6, <4>1, <4>2
    <3> QED
      BY <3>3, <3>7, <3>9
  <2> QED
    BY <2>1, <2>2
<1> HIDE DEF Kept
<1>3. \A j \in Nat : 0..(j-1) \subseteq Good => j \in Good
  BY <1>2
<1>4. L \in Good
  <2> HIDE DEF Good
  <2> QED
    BY <1>3, Induction
<1>5. PICK k \in Nat : At(ls, m - 1, W[L], k) /\ W[L].fr = OldAt(ls, m, k, W[L].fn)
  BY <1>4 DEF Kept
<1>6. W[L].fn = 0
  <2>1. Above(m - 1, k, W[L].fn) /\ Above(n - 1, k, W[L].sn)
    BY <1>0, <1>5 DEF At
  <2>2. W[L].fn \in Nat /\ W[L].fn <= W[L].sn
    BY <1>0, <2>1, AboveOrder DEF Above
  <2> QED
    BY <1>1, <2>2
<1>7. 0 * Pow2[k] = 0
  <2>1. Pow2[k] \in Nat
    BY Pow2Value
  <2> QED
    BY <2>1
<1> QED
  BY <1>5, <1>6, <1>7 DEF OldAt

\* docs/SECURITY.md:33: the earlier head that verifies is the head this log had.
THEOREM ConsistencySound ==
    ASSUME NEW S, NEW ls \in Seq(S), NEW m \in Nat, 0 < m, m <= Len(ls), NEW first,
           NEW C, NEW proof \in Seq(C),
           VerifyConsistency(m, Len(ls), first, TreeHash(ls), proof)
    PROVE  first = TreeHash(SubSeq(ls, 1, m))
<1>0. PICK n \in Nat : n = Len(ls)
  OBVIOUS
<1>1. CASE m = n
  <2>1. SubSeq(ls, 1, m) = ls
    BY <1>0, <1>1
  <2>2. first = TreeHash(ls)
    <3>1. ~(m > n)
      BY <1>1
    <3>2. VerifyConsistency(m, m, first, TreeHash(ls), proof)
      BY <1>0, <1>1
    <3>3. ~(m > m) /\ ~(m < m)
      OBVIOUS
    <3> QED
      BY <3>2, <3>3 DEF VerifyConsistency
  <2> QED
    BY <2>1, <2>2
<1>2. CASE m < n
  <2> DEFINE t == Twos(m)
             path == IF m = Pow2[t] THEN <<first>> \o proof ELSE proof
             fn == (m - 1) \div Pow2[t]
             sn == (n - 1) \div Pow2[t]
             w == Walk(fn, sn, path[1], Tail(path))
  <2>1. path # <<>> /\ w.ok /\ w.sn = 0 /\ w.fr = first /\ w.sr = TreeHash(ls)
    <3>1. m # 0 /\ m # n /\ ~(m > n) /\ m < n
      BY <1>2
    <3> QED
      BY <1>0, <3>1 DEF VerifyConsistency
  <2>2. path \in Seq(C \cup {first})
    <3>1. proof \in Seq(C \cup {first})
      OBVIOUS
    <3>2. <<first>> \o proof \in Seq(C \cup {first})
      OBVIOUS
    <3> QED
      BY <3>1, <3>2
  <2>3. t \in Nat /\ \E q \in Nat : m = q * Pow2[t] /\ q % 2 = 1
    <3>1. m \in Nat \ {0}
      OBVIOUS
    <3> QED
      BY <3>1, TwosValue
  <2> HIDE DEF t
  <2>4. PICK p \in Nat \ {0} : p = Pow2[t]
    BY <2>3, Pow2Value
  <2>5. PICK q \in Nat, h \in Nat : m = q * p /\ q = 2 * h + 1
    <3>1. PICK q \in Nat : m = q * p /\ q % 2 = 1
      BY <2>3, <2>4
    <3>2. \E h \in Nat : q = 2 * h + 1
      BY <3>1
    <3> QED
      BY <3>1, <3>2
  <2>6. PICK c : c = path[1]
    OBVIOUS
  <2>7. PICK tail : tail = Tail(path) /\ tail \in Seq(C \cup {first})
    <3>1. path # <<>>
      BY <2>1
    <3> HIDE DEF path
    <3>2. PICK D : D = C \cup {first}
      OBVIOUS
    <3>3. path \in Seq(D)
      BY <2>2, <3>2
    <3>4. Tail(path) \in Seq(D)
      BY <3>1, <3>3
    <3> QED
      BY <3>2, <3>4
  <2>8. PICK L \in Nat : L = Len(tail)
    BY <2>7
  <2>9. m = Pow2[t] => c = first
    <3>1. m = Pow2[t] => path = <<first>> \o proof
      OBVIOUS
    <3>2. (<<first>> \o proof)[1] = first
      OBVIOUS
    <3> QED
      BY <2>6, <3>1, <3>2
  <2>10. w = Walk(fn, sn, c, tail)
    BY <2>6, <2>7
  <2> HIDE DEF path
  <2>11. fn = 2 * h
    <3>1. m - 1 = (2 * h) * p + (p - 1) /\ p - 1 \in Nat /\ p - 1 < p
      BY <2>5
    <3>2. ASSUME NEW g \in Nat, NEW d \in Nat, d < p PROVE (g * p + d) \div p = g
      BY <3>2
    <3> QED
      BY <2>4, <3>1, <3>2
  <2>12. PICK W : Stepped(W, fn, sn, c, tail) /\ Walk(fn, sn, c, tail) = W[L]
    BY <2>8, WalkSteps
  <2>13. Climb(ls, m - 1, W, fn, sn, c, tail, L)
    BY <1>0, <1>2, <2>1, <2>8, <2>10, <2>12 DEF Climb
  <2>14. W[0].fn = fn /\ W[0].sn = sn /\ W[0].fr = c /\ W[0].sr = c
    BY <2>12 DEF Stepped
  <2>15. At(ls, m - 1, W[0], t)
    <3>1. \A x \in Nat : Above(x, 0, x)
      BY Pow2Value DEF Above
    <3>2. m - 1 \in Nat /\ n - 1 \in Nat /\ 0 + t = t
      BY <1>2, <2>3
    <3>3. Above(m - 1, t, fn) /\ Above(n - 1, t, sn)
      BY <2>3, <3>1, <3>2, AboveRise
    <3> QED
      BY <1>0, <2>3, <2>14, <3>3 DEF At
  <2>16. c = NodeAt(ls, t, fn)
    <3>1. 0 \in 0..L
      OBVIOUS
    <3>2. m - 1 \in Nat
      OBVIOUS
    <3> QED
      BY <2>3, <2>13, <2>14, <2>15, <3>1, <3>2, ClimbBinds
  <2>17. NodeAt(ls, t, fn) = OldAt(ls, m, t, fn)
    <3>1. (2 * h + 1) * p = m /\ (fn + 1) * p = m
      BY <2>5, <2>11
    <3> QED
      BY <1>0, <1>2, <2>4, <3>1 DEF NodeAt, OldAt
  <2>18. W[L].fr = Over(ls, 0, m)
    BY <1>0, <1>2, <2>3, <2>13, <2>14, <2>15, <2>16, <2>17, ClimbKeepsOld
  <2>19. W[L].fr = first
    BY <2>1, <2>10, <2>12
  <2> QED
    BY <2>18, <2>19, TreeOfPrefix
<1> QED
  BY <1>0, <1>1, <1>2

(***************************************************************************)
(* What a root commits to.                                                 *)
(***************************************************************************)

\* The leaf hashes of a log.
LEMMA LeafHashesType ==
    ASSUME NEW D, NEW data \in Seq(D)
    PROVE  /\ LeafHashes(data) \in Seq({LeafHash(d) : d \in D}) /\ Len(LeafHashes(data)) = Len(data)
           /\ \A i \in 1..Len(data) : LeafHashes(data)[i] = LeafHash(data[i])
<1>1. PICK n \in Nat : n = Len(data) /\ DOMAIN data = 1..n
  OBVIOUS
<1>2. LeafHashes(data) = [i \in 1..n |-> LeafHash(data[i])]
  BY <1>1 DEF LeafHashes
<1>3. \A i \in 1..n : LeafHash(data[i]) \in {LeafHash(d) : d \in D}
  BY <1>1
<1>4. \A i \in 1..n : LeafHashes(data)[i] = LeafHash(data[i])
  BY <1>2
<1> DEFINE H == {LeafHash(d) : d \in D}
<1>5. LeafHashes(data) \in [1..n -> H]
  BY <1>2, <1>3
<1> HIDE DEF H
<1>6. LeafHashes(data) \in Seq(H) /\ Len(LeafHashes(data)) = n
  BY <1>5
<1> QED
  BY <1>1, <1>4, <1>6 DEF H

\* A leaf hash is no node hash, and has one datum.
LEMMA LeafIsNoNode ==
    ASSUME NEW d, NEW e, NEW l, NEW r
    PROVE  /\ LeafHash(d) # NodeHash(l, r)
           /\ LeafHash(d) = LeafHash(e) => d = e
<1>1. <<"leaf", d>>[1] = "leaf" /\ <<"leaf", d>>[2] = d /\ <<"leaf", e>>[2] = e
  OBVIOUS
<1>2. <<"node", <<l, r>>>>[1] = "node"
  OBVIOUS
<1>3. "leaf" # "node"
  OBVIOUS
<1>4. LeafHash(d) # NodeHash(l, r)
  BY <1>1, <1>2, <1>3 DEF LeafHash, NodeHash
<1>5. LeafHash(d) = LeafHash(e) => d = e
  BY <1>1 DEF LeafHash
<1> QED
  BY <1>4, <1>5

\* The same n leaves after the first i of a and after the first j of b.
SameRun(a, i, b, j, n) == \A t \in 1..n : a[i + t] = b[j + t]

\* Two runs of leaf hashes with the same root are the same run.
LEMMA RootBinds ==
    ASSUME NEW D, NEW a \in Seq(D), NEW b \in Seq(D),
           NEW i \in Nat, NEW n \in Nat \ {0}, i + n <= Len(a),
           NEW j \in Nat, NEW m \in Nat \ {0}, j + m <= Len(b),
           Over(LeafHashes(a), i, i + n) = Over(LeafHashes(b), j, j + m)
    PROVE  n = m /\ SameRun(a, i, b, j, n)
<1> DEFINE H == {LeafHash(d) : d \in D}
<1>0. PICK A \in Nat, B \in Nat : A = Len(a) /\ B = Len(b)
  OBVIOUS
<1>1. PICK x, y : x = LeafHashes(a) /\ y = LeafHashes(b) /\ A = Len(a) /\ B = Len(b)
  BY <1>0
<1>2. /\ x \in Seq(H) /\ Len(x) = A /\ \A t \in 1..A : x[t] = LeafHash(a[t])
      /\ y \in Seq(H) /\ Len(y) = B /\ \A t \in 1..B : y[t] = LeafHash(b[t])
  BY <1>1, LeafHashesType
<1> HIDE DEF H
<1> DEFINE Bound(c, f, d, g) == Over(x, f, f + c) = Over(y, g, g + d) => c = d /\ SameRun(a, f, b, g, c)
           Good == {c \in Nat : \A f, d, g \in Nat : c # 0 /\ d # 0 /\ f + c <= A /\ g + d <= B => Bound(c, f, d, g)}
<1>3. ASSUME NEW c \in Nat, 0..(c-1) \subseteq Good, NEW f \in Nat, NEW d \in Nat, NEW g \in Nat,
             c # 0, d # 0, f + c <= A, g + d <= B, Over(x, f, f + c) = Over(y, g, g + d)
      PROVE  c = d /\ SameRun(a, f, b, g, c)
  <2>1. c = 1 => Over(x, f, f + c) = LeafHash(a[f + 1])
    <3>1. f < A /\ f + 1 \in 1..A
      BY <1>3
    <3> QED
      BY <1>2, <3>1, OverLeaf, ZenonT(30)
  <2>2. d = 1 => Over(y, g, g + d) = LeafHash(b[g + 1])
    <3>1. g < B /\ g + 1 \in 1..B
      BY <1>3
    <3> QED
      BY <1>2, <3>1, OverLeaf, ZenonT(30)
  <2>3. ASSUME c # 1
        PROVE  \E k \in 1..(c-1) : Over(x, f, f + c) = NodeHash(Over(x, f, f + k), Over(x, f + k, f + c))
    <3>1. PICK e : Splits(c, e)
      BY <1>3, <2>3, SplitExists
    <3>2. PICK k \in Nat \ {0} : e \in Nat /\ k = Pow2[e] /\ k < c /\ c <= 2 * k
      BY <3>1, Pow2Value DEF Splits
    <3>3. PICK z \in Nat : z = f + c
      OBVIOUS
    <3>4. z <= Len(x) /\ f + Pow2[e] < z /\ z <= f + 2 * Pow2[e]
      <4> HIDE DEF Good
      <4>1. k \in Nat /\ k < c /\ c <= 2 * k
        BY <3>2
      <4>2. z <= A
        BY <1>3, <3>3
      <4>3. f + k < z /\ z <= f + 2 * k
        BY <3>3, <4>1
      <4> QED
        BY <1>2, <3>2, <4>2, <4>3
    <3>5. Over(x, f, z) = NodeHash(Over(x, f, f + Pow2[e]), Over(x, f + Pow2[e], z))
      BY <1>2, <3>2, <3>4, OverSplit
    <3>6. k \in 1..(c-1)
      BY <3>2, SMTT(30)
    <3> QED
      BY <3>2, <3>3, <3>5, <3>6
  <2>4. ASSUME d # 1
        PROVE  \E k \in 1..(d-1) : Over(y, g, g + d) = NodeHash(Over(y, g, g + k), Over(y, g + k, g + d))
    <3>1. PICK e : Splits(d, e)
      BY <1>3, <2>4, SplitExists
    <3>2. PICK k \in Nat \ {0} : e \in Nat /\ k = Pow2[e] /\ k < d /\ d <= 2 * k
      BY <3>1, Pow2Value DEF Splits
    <3>3. PICK z \in Nat : z = g + d
      OBVIOUS
    <3>4. z <= Len(y) /\ g + Pow2[e] < z /\ z <= g + 2 * Pow2[e]
      <4> HIDE DEF Good
      <4>1. k \in Nat /\ k < d /\ d <= 2 * k
        BY <3>2
      <4>2. z <= B
        BY <1>3, <3>3
      <4>3. g + k < z /\ z <= g + 2 * k
        BY <3>3, <4>1
      <4> QED
        BY <1>2, <3>2, <4>2, <4>3
    <3>5. Over(y, g, z) = NodeHash(Over(y, g, g + Pow2[e]), Over(y, g + Pow2[e], z))
      BY <1>2, <3>2, <3>4, OverSplit
    <3>6. k \in 1..(d-1)
      BY <3>2
    <3> QED
      BY <3>2, <3>3, <3>5, <3>6
  <2>5. c = 1 <=> d = 1
    BY <1>3, <2>1, <2>2, <2>3, <2>4, LeafIsNoNode
  <2>6. CASE c = 1
    <3>1. a[f + 1] = b[g + 1]
      BY <1>3, <2>1, <2>2, <2>5, <2>6, LeafIsNoNode
    <3>2. \A t \in 1..1 : t = 1
      OBVIOUS
    <3> QED
      BY <2>5, <2>6, <3>1, <3>2 DEF SameRun
  <2>7. CASE c # 1
    <3>1. PICK k \in 1..(c-1) : Over(x, f, f + c) = NodeHash(Over(x, f, f + k), Over(x, f + k, f + c))
      BY <2>3, <2>7
    <3>2. PICK l \in 1..(d-1) : Over(y, g, g + d) = NodeHash(Over(y, g, g + l), Over(y, g + l, g + d))
      BY <2>4, <2>5, <2>7
    <3>3. Over(x, f, f + k) = Over(y, g, g + l) /\ Over(x, f + k, f + c) = Over(y, g + l, g + d)
      BY <1>3, <3>1, <3>2, NodeBinds
    <3>4. /\ k \in Nat /\ k # 0 /\ k \in 0..(c-1) /\ c - k \in Nat /\ c - k # 0 /\ c - k \in 0..(c-1)
          /\ l \in Nat /\ l # 0 /\ d - l \in Nat /\ d - l # 0
      OBVIOUS
    <3>5. /\ f + k \in Nat /\ g + l \in Nat /\ f + k <= A /\ g + l <= B
          /\ (f + k) + (c - k) = f + c /\ (g + l) + (d - l) = g + d
      BY <1>3
    <3> HIDE DEF Bound
    <3>6. k \in Good /\ c - k \in Good
      BY <1>3, <3>4
    <3>7. Bound(k, f, l, g)
      BY <3>4, <3>5, <3>6
    <3>8. Bound(c - k, f + k, d - l, g + l)
      BY <1>3, <3>4, <3>5, <3>6
    <3>9. k = l /\ SameRun(a, f, b, g, k)
      BY <3>3, <3>7 DEF Bound
    <3>10. c - k = d - l /\ SameRun(a, f + k, b, g + l, c - k)
      BY <3>3, <3>5, <3>8 DEF Bound
    <3>11. c = d
      BY <3>9, <3>10
    <3>12. ASSUME NEW t \in 1..c
           PROVE  a[f + t] = b[g + t]
      <4>1. CASE t <= k
        <5>1. t \in 1..k
          BY <4>1
        <5> QED
          BY <3>9, <5>1 DEF SameRun
      <4>2. CASE t > k
        <5>1. t - k \in 1..(c - k) /\ (f + k) + (t - k) = f + t /\ (g + k) + (t - k) = g + t
          BY <4>2
        <5>2. a[(f + k) + (t - k)] = b[(g + k) + (t - k)]
          BY <3>9, <3>10, <5>1 DEF SameRun
        <5> QED
          BY <5>1, <5>2
      <4> QED
        BY <4>1, <4>2
    <3> QED
      BY <3>11, <3>12 DEF SameRun
  <2> QED
    BY <2>6, <2>7
<1>4. \A c \in Nat : 0..(c-1) \subseteq Good => c \in Good
  BY <1>3
<1>5. n \in Good
  <2> HIDE DEF Good
  <2> QED
    BY <1>4, Induction
<1>6. Bound(n, i, m, j)
  <2> HIDE DEF Bound
  <2> QED
    BY <1>1, <1>5
<1> QED
  BY <1>1, <1>6

\* Two histories with one root are one history, whatever their sizes and whatever a
\* datum looks like: the prefixes of the two hash functions keep leaves and nodes apart.
THEOREM RootCommits ==
    ASSUME NEW D, NEW a \in Seq(D), NEW b \in Seq(D), TreeHash(LeafHashes(a)) = TreeHash(LeafHashes(b))
    PROVE  a = b
<1>1. PICK n \in Nat, m \in Nat : n = Len(a) /\ m = Len(b)
  OBVIOUS
<1>2. ASSUME NEW c \in Seq(D), Len(c) # 0
      PROVE  /\ TreeHash(LeafHashes(c)) = Over(LeafHashes(c), 0, Len(c))
             /\ TreeHash(LeafHashes(c)) # <<>>
  <2> DEFINE H == {LeafHash(d) : d \in D}
             hs == LeafHashes(c)
  <2>0. hs \in Seq(H) /\ Len(hs) = Len(c) /\ \A i \in 1..Len(c) : hs[i] = LeafHash(c[i])
    BY LeafHashesType
  <2> HIDE DEF H, hs
  <2>1. TreeHash(hs) = Over(hs, 0, Len(c))
    BY <1>2, <2>0, TreeIsOver
  <2>2. \A x, y : <<x, y>> # <<>>
    OBVIOUS
  <2>3. PICK L \in Nat \ {0} : L = Len(c)
    BY <1>2
  <2>4. CASE L = 1
    <3>1. Over(hs, 0, 0 + 1) = hs[0 + 1]
      <4>1. 0 < Len(hs)
        BY <2>0, <2>3
      <4> QED
        BY <2>0, <4>1, OverLeaf
    <3>2. hs[1] = LeafHash(c[1])
      BY <2>0, <2>3, <2>4
    <3> QED
      BY <2>1, <2>2, <2>3, <2>4, <3>1, <3>2 DEF LeafHash, hs
  <2>5. CASE L # 1
    <3>1. PICK e : Splits(L, e)
      BY <2>3, <2>5, SplitExists
    <3>2. e \in Nat /\ 0 + Pow2[e] < L /\ L <= 0 + 2 * Pow2[e]
      <4>1. e \in Nat /\ Pow2[e] \in Nat
        BY <3>1, Pow2Value DEF Splits
      <4> QED
        BY <3>1, <4>1 DEF Splits
    <3>3. Over(hs, 0, L) = NodeHash(Over(hs, 0, 0 + Pow2[e]), Over(hs, 0 + Pow2[e], L))
      BY <2>0, <2>3, <3>2, OverSplit
    <3> QED
      BY <2>1, <2>2, <2>3, <3>3 DEF NodeHash, hs
  <2> QED
    BY <2>1, <2>4, <2>5
<1>3. ASSUME NEW c \in Seq(D), Len(c) = 0
      PROVE  c = <<>> /\ TreeHash(LeafHashes(c)) = <<>>
  <2>1. c = <<>> /\ DOMAIN c = {}
    BY <1>3
  <2>2. LeafHashes(c) = <<>>
    BY <2>1 DEF LeafHashes
  <2> QED
    BY <2>1, <2>2 DEF TreeHash, EmptyRoot
<1>4. CASE n = 0 \/ m = 0
  BY <1>1, <1>2, <1>3, <1>4
<1>5. CASE n # 0 /\ m # 0
  <2>1. Over(LeafHashes(a), 0, 0 + n) = Over(LeafHashes(b), 0, 0 + m)
    BY <1>1, <1>2, <1>5
  <2>2. n = m /\ SameRun(a, 0, b, 0, n)
    <3>1. 0 + n <= Len(a) /\ 0 + m <= Len(b) /\ n \in Nat \ {0} /\ m \in Nat \ {0}
      BY <1>1, <1>5
    <3> QED
      BY <2>1, <3>1, RootBinds
  <2>3. \A t \in 1..n : a[t] = b[t]
    <3>1. \A t \in 1..n : 0 + t = t
      OBVIOUS
    <3> QED
      BY <2>2, <3>1 DEF SameRun
  <2>4. a \in [1..n -> D] /\ b \in [1..n -> D]
    <3>1. Len(a) = n /\ Len(b) = n
      BY <1>1, <2>2
    <3>2. a \in [1..Len(a) -> D] /\ b \in [1..Len(b) -> D]
      OBVIOUS
    <3> QED
      BY <3>1, <3>2
  <2> QED
    BY <2>3, <2>4
<1> QED
  BY <1>4, <1>5

\* merkle.py:207, "an event is in its shard AND that shard is in the signed super-tree":
\* the root that verifies is the one of that shard, and the leaf that verifies under it
\* is the leaf of that shard at that index.
THEOREM ShardedSound ==
    ASSUME NEW R, NEW roots \in Seq(R), NEW shard \in Nat, NEW S, NEW ls \in Seq(S), NEW index \in Nat,
           NEW leaf, NEW C, NEW proof \in Seq(C), NEW root, NEW superProof \in Seq(C),
           roots[shard + 1] = TreeHash(ls),
           VerifyShardedInclusion(leaf, index, Len(ls), proof, root, shard, Len(roots), superProof,
                                  ShardSuperRoot(roots))
    PROVE  root = roots[shard + 1] /\ leaf = ls[index + 1]
<1>1. /\ VerifyInclusion(index, Len(ls), leaf, proof, root)
      /\ VerifyInclusion(shard, Len(roots), LeafHash(root), superProof, TreeHash(LeafHashes(roots)))
  BY DEF VerifyShardedInclusion, ShardSuperRoot
<1> DEFINE H == {LeafHash(d) : d \in R}
           hs == LeafHashes(roots)
<1>2. hs \in Seq(H) /\ Len(hs) = Len(roots) /\ \A i \in 1..Len(roots) : hs[i] = LeafHash(roots[i])
  BY LeafHashesType
<1>3. VerifyInclusion(shard, Len(hs), LeafHash(root), superProof, TreeHash(hs))
  BY <1>1, <1>2
<1> HIDE DEF H, hs
<1>4. LeafHash(root) = hs[shard + 1]
  BY <1>2, <1>3, InclusionSound
<1>5. shard + 1 \in 1..Len(roots)
  <2>1. shard < Len(roots) /\ Len(roots) \in Nat
    BY <1>1 DEF VerifyInclusion
  <2> QED
    BY <2>1
<1>6. root = roots[shard + 1]
  BY <1>2, <1>4, <1>5, LeafIsNoNode
<1>7. leaf = ls[index + 1]
  BY <1>1, <1>6, InclusionSound
<1> QED
  BY <1>6, <1>7

(***************************************************************************)
(* The frontier.                                                           *)
(***************************************************************************)

\* A level of the fold, from the one below.
FoldedTo(f, g, l) ==
    IF l = 0 THEN None
    ELSE IF f[l] = None THEN g[l - 1]
    ELSE IF g[l - 1] = None THEN f[l]
    ELSE NodeHash(f[l], g[l - 1])

\* The recursive functions of the frontier satisfy their own equations.
LEMMA FoldedValue ==
    ASSUME NEW f, NEW L \in Nat, L = Len(f)
    PROVE  \A l \in 0..L : Folded(f)[l] = FoldedTo(f, Folded(f), l)
<1> DEFINE Right(g, d) == \A i \in 0..d : g[i] = FoldedTo(f, g, i)
           Good == {d \in Nat : \E g : Right(g, d)}
<1>0. ASSUME NEW g, NEW h, NEW d \in Nat, NEW i \in 0..d, \A j \in 0..d : j < i => g[j] = h[j]
      PROVE  FoldedTo(f, g, i) = FoldedTo(f, h, i)
  <2>1. i # 0 => i - 1 \in 0..d /\ i - 1 < i
    OBVIOUS
  <2>2. i # 0 => g[i - 1] = h[i - 1]
    BY <1>0, <2>1
  <2> QED
    BY <2>2 DEF FoldedTo
<1>1. ASSUME NEW d \in Nat, 0..(d-1) \subseteq Good
      PROVE  \E g : Right(g, d)
  <2>1. CASE d = 0
    <3> DEFINE g == [i \in 0..0 |-> None]
    <3>1. Right(g, d)
      BY <2>1 DEF FoldedTo
    <3> QED
      BY <3>1
  <2>2. CASE d # 0
    <3>1. d - 1 \in 0..(d-1)
      BY <2>2
    <3>2. PICK g : Right(g, d - 1)
      BY <1>1, <3>1
    <3> DEFINE h == [i \in 0..d |-> FoldedTo(f, g, i)]
    <3>3. \A i \in 0..d : h[i] = FoldedTo(f, g, i)
      OBVIOUS
    <3> HIDE DEF h
    <3>4. \A i \in 0..d : i < d => i \in 0..(d-1)
      OBVIOUS
    <3>5. \A i \in 0..d : i < d => g[i] = FoldedTo(f, g, i)
      BY <3>2, <3>4
    <3>6. ASSUME NEW i \in 0..d PROVE h[i] = FoldedTo(f, h, i)
      <4>1. \A j \in 0..d : j < i => g[j] = h[j]
        BY <3>3, <3>5
      <4>2. FoldedTo(f, g, i) = FoldedTo(f, h, i)
        BY <1>0, <4>1
      <4> QED
        BY <3>3, <4>2
    <3>7. Right(h, d)
      BY <3>6
    <3> QED
      BY <3>7
  <2> QED
    BY <2>1, <2>2
<1>2. \A d \in Nat : 0..(d-1) \subseteq Good => d \in Good
  BY <1>1
<1>3. L \in Good
  <2> HIDE DEF Good
  <2> QED
    BY <1>2, Induction
<1>4. PICK g : Right(g, L)
  BY <1>3
<1> DEFINE F == [i \in 0..L |-> FoldedTo(f, g, i)]
           D(h) == h = [i \in 0..L |-> FoldedTo(f, h, i)]
<1>5. \A i \in 0..L : F[i] = FoldedTo(f, g, i) /\ g[i] = FoldedTo(f, g, i)
  BY <1>4
<1>6. \A i \in 0..L : FoldedTo(f, F, i) = FoldedTo(f, g, i)
  <2> HIDE DEF F
  <2>1. \A j \in 0..L : g[j] = F[j]
    BY <1>5
  <2> QED
    BY <1>0, <2>1
<1>7. D(F)
  BY <1>6
<1>8. Folded(f) = CHOOSE h : D(h)
  BY Zenon DEF Folded, FoldedTo
<1>9. D(Folded(f))
  <2>1. \E h : D(h)
    BY <1>7
  <2> HIDE DEF D
  <2> QED
    BY <1>8, <2>1
<1>10. PICK h : h = Folded(f) /\ h = [i \in 0..L |-> FoldedTo(f, h, i)]
  BY <1>9
<1>11. ASSUME NEW i \in 0..L PROVE h[i] = FoldedTo(f, h, i)
  BY <1>10
<1> QED
  BY <1>10, <1>11

\* What a leaf has become at a level, from the one below.
CarryTo(f, leaf, g, l) == IF l = 1 THEN leaf ELSE NodeHash(f[l - 1], g[l - 1])

\* What append() of the frontier tree carries from level to level.
LEMMA CarryValue ==
    ASSUME NEW f, NEW leaf, NEW L \in Nat, L = FreeLevel(f)
    PROVE  \A l \in 1..L : Carry(f, leaf)[l] = CarryTo(f, leaf, Carry(f, leaf), l)
<1> DEFINE Right(g, d) == \A i \in 1..d : g[i] = CarryTo(f, leaf, g, i)
           Good == {d \in Nat : \E g : Right(g, d)}
<1>0. ASSUME NEW g, NEW h, NEW d \in Nat, NEW i \in 1..d, \A j \in 1..d : j < i => g[j] = h[j]
      PROVE  CarryTo(f, leaf, g, i) = CarryTo(f, leaf, h, i)
  <2>1. i # 1 => i - 1 \in 1..d /\ i - 1 < i
    OBVIOUS
  <2>2. i # 1 => g[i - 1] = h[i - 1]
    BY <1>0, <2>1
  <2> QED
    BY <2>2 DEF CarryTo
<1>1. ASSUME NEW d \in Nat, 0..(d-1) \subseteq Good
      PROVE  \E g : Right(g, d)
  <2>1. CASE d = 0
    <3>1. Right(<<>>, d)
      BY <2>1
    <3> QED
      BY <3>1
  <2>2. CASE d # 0
    <3>1. d - 1 \in 0..(d-1)
      BY <2>2
    <3>2. PICK g : Right(g, d - 1)
      BY <1>1, <3>1
    <3> DEFINE h == [i \in 1..d |-> CarryTo(f, leaf, g, i)]
    <3>3. \A i \in 1..d : h[i] = CarryTo(f, leaf, g, i)
      OBVIOUS
    <3> HIDE DEF h
    <3>4. \A i \in 1..d : i < d => i \in 1..(d-1)
      OBVIOUS
    <3>5. \A i \in 1..d : i < d => g[i] = CarryTo(f, leaf, g, i)
      BY <3>2, <3>4
    <3>6. ASSUME NEW i \in 1..d PROVE h[i] = CarryTo(f, leaf, h, i)
      <4>1. \A j \in 1..d : j < i => g[j] = h[j]
        BY <3>3, <3>5
      <4>2. CarryTo(f, leaf, g, i) = CarryTo(f, leaf, h, i)
        BY <1>0, <4>1
      <4> QED
        BY <3>3, <4>2
    <3>7. Right(h, d)
      BY <3>6
    <3> QED
      BY <3>7
  <2> QED
    BY <2>1, <2>2
<1>2. \A d \in Nat : 0..(d-1) \subseteq Good => d \in Good
  BY <1>1
<1>3. L \in Good
  <2> HIDE DEF Good
  <2> QED
    BY <1>2, Induction
<1>4. PICK g : Right(g, L)
  BY <1>3
<1> DEFINE F == [i \in 1..L |-> CarryTo(f, leaf, g, i)]
           D(h) == h = [i \in 1..L |-> CarryTo(f, leaf, h, i)]
<1>5. \A i \in 1..L : F[i] = CarryTo(f, leaf, g, i) /\ g[i] = CarryTo(f, leaf, g, i)
  BY <1>4
<1>6. \A i \in 1..L : CarryTo(f, leaf, F, i) = CarryTo(f, leaf, g, i)
  <2> HIDE DEF F
  <2>1. \A j \in 1..L : g[j] = F[j]
    BY <1>5
  <2> QED
    BY <1>0, <2>1
<1>7. D(F)
  BY <1>6
<1>8. Carry(f, leaf) = CHOOSE h : D(h)
  BY Zenon DEF Carry, CarryTo
<1>9. D(Carry(f, leaf))
  <2>1. \E h : D(h)
    BY <1>7
  <2> HIDE DEF D
  <2> QED
    BY <1>8, <2>1
<1>10. PICK h : h = Carry(f, leaf) /\ h = [i \in 1..L |-> CarryTo(f, leaf, h, i)]
  BY <1>9
<1>11. ASSUME NEW i \in 1..L PROVE h[i] = CarryTo(f, leaf, h, i)
  BY <1>10
<1> QED
  BY <1>10, <1>11

\* The level that an append fills.
IsFree(f, l) == l \in 1..Len(f) + 1 /\ (l = Len(f) + 1 \/ f[l] = None) /\ \A i \in 1..l - 1 : f[i] # None

\* Every frontier has a first free level.
LEMMA FreeLevelValue ==
    ASSUME NEW f, Len(f) \in Nat
    PROVE  IsFree(f, FreeLevel(f))
<1>1. PICK L \in Nat : L = Len(f)
  OBVIOUS
<1> DEFINE T == {l \in Nat : l \in 1..L + 1 /\ (l = L + 1 \/ f[l] = None)}
<1>2. T \subseteq Nat /\ L + 1 \in T
  OBVIOUS
<1>3. PICK m \in T : \A k \in T : m <= k
  <2> HIDE DEF T
  <2> QED
    BY <1>2, Least
<1>4. ASSUME NEW i \in 1..m - 1
      PROVE  f[i] # None
  <2>1. i \in Nat /\ i \in 1..L + 1 /\ ~(m <= i)
    BY <1>3
  <2>2. i \notin T
    BY <1>3, <2>1
  <2> QED
    BY <2>1, <2>2
<1> DEFINE E(l) == (l = L + 1 \/ f[l] = None) /\ \A i \in 1..l - 1 : f[i] # None
<1>5. m \in 1..L + 1 /\ E(m)
  BY <1>3, <1>4
<1>6. FreeLevel(f) = CHOOSE l \in 1..L + 1 : E(l)
  BY <1>1 DEF FreeLevel
<1> HIDE DEF E
<1>7. FreeLevel(f) \in 1..L + 1 /\ E(FreeLevel(f))
  BY <1>5, <1>6
<1> QED
  BY <1>1, <1>7 DEF IsFree, E

\* None is no hash.
Unhashed(H) == None \notin H /\ \A l, r : NodeHash(l, r) # None

\* The root over a run is never None.
LEMMA OverIsHash ==
    ASSUME NEW S, Unhashed(S), NEW ls \in Seq(S), NEW a \in Nat, NEW b \in Nat, a < b, b <= Len(ls)
    PROVE  Over(ls, a, b) # None
<1>1. CASE b = a + 1
  <2>1. a < Len(ls) /\ a + 1 \in 1..Len(ls)
    BY <1>1
  <2>2. Over(ls, a, b) = ls[a + 1]
    BY <1>1, <2>1, OverLeaf
  <2>3. ls[a + 1] \in S
    BY <2>1
  <2> QED
    BY <2>2, <2>3 DEF Unhashed
<1>2. CASE b # a + 1
  <2>1. PICK n \in Nat : n = b - a /\ n # 0 /\ n # 1
    BY <1>2
  <2>2. PICK e : Splits(n, e)
    BY <2>1, SplitExists
  <2>3. PICK k \in Nat \ {0} : e \in Nat /\ k = Pow2[e] /\ k < n /\ n <= 2 * k
    BY <2>2, Pow2Value DEF Splits
  <2>4. a + k < b /\ b <= a + 2 * k
    BY <2>1, <2>3
  <2>5. Over(ls, a, b) = NodeHash(Over(ls, a, a + Pow2[e]), Over(ls, a + Pow2[e], b))
    BY <2>3, <2>4, OverSplit
  <2> QED
    BY <2>5 DEF Unhashed
<1> QED
  BY <1>1, <1>2

\* Half of a number, rounded down.
Half(q, h) == (q % 2 = 1 /\ q = 2 * h + 1) \/ (q % 2 = 0 /\ q = 2 * h)

\* The node above the node q.
LEMMA AboveHalf ==
    ASSUME NEW n \in Nat, NEW k \in Nat, NEW q, Above(n, k, q)
    PROVE  \E h \in Nat : Above(n, k + 1, h) /\ Half(q, h)
<1>1. Above(n, k + 1, q \div Pow2[1])
  BY AboveRise
<1>2. Pow2[1] = 2
  <2>1. 0 + 1 = 1 /\ 0 \in Nat
    OBVIOUS
  <2>2. Pow2[0 + 1] = 2 * Pow2[0] /\ Pow2[0] = 1
    BY <2>1, Pow2Value
  <2> QED
    BY <2>1, <2>2
<1>3. q \in Nat
  BY DEF Above
<1>4. PICK h \in Nat, m \in Nat : h = q \div 2 /\ m = q % 2 /\ q = h * 2 + m /\ m < 2
  BY <1>3
<1>5. Half(q, h)
  BY <1>4 DEF Half
<1> QED
  <2>1. Above(n, k + 1, h)
    BY <1>1, <1>2, <1>4
  <2> QED
    BY <1>5, <2>1

\* Every leaf has a node above it at every level.
LEMMA AboveExists == ASSUME NEW n \in Nat, NEW k \in Nat PROVE \E q \in Nat : Above(n, k, q)
<1>1. Above(n, 0, n)
  BY Pow2Value DEF Above
<1>2. Above(n, 0 + k, n \div Pow2[k])
  BY <1>1, AboveRise
<1>3. 0 + k = k
  OBVIOUS
<1> QED
  BY <1>2, <1>3 DEF Above

\* Past an even node, the leaf one node on is under the same ancestors.
LEMMA AboveEven ==
    ASSUME NEW n \in Nat, NEW k \in Nat, NEW q, Above(n, k, q), q % 2 = 0, Above(n + 1, k, q + 1),
           NEW l \in Nat, k < l, NEW h, Above(n, l, h)
    PROVE  Above(n + 1, l, h)
<1>1. PICK r \in Nat : r = l - k /\ r # 0 /\ k + r = l /\ r - 1 \in Nat /\ (r - 1) + 1 = r
  OBVIOUS
<1>2. Above(n, k + r, q \div Pow2[r]) /\ Above(n + 1, k + r, (q + 1) \div Pow2[r])
  <2>1. n + 1 \in Nat
    OBVIOUS
  <2>2. Above(n, k + r, q \div Pow2[r])
    BY AboveRise
  <2>3. Above(n + 1, k + r, (q + 1) \div Pow2[r])
    BY <2>1, AboveRise
  <2> QED
    BY <2>2, <2>3
<1>3. h = q \div Pow2[r]
  BY <1>1, <1>2, AboveOne
<1>4. PICK p \in Nat \ {0} : Pow2[r] = 2 * p
  BY <1>1, Pow2Value
<1>5. PICK j \in Nat : q = 2 * j
  <2>1. q \in Nat
    BY DEF Above
  <2> QED
    BY <2>1
<1>6. PICK d \in Nat, m \in Nat : j = d * p + m /\ m < p
  <2>1. \E d, m \in Nat : d = j \div p /\ m = j % p /\ j = d * p + m /\ m < p
    OBVIOUS
  <2> QED
    BY <2>1
<1>7. q = d * (2 * p) + 2 * m /\ q + 1 = d * (2 * p) + (2 * m + 1) /\ 2 * m + 1 < 2 * p
  BY <1>5, <1>6
<1>8. ASSUME NEW R \in Nat, NEW u \in Nat, u < R PROVE (d * R + u) \div R = d
  BY <1>8
<1>9. q \div (2 * p) = d /\ (q + 1) \div (2 * p) = d
  <2>1. 2 * m < 2 * p /\ 2 * m \in Nat /\ 2 * m + 1 \in Nat /\ 2 * p \in Nat
    BY <1>7
  <2> QED
    BY <1>7, <1>8, <2>1
<1> QED
  BY <1>1, <1>2, <1>3, <1>4, <1>9

\* What a level holds, where q is the node above the next leaf.
LevelHolds(ls, f, l, q) == f[l] = IF q % 2 = 1 THEN NodeAt(ls, l - 1, q - 1) ELSE None

\* Each level holds the subtree that a bit of the size stands for.
FrontierRight(ls, f) ==
    /\ Len(ls) < Pow2[Len(f)]
    /\ \A l \in 1..Len(f) : \A q \in Nat : Above(Len(ls), l - 1, q) => LevelHolds(ls, f, l, q)

\* A complete node, in an earlier log too.
LEMMA NodeBefore ==
    ASSUME NEW S, NEW ls \in Seq(S), NEW k \in Nat, NEW q \in Nat \ {0}, q * Pow2[k] <= Len(ls)
    PROVE  /\ NodeAt(ls, k, q - 1) = Over(ls, (q - 1) * Pow2[k], q * Pow2[k])
           /\ (q - 1) * Pow2[k] \in Nat /\ q * Pow2[k] \in Nat /\ (q - 1) * Pow2[k] < q * Pow2[k]
<1>1. PICK p \in Nat \ {0} : p = Pow2[k]
  BY Pow2Value
<1>2. (q - 1) + 1 = q /\ q - 1 \in Nat
  OBVIOUS
<1>3. (q - 1) * p \in Nat /\ q * p \in Nat /\ (q - 1) * p < q * p
  <2>1. PICK h \in Nat : h = q - 1 /\ q = h + 1
    OBVIOUS
  <2>2. h * p \in Nat /\ (h + 1) * p \in Nat /\ h * p < (h + 1) * p
    OBVIOUS
  <2> QED
    BY <2>1, <2>2
<1>4. NodeAt(ls, k, q - 1) = Over(ls, (q - 1) * Pow2[k], q * Pow2[k])
  BY <1>2 DEF NodeAt
<1> QED
  BY <1>1, <1>3, <1>4

\* A complete node is still there after the append.
LEMMA NodeAppended ==
    ASSUME NEW S, NEW ls \in Seq(S), NEW leaf \in S, NEW k \in Nat, NEW q \in Nat \ {0}, q * Pow2[k] <= Len(ls)
    PROVE  NodeAt(Append(ls, leaf), k, q - 1) = NodeAt(ls, k, q - 1)
<1>0. PICK n \in Nat : n = Len(ls)
  OBVIOUS
<1>1. PICK ms : ms = Append(ls, leaf) /\ ms \in Seq(S)
  <2>1. Append(ls, leaf) \in Seq(S)
    OBVIOUS
  <2> QED
    BY <2>1
<1>2. Len(ms) = n + 1 /\ \A i \in 1..n : ls[i] = ms[i]
  BY <1>0, <1>1
<1>3. PICK a \in Nat, b \in Nat : a = (q - 1) * Pow2[k] /\ b = q * Pow2[k] /\ a < b
  BY NodeBefore
<1>4. b <= n /\ q * Pow2[k] <= Len(ms) /\ n <= Len(ls) /\ n <= Len(ms)
  BY <1>0, <1>1, <1>2, <1>3
<1>5. NodeAt(ls, k, q - 1) = Over(ls, a, b) /\ NodeAt(ms, k, q - 1) = Over(ms, a, b)
  BY <1>1, <1>3, <1>4, NodeBefore
<1>6. Over(ls, a, b) = Over(ms, a, b)
  <2>1. n \in Nat /\ ls \in Seq(S) /\ ms \in Seq(S) /\ n <= Len(ls) /\ n <= Len(ms) /\ a < b /\ b <= n
    BY <1>1, <1>3, <1>4
  <2> QED
    BY <1>2, <2>1, OverAgrees
<1> QED
  BY <1>1, <1>5, <1>6

\* What has become of the leaf at level l: the root over the last leaves, up to it.
Carries(ls, c, n, l, q) ==
    /\ Above(n, l - 1, q) /\ n + 1 = (q + 1) * Pow2[l - 1]
    /\ c[l] = Over(ls, q * Pow2[l - 1], n + 1)

\* Up to the free level, the carried leaf is the root over the last leaves.
LEMMA CarryOver ==
    ASSUME NEW S, Unhashed(S), NEW ls \in Seq(S), NEW leaf \in S, NEW V, NEW f \in Seq(V), FrontierRight(ls, f),
           NEW l \in 1..FreeLevel(f)
    PROVE  \E q \in Nat : Carries(Append(ls, leaf), Carry(f, leaf), Len(ls), l, q)
<1>0. PICK n \in Nat : n = Len(ls)
  OBVIOUS
<1>1. PICK L \in Nat : L = Len(f)
  OBVIOUS
<1>2. PICK j : j = FreeLevel(f) /\ j \in 1..L + 1 /\ \A i \in 1..j - 1 : f[i] # None
  BY <1>1, FreeLevelValue DEF IsFree
<1>3. PICK ms : ms = Append(ls, leaf) /\ ms \in Seq(S)
  <2>1. Append(ls, leaf) \in Seq(S)
    OBVIOUS
  <2> QED
    BY <2>1
<1>4. Len(ms) = n + 1 /\ ms[n + 1] = leaf
  BY <1>0, <1>3
<1>5. PICK c : c = Carry(f, leaf)
  OBVIOUS
<1>6. \A i \in 1..j : c[i] = CarryTo(f, leaf, c, i)
  BY <1>2, <1>5, CarryValue
<1> DEFINE Claim(i) == \E q \in Nat : Carries(ms, c, n, i, q)
           Good == {i \in Nat : i \in 1..j => Claim(i)}
<1>7. ASSUME NEW i \in Nat, 0..(i-1) \subseteq Good, i \in 1..j
      PROVE  Claim(i)
  <2>1. CASE i = 1
    <3>1. c[1] = leaf
      BY <1>6, <1>7, <2>1 DEF CarryTo
    <3>2. n < Len(ms) /\ n \in Nat
      BY <1>4
    <3>3. Over(ms, n, n + 1) = leaf
      BY <1>3, <1>4, <3>2, OverLeaf
    <3>4. Pow2[i - 1] = 1 /\ n * 1 = n /\ (n + 1) * 1 = n + 1
      BY <2>1, Pow2Value
    <3>5. Above(n, i - 1, n)
      BY <3>4 DEF Above
    <3>6. Carries(ms, c, n, i, n)
      BY <2>1, <3>1, <3>3, <3>4, <3>5 DEF Carries
    <3> QED
      BY <3>6
  <2>2. CASE i # 1
    <3>1. PICK k \in Nat : i = k + 2 /\ k + 1 \in 0..(i-1) /\ k + 1 \in 1..j /\ k + 1 \in 1..j - 1 /\ k + 1 \in 1..L
      <4>1. i - 2 \in Nat /\ i = (i - 2) + 2 /\ j \in Nat /\ j <= L + 1
        BY <1>2, <1>7, <2>2
      <4>2. PICK k \in Nat : k = i - 2
        BY <4>1
      <4> QED
        BY <1>7, <4>1, <4>2
    <3>2. PICK q \in Nat : Carries(ms, c, n, k + 1, q)
      BY <1>7, <3>1
    <3>3. (k + 1) - 1 = k /\ i - 1 = k + 1 /\ (k + 1) + 1 = i
      BY <3>1
    <3>4. Above(n, k, q) /\ n + 1 = (q + 1) * Pow2[k] /\ c[k + 1] = Over(ms, q * Pow2[k], n + 1)
      BY <3>2, <3>3 DEF Carries
    <3>5. LevelHolds(ls, f, k + 1, q)
      BY <1>0, <1>1, <3>1, <3>3, <3>4 DEF FrontierRight
    <3>6. f[k + 1] # None
      BY <1>2, <3>1
    <3>7. q % 2 = 1 /\ f[k + 1] = NodeAt(ls, k, q - 1)
      BY <3>3, <3>5, <3>6 DEF LevelHolds
    <3>8. PICK h \in Nat : Above(n, k + 1, h) /\ q = 2 * h + 1
      <4>1. q % 2 # 0
        BY <3>7
      <4>2. PICK h \in Nat : Above(n, k + 1, h) /\ Half(q, h)
        BY <3>4, AboveHalf
      <4>3. q = 2 * h + 1
        BY <4>1, <4>2 DEF Half
      <4> QED
        BY <4>2, <4>3
    <3>9. PICK p \in Nat \ {0} : p = Pow2[k] /\ Pow2[k + 1] = 2 * p
      BY Pow2Value
    <3>10. PICK a \in Nat : a = h * (2 * p)
      BY <3>9, SMTT(30)
    <3>11. (q - 1) * p = a /\ q * p = a + p /\ (q + 1) * p = a + 2 * p /\ (h + 1) * (2 * p) = a + 2 * p
      BY <3>8, <3>10
    <3>12. n + 1 = a + 2 * p
      BY <3>4, <3>9, <3>11
    <3>13. q \in Nat \ {0} /\ q * Pow2[k] <= Len(ls) /\ q * Pow2[k] <= Len(ms)
      <4>1. a + p <= n /\ a + p <= n + 1
        BY <3>12
      <4> QED
        BY <1>0, <1>4, <3>8, <3>9, <3>11, <4>1
    <3>14. NodeAt(ls, k, q - 1) = NodeAt(ms, k, q - 1)
      BY <1>3, <3>13, NodeAppended
    <3>15. NodeAt(ms, k, q - 1) = Over(ms, a, a + p)
      <4>1. NodeAt(ms, k, q - 1) = Over(ms, (q - 1) * Pow2[k], q * Pow2[k])
        BY <1>3, <3>13, NodeBefore
      <4> QED
        BY <3>9, <3>11, <4>1
    <3>16. c[i] = NodeHash(f[k + 1], c[k + 1])
      BY <1>6, <1>7, <2>2, <3>3 DEF CarryTo
    <3>17. Over(ms, a, n + 1) = NodeHash(Over(ms, a, a + p), Over(ms, a + p, n + 1))
      <4>1. PICK z \in Nat : z = n + 1
        OBVIOUS
      <4>2. z <= Len(ms)
        BY <1>4, <4>1
      <4>3. a + p < z /\ z <= a + 2 * p
        BY <3>12, <4>1
      <4>4. a + Pow2[k] < z /\ z <= a + 2 * Pow2[k]
        BY <3>9, <4>3
      <4>5. Over(ms, a, z) = NodeHash(Over(ms, a, a + Pow2[k]), Over(ms, a + Pow2[k], z))
        <5>1. ms \in Seq(S)
          BY <1>3
        <5> QED
          BY <4>2, <4>4, <5>1, OverSplit
      <4> QED
        BY <3>9, <4>1, <4>5
    <3>18. c[i] = Over(ms, a, n + 1)
      BY <3>4, <3>7, <3>9, <3>11, <3>14, <3>15, <3>16, <3>17
    <3>19. Carries(ms, c, n, i, h)
      BY <3>3, <3>8, <3>9, <3>10, <3>11, <3>12, <3>18 DEF Carries
    <3> QED
      BY <3>19
  <2> QED
    BY <2>1, <2>2
<1>8. \A i \in Nat : 0..(i-1) \subseteq Good => i \in Good
  <2> HIDE DEF Claim
  <2> QED
    BY <1>7
<1>9. l \in Good
  <2>1. l \in Nat
    BY <1>2
  <2> HIDE DEF Good
  <2> QED
    BY <1>8, <2>1, Induction
<1> QED
  BY <1>0, <1>2, <1>3, <1>5, <1>9

\* An append keeps the frontier right.
LEMMA CarriedRight ==
    ASSUME NEW S, Unhashed(S), NEW ls \in Seq(S), NEW leaf \in S, NEW V, NEW f \in Seq(V), FrontierRight(ls, f)
    PROVE  /\ \E U : Carried(f, leaf) \in Seq(U)
           /\ FrontierRight(Append(ls, leaf), Carried(f, leaf))
<1>0. PICK n \in Nat : n = Len(ls)
  OBVIOUS
<1>1. PICK L \in Nat : L = Len(f) /\ DOMAIN f = 1..L
  OBVIOUS
<1>2. PICK j : /\ j = FreeLevel(f) /\ j \in 1..L + 1 /\ (j = L + 1 \/ f[j] = None)
               /\ \A i \in 1..j - 1 : f[i] # None
  BY <1>1, FreeLevelValue DEF IsFree
<1>3. PICK ms : ms = Append(ls, leaf) /\ ms \in Seq(S)
  <2>1. Append(ls, leaf) \in Seq(S)
    OBVIOUS
  <2> QED
    BY <2>1
<1>4. Len(ms) = n + 1 /\ n + 1 \in Nat
  BY <1>0, <1>3
<1>5. PICK c : c = Carry(f, leaf)
  OBVIOUS
<1>6. \A l \in 1..j : \E q \in Nat : Carries(ms, c, n, l, q)
  BY <1>0, <1>2, <1>3, <1>5, CarryOver
<1>7. PICK M \in Nat : M = IF j = L + 1 THEN L + 1 ELSE L
  OBVIOUS
<1>8. PICK g : g = Carried(f, leaf)
  OBVIOUS
<1>9. /\ \E U : g \in Seq(U)
      /\ Len(g) = M
      /\ \A i \in 1..M : g[i] = IF i < j THEN None ELSE IF i = j THEN c[j] ELSE f[i]
  <2> DEFINE E(i) == IF i < j THEN None ELSE IF i = j THEN c[j] ELSE f[i]
             U == {E(i) : i \in 1..M}
  <2>1. DOMAIN f \cup {j} = 1..M
    BY <1>1, <1>2, <1>7
  <2>2. g = [i \in 1..M |-> E(i)]
    BY <1>2, <1>5, <1>8, <2>1 DEF Carried
  <2>3. \A i \in 1..M : E(i) \in U
    OBVIOUS
  <2>4. g \in [1..M -> U] /\ \A i \in 1..M : g[i] = E(i)
    BY <2>2, <2>3
  <2> HIDE DEF U
  <2>5. g \in Seq(U) /\ Len(g) = M
    BY <2>4
  <2> QED
    BY <2>4, <2>5
<1>10. n < Pow2[L] /\ \A l \in 1..L : \A q \in Nat : Above(n, l - 1, q) => LevelHolds(ls, f, l, q)
  BY <1>0, <1>1 DEF FrontierRight
<1>11. ASSUME NEW l \in 1..L, NEW q \in Nat, Above(n, l - 1, q), q % 2 = 1
       PROVE  /\ f[l] = NodeAt(ls, l - 1, q - 1) /\ f[l] # None
              /\ NodeAt(ls, l - 1, q - 1) = NodeAt(ms, l - 1, q - 1)
  <2>1. f[l] = NodeAt(ls, l - 1, q - 1)
    BY <1>10, <1>11 DEF LevelHolds
  <2>2. q \in Nat \ {0} /\ l - 1 \in Nat
    BY <1>11
  <2>3. q * Pow2[l - 1] <= Len(ls)
    BY <1>0, <1>11 DEF Above
  <2>4. NodeAt(ms, l - 1, q - 1) = NodeAt(ls, l - 1, q - 1)
    BY <1>3, <2>2, <2>3, NodeAppended
  <2>5. PICK a \in Nat, b \in Nat : a < b /\ b <= Len(ls) /\ NodeAt(ls, l - 1, q - 1) = Over(ls, a, b)
    BY <2>2, <2>3, NodeBefore
  <2>6. Over(ls, a, b) # None
    BY <2>5, OverIsHash
  <2> QED
    BY <2>1, <2>4, <2>5, <2>6
<1>12. Above(n, L, 0)
  <2>1. PICK p \in Nat : p = Pow2[L]
    BY Pow2Value
  <2>2. 0 * p <= n /\ n < (0 + 1) * p
    BY <1>10, <2>1
  <2> QED
    BY <2>1, <2>2 DEF Above
<1>13. PICK x \in Nat : Carries(ms, c, n, j, x)
  BY <1>2, <1>6
<1>14. j - 1 \in Nat /\ Above(n, j - 1, x) /\ n + 1 = (x + 1) * Pow2[j - 1]
  BY <1>2, <1>13 DEF Carries
<1>15. x % 2 = 0
  <2>1. CASE j = L + 1
    <3>1. j - 1 = L
      BY <2>1
    <3>2. x = 0
      BY <1>12, <1>14, <3>1, AboveOne
    <3> QED
      BY <3>2
  <2>2. CASE j # L + 1
    <3>1. j \in 1..L /\ f[j] = None
      BY <1>2, <2>2
    <3>2. x % 2 # 1
      BY <1>11, <1>14, <3>1
    <3> QED
      BY <3>2
  <2> QED
    BY <2>1, <2>2
<1>16. ASSUME NEW k \in Nat, NEW q \in Nat, n + 1 = (q + 1) * Pow2[k]
       PROVE  Above(n + 1, k, q + 1)
  <2>1. PICK p \in Nat \ {0} : p = Pow2[k]
    BY Pow2Value
  <2>2. (q + 1) * p <= n + 1 /\ n + 1 < ((q + 1) + 1) * p
    BY <1>16, <2>1, SMTT(30)
  <2> QED
    BY <2>1, <2>2 DEF Above
<1>17. ASSUME NEW l \in Nat, j - 1 < l, NEW h, Above(n, l, h)
       PROVE  Above(n + 1, l, h)
  BY <1>14, <1>15, <1>16, <1>17, AboveEven
<1>18. ASSUME NEW l \in 1..M, NEW q \in Nat, Above(n + 1, l - 1, q)
       PROVE  LevelHolds(ms, g, l, q)
  <2>0. l - 1 \in Nat
    OBVIOUS
  <2>1. CASE l < j
    <3>1. PICK y \in Nat : Carries(ms, c, n, l, y)
      <4>1. l \in 1..j
        BY <1>2, <2>1
      <4> QED
        BY <1>6, <4>1
    <3>2. Above(n, l - 1, y) /\ n + 1 = (y + 1) * Pow2[l - 1]
      BY <3>1 DEF Carries
    <3>3. q = y + 1
      BY <1>4, <1>16, <1>18, <2>0, <3>2, AboveOne
    <3>4. l \in 1..L /\ l \in 1..j - 1
      BY <1>2, <2>1
    <3>5. f[l] # None
      BY <1>2, <3>4
    <3>6. LevelHolds(ls, f, l, y)
      BY <1>10, <3>2, <3>4
    <3>7. y % 2 = 1
      BY <3>5, <3>6 DEF LevelHolds
    <3>8. q % 2 # 1
      BY <3>3, <3>7
    <3>9. g[l] = None
      BY <1>9, <2>1
    <3> QED
      BY <3>8, <3>9 DEF LevelHolds
  <2>2. CASE l = j
    <3>1. q = x + 1
      BY <1>4, <1>14, <1>16, <1>18, <2>0, <2>2, AboveOne
    <3>2. q % 2 = 1 /\ q - 1 = x
      BY <1>15, <3>1
    <3>3. g[l] = c[j]
      BY <1>9, <2>2
    <3>4. c[j] = Over(ms, x * Pow2[l - 1], n + 1)
      BY <1>13, <2>2 DEF Carries
    <3>5. NodeAt(ms, l - 1, x) = Over(ms, x * Pow2[l - 1], n + 1)
      <4>1. (x + 1) * Pow2[l - 1] = n + 1 /\ Len(ms) = n + 1
        BY <1>4, <1>14, <2>2
      <4> QED
        BY <4>1 DEF NodeAt
    <3> QED
      BY <3>2, <3>3, <3>4, <3>5 DEF LevelHolds
  <2>3. CASE l > j
    <3>1. l \in 1..L /\ j - 1 < l - 1
      BY <1>2, <1>7, <2>3
    <3>2. PICK y \in Nat : Above(n, l - 1, y)
      BY <2>0, AboveExists
    <3>3. Above(n + 1, l - 1, y)
      BY <1>17, <2>0, <3>1, <3>2
    <3>4. q = y
      BY <1>4, <1>18, <2>0, <3>3, AboveOne
    <3>5. LevelHolds(ls, f, l, q)
      BY <1>10, <3>1, <3>2, <3>4
    <3>6. g[l] = f[l]
      <4>1. ~(l < j) /\ l # j
        BY <1>2, <2>3
      <4> QED
        BY <1>9, <4>1
    <3>7. q % 2 = 1 => NodeAt(ls, l - 1, q - 1) = NodeAt(ms, l - 1, q - 1)
      BY <1>11, <3>1, <3>2, <3>4
    <3> QED
      BY <3>5, <3>6, <3>7 DEF LevelHolds
  <2> QED
    BY <1>2, <2>1, <2>2, <2>3
<1>19. n + 1 < Pow2[M]
  <2>1. CASE j = L + 1
    <3>1. j - 1 = L /\ M = L + 1
      BY <1>7, <2>1
    <3>2. x = 0
      BY <1>12, <1>14, <3>1, AboveOne
    <3>3. PICK p \in Nat \ {0} : p = Pow2[L] /\ Pow2[L + 1] = 2 * p
      BY Pow2Value
    <3>4. n + 1 = p
      BY <1>14, <3>1, <3>2, <3>3
    <3>5. n + 1 < 2 * p
      BY <3>4
    <3> QED
      BY <3>1, <3>3, <3>5
  <2>2. CASE j # L + 1
    <3>1. M = L /\ j - 1 < L
      BY <1>2, <1>7, <2>2
    <3>2. Above(n + 1, L, 0)
      BY <1>12, <1>17, <3>1
    <3>3. PICK p \in Nat : p = Pow2[L]
      BY Pow2Value
    <3>4. n + 1 < (0 + 1) * p
      BY <3>2, <3>3 DEF Above
    <3> QED
      BY <3>1, <3>3, <3>4
  <2> QED
    BY <2>1, <2>2
<1>20. FrontierRight(ms, g)
  BY <1>4, <1>9, <1>18, <1>19 DEF FrontierRight
<1> QED
  BY <1>3, <1>8, <1>9, <1>20

\* What root() has folded the levels up to l to: the root over the leaves that are not
\* under the nodes of the levels above.
Folds(ls, g, n, l, q) ==
    Above(n, l, q) /\ g[l] = IF q * Pow2[l] < n THEN Over(ls, q * Pow2[l], n) ELSE None

\* The frontier folds to the root over the leaves, a level at a time,
LEMMA FoldedRight ==
    ASSUME NEW S, Unhashed(S), NEW ls \in Seq(S), NEW V, NEW f \in Seq(V), FrontierRight(ls, f), NEW l \in 0..Len(f)
    PROVE  \E q \in Nat : Folds(ls, Folded(f), Len(ls), l, q)
<1>0. PICK n \in Nat : n = Len(ls)
  OBVIOUS
<1>1. PICK L \in Nat : L = Len(f)
  OBVIOUS
<1>2. PICK g : g = Folded(f)
  OBVIOUS
<1>3. \A i \in 0..L : g[i] = FoldedTo(f, g, i)
  BY <1>1, <1>2, FoldedValue
<1> DEFINE Claim(i) == \E q \in Nat : Folds(ls, g, n, i, q)
           Good == {i \in Nat : i \in 0..L => Claim(i)}
<1>4. ASSUME NEW i \in Nat, 0..(i-1) \subseteq Good, i \in 0..L
      PROVE  Claim(i)
  <2>1. CASE i = 0
    <3>1. g[0] = None
      BY <1>3, <1>4, <2>1 DEF FoldedTo
    <3>2. Pow2[0] = 1 /\ n * 1 = n /\ (n + 1) * 1 = n + 1 /\ ~(n < n)
      BY Pow2Value
    <3>3. Above(n, 0, n)
      BY <3>2 DEF Above
    <3>4. Folds(ls, g, n, i, n)
      BY <2>1, <3>1, <3>2, <3>3 DEF Folds
    <3> QED
      BY <3>4
  <2>2. CASE i # 0
    <3>1. PICK k \in Nat : i = k + 1 /\ k \in 0..(i-1) /\ k \in 0..L /\ k + 1 \in 1..L
      <4>1. i - 1 \in Nat /\ i = (i - 1) + 1 /\ i - 1 \in 0..(i-1) /\ i - 1 \in 0..L /\ (i - 1) + 1 \in 1..L
        BY <1>4, <2>2
      <4> QED
        BY <4>1
    <3>2. PICK q \in Nat : Folds(ls, g, n, k, q)
      BY <1>4, <3>1
    <3>3. (k + 1) - 1 = k
      OBVIOUS
    <3>4. Above(n, k, q) /\ g[k] = IF q * Pow2[k] < n THEN Over(ls, q * Pow2[k], n) ELSE None
      BY <3>2 DEF Folds
    <3>5. LevelHolds(ls, f, k + 1, q)
      BY <1>0, <1>1, <3>1, <3>3, <3>4 DEF FrontierRight
    <3>6. f[k + 1] = IF q % 2 = 1 THEN NodeAt(ls, k, q - 1) ELSE None
      BY <3>3, <3>5 DEF LevelHolds
    <3>7. g[i] = FoldedTo(f, g, k + 1)
      BY <1>3, <1>4, <3>1
    <3>8. k + 1 # 0
      OBVIOUS
    <3>9. g[i] = IF f[k + 1] = None THEN g[k] ELSE IF g[k] = None THEN f[k + 1] ELSE NodeHash(f[k + 1], g[k])
      BY <3>3, <3>7, <3>8 DEF FoldedTo
    <3>10. PICK h \in Nat : Above(n, k + 1, h) /\ Half(q, h)
      BY <3>4, AboveHalf
    <3>11. PICK p \in Nat \ {0} : p = Pow2[k] /\ Pow2[k + 1] = 2 * p
      BY Pow2Value
    <3>12. PICK a \in Nat : a = h * (2 * p)
      BY <3>11
    <3>13. q * p <= n /\ n < (q + 1) * p
      BY <3>4, <3>11 DEF Above
    <3>14. CASE q % 2 = 0
      <4>1. q = 2 * h
        BY <3>10, <3>14 DEF Half
      <4>2. q * p = a
        BY <3>12, <4>1
      <4>3. g[i] = g[k]
        BY <3>6, <3>9, <3>14
      <4>4. g[i] = IF a < n THEN Over(ls, a, n) ELSE None
        BY <3>4, <3>11, <4>2, <4>3
      <4>5. Folds(ls, g, n, i, h)
        BY <3>1, <3>10, <3>11, <3>12, <4>4 DEF Folds
      <4> QED
        BY <4>5
    <3>15. CASE q % 2 = 1
      <4>1. q = 2 * h + 1
        BY <3>10, <3>15 DEF Half
      <4>2. q * p = a + p /\ (q - 1) * p = a /\ (q + 1) * p = a + 2 * p
        BY <3>12, <4>1
      <4>3. a + p <= n /\ n < a + 2 * p /\ a < n
        BY <3>13, <4>2
      <4>4. q \in Nat \ {0} /\ q * Pow2[k] <= Len(ls)
        BY <1>0, <3>11, <3>13, <4>1
      <4>5. NodeAt(ls, k, q - 1) = Over(ls, (q - 1) * Pow2[k], q * Pow2[k])
        BY <4>4, NodeBefore
      <4>6. f[k + 1] = Over(ls, a, a + p)
        BY <3>6, <3>11, <3>15, <4>2, <4>5
      <4>7. a + p \in Nat /\ a < a + p /\ a + p <= Len(ls) /\ n <= Len(ls)
        BY <1>0, <4>3
      <4>8. f[k + 1] # None
        BY <4>6, <4>7, OverIsHash
      <4>9. g[k] = IF a + p < n THEN Over(ls, a + p, n) ELSE None
        BY <3>4, <3>11, <4>2
      <4>10. g[i] = Over(ls, a, n)
        <5>1. CASE a + p = n
          BY <3>9, <4>6, <4>8, <4>9, <5>1
        <5>2. CASE a + p < n
          <6>1. a + p \in Nat /\ n \in Nat /\ n <= Len(ls)
            BY <1>0
          <6>2. Over(ls, a + p, n) # None
            BY <5>2, <6>1, OverIsHash
          <6>3. a + Pow2[k] < n /\ n <= a + 2 * Pow2[k]
            <7>1. a + p < n /\ n <= a + 2 * p
              BY <4>3, <5>2
            <7> QED
              BY <3>11, <7>1
          <6>4. Over(ls, a, n) = NodeHash(Over(ls, a, a + Pow2[k]), Over(ls, a + Pow2[k], n))
            BY <6>1, <6>3, OverSplit
          <6> QED
            BY <3>9, <3>11, <4>6, <4>8, <4>9, <5>2, <6>2, <6>4
        <5> QED
          BY <4>3, <5>1, <5>2
      <4>11. Folds(ls, g, n, i, h)
        BY <3>1, <3>10, <3>11, <3>12, <4>3, <4>10 DEF Folds
      <4> QED
        BY <4>11
    <3>16. q % 2 = 0 \/ q % 2 = 1
      OBVIOUS
    <3> QED
      BY <3>14, <3>15, <3>16
  <2> QED
    BY <2>1, <2>2
<1>5. \A i \in Nat : 0..(i-1) \subseteq Good => i \in Good
  <2> HIDE DEF Claim
  <2> QED
    BY <1>4
<1>6. l \in Good
  <2>1. l \in Nat
    BY <1>1
  <2> HIDE DEF Good
  <2> QED
    BY <1>5, <2>1, Induction
<1> QED
  BY <1>0, <1>1, <1>2, <1>6

\* and the last level is the whole tree.
LEMMA RootRight ==
    ASSUME NEW S, Unhashed(S), NEW ls \in Seq(S), NEW V, NEW f \in Seq(V), FrontierRight(ls, f)
    PROVE  RootOf(f) = TreeHash(ls)
<1>0. PICK n \in Nat : n = Len(ls)
  OBVIOUS
<1>1. PICK L \in Nat : L = Len(f)
  OBVIOUS
<1>2. PICK p \in Nat : p = Pow2[L] /\ n < p
  BY <1>0, <1>1, Pow2Value DEF FrontierRight
<1>3. PICK q \in Nat : Folds(ls, Folded(f), n, L, q)
  <2>1. L \in 0..L
    OBVIOUS
  <2> QED
    BY <1>0, <1>1, <2>1, FoldedRight
<1>4. Above(n, L, 0)
  <2>1. 0 * p <= n /\ n < (0 + 1) * p
    BY <1>2
  <2> QED
    BY <1>2, <2>1 DEF Above
<1>5. q = 0
  BY <1>3, <1>4, AboveOne DEF Folds
<1>6. Folded(f)[L] = IF 0 < n THEN Over(ls, 0, n) ELSE None
  <2>1. 0 * Pow2[L] = 0
    BY <1>2
  <2> QED
    BY <1>3, <1>5, <2>1 DEF Folds
<1>7. CASE n = 0
  <2>1. ls = <<>>
    <3>1. Len(ls) = 0
      BY <1>0, <1>7
    <3>2. \A s \in Seq(S) : Len(s) = 0 => s = <<>>
      OBVIOUS
    <3> QED
      BY <3>1, <3>2
  <2> QED
    BY <1>1, <1>6, <1>7, <2>1 DEF RootOf, TreeHash
<1>8. CASE n # 0
  <2>1. 0 < n /\ n <= Len(ls)
    BY <1>0, <1>8
  <2>2. Over(ls, 0, n) # None
    BY <2>1, OverIsHash
  <2>3. TreeHash(ls) = Over(ls, 0, n)
    BY <1>0, <1>8, TreeIsOver
  <2> QED
    BY <1>1, <1>6, <2>1, <2>2, <2>3 DEF RootOf
<1> QED
  BY <1>7, <1>8

----------------------------------------------------------------------------
(* The invariant of the tree that Ledger keeps.                             *)

\* A digest is never None.
NoneIsNoHash == (\A d : LeafHash(d) # None) /\ (\A l, r : NodeHash(l, r) # None)

AllData == Data \cup ToSet(Rest)

TreeInv ==
    /\ leaves \in Seq({LeafHash(d) : d \in AllData})
    /\ \E U : frontier \in Seq(U)
    /\ FrontierRight(leaves, frontier)

\* The invariant holds of an empty tree,
LEMMA TreeInvInit == TreeInit => TreeInv
<1> SUFFICES ASSUME TreeInit PROVE TreeInv
  OBVIOUS
<1>1. leaves = <<>> /\ frontier = <<>>
  BY DEF TreeInit
<1>2. Len(leaves) = 0 /\ Len(frontier) = 0 /\ frontier \in Seq({})
  BY <1>1
<1>3. \A S : <<>> \in Seq(S)
  OBVIOUS
<1>4. FrontierRight(leaves, frontier)
  BY <1>2, Pow2Value DEF FrontierRight
<1> DEFINE H == {LeafHash(d) : d \in AllData}
<1>5. leaves \in Seq(H)
  <2> HIDE DEF H
  <2> QED
    BY <1>1, <1>3
<1> QED
  BY <1>2, <1>4, <1>5 DEF TreeInv

\* and every append keeps it.
LEMMA TreeInvNext == ASSUME NoneIsNoHash PROVE TreeInv /\ [TreeNext]_treeVars => TreeInv'
<1> SUFFICES ASSUME TreeInv, [TreeNext]_treeVars PROVE TreeInv'
  OBVIOUS
<1> DEFINE H == {LeafHash(d) : d \in AllData}
<1>1. ASSUME NEW d \in AllData, AppendLeaf(d)
      PROVE  TreeInv'
  <2>1. LeafHash(d) \in H
    OBVIOUS
  <2>2. leaves \in Seq(H) /\ FrontierRight(leaves, frontier)
    BY DEF TreeInv
  <2>3. PICK U : frontier \in Seq(U)
    BY DEF TreeInv
  <2>4. Unhashed(H)
    BY NoneIsNoHash DEF Unhashed, NoneIsNoHash
  <2>5. PICK ms, g : ms = leaves' /\ g = frontier'
    OBVIOUS
  <2>6. ms = Append(leaves, LeafHash(d)) /\ g = Carried(frontier, LeafHash(d))
    BY <1>1, <2>5 DEF AppendLeaf
  <2> HIDE DEF H
  <2>7. ms \in Seq(H)
    BY <2>1, <2>2, <2>6
  <2>8. (\E W : g \in Seq(W)) /\ FrontierRight(ms, g)
    BY <2>1, <2>2, <2>3, <2>4, <2>6, CarriedRight
  <2>9. FrontierRight(leaves, frontier)' <=> FrontierRight(ms, g)
    BY <2>5 DEF FrontierRight, LevelHolds
  <2> QED
    BY <2>5, <2>7, <2>8, <2>9 DEF TreeInv, H
<1>2. CASE TreeNext
  <2>1. \A d \in Data : d \in AllData
    BY DEF AllData
  <2>2. ASSUME Len(leaves) - FreeLeaves \in 0..Len(Rest) - 1
        PROVE  Rest[Len(leaves) - FreeLeaves + 1] \in AllData
    <3>1. Len(leaves) \in Nat /\ FreeLeaves \in Nat /\ Rest \in Seq(ToSet(Rest))
      BY MerkleAssumption DEF TreeInv
    <3>2. Len(leaves) - FreeLeaves + 1 \in 1..Len(Rest)
      BY <2>2, <3>1
    <3> QED
      BY <3>1, <3>2 DEF AllData
  <2> QED
    BY <1>1, <1>2, <2>1, <2>2 DEF TreeNext
<1>3. CASE UNCHANGED treeVars
  BY <1>3 DEF TreeInv, FrontierRight, LevelHolds, treeVars
<1> QED
  BY <1>2, <1>3

\* A sequence of leaf hashes is the hashes of a sequence of data.
LEMMA LogOfHashes ==
    ASSUME NEW D, NEW ls \in Seq({LeafHash(d) : d \in D})
    PROVE  \E h \in Seq(D) : LeafHashes(h) = ls
<1>1. PICK n \in Nat : n = Len(ls) /\ DOMAIN ls = 1..n
  OBVIOUS
<1>2. \A i \in 1..n : \E d \in D : ls[i] = LeafHash(d)
  BY <1>1
<1> DEFINE h == [i \in 1..n |-> CHOOSE d \in D : ls[i] = LeafHash(d)]
<1>3. \A i \in 1..n : h[i] \in D /\ ls[i] = LeafHash(h[i])
  BY <1>2
<1>4. h \in [1..n -> D] /\ DOMAIN h = 1..n
  BY <1>3
<1> HIDE DEF h
<1>5. h \in Seq(D)
  BY <1>4
<1>6. LeafHashes(h) = [i \in 1..n |-> LeafHash(h[i])]
  BY <1>4 DEF LeafHashes
<1>7. ls = [i \in 1..n |-> ls[i]]
  BY <1>1
<1>8. LeafHashes(h) = ls
  BY <1>3, <1>6, <1>7
<1> QED
  BY <1>5, <1>8

\* IncrementalMerkleTree, "byte-identical to tree_hash": after any number of appends the
\* root folded from the frontier is the hash of the tree over the leaves, and no other
\* history has it.
THEOREM RootKept == ASSUME NoneIsNoHash PROVE TreeSpec => []RootAgrees
<1>1. TreeInv => RootAgrees
  <2> SUFFICES ASSUME TreeInv PROVE RootAgrees
    OBVIOUS
  <2> DEFINE H == {LeafHash(d) : d \in AllData}
  <2>1. leaves \in Seq(H) /\ FrontierRight(leaves, frontier)
    BY DEF TreeInv
  <2>2. PICK U : frontier \in Seq(U)
    BY DEF TreeInv
  <2>3. Unhashed(H)
    BY NoneIsNoHash DEF Unhashed, NoneIsNoHash
  <2>4. RootOf(frontier) = TreeHash(leaves)
    <3> HIDE DEF H
    <3> QED
      BY <2>1, <2>2, <2>3, RootRight
  <2>5. PICK h \in Seq(AllData) : LeafHashes(h) = leaves
    BY <2>1, LogOfHashes
  <2>6. ASSUME NEW n \in 0..FreeLeaves, NEW data \in [1..n -> Data], TreeHash(LeafHashes(data)) = RootOf(frontier)
        PROVE  LeafHashes(data) = leaves
    <3>1. n \in Nat
      BY MerkleAssumption
    <3>2. data \in Seq(AllData)
      BY <3>1 DEF AllData
    <3>3. TreeHash(LeafHashes(data)) = TreeHash(LeafHashes(h))
      BY <2>4, <2>5, <2>6
    <3>4. data = h
      BY <3>2, <3>3, RootCommits
    <3> QED
      BY <2>5, <3>4
  <2> QED
    BY <2>4, <2>6 DEF RootAgrees
<1> QED
  BY <1>1, TreeInvInit, TreeInvNext, PTL DEF TreeSpec

\* The audit path in a subtree, where g has the paths of the smaller ones.
Audited(ls, m, g, n, lo) ==
    LET k == LargestPow2(n)
    IN  IF n = 1 THEN <<>>
        ELSE IF m < lo + k THEN Append(g[k][lo], Subtree(ls)[n - k][lo + k])
        ELSE Append(g[n - k][lo + k], Subtree(ls)[k][lo])

\* The recursive function of InclusionProof satisfies its own equation.
LEMMA PathValue ==
    ASSUME NEW ls, NEW L \in Nat, L = Len(ls), NEW m
    PROVE  \E V : /\ InclusionProof(ls, m) = V[L][0]
                  /\ \A n \in 1..L : \A lo \in 0..(L-n) : V[n][lo] = Audited(ls, m, V, n, lo)
<1> DEFINE Right(g, d) == \A n \in 1..L : n <= d => \A lo \in 0..(L-n) : g[n][lo] = Audited(ls, m, g, n, lo)
           Good == {d \in Nat : \E g : Right(g, d)}
           Agree(g, h, n) == \A x \in 1..L : x < n => \A y \in 0..(L-x) : g[x][y] = h[x][y]
<1>1. ASSUME NEW n \in 1..L, NEW lo \in 0..(L-n), NEW g, NEW h, Agree(g, h, n)
      PROVE  Audited(ls, m, g, n, lo) = Audited(ls, m, h, n, lo)
  <2>1. CASE n = 1
    BY <2>1 DEF Audited
  <2>2. CASE n # 1
    <3>1. PICK k \in 1..(n-1) : k = LargestPow2(n)
      BY <2>2, SplitParts
    <3>2. k \in 1..L /\ k < n /\ lo \in 0..(L-k) /\ n - k \in 1..L /\ n - k < n /\ lo + k \in 0..(L-(n-k))
      OBVIOUS
    <3>3. g[k][lo] = h[k][lo] /\ g[n-k][lo+k] = h[n-k][lo+k]
      BY <1>1, <3>2
    <3> QED
      BY <3>1, <3>3 DEF Audited
  <2> QED
    BY <2>1, <2>2
<1>2. ASSUME NEW d \in Nat, 0..(d-1) \subseteq Good
      PROVE  \E g : Right(g, d)
  <2>1. CASE d = 0
    <3>1. \A n \in 1..L : ~(n <= 0)
      OBVIOUS
    <3>2. Right(<<>>, d)
      BY <2>1, <3>1
    <3> QED
      BY <3>2
  <2>2. CASE d # 0
    <3>1. d - 1 \in 0..(d-1)
      BY <2>2
    <3>2. PICK h : Right(h, d - 1)
      BY <1>2, <3>1
    <3> DEFINE g == [n \in 1..L |-> [lo \in 0..(L-n) |-> Audited(ls, m, h, n, lo)]]
    <3>3. ASSUME NEW n \in 1..L, NEW lo \in 0..(L-n)
          PROVE  g[n][lo] = Audited(ls, m, h, n, lo)
      <4>1. g[n] = [x \in 0..(L-n) |-> Audited(ls, m, h, n, x)]
        OBVIOUS
      <4> QED
        BY <4>1
    <3> HIDE DEF g
    <3>4. \A n \in 1..L : n <= d - 1 => \A lo \in 0..(L-n) : h[n][lo] = g[n][lo]
      BY <3>2, <3>3
    <3>5. ASSUME NEW n \in 1..L, n <= d, NEW lo \in 0..(L-n)
          PROVE  Audited(ls, m, h, n, lo) = Audited(ls, m, g, n, lo)
      <4>1. \A x \in 1..L : x < n => x <= d - 1
        BY <3>5
      <4>2. Agree(h, g, n)
        BY <3>4, <4>1
      <4> HIDE DEF Agree
      <4> QED
        BY <1>1, <4>2
    <3>6. Right(g, d)
      BY <3>3, <3>5
    <3> QED
      BY <3>6
  <2> QED
    BY <2>1, <2>2
<1>3. \A d \in Nat : 0..(d-1) \subseteq Good => d \in Good
  BY <1>2
<1>4. L \in Good
  <2> HIDE DEF Good
  <2> QED
    BY <1>3, Induction
<1>5. PICK h : Right(h, L)
  BY <1>4
<1> DEFINE F == [n \in 1..L |-> [lo \in 0..(L-n) |-> Audited(ls, m, h, n, lo)]]
           D(f) == f = [n \in 1..Len(ls) |-> [lo \in 0..(Len(ls) - n) |-> Audited(ls, m, f, n, lo)]]
           V == CHOOSE f : D(f)
<1>6. ASSUME NEW n \in 1..L, NEW lo \in 0..(L-n)
      PROVE  h[n][lo] = F[n][lo]
  <2>1. F[n] = [x \in 0..(L-n) |-> Audited(ls, m, h, n, x)]
    OBVIOUS
  <2>2. F[n][lo] = Audited(ls, m, h, n, lo)
    BY <2>1
  <2> QED
    BY <1>5, <2>2
<1>7. ASSUME NEW n \in 1..L, NEW lo \in 0..(L-n)
      PROVE  Audited(ls, m, h, n, lo) = Audited(ls, m, F, n, lo)
  <2> HIDE DEF F
  <2>1. Agree(h, F, n)
    BY <1>6
  <2> HIDE DEF Agree
  <2> QED
    BY <1>1, <2>1
<1>8. D(F)
  BY <1>7
<1>9. InclusionProof(ls, m) = V[Len(ls)][0]
  BY Zenon DEF InclusionProof, Audited
<1>10. D(V)
  <2>1. \E f : D(f)
    BY <1>8
  <2> HIDE DEF D
  <2> QED
    BY <2>1
<1> HIDE DEF V
<1>11. ASSUME NEW n \in 1..L, NEW lo \in 0..(L-n)
       PROVE  V[n][lo] = Audited(ls, m, V, n, lo)
  <2>0. V = [i \in 1..L |-> [x \in 0..(L-i) |-> Audited(ls, m, V, i, x)]]
    BY <1>10
  <2>1. V[n] = [x \in 0..(L-n) |-> Audited(ls, m, V, n, x)]
    BY <2>0
  <2> QED
    BY <2>1
<1> QED
  BY <1>9, <1>11

\* The proof of _subproof in a subtree, where g has those of the smaller ones.
Subproof(ls, m, g, n, lo) ==
    LET k == LargestPow2(n)
    IN  IF n = 1 \/ lo + n = m THEN IF lo = 0 THEN <<>> ELSE <<Subtree(ls)[n][lo]>>
        ELSE IF m <= lo + k THEN Append(g[k][lo], Subtree(ls)[n - k][lo + k])
        ELSE Append(g[n - k][lo + k], Subtree(ls)[k][lo])

\* The recursive function of ConsistencyProof satisfies its own equation.
LEMMA SubproofValue ==
    ASSUME NEW ls, NEW L \in Nat, L = Len(ls), NEW m
    PROVE  \E V : /\ ConsistencyProof(ls, m) = V[L][0]
                  /\ \A n \in 1..L : \A lo \in 0..(L-n) : V[n][lo] = Subproof(ls, m, V, n, lo)
<1> DEFINE Right(g, d) == \A n \in 1..L : n <= d => \A lo \in 0..(L-n) : g[n][lo] = Subproof(ls, m, g, n, lo)
           Good == {d \in Nat : \E g : Right(g, d)}
           Agree(g, h, n) == \A x \in 1..L : x < n => \A y \in 0..(L-x) : g[x][y] = h[x][y]
<1>1. ASSUME NEW n \in 1..L, NEW lo \in 0..(L-n), NEW g, NEW h, Agree(g, h, n)
      PROVE  Subproof(ls, m, g, n, lo) = Subproof(ls, m, h, n, lo)
  <2>1. CASE n = 1
    BY <2>1 DEF Subproof
  <2>2. CASE n # 1
    <3>1. PICK k \in 1..(n-1) : k = LargestPow2(n)
      BY <2>2, SplitParts
    <3>2. k \in 1..L /\ k < n /\ lo \in 0..(L-k) /\ n - k \in 1..L /\ n - k < n /\ lo + k \in 0..(L-(n-k))
      OBVIOUS
    <3>3. g[k][lo] = h[k][lo] /\ g[n-k][lo+k] = h[n-k][lo+k]
      BY <1>1, <3>2
    <3> QED
      BY <3>1, <3>3 DEF Subproof
  <2> QED
    BY <2>1, <2>2
<1>2. ASSUME NEW d \in Nat, 0..(d-1) \subseteq Good
      PROVE  \E g : Right(g, d)
  <2>1. CASE d = 0
    <3>1. \A n \in 1..L : ~(n <= 0)
      OBVIOUS
    <3>2. Right(<<>>, d)
      BY <2>1, <3>1
    <3> QED
      BY <3>2
  <2>2. CASE d # 0
    <3>1. d - 1 \in 0..(d-1)
      BY <2>2
    <3>2. PICK h : Right(h, d - 1)
      BY <1>2, <3>1
    <3> DEFINE g == [n \in 1..L |-> [lo \in 0..(L-n) |-> Subproof(ls, m, h, n, lo)]]
    <3>3. ASSUME NEW n \in 1..L, NEW lo \in 0..(L-n)
          PROVE  g[n][lo] = Subproof(ls, m, h, n, lo)
      <4>1. g[n] = [x \in 0..(L-n) |-> Subproof(ls, m, h, n, x)]
        OBVIOUS
      <4> QED
        BY <4>1
    <3> HIDE DEF g
    <3>4. \A n \in 1..L : n <= d - 1 => \A lo \in 0..(L-n) : h[n][lo] = g[n][lo]
      BY <3>2, <3>3
    <3>5. ASSUME NEW n \in 1..L, n <= d, NEW lo \in 0..(L-n)
          PROVE  Subproof(ls, m, h, n, lo) = Subproof(ls, m, g, n, lo)
      <4>1. \A x \in 1..L : x < n => x <= d - 1
        BY <3>5
      <4>2. Agree(h, g, n)
        BY <3>4, <4>1
      <4> HIDE DEF Agree
      <4> QED
        BY <1>1, <4>2
    <3>6. Right(g, d)
      BY <3>3, <3>5
    <3> QED
      BY <3>6
  <2> QED
    BY <2>1, <2>2
<1>3. \A d \in Nat : 0..(d-1) \subseteq Good => d \in Good
  BY <1>2
<1>4. L \in Good
  <2> HIDE DEF Good
  <2> QED
    BY <1>3, Induction
<1>5. PICK h : Right(h, L)
  BY <1>4
<1> DEFINE F == [n \in 1..L |-> [lo \in 0..(L-n) |-> Subproof(ls, m, h, n, lo)]]
           D(f) == f = [n \in 1..Len(ls) |-> [lo \in 0..(Len(ls) - n) |-> Subproof(ls, m, f, n, lo)]]
           V == CHOOSE f : D(f)
<1>6. ASSUME NEW n \in 1..L, NEW lo \in 0..(L-n)
      PROVE  h[n][lo] = F[n][lo]
  <2>1. F[n] = [x \in 0..(L-n) |-> Subproof(ls, m, h, n, x)]
    OBVIOUS
  <2>2. F[n][lo] = Subproof(ls, m, h, n, lo)
    BY <2>1
  <2> QED
    BY <1>5, <2>2
<1>7. ASSUME NEW n \in 1..L, NEW lo \in 0..(L-n)
      PROVE  Subproof(ls, m, h, n, lo) = Subproof(ls, m, F, n, lo)
  <2> HIDE DEF F
  <2>1. Agree(h, F, n)
    BY <1>6
  <2> HIDE DEF Agree
  <2> QED
    BY <1>1, <2>1
<1>8. D(F)
  BY <1>7
<1>9. ConsistencyProof(ls, m) = V[Len(ls)][0]
  BY Zenon DEF ConsistencyProof, Subproof
<1>10. D(V)
  <2>1. \E f : D(f)
    BY <1>8
  <2> HIDE DEF D
  <2> QED
    BY <2>1
<1> HIDE DEF V
<1>11. ASSUME NEW n \in 1..L, NEW lo \in 0..(L-n)
       PROVE  V[n][lo] = Subproof(ls, m, V, n, lo)
  <2>0. V = [i \in 1..L |-> [x \in 0..(L-i) |-> Subproof(ls, m, V, i, x)]]
    BY <1>10
  <2>1. V[n] = [x \in 0..(L-n) |-> Subproof(ls, m, V, n, x)]
    BY <2>0
  <2> QED
    BY <2>1
<1> QED
  BY <1>9, <1>11

(***************************************************************************)
(* The subtrees of the recursion, and the walk from one to the next.       *)
(***************************************************************************)

\* The n leaves after the first lo are a node of level K in a tree of N leaves.
Frame(N, lo, n, K) ==
    /\ K \in Nat /\ n \in Nat \ {0} /\ lo \in Nat /\ lo + n <= N
    /\ \E j \in Nat : lo = j * Pow2[K]
    /\ n <= Pow2[K] /\ (K = 0 \/ Pow2[K] < 2 * n)
    /\ n = Pow2[K] \/ lo + n = N

\* Smaller powers have smaller exponents.
LEMMA Pow2Less ==
    ASSUME NEW d \in Nat, NEW e \in Nat, Pow2[d] < Pow2[e]
    PROVE  d < e
<1>1. PICK a \in Nat, b \in Nat : a = Pow2[d] /\ b = Pow2[e] /\ a < b
  BY Pow2Value
<1>2. ASSUME e < d PROVE FALSE
  <2>1. 2 * b <= a
    BY <1>1, <1>2, Pow2Order
  <2> QED
    BY <1>1, <2>1
<1>3. ASSUME e = d PROVE FALSE
  BY <1>1, <1>3
<1> QED
  BY <1>2, <1>3

\* The whole tree is a subtree of some level.
LEMMA FrameTop ==
    ASSUME NEW N \in Nat \ {0}
    PROVE  \E K \in Nat : Frame(N, 0, N, K)
<1>1. \A K \in Nat : 0 = 0 * Pow2[K]
  <2>1. \A K \in Nat : Pow2[K] \in Nat
    BY Pow2Value
  <2> QED
    BY <2>1
<1>2. CASE N = 1
  <2>1. Pow2[0] = 1
    BY Pow2Value
  <2>2. Frame(N, 0, N, 0)
    BY <1>1, <1>2, <2>1 DEF Frame
  <2> QED
    BY <2>2
<1>3. CASE N # 1
  <2>1. PICK e : Splits(N, e)
    BY <1>3, SplitExists
  <2>2. PICK p \in Nat \ {0} : e \in Nat /\ p = Pow2[e] /\ Pow2[e + 1] = 2 * p /\ p < N /\ N <= 2 * p
    BY <2>1, Pow2Value DEF Splits
  <2>3. e + 1 \in Nat /\ 0 + N = N /\ 0 + N <= N /\ 2 * p < 2 * N /\ 0 = 0 * Pow2[e + 1]
    BY <1>1, <2>2
  <2>4. Frame(N, 0, N, e + 1)
    BY <2>2, <2>3 DEF Frame
  <2> QED
    BY <2>2, <2>4
<1> QED
  BY <1>2, <1>3

\* How the recursion splits a subtree of level e + 1.
FrameParts(N, lo, n, K, e) ==
    /\ K = e + 1 /\ Splits(n, e) /\ LargestPow2(n) = Pow2[e]
    /\ Frame(N, lo, Pow2[e], e)
    /\ \E k \in Nat : k <= e /\ Frame(N, lo + Pow2[e], n - Pow2[e], k)

\* The two parts of a subtree are subtrees of lower levels.
LEMMA FrameSplit ==
    ASSUME NEW N \in Nat, NEW lo, NEW n, NEW K, Frame(N, lo, n, K), n # 1
    PROVE  \E e \in Nat : FrameParts(N, lo, n, K, e)
<1>1. /\ K \in Nat /\ n \in Nat \ {0} /\ lo \in Nat /\ lo + n <= N
      /\ n <= Pow2[K] /\ (K = 0 \/ Pow2[K] < 2 * n)
      /\ n = Pow2[K] \/ lo + n = N
  BY DEF Frame
<1>2. PICK j \in Nat : lo = j * Pow2[K]
  BY DEF Frame
<1>3. K # 0
  <2>1. K = 0 => Pow2[K] = 1
    BY Pow2Value
  <2> QED
    BY <1>1, <2>1
<1>4. PICK e \in Nat : K = e + 1
  <2>1. K - 1 \in Nat /\ K = (K - 1) + 1
    BY <1>1, <1>3
  <2> QED
    BY <2>1
<1>5. PICK p \in Nat \ {0} : p = Pow2[e] /\ Pow2[K] = 2 * p
  BY <1>4, Pow2Value
<1>6. p < n /\ n <= 2 * p /\ n \in Nat /\ lo = j * (2 * p) /\ (n = 2 * p \/ lo + n = N)
  BY <1>1, <1>2, <1>3, <1>5
<1>7. Splits(n, e)
  BY <1>5, <1>6 DEF Splits
<1>8. LargestPow2(n) = Pow2[e]
  BY <1>6, <1>7, SplitValue
<1>9. (2 * j) * p = lo /\ 2 * j \in Nat /\ (2 * j + 1) * p = lo + p /\ 2 * j + 1 \in Nat
  BY <1>6
<1>10. Frame(N, lo, Pow2[e], e)
  <2>1. lo + p <= N /\ p <= p /\ p < 2 * p
    BY <1>1, <1>6
  <2> QED
    BY <1>1, <1>5, <1>9, <2>1 DEF Frame
<1>11. \E k \in Nat : k <= e /\ Frame(N, lo + Pow2[e], n - Pow2[e], k)
  <2>1. PICK m \in Nat \ {0}, a \in Nat : m = n - p /\ a = lo + p
    BY <1>1, <1>6
  <2>2. a + m = lo + n /\ a + m <= N /\ m <= p
    BY <1>1, <1>6, <2>1
  <2>3. CASE m = 1
    <3>1. a = a * Pow2[0] /\ Pow2[0] = 1
      BY Pow2Value
    <3>2. Frame(N, a, m, 0)
      BY <2>2, <2>3, <3>1 DEF Frame
    <3> QED
      BY <1>5, <2>1, <3>2
  <2>4. CASE m # 1
    <3>1. PICK d : Splits(m, d)
      BY <2>4, SplitExists
    <3>2. PICK r \in Nat \ {0} : d \in Nat /\ r = Pow2[d] /\ Pow2[d + 1] = 2 * r /\ r < m /\ m <= 2 * r
      BY <3>1, Pow2Value DEF Splits
    <3>3. d < e
      <4>1. r < p
        BY <2>2, <3>2
      <4> QED
        BY <1>5, <3>2, <4>1, Pow2Less
    <3>4. PICK i \in Nat : (d + 1) + i = e
      <4>1. e - (d + 1) \in Nat /\ (d + 1) + (e - (d + 1)) = e
        BY <3>2, <3>3
      <4> QED
        BY <4>1
    <3>5. PICK s \in Nat : s = Pow2[i] /\ p = (2 * r) * s
      <4>1. d + 1 \in Nat
        BY <3>2
      <4>2. PICK s \in Nat : s = Pow2[i]
        BY Pow2Value
      <4>3. Pow2[(d + 1) + i] = Pow2[d + 1] * Pow2[i]
        BY <4>1, Pow2Sum
      <4>4. p = (2 * r) * s
        BY <1>5, <3>2, <3>4, <4>2, <4>3
      <4> QED
        BY <4>2, <4>4
    <3>6. a = ((2 * j + 1) * s) * (2 * r)
      <4>1. a = (2 * j + 1) * p
        BY <1>9, <2>1
      <4>2. (2 * j + 1) * ((2 * r) * s) = ((2 * j + 1) * s) * (2 * r)
        OBVIOUS
      <4> QED
        BY <3>5, <4>1, <4>2
    <3>7. PICK t \in Nat : a = t * Pow2[d + 1]
      <4>1. (2 * j + 1) * s \in Nat
        BY <3>5
      <4> QED
        BY <3>2, <3>6, <4>1
    <3>8. m = 2 * r \/ a + m = N
      <4>1. CASE n = 2 * p
        <5>1. 2 * Pow2[d] <= Pow2[e]
          BY <3>2, <3>3, Pow2Order
        <5>2. 2 * r <= p /\ m = p
          BY <1>5, <2>1, <3>2, <4>1, <5>1
        <5> QED
          BY <3>2, <5>2
      <4>2. CASE lo + n = N
        BY <2>2, <4>2
      <4> QED
        BY <1>6, <4>1, <4>2
    <3>9. Frame(N, a, m, d + 1)
      <4>1. d + 1 \in Nat /\ 2 * r < 2 * m
        BY <3>2
      <4> QED
        BY <2>2, <3>2, <3>7, <3>8, <4>1 DEF Frame
    <3>10. d + 1 \in Nat /\ d + 1 <= e
      BY <3>2, <3>3
    <3> QED
      BY <1>5, <2>1, <3>9, <3>10
  <2> QED
    BY <2>3, <2>4
<1> QED
  BY <1>4, <1>7, <1>8, <1>10, <1>11 DEF FrameParts

\* The node above a leaf of a subtree, at its level, is the subtree.
LEMMA FrameAbove ==
    ASSUME NEW N \in Nat, NEW lo, NEW n, NEW K, Frame(N, lo, n, K),
           NEW x \in Nat, lo <= x, x < lo + n, NEW f, Above(x, K, f)
    PROVE  f \in Nat /\ f * Pow2[K] = lo
<1>1. K \in Nat /\ n \in Nat \ {0} /\ lo \in Nat /\ n <= Pow2[K]
  BY DEF Frame
<1>2. PICK j \in Nat : lo = j * Pow2[K]
  BY DEF Frame
<1>3. PICK p \in Nat \ {0} : p = Pow2[K]
  BY <1>1, Pow2Value
<1>4. j * p <= x /\ x < (j + 1) * p
  <2>1. lo = j * p /\ (j + 1) * p = lo + p /\ n <= p
    BY <1>1, <1>2, <1>3
  <2> QED
    BY <1>1, <2>1
<1>5. Above(x, K, j)
  BY <1>3, <1>4 DEF Above
<1>6. f = j
  BY <1>1, <1>5, AboveOne
<1> QED
  BY <1>2, <1>6

\* A number has one odd part and one power of two.
LEMMA OddPart ==
    ASSUME NEW a \in Nat, NEW b \in Nat, NEW d \in Nat, NEW e \in Nat,
           (2 * a + 1) * Pow2[d] = (2 * b + 1) * Pow2[e]
    PROVE  d = e /\ a = b
<1>1. ASSUME NEW x \in Nat, NEW y \in Nat, NEW i \in Nat, NEW j \in Nat, i < j,
             (2 * x + 1) * Pow2[i] = (2 * y + 1) * Pow2[j]
      PROVE  FALSE
  <2>1. PICK k \in Nat : (i + 1) + k = j
    <3>1. j - (i + 1) \in Nat /\ (i + 1) + (j - (i + 1)) = j
      BY <1>1
    <3> QED
      BY <3>1
  <2>2. PICK p \in Nat \ {0} : p = Pow2[i] /\ Pow2[i + 1] = 2 * p
    BY Pow2Value
  <2>3. PICK s \in Nat : s = Pow2[k]
    BY Pow2Value
  <2>4. Pow2[j] = (2 * p) * s
    <3>1. Pow2[(i + 1) + k] = Pow2[i + 1] * Pow2[k]
      BY Pow2Sum
    <3> QED
      BY <2>1, <2>2, <2>3, <3>1
  <2>5. (2 * y + 1) * ((2 * p) * s) = (2 * ((2 * y + 1) * s)) * p
    OBVIOUS
  <2>6. PICK z \in Nat : z = (2 * y + 1) * s
    BY <2>3
  <2>7. (2 * x + 1) * p = (2 * z) * p
    BY <1>1, <2>2, <2>4, <2>5, <2>6
  <2>8. 2 * x + 1 = 2 * z
    <3>1. ASSUME NEW u \in Nat, NEW v \in Nat, u < v PROVE u * p < v * p
      BY <3>1
    <3>2. 2 * x + 1 \in Nat /\ 2 * z \in Nat
      OBVIOUS
    <3> QED
      BY <2>7, <3>1, <3>2
  <2> QED
    BY <2>8
<1>2. d = e
  <2>1. ~(d < e)
    BY <1>1
  <2>2. ~(e < d)
    BY <1>1
  <2> QED
    BY <2>1, <2>2
<1>3. PICK p \in Nat \ {0} : p = Pow2[d]
  BY Pow2Value
<1>4. (2 * a + 1) * p = (2 * b + 1) * p
  BY <1>2, <1>3
<1>5. 2 * a + 1 = 2 * b + 1
  <2>1. ASSUME NEW u \in Nat, NEW v \in Nat, u < v PROVE u * p < v * p
    BY <2>1
  <2>2. 2 * a + 1 \in Nat /\ 2 * b + 1 \in Nat
    OBVIOUS
  <2> QED
    BY <1>4, <2>1, <2>2
<1> QED
  BY <1>2, <1>5

\* A single leaf is a subtree of level 0.
LEMMA FrameOne ==
    ASSUME NEW N \in Nat, NEW lo, NEW K, Frame(N, lo, 1, K)
    PROVE  K = 0
<1>1. K \in Nat /\ (K = 0 \/ Pow2[K] < 2)
  BY DEF Frame
<1>2. CASE K # 0
  <2>1. PICK e \in Nat : K = e + 1
    <3>1. K - 1 \in Nat /\ K = (K - 1) + 1
      BY <1>1, <1>2
    <3> QED
      BY <3>1
  <2>2. PICK p \in Nat \ {0} : Pow2[e + 1] = 2 * p
    BY Pow2Value
  <2> QED
    BY <1>1, <1>2, <2>1, <2>2
<1> QED
  BY <1>2

\* Leaf x is in the left or the right part of the n leaves after lo, a subtree of level
\* e + 1; the right part has level k.
InLeft(N, lo, n, e, x) == Frame(N, lo, n, e + 1) /\ Pow2[e] < n /\ lo <= x /\ x < lo + Pow2[e]
InRight(N, lo, n, e, k, x) ==
    /\ Frame(N, lo, n, e + 1) /\ k <= e /\ Frame(N, lo + Pow2[e], n - Pow2[e], k)
    /\ lo + Pow2[e] <= x /\ x < lo + n

\* The walk is k levels above the leaves x and y.
Between(x, y, k, w) == Above(x, k, w.fn) /\ Above(y, k, w.sn)

\* The step from w to v takes it to that level, with the sibling c on this side.
ToRight(x, y, k, w, c, v) ==
    /\ w.sn # 0 /\ v.ok = w.ok /\ Between(x, y, k, v)
    /\ v.fr = w.fr /\ v.sr = NodeHash(w.sr, c)
ToLeft(x, y, k, w, c, v) ==
    /\ w.sn # 0 /\ v.ok = w.ok /\ Between(x, y, k, v)
    /\ v.fr = NodeHash(c, w.fr) /\ v.sr = NodeHash(c, w.sr)

\* A walk at the node of a subtree goes on to the node of the subtree that has it, from
\* its right part with the sibling on the left, from its left part with it on the right.
LEMMA AscendRight ==
    ASSUME NEW N \in Nat, NEW lo, NEW n, NEW e \in Nat, NEW k \in Nat, NEW x \in Nat,
           InRight(N, lo, n, e, k, x), NEW y \in Nat, y = N - 1, NEW w, NEW c, Between(x, y, k, w)
    PROVE  ToLeft(x, y, e + 1, w, c, Step(w, c))
<1>0. /\ Frame(N, lo, n, e + 1) /\ k <= e /\ Frame(N, lo + Pow2[e], n - Pow2[e], k)
      /\ lo + Pow2[e] <= x /\ x < lo + n /\ Above(x, k, w.fn) /\ Above(y, k, w.sn)
  BY DEF InRight, Between
<1>1. /\ n \in Nat \ {0} /\ lo \in Nat /\ lo + n <= N
      /\ n = Pow2[e + 1] \/ lo + n = N
  BY <1>0 DEF Frame
<1>2. PICK j \in Nat : lo = j * Pow2[e + 1]
  BY <1>0 DEF Frame
<1>3. PICK p \in Nat \ {0} : p = Pow2[e] /\ Pow2[e + 1] = 2 * p
  BY Pow2Value
<1>4. PICK q \in Nat \ {0} : q = Pow2[k]
  BY Pow2Value
<1>5. lo = j * (2 * p)
  BY <1>2, <1>3
<1>18. n = 2 * p \/ lo + n = N
  BY <1>1, <1>3
<1>6. PICK a \in Nat, b \in Nat \ {0} : a = lo + p /\ b = n - p /\ b <= q /\ (b = q \/ a + b = N)
  <2>1. n - p \in Nat \ {0} /\ n - p <= q /\ (n - p = q \/ (lo + p) + (n - p) = N)
    BY <1>0, <1>3, <1>4 DEF Frame
  <2> QED
    BY <1>1, <2>1
<1>7. x < N /\ x <= y /\ a <= x /\ x < a + b /\ a + b = lo + n
  <2>1. a + b = lo + n
    BY <1>1, <1>6
  <2>2. a <= x
    BY <1>0, <1>3, <1>6
  <2> QED
    BY <1>0, <1>1, <2>1, <2>2
<1>8. Frame(N, a, b, k)
  BY <1>0, <1>3, <1>6
<1>9. w.fn \in Nat /\ w.fn * q = a
  BY <1>0, <1>4, <1>7, <1>8, FrameAbove
<1>10. w.sn \in Nat /\ w.fn <= w.sn /\ w.sn * q <= y /\ y < (w.sn + 1) * q
  <2>1. w.fn <= w.sn
    BY <1>0, <1>7, AboveOrder
  <2> QED
    BY <1>0, <1>4, <2>1 DEF Above
<1>11. w.fn # 0 /\ w.sn # 0
  <2>1. a # 0
    BY <1>1, <1>6
  <2>2. w.fn # 0
    BY <1>9, <2>1
  <2>3. w.fn \in Nat /\ w.sn \in Nat /\ w.fn <= w.sn
    BY <1>9, <1>10
  <2> QED
    BY <2>2, <2>3
<1>12. PICK v : v = Step(w, c)
  OBVIOUS
<1>13. PICK d \in Nat : /\ k <= d /\ v.ok = w.ok
                        /\ Above(x, d + 1, v.fn) /\ Above(y, d + 1, v.sn)
                        /\ (JoinsRight(w, c, v, k, d) \/ JoinsLeft(w, c, v, k, d))
  BY <1>0, <1>7, <1>11, <1>12, Climbs
<1>14. PICK h \in Nat : h = v.fn
  BY <1>13 DEF Above
<1>15. a = (2 * j + 1) * p
  BY <1>5, <1>6
<1>16. CASE JoinsLeft(w, c, v, k, d)
  <2>1. w.fn = 2 * h /\ w.fn < w.sn
    BY <1>14, <1>16 DEF JoinsLeft
  <2>2. (w.fn + 1) * q <= w.sn * q
    BY <1>9, <1>10, <2>1
  <2>3. a + q <= y
    BY <1>9, <1>10, <2>2
  <2>4. a + b # N
    BY <1>6, <2>3
  <2>5. p = q
    BY <1>1, <1>6, <1>7, <1>18, <2>4
  <2>6. (2 * h) * q = (2 * j + 1) * q
    BY <1>9, <1>15, <2>1, <2>5
  <2>7. 2 * h = 2 * j + 1
    <3>1. ASSUME NEW u \in Nat, NEW z \in Nat, u < z PROVE u * q < z * q
      BY <3>1
    <3>2. 2 * h \in Nat /\ 2 * j + 1 \in Nat
      OBVIOUS
    <3> QED
      BY <2>6, <3>1, <3>2
  <2> QED
    BY <2>7
<1>17. CASE JoinsRight(w, c, v, k, d)
  <2>1. v.fr = NodeHash(c, w.fr) /\ v.sr = NodeHash(c, w.sr) /\ w.fn * Pow2[k] = (2 * h + 1) * Pow2[d]
    BY <1>14, <1>17 DEF JoinsRight
  <2>2. (2 * j + 1) * Pow2[e] = (2 * h + 1) * Pow2[d]
    BY <1>3, <1>4, <1>9, <1>15, <2>1
  <2>3. e = d
    BY <2>2, OddPart
  <2> QED
    BY <1>11, <1>12, <1>13, <2>1, <2>3 DEF ToLeft, Between
<1> QED
  BY <1>13, <1>16, <1>17

\* The same from the left part, whose sibling is on the right.
LEMMA AscendLeft ==
    ASSUME NEW N \in Nat, NEW lo, NEW n, NEW e \in Nat, NEW x \in Nat, InLeft(N, lo, n, e, x),
           NEW y \in Nat, y = N - 1, NEW w, NEW c, Between(x, y, e, w)
    PROVE  ToRight(x, y, e + 1, w, c, Step(w, c))
<1>0. /\ Frame(N, lo, n, e + 1) /\ Pow2[e] < n /\ lo <= x /\ x < lo + Pow2[e]
      /\ Above(x, e, w.fn) /\ Above(y, e, w.sn)
  BY DEF InLeft, Between
<1>1. n \in Nat \ {0} /\ lo \in Nat /\ lo + n <= N
  BY <1>0 DEF Frame
<1>2. PICK j \in Nat : lo = j * Pow2[e + 1]
  BY <1>0 DEF Frame
<1>3. PICK p \in Nat \ {0} : p = Pow2[e] /\ Pow2[e + 1] = 2 * p
  BY Pow2Value
<1>4. lo = (2 * j) * p /\ lo <= x /\ x < lo + p /\ p < n /\ lo + p <= y /\ x <= y
  BY <1>0, <1>1, <1>2, <1>3
<1>5. w.fn \in Nat /\ w.fn = 2 * j
  <2>1. 2 * j \in Nat /\ (2 * j) * p <= x /\ x < (2 * j + 1) * p
    BY <1>4
  <2>2. Above(x, e, 2 * j)
    BY <1>3, <2>1 DEF Above
  <2>3. w.fn = 2 * j
    BY <1>0, <2>2, AboveOne
  <2> QED
    BY <2>1, <2>3
<1>6. w.sn \in Nat /\ w.fn < w.sn
  <2>1. w.sn \in Nat /\ y < (w.sn + 1) * p
    BY <1>0, <1>3 DEF Above
  <2>2. ASSUME NEW u \in Nat, NEW z \in Nat, u <= z PROVE (u + 1) * p <= (z + 1) * p
    BY <2>2
  <2>3. ~(w.sn <= w.fn)
    <3>1. (w.fn + 1) * p = lo + p
      BY <1>4, <1>5
    <3> QED
      BY <1>4, <1>5, <2>1, <2>2, <3>1
  <2> QED
    BY <1>5, <2>1, <2>3
<1>7. PICK v : v = Step(w, c)
  OBVIOUS
<1>8. w.sn # 0
  BY <1>5, <1>6
<1>9. PICK d \in Nat : /\ e <= d /\ v.ok = w.ok
                       /\ Above(x, d + 1, v.fn) /\ Above(y, d + 1, v.sn)
                       /\ (JoinsRight(w, c, v, e, d) \/ JoinsLeft(w, c, v, e, d))
  BY <1>0, <1>4, <1>7, <1>8, Climbs
<1>10. PICK h \in Nat : h = v.fn
  BY <1>9 DEF Above
<1>11. CASE JoinsRight(w, c, v, e, d)
  <2>1. d = e /\ w.fn * p = (2 * h + 1) * p
    BY <1>3, <1>5, <1>6, <1>10, <1>11 DEF JoinsRight
  <2>2. (2 * j) * p = (2 * h + 1) * p
    BY <1>5, <2>1
  <2>3. 2 * j = 2 * h + 1
    <3>1. ASSUME NEW u \in Nat, NEW z \in Nat, u < z PROVE u * p < z * p
      BY <3>1
    <3>2. 2 * j \in Nat /\ 2 * h + 1 \in Nat
      OBVIOUS
    <3> QED
      BY <2>2, <3>1, <3>2
  <2> QED
    BY <2>3
<1>12. CASE JoinsLeft(w, c, v, e, d)
  <2>1. d = e /\ v.fr = w.fr /\ v.sr = NodeHash(w.sr, c)
    BY <1>12 DEF JoinsLeft
  <2> QED
    BY <1>7, <1>8, <1>9, <2>1 DEF ToRight, Between
<1> QED
  BY <1>9, <1>11, <1>12

\* A walk with no proof stays where it starts, and one more node is one more step.
LEMMA WalkEmpty ==
    ASSUME NEW fn, NEW sn, NEW h
    PROVE  Walk(fn, sn, h, <<>>) = [fn |-> fn, sn |-> sn, fr |-> h, sr |-> h, ok |-> TRUE]
<1>1. PICK W : Stepped(W, fn, sn, h, <<>>) /\ Walk(fn, sn, h, <<>>) = W[0]
  BY WalkSteps
<1> QED
  BY <1>1 DEF Stepped

\* A walk along a longer audit path has one more step.
LEMMA WalkAppend ==
    ASSUME NEW S, NEW p \in Seq(S), NEW c \in S, NEW fn, NEW sn, NEW h
    PROVE  Walk(fn, sn, h, Append(p, c)) = Step(Walk(fn, sn, h, p), c)
<1>1. PICK L \in Nat : L = Len(p)
  OBVIOUS
<1>2. PICK q : q = Append(p, c)
  OBVIOUS
<1>3. L + 1 = Len(q) /\ q[L + 1] = c /\ \A i \in 1..L : q[i] = p[i]
  BY <1>1, <1>2
<1>4. PICK W : Stepped(W, fn, sn, h, p) /\ Walk(fn, sn, h, p) = W[L]
  BY <1>1, WalkSteps
<1>5. PICK V : Stepped(V, fn, sn, h, q) /\ Walk(fn, sn, h, q) = V[L + 1]
  BY <1>3, WalkSteps, SMTT(30)
<1> DEFINE Good == {i \in Nat : i <= L => W[i] = V[i]}
<1>6. ASSUME NEW i \in Nat, 0..(i-1) \subseteq Good
      PROVE  i <= L => W[i] = V[i]
  <2>1. CASE i = 0
    BY <1>4, <1>5, <2>1 DEF Stepped
  <2>2. CASE i # 0 /\ i <= L
    <3>1. i \in 1..L /\ i \in 1..(L + 1) /\ i - 1 \in 0..(i-1) /\ i - 1 <= L
      BY <2>2
    <3>2. W[i - 1] = V[i - 1]
      BY <1>6, <3>1
    <3>3. W[i] = Step(W[i - 1], p[i])
      BY <1>1, <1>4, <3>1 DEF Stepped
    <3>4. V[i] = Step(V[i - 1], q[i])
      BY <1>3, <1>5, <3>1 DEF Stepped
    <3>5. q[i] = p[i]
      BY <1>3, <3>1
    <3> QED
      BY <3>2, <3>3, <3>4, <3>5
  <2> QED
    BY <2>1, <2>2
<1>7. \A i \in Nat : 0..(i-1) \subseteq Good => i \in Good
  BY <1>6
<1>8. W[L] = V[L]
  <2>1. L \in Good
    <3> HIDE DEF Good
    <3> QED
      BY <1>7, Induction
  <2> QED
    BY <2>1
<1>9. V[L + 1] = Step(V[L], c)
  <2>1. L + 1 \in 1..Len(q) /\ (L + 1) - 1 = L
    BY <1>3
  <2>2. V[L + 1] = Step(V[(L + 1) - 1], q[L + 1])
    BY <1>5, <2>1 DEF Stepped
  <2> QED
    BY <1>3, <2>1, <2>2
<1> QED
  BY <1>2, <1>4, <1>5, <1>8, <1>9

\* The walk with proof from leaf m is at the node of the n leaves after lo, of level K.
Reaches(ls, m, y, proof, K, lo, n) ==
    LET w == Walk(m, y, ls[m + 1], proof)
    IN  w.ok /\ Above(m, K, w.fn) /\ Above(y, K, w.sn) /\ w.sr = Over(ls, lo, lo + n)

\* The hashes of the runs of leaves.
Runs(ls) == {Over(ls, a, b) : a, b \in 0..Len(ls)}

\* V has the audit paths of m in the subtrees.
PathsOf(ls, m, N, V) == \A n \in 1..N : \A lo \in 0..(N-n) : V[n][lo] = Audited(ls, m, V, n, lo)

\* The tree of ls has N leaves, the last of them y.
Sized(ls, N, y) == N = Len(ls) /\ y = N - 1

\* Leaf m is among the n leaves after a, a subtree of level k.
LeafIn(N, m, a, n, k) == Frame(N, a, n, k) /\ a <= m /\ m < a + n

\* The audit path in that subtree takes the walk to it.
Climbed(ls, m, y, V, k, a, n) == V[n][a] \in Seq(Runs(ls)) /\ Reaches(ls, m, y, V[n][a], k, a, n)

\* The empty path is at the leaf itself.
LEMMA PathOfLeaf ==
    ASSUME NEW S, NEW ls \in Seq(S), NEW N \in Nat, NEW m \in Nat, NEW y \in Nat, Sized(ls, N, y),
           NEW V, PathsOf(ls, m, N, V), NEW k \in Nat, LeafIn(N, m, m, 1, k)
    PROVE  Climbed(ls, m, y, V, k, m, 1)
<1>1. Frame(N, m, 1, k) /\ m + 1 <= N
  BY DEF LeafIn, Frame
<1>2. k = 0
  BY <1>1, FrameOne
<1>3. V[1][m] = <<>>
  <2>1. 1 \in 1..N /\ m \in 0..(N-1)
    BY <1>1
  <2>2. V[1][m] = Audited(ls, m, V, 1, m)
    BY <2>1 DEF PathsOf
  <2> QED
    BY <2>2 DEF Audited
<1>4. PICK w : w = Walk(m, y, ls[m + 1], <<>>)
  OBVIOUS
<1>5. w.fn = m /\ w.sn = y /\ w.sr = ls[m + 1] /\ w.ok
  <2>1. w = [fn |-> m, sn |-> y, fr |-> ls[m + 1], sr |-> ls[m + 1], ok |-> TRUE]
    BY <1>4, WalkEmpty
  <2> QED
    BY <2>1
<1>6. Over(ls, m, m + 1) = ls[m + 1]
  <2>1. m < Len(ls)
    BY <1>1 DEF Sized
  <2> QED
    BY <2>1, OverLeaf
<1>7. Above(m, 0, m) /\ Above(y, 0, y)
  <2>1. Pow2[0] = 1
    BY Pow2Value
  <2>2. m * 1 <= m /\ m < (m + 1) * 1 /\ y * 1 <= y /\ y < (y + 1) * 1
    OBVIOUS
  <2> QED
    BY <2>1, <2>2 DEF Above
<1>8. Reaches(ls, m, y, <<>>, 0, m, 1)
  BY <1>4, <1>5, <1>6, <1>7 DEF Reaches
<1>9. <<>> \in Seq(Runs(ls))
  OBVIOUS
<1> QED
  BY <1>2, <1>3, <1>8, <1>9 DEF Climbed

\* How a path goes on, from the left or the right part of a subtree.
LEMMA PathRises ==
    ASSUME NEW S, NEW ls \in Seq(S), NEW N \in Nat, NEW m \in Nat, NEW y \in Nat, Sized(ls, N, y),
           NEW s \in Seq(Runs(ls)),
           NEW a \in Nat, NEW n \in Nat, a + n <= N, NEW e \in Nat, Splits(n, e), NEW k \in Nat
    PROVE  /\ Reaches(ls, m, y, s, e, a, Pow2[e]) /\ InLeft(N, a, n, e, m) =>
                LET c == Over(ls, a + Pow2[e], a + n)
                IN  Append(s, c) \in Seq(Runs(ls)) /\ Reaches(ls, m, y, Append(s, c), e + 1, a, n)
           /\ Reaches(ls, m, y, s, k, a + Pow2[e], n - Pow2[e]) /\ InRight(N, a, n, e, k, m) =>
                LET c == Over(ls, a, a + Pow2[e])
                IN  Append(s, c) \in Seq(Runs(ls)) /\ Reaches(ls, m, y, Append(s, c), e + 1, a, n)
<1>0. PICK p \in Nat : p = Pow2[e]
  BY Pow2Value
<1>1. N = Len(ls) /\ y = N - 1
  BY DEF Sized
<1>2. p < n /\ n <= 2 * p
  BY <1>0 DEF Splits
<1>3. PICK w : w = Walk(m, y, ls[m + 1], s)
  OBVIOUS
<1>4. \A i, j \in 0..Len(ls) : Over(ls, i, j) \in Runs(ls)
  BY DEF Runs
<1>5. a \in 0..Len(ls) /\ a + p \in 0..Len(ls) /\ a + n \in 0..Len(ls)
  <2>1. a \in 0..N /\ a + p \in 0..N /\ a + n \in 0..N
    BY <1>2
  <2> QED
    BY <1>1, <2>1
<1>6. Over(ls, a, a + n) = NodeHash(Over(ls, a, a + p), Over(ls, a + p, a + n))
  <2>1. PICK z \in Nat : z = a + n
    OBVIOUS
  <2>2. z <= Len(ls) /\ a + p < z /\ z <= a + 2 * p
    BY <1>1, <1>2, <2>1
  <2> QED
    BY <1>0, <2>1, <2>2, OverSplit
<1>7. ASSUME NEW c \in Runs(ls)
      PROVE  Append(s, c) \in Seq(Runs(ls)) /\ Walk(m, y, ls[m + 1], Append(s, c)) = Step(w, c)
  <2>1. PICK D : D = Runs(ls)
    OBVIOUS
  <2>2. s \in Seq(D) /\ c \in D
    BY <2>1
  <2> QED
    BY <1>3, <2>1, <2>2, WalkAppend
<1>8. ASSUME Reaches(ls, m, y, s, e, a, p), InLeft(N, a, n, e, m), NEW c, c = Over(ls, a + p, a + n)
      PROVE  Append(s, c) \in Seq(Runs(ls)) /\ Reaches(ls, m, y, Append(s, c), e + 1, a, n)
  <2>1. w.ok /\ Between(m, y, e, w) /\ w.sr = Over(ls, a, a + p)
    BY <1>3, <1>8 DEF Reaches, Between
  <2>2. PICK v : v = Step(w, c)
    OBVIOUS
  <2>3. ToRight(m, y, e + 1, w, c, v)
    BY <1>1, <1>8, <2>1, <2>2, AscendLeft
  <2>4. v.ok /\ Between(m, y, e + 1, v) /\ v.sr = Over(ls, a, a + n)
    BY <1>6, <1>8, <2>1, <2>3 DEF ToRight
  <2>5. c \in Runs(ls)
    BY <1>4, <1>5, <1>8
  <2>6. Walk(m, y, ls[m + 1], Append(s, c)) = v /\ Append(s, c) \in Seq(Runs(ls))
    BY <1>7, <2>2, <2>5
  <2> QED
    BY <2>4, <2>6 DEF Reaches, Between
<1>9. ASSUME Reaches(ls, m, y, s, k, a + p, n - p), InRight(N, a, n, e, k, m), NEW c, c = Over(ls, a, a + p)
      PROVE  Append(s, c) \in Seq(Runs(ls)) /\ Reaches(ls, m, y, Append(s, c), e + 1, a, n)
  <2>0. (a + p) + (n - p) = a + n
    OBVIOUS
  <2>1. w.ok /\ Between(m, y, k, w) /\ w.sr = Over(ls, a + p, a + n)
    BY <1>3, <1>9, <2>0 DEF Reaches, Between
  <2>2. PICK v : v = Step(w, c)
    OBVIOUS
  <2>3. ToLeft(m, y, e + 1, w, c, v)
    BY <1>1, <1>9, <2>1, <2>2, AscendRight
  <2>4. v.ok /\ Between(m, y, e + 1, v) /\ v.sr = Over(ls, a, a + n)
    BY <1>6, <1>9, <2>1, <2>3 DEF ToLeft
  <2>5. c \in Runs(ls)
    BY <1>4, <1>5, <1>9
  <2>6. Walk(m, y, ls[m + 1], Append(s, c)) = v /\ Append(s, c) \in Seq(Runs(ls))
    BY <1>7, <2>2, <2>5
  <2> QED
    BY <2>4, <2>6 DEF Reaches, Between
<1> QED
  BY <1>0, <1>8, <1>9

\* So the path in every subtree takes the walk to that subtree.
LEMMA AuditedReaches ==
    ASSUME NEW S, NEW ls \in Seq(S), NEW N \in Nat, NEW m \in Nat, NEW y \in Nat, Sized(ls, N, y),
           NEW V, PathsOf(ls, m, N, V), NEW n \in Nat, NEW lo \in Nat, NEW K \in Nat, LeafIn(N, m, lo, n, K)
    PROVE  Climbed(ls, m, y, V, K, lo, n)
<1> DEFINE Good == {i \in Nat : \A a \in Nat : \A k \in Nat : LeafIn(N, m, a, i, k) => Climbed(ls, m, y, V, k, a, i)}
<1>1. ASSUME NEW i \in Nat, 0..(i-1) \subseteq Good, NEW a \in Nat, NEW k \in Nat, LeafIn(N, m, a, i, k)
      PROVE  Climbed(ls, m, y, V, k, a, i)
  <2>1. Frame(N, a, i, k) /\ a <= m /\ m < a + i
    BY <1>1 DEF LeafIn
  <2>2. i \in Nat \ {0} /\ a + i <= N
    BY <2>1 DEF Frame
  <2>3. CASE i = 1
    <3>1. a = m
      BY <2>1, <2>3
    <3> QED
      BY <1>1, <2>3, <3>1, PathOfLeaf
  <2>4. CASE i # 1
    <3>1. PICK e \in Nat : FrameParts(N, a, i, k, e)
      BY <2>1, <2>4, FrameSplit
    <3>2. k = e + 1 /\ Splits(i, e) /\ LargestPow2(i) = Pow2[e] /\ Frame(N, a, Pow2[e], e)
      BY <3>1 DEF FrameParts
    <3>3. PICK d \in Nat : d <= e /\ Frame(N, a + Pow2[e], i - Pow2[e], d)
      BY <3>1 DEF FrameParts
    <3>4. PICK p \in Nat \ {0} : p = Pow2[e] /\ p < i
      BY <3>2, Pow2Value DEF Splits
    <3>5. /\ p \in 0..(i-1) /\ i - p \in Nat /\ i - p \in 0..(i-1) /\ a + p \in Nat
          /\ (a + p) + (i - p) = a + i /\ (a + i) - (a + p) = i - p /\ (a + p) - a = p
      <4>1. i \in Nat /\ p \in Nat \ {0} /\ p < i
        BY <3>4
      <4>2. p \in 0..(i-1) /\ i - p \in Nat /\ i - p \in 0..(i-1)
        BY <4>1
      <4>3. a + p \in Nat /\ (a + p) + (i - p) = a + i /\ (a + i) - (a + p) = i - p /\ (a + p) - a = p
        BY <4>1
      <4> QED
        BY <4>2, <4>3
    <3>6. V[i][a] = IF m < a + p THEN Append(V[p][a], Over(ls, a + p, a + i))
                    ELSE Append(V[i - p][a + p], Over(ls, a, a + p))
      <4>1. i \in 1..N /\ a \in 0..(N-i)
        BY <2>2
      <4>2. V[i][a] = Audited(ls, m, V, i, a)
        BY <4>1 DEF PathsOf
      <4>3. Subtree(ls)[i - p][a + p] = Over(ls, a + p, a + i) /\ Subtree(ls)[p][a] = Over(ls, a, a + p)
        BY <3>5 DEF Over
      <4> QED
        BY <2>4, <3>2, <3>4, <4>2, <4>3 DEF Audited
    <3>7. CASE m < a + p
      <4>1. LeafIn(N, m, a, p, e)
        BY <2>1, <3>2, <3>4, <3>7 DEF LeafIn
      <4>2. p \in Good
        BY <1>1, <3>5
      <4>3. V[p][a] \in Seq(Runs(ls)) /\ Reaches(ls, m, y, V[p][a], e, a, Pow2[e])
        BY <3>4, <4>1, <4>2 DEF Climbed
      <4>4. InLeft(N, a, i, e, m)
        BY <2>1, <3>2, <3>4, <3>7 DEF InLeft
      <4>5. PICK s, c : s = V[p][a] /\ c = Over(ls, a + Pow2[e], a + i) /\ Append(s, c) = V[i][a]
        BY <3>4, <3>6, <3>7
      <4>6. Append(s, c) \in Seq(Runs(ls)) /\ Reaches(ls, m, y, Append(s, c), e + 1, a, i)
        BY <2>2, <3>2, <4>3, <4>4, <4>5, PathRises
      <4> QED
        BY <3>2, <4>5, <4>6 DEF Climbed
    <3>8. CASE ~(m < a + p)
      <4>0. a + p <= m /\ m < (a + p) + (i - p) /\ m < a + i
        BY <2>1, <3>5, <3>8
      <4>1. LeafIn(N, m, a + p, i - p, d)
        BY <3>3, <3>4, <4>0 DEF LeafIn
      <4>2. i - p \in Good
        BY <1>1, <3>5
      <4>3. V[i - p][a + p] \in Seq(Runs(ls)) /\ Reaches(ls, m, y, V[i - p][a + p], d, a + Pow2[e], i - Pow2[e])
        BY <3>4, <3>5, <4>1, <4>2 DEF Climbed
      <4>4. InRight(N, a, i, e, d, m)
        BY <2>1, <3>2, <3>3, <3>4, <4>0 DEF InRight
      <4>5. PICK s, c : s = V[i - p][a + p] /\ c = Over(ls, a, a + Pow2[e]) /\ Append(s, c) = V[i][a]
        BY <3>4, <3>6, <3>8
      <4>6. Append(s, c) \in Seq(Runs(ls)) /\ Reaches(ls, m, y, Append(s, c), e + 1, a, i)
        BY <2>2, <3>2, <4>3, <4>4, <4>5, PathRises
      <4> QED
        BY <3>2, <4>5, <4>6 DEF Climbed
    <3> QED
      BY <3>7, <3>8
  <2> QED
    BY <2>3, <2>4
<1>2. \A i \in Nat : 0..(i-1) \subseteq Good => i \in Good
  BY <1>1
<1>3. n \in Good
  <2> HIDE DEF Good
  <2> QED
    BY <1>2, Induction
<1> QED
  BY <1>3

\* The audit path of a leaf is accepted: verify_inclusion of merkle.py takes what
\* inclusion_proof yields, at every size and for every index.
THEOREM InclusionComplete ==
    ASSUME NEW S, NEW ls \in Seq(S), NEW m \in 0..Len(ls)-1
    PROVE  /\ InclusionProof(ls, m) \in Seq(Runs(ls))
           /\ VerifyInclusion(m, Len(ls), ls[m + 1], InclusionProof(ls, m), TreeHash(ls))
<1>1. PICK N \in Nat \ {0} : N = Len(ls)
  OBVIOUS
<1>2. PICK y \in Nat : y = N - 1
  BY <1>1
<1>3. PICK V : /\ InclusionProof(ls, m) = V[N][0]
               /\ PathsOf(ls, m, N, V)
  BY <1>1, PathValue DEF PathsOf
<1>4. PICK K \in Nat : Frame(N, 0, N, K)
  BY FrameTop
<1>5. V[N][0] \in Seq(Runs(ls)) /\ Reaches(ls, m, y, V[N][0], K, 0, N)
  <2>1. LeafIn(N, m, 0, N, K)
    BY <1>1, <1>4 DEF LeafIn
  <2>2. Sized(ls, N, y)
    BY <1>1, <1>2 DEF Sized
  <2> QED
    BY <1>3, <2>1, <2>2, AuditedReaches DEF Climbed
<1>6. PICK w : w = Walk(m, y, ls[m + 1], V[N][0])
  OBVIOUS
<1>7. w.ok /\ Above(y, K, w.sn) /\ w.sr = Over(ls, 0, 0 + N)
  BY <1>5, <1>6 DEF Reaches
<1>8. w.sn = 0
  <2>1. w.sn \in Nat /\ w.sn * Pow2[K] = 0
    BY <1>2, <1>4, <1>7, FrameAbove
  <2>2. PICK q \in Nat \ {0} : q = Pow2[K]
    BY Pow2Value
  <2> QED
    BY <2>1, <2>2
<1>9. TreeHash(ls) = Over(ls, 0, 0 + N)
  BY <1>1, TreeIsOver
<1>10. Len(ls) - 1 = y /\ 0 <= m /\ m < Len(ls)
  BY <1>1, <1>2
<1>11. VerifyInclusion(m, Len(ls), ls[m + 1], V[N][0], TreeHash(ls))
  BY <1>6, <1>7, <1>8, <1>9, <1>10 DEF VerifyInclusion
<1> QED
  BY <1>3, <1>5, <1>11

\* What the first node in front of a proof does to it.
LEMMA Prepended ==
    ASSUME NEW S, NEW b \in S, NEW q \in Seq(S), NEW c \in S
    PROVE  /\ <<b>> \o q \in Seq(S) /\ <<b>> \o q # <<>> /\ (<<b>> \o q)[1] = b /\ Tail(<<b>> \o q) = q
           /\ Append(<<b>> \o q, c) = <<b>> \o Append(q, c)
<1>1. PICK r : r = <<b>> \o q
  OBVIOUS
<1>2. r \in Seq(S) /\ Len(r) = Len(q) + 1 /\ r[1] = b /\ \A i \in 1..Len(q) : r[i + 1] = q[i]
  BY <1>1
<1>3. r # <<>>
  BY <1>2
<1>4. Tail(r) = q
  <2>1. Tail(r) \in Seq(S) /\ Len(Tail(r)) = Len(q) /\ \A i \in 1..Len(q) : Tail(r)[i] = q[i]
    BY <1>2, <1>3
  <2> QED
    BY <2>1
<1>5. Append(r, c) = <<b>> \o Append(q, c)
  BY <1>1
<1> QED
  BY <1>1, <1>2, <1>3, <1>4, <1>5

\* V has the proofs of _subproof for the old tree of m leaves, in the subtrees.
SubproofsOf(ls, m, N, V) == \A n \in 1..N : \A lo \in 0..(N-n) : V[n][lo] = Subproof(ls, m, V, n, lo)

\* The state of the consistency walk along q, from the subtree b of level t that ends the
\* old tree.
Onward(m, y, t, b, q) == Walk((m - 1) \div Pow2[t], y \div Pow2[t], b, q)

\* That walk is at the node of the n leaves after lo, of level K.
Keeps(ls, m, y, t, b, q, K, lo, n) ==
    LET w == Onward(m, y, t, b, q)
    IN  /\ w.ok /\ Between(m - 1, y, K, w)
        /\ w.fr = Over(ls, lo, m) /\ w.sr = Over(ls, lo, lo + n)

\* The proof s is q, after the subtree b unless that is the whole old tree.
Continues(ls, m, t, b, s, q) ==
    q \in Seq(Runs(ls)) /\ s = IF m = Pow2[t] THEN q ELSE <<b>> \o q

\* b is the largest complete subtree that ends the old tree, of level t.
OldEnd(ls, m, t, b) ==
    /\ \E h \in Nat : m = (2 * h + 1) * Pow2[t]
    /\ b = Over(ls, m - Pow2[t], m)

\* How the walk starts: with the left part of a subtree that the old tree fills.
LEMMA SubproofStarts ==
    ASSUME NEW S, NEW ls \in Seq(S), NEW N \in Nat, NEW m \in Nat \ {0}, m < N, NEW y \in Nat,
           NEW t \in Nat, NEW b, OldEnd(ls, m, t, b),
           NEW V, SubproofsOf(ls, m, N, V),
           NEW a \in Nat, NEW n \in Nat, NEW e \in Nat, Frame(N, a, n, e + 1), a + Pow2[e] = m
    PROVE  /\ Continues(ls, m, t, b, V[Pow2[e]][a], <<>>)
           /\ Keeps(ls, m, y, t, b, <<>>, e, a, Pow2[e])
<1>1. PICK p \in Nat \ {0} : p = Pow2[e] /\ Pow2[e + 1] = 2 * p
  BY Pow2Value
<1>2. PICK j \in Nat : a = j * (2 * p)
  BY <1>1 DEF Frame
<1>0. PICK h \in Nat : m = (2 * h + 1) * Pow2[t]
  BY DEF OldEnd
<1>3. a + p = m /\ m = (2 * j + 1) * p
  <2>1. j * (2 * p) + p = (2 * j + 1) * p
    OBVIOUS
  <2> QED
    BY <1>1, <1>2, <2>1
<1>4. e = t
  <2>1. (2 * j + 1) * Pow2[e] = (2 * h + 1) * Pow2[t]
    BY <1>0, <1>1, <1>3
  <2> QED
    BY <2>1, OddPart
<1>5. b = Over(ls, a, a + p)
  <2>1. m - p = a
    BY <1>3
  <2> QED
    BY <1>1, <1>3, <1>4, <2>1 DEF OldEnd
<1>6. V[p][a] = IF a = 0 THEN <<>> ELSE <<b>>
  <2>1. p \in 1..N /\ a \in 0..(N-p)
    BY <1>3
  <2>2. V[p][a] = Subproof(ls, m, V, p, a)
    BY <2>1 DEF SubproofsOf
  <2>3. V[p][a] = IF a = 0 THEN <<>> ELSE <<Subtree(ls)[p][a]>>
    BY <1>3, <2>2 DEF Subproof
  <2>4. Subtree(ls)[p][a] = b
    <3>1. (a + p) - a = p
      OBVIOUS
    <3> QED
      BY <1>5, <3>1 DEF Over
  <2> QED
    BY <2>3, <2>4
<1>7. a = 0 <=> m = Pow2[t]
  <2>1. PICK r \in Nat : r = Pow2[t]
    BY <1>1, <1>4
  <2>2. a + r = m
    BY <1>1, <1>3, <1>4, <2>1
  <2>3. a = 0 <=> m = r
    BY <2>2
  <2> QED
    BY <2>1, <2>3
<1>8. Continues(ls, m, t, b, V[p][a], <<>>)
  <2>1. <<>> \in Seq(Runs(ls)) /\ <<b>> \o <<>> = <<b>>
    OBVIOUS
  <2> QED
    BY <1>6, <1>7, <2>1 DEF Continues
<1>9. PICK w : w = Onward(m, y, t, b, <<>>)
  OBVIOUS
<1>10. w.fn = (m - 1) \div Pow2[t] /\ w.sn = y \div Pow2[t] /\ w.fr = b /\ w.sr = b /\ w.ok
  <2>1. PICK fn, sn : fn = (m - 1) \div Pow2[t] /\ sn = y \div Pow2[t]
    OBVIOUS
  <2>2. w = [fn |-> fn, sn |-> sn, fr |-> b, sr |-> b, ok |-> TRUE]
    BY <1>9, <2>1, WalkEmpty DEF Onward
  <2> QED
    BY <2>1, <2>2
<1>11. Between(m - 1, y, e, w)
  <2>1. \A x \in Nat : Above(x, 0, x)
    BY Pow2Value DEF Above
  <2>2. m - 1 \in Nat /\ 0 + t = t
    OBVIOUS
  <2>4. \A x \in Nat : Above(x, t, x \div Pow2[t])
    <3>1. ASSUME NEW x \in Nat PROVE Above(x, t, x \div Pow2[t])
      <4>1. Above(x, 0 + t, x \div Pow2[t])
        BY <2>1, AboveRise
      <4> QED
        BY <2>2, <4>1
    <3> QED
      BY <3>1
  <2>3. Above(m - 1, t, (m - 1) \div Pow2[t]) /\ Above(y, t, y \div Pow2[t])
    BY <2>2, <2>4
  <2> QED
    BY <1>4, <1>10, <2>3 DEF Between
<1>12. Keeps(ls, m, y, t, b, <<>>, e, a, p)
  BY <1>3, <1>5, <1>9, <1>10, <1>11 DEF Keeps
<1> QED
  BY <1>1, <1>8, <1>12

\* How it goes on, from the left or the right part of a subtree.
LEMMA SubproofRises ==
    ASSUME NEW S, NEW ls \in Seq(S), NEW N \in Nat, NEW m \in Nat \ {0}, NEW y \in Nat, Sized(ls, N, y),
           NEW t \in Nat, NEW b \in Runs(ls), NEW s, NEW q, Continues(ls, m, t, b, s, q),
           NEW a \in Nat, NEW n \in Nat, a + n <= N, NEW e \in Nat, Splits(n, e), NEW k \in Nat
    PROVE  /\ Keeps(ls, m, y, t, b, q, e, a, Pow2[e]) /\ InLeft(N, a, n, e, m - 1) =>
                LET c == Over(ls, a + Pow2[e], a + n)
                IN  /\ Continues(ls, m, t, b, Append(s, c), Append(q, c))
                    /\ Keeps(ls, m, y, t, b, Append(q, c), e + 1, a, n)
           /\ Keeps(ls, m, y, t, b, q, k, a + Pow2[e], n - Pow2[e]) /\ InRight(N, a, n, e, k, m - 1) /\ a + Pow2[e] < m =>
                LET c == Over(ls, a, a + Pow2[e])
                IN  /\ Continues(ls, m, t, b, Append(s, c), Append(q, c))
                    /\ Keeps(ls, m, y, t, b, Append(q, c), e + 1, a, n)
<1>0. PICK p \in Nat : p = Pow2[e]
  BY Pow2Value
<1>1. m - 1 \in Nat
  OBVIOUS
<1>10. N = Len(ls) /\ y = N - 1
  BY DEF Sized
<1>11. p < n /\ n <= 2 * p
  <2>1. Pow2[e + 1] = 2 * p
    BY <1>0, Pow2Value
  <2> QED
    BY <1>0, <2>1 DEF Splits
<1>2. q \in Seq(Runs(ls)) /\ s = IF m = Pow2[t] THEN q ELSE <<b>> \o q
  BY DEF Continues
<1>3. PICK w : w = Onward(m, y, t, b, q)
  OBVIOUS
<1>4. \A i, j \in 0..Len(ls) : Over(ls, i, j) \in Runs(ls)
  BY DEF Runs
<1>5. a \in 0..Len(ls) /\ a + p \in 0..Len(ls) /\ a + n \in 0..Len(ls)
  <2>1. a \in 0..N /\ a + p \in 0..N /\ a + n \in 0..N
    BY <1>11
  <2> QED
    BY <1>10, <2>1
<1>6. Over(ls, a, a + n) = NodeHash(Over(ls, a, a + p), Over(ls, a + p, a + n))
  <2>1. PICK z \in Nat : z = a + n
    OBVIOUS
  <2>2. z <= Len(ls) /\ a + p < z /\ z <= a + 2 * p
    BY <1>10, <1>11, <2>1
  <2> QED
    BY <1>0, <2>1, <2>2, OverSplit
<1>7. ASSUME NEW c \in Runs(ls)
      PROVE  /\ Continues(ls, m, t, b, Append(s, c), Append(q, c))
             /\ Onward(m, y, t, b, Append(q, c)) = Step(w, c)
  <2>1. Append(q, c) \in Seq(Runs(ls))
    BY <1>2
  <2>2. Append(<<b>> \o q, c) = <<b>> \o Append(q, c)
    <3>1. PICK D : D = Runs(ls)
      OBVIOUS
    <3>2. q \in Seq(D) /\ b \in D /\ c \in D
      BY <1>2, <3>1
    <3> QED
      BY <3>2, Prepended, SMTT(30)
  <2>3. Onward(m, y, t, b, Append(q, c)) = Step(w, c)
    BY <1>2, <1>3, WalkAppend DEF Onward
  <2> QED
    BY <1>2, <2>1, <2>2, <2>3 DEF Continues
<1>8. ASSUME Keeps(ls, m, y, t, b, q, e, a, p), InLeft(N, a, n, e, m - 1), NEW c, c = Over(ls, a + p, a + n)
      PROVE  Continues(ls, m, t, b, Append(s, c), Append(q, c)) /\ Keeps(ls, m, y, t, b, Append(q, c), e + 1, a, n)
  <2>1. w.ok /\ Between(m - 1, y, e, w) /\ w.fr = Over(ls, a, m) /\ w.sr = Over(ls, a, a + p)
    BY <1>3, <1>8 DEF Keeps
  <2>2. PICK v : v = Step(w, c)
    OBVIOUS
  <2>3. ToRight(m - 1, y, e + 1, w, c, v)
    BY <1>1, <1>8, <1>10, <2>1, <2>2, AscendLeft
  <2>4. v.ok /\ Between(m - 1, y, e + 1, v) /\ v.fr = Over(ls, a, m) /\ v.sr = Over(ls, a, a + n)
    BY <1>6, <1>8, <2>1, <2>3 DEF ToRight
  <2>5. c \in Runs(ls)
    BY <1>4, <1>5, <1>8
  <2>6. Onward(m, y, t, b, Append(q, c)) = v /\ Continues(ls, m, t, b, Append(s, c), Append(q, c))
    BY <1>7, <2>2, <2>5
  <2> QED
    BY <2>4, <2>6 DEF Keeps
<1>9. ASSUME Keeps(ls, m, y, t, b, q, k, a + p, n - p), InRight(N, a, n, e, k, m - 1), a + p < m, NEW c, c = Over(ls, a, a + p)
      PROVE  Continues(ls, m, t, b, Append(s, c), Append(q, c)) /\ Keeps(ls, m, y, t, b, Append(q, c), e + 1, a, n)
  <2>0. (a + p) + (n - p) = a + n
    OBVIOUS
  <2>1. w.ok /\ Between(m - 1, y, k, w) /\ w.fr = Over(ls, a + p, m) /\ w.sr = Over(ls, a + p, a + n)
    BY <1>3, <1>9, <2>0 DEF Keeps
  <2>2. PICK v : v = Step(w, c)
    OBVIOUS
  <2>3. ToLeft(m - 1, y, e + 1, w, c, v)
    BY <1>1, <1>9, <1>10, <2>1, <2>2, AscendRight
  <2>7. Over(ls, a, m) = NodeHash(Over(ls, a, a + p), Over(ls, a + p, m))
    <3>1. m - 1 < a + n /\ a + p < m
      BY <1>0, <1>9 DEF InRight
    <3>2. m <= Len(ls) /\ a + p < m /\ m <= a + 2 * p
      <4>1. m <= a + n
        BY <3>1
      <4> QED
        BY <1>10, <1>11, <3>1, <4>1
    <3> QED
      BY <1>0, <3>2, OverSplit
  <2>4. v.ok /\ Between(m - 1, y, e + 1, v) /\ v.fr = Over(ls, a, m) /\ v.sr = Over(ls, a, a + n)
    BY <1>6, <1>9, <2>1, <2>3, <2>7 DEF ToLeft
  <2>5. c \in Runs(ls)
    BY <1>4, <1>5, <1>9
  <2>6. Onward(m, y, t, b, Append(q, c)) = v /\ Continues(ls, m, t, b, Append(s, c), Append(q, c))
    BY <1>7, <2>2, <2>5
  <2> QED
    BY <2>4, <2>6 DEF Keeps
<1> QED
  BY <1>0, <1>8, <1>9

\* The proof in the subtree of the n leaves after lo, of level K, takes the walk to it.
Arrives(ls, m, y, t, b, V, K, lo, n) ==
    \E q : Continues(ls, m, t, b, V[n][lo], q) /\ Keeps(ls, m, y, t, b, q, K, lo, n)

\* The old tree ends within the n leaves after a, a subtree of level k.
EndsIn(N, m, a, n, k) == Frame(N, a, n, k) /\ a < m /\ m < a + n

\* So the proof in every subtree takes the walk to that subtree.
LEMMA SubproofReaches ==
    ASSUME NEW S, NEW ls \in Seq(S), NEW N \in Nat, NEW m \in Nat \ {0}, m < N, NEW y \in Nat, Sized(ls, N, y),
           NEW t \in Nat, NEW b \in Runs(ls), OldEnd(ls, m, t, b), NEW V, SubproofsOf(ls, m, N, V),
           NEW n \in Nat, NEW lo \in Nat, NEW K \in Nat, EndsIn(N, m, lo, n, K)
    PROVE  Arrives(ls, m, y, t, b, V, K, lo, n)
<1> DEFINE Good == {i \in Nat : \A a \in Nat : \A k \in Nat : EndsIn(N, m, a, i, k) => Arrives(ls, m, y, t, b, V, k, a, i)}
<1>1. ASSUME NEW i \in Nat, 0..(i-1) \subseteq Good, NEW a \in Nat, NEW k \in Nat, EndsIn(N, m, a, i, k)
      PROVE  Arrives(ls, m, y, t, b, V, k, a, i)
  <2>1. Frame(N, a, i, k) /\ a < m /\ m < a + i
    BY <1>1 DEF EndsIn
  <2>2. i \in Nat \ {0} /\ a + i <= N /\ i # 1
    BY <2>1 DEF Frame
  <2>3. PICK e \in Nat : FrameParts(N, a, i, k, e)
    BY <2>1, <2>2, FrameSplit
  <2>4. k = e + 1 /\ Splits(i, e) /\ LargestPow2(i) = Pow2[e] /\ Frame(N, a, Pow2[e], e)
    BY <2>3 DEF FrameParts
  <2>5. PICK d \in Nat : d <= e /\ Frame(N, a + Pow2[e], i - Pow2[e], d)
    BY <2>3 DEF FrameParts
  <2>6. PICK p \in Nat \ {0} : p = Pow2[e] /\ p < i /\ i <= 2 * p
    BY <2>4, Pow2Value DEF Splits
  <2>7. /\ p \in 0..(i-1) /\ i - p \in Nat /\ i - p \in 0..(i-1) /\ a + p \in Nat
        /\ (a + p) + (i - p) = a + i /\ (a + i) - (a + p) = i - p /\ (a + p) - a = p
    <3>1. i \in Nat /\ p \in Nat \ {0} /\ p < i
      BY <2>6
    <3>2. p \in 0..(i-1) /\ i - p \in Nat /\ i - p \in 0..(i-1)
      BY <3>1
    <3>3. a + p \in Nat /\ (a + p) + (i - p) = a + i /\ (a + i) - (a + p) = i - p /\ (a + p) - a = p
      BY <3>1
    <3> QED
      BY <3>2, <3>3
  <2>8. V[i][a] = IF m <= a + p THEN Append(V[p][a], Over(ls, a + p, a + i))
                  ELSE Append(V[i - p][a + p], Over(ls, a, a + p))
    <3>1. i \in 1..N /\ a \in 0..(N-i)
      BY <2>2
    <3>2. V[i][a] = Subproof(ls, m, V, i, a)
      BY <3>1 DEF SubproofsOf
    <3>3. ~(i = 1 \/ a + i = m)
      BY <2>1, <2>2
    <3>4. Subtree(ls)[i - p][a + p] = Over(ls, a + p, a + i) /\ Subtree(ls)[p][a] = Over(ls, a, a + p)
      BY <2>7 DEF Over
    <3> QED
      BY <2>4, <2>6, <3>2, <3>3, <3>4 DEF Subproof
  <2>9. CASE m <= a + p
    <3>1. PICK q : Continues(ls, m, t, b, V[p][a], q) /\ Keeps(ls, m, y, t, b, q, e, a, p)
      <4>1. CASE m = a + p
        <5>1. Frame(N, a, i, e + 1) /\ a + Pow2[e] = m
          BY <2>1, <2>4, <2>6, <4>1
        <5>2. Continues(ls, m, t, b, V[Pow2[e]][a], <<>>) /\ Keeps(ls, m, y, t, b, <<>>, e, a, Pow2[e])
          BY <5>1, SubproofStarts
        <5> QED
          BY <2>6, <5>2
      <4>2. CASE m # a + p
        <5>1. a < m /\ m < a + p
          BY <2>1, <2>7, <2>9, <4>2
        <5>2. EndsIn(N, m, a, p, e)
          BY <2>4, <2>6, <5>1 DEF EndsIn
        <5>3. p \in Good
          BY <1>1, <2>7
        <5>4. Arrives(ls, m, y, t, b, V, e, a, p)
          BY <5>2, <5>3
        <5> QED
          BY <5>4 DEF Arrives
      <4> QED
        BY <4>1, <4>2
    <3>2. InLeft(N, a, i, e, m - 1)
      <4>1. p < i /\ a <= m - 1 /\ m - 1 < a + p
        <5>1. p < i /\ a < m /\ m <= a + p
          BY <2>1, <2>6, <2>9
        <5> QED
          BY <5>1
      <4> QED
        BY <2>1, <2>4, <2>6, <4>1 DEF InLeft
    <3>3. PICK c : c = Over(ls, a + p, a + i)
      OBVIOUS
    <3>4. PICK s : s = V[p][a] /\ Append(s, c) = V[i][a]
      BY <2>8, <2>9, <3>3
    <3>5. Continues(ls, m, t, b, Append(s, c), Append(q, c)) /\ Keeps(ls, m, y, t, b, Append(q, c), e + 1, a, i)
      <4>1. Continues(ls, m, t, b, s, q) /\ Keeps(ls, m, y, t, b, q, e, a, Pow2[e]) /\ c = Over(ls, a + Pow2[e], a + i)
        BY <2>6, <3>1, <3>3, <3>4
      <4> QED
        BY <2>2, <2>4, <3>2, <4>1, SubproofRises
    <3> QED
      BY <2>4, <3>4, <3>5 DEF Arrives
  <2>10. CASE ~(m <= a + p)
    <3>0. a + p < m /\ m < (a + p) + (i - p)
      BY <2>1, <2>7, <2>10
    <3>1. PICK q : Continues(ls, m, t, b, V[i - p][a + p], q) /\ Keeps(ls, m, y, t, b, q, d, a + p, i - p)
      <4>1. EndsIn(N, m, a + p, i - p, d)
        BY <2>5, <2>6, <3>0 DEF EndsIn
      <4>2. i - p \in Good
        BY <1>1, <2>7
      <4>3. Arrives(ls, m, y, t, b, V, d, a + p, i - p)
        BY <2>7, <4>1, <4>2
      <4> QED
        BY <4>3 DEF Arrives
    <3>2. InRight(N, a, i, e, d, m - 1)
      <4>1. a + p <= m - 1 /\ m - 1 < a + i
        BY <2>1, <2>7, <3>0
      <4> QED
        BY <2>1, <2>4, <2>5, <2>6, <4>1 DEF InRight
    <3>3. PICK c : c = Over(ls, a, a + p)
      OBVIOUS
    <3>4. PICK s : s = V[i - p][a + p] /\ Append(s, c) = V[i][a]
      BY <2>8, <2>10, <3>3
    <3>5. Continues(ls, m, t, b, Append(s, c), Append(q, c)) /\ Keeps(ls, m, y, t, b, Append(q, c), e + 1, a, i)
      <4>1. /\ Continues(ls, m, t, b, s, q) /\ Keeps(ls, m, y, t, b, q, d, a + Pow2[e], i - Pow2[e])
            /\ c = Over(ls, a, a + Pow2[e]) /\ a + Pow2[e] < m
        BY <2>6, <3>0, <3>1, <3>3, <3>4
      <4> QED
        BY <2>2, <2>4, <3>2, <4>1, SubproofRises
    <3> QED
      BY <2>4, <3>4, <3>5 DEF Arrives
  <2> QED
    BY <2>9, <2>10
<1>2. \A i \in Nat : 0..(i-1) \subseteq Good => i \in Good
  BY <1>1
<1>3. n \in Good
  <2> HIDE DEF Good
  <2> QED
    BY <1>2, Induction
<1> QED
  BY <1>3

\* The consistency proof from an earlier size is accepted: verify_consistency of
\* merkle.py takes what consistency_proof yields, for every two sizes.
THEOREM ConsistencyComplete ==
    ASSUME NEW S, NEW ls \in Seq(S), NEW m \in Nat \ {0}, m <= Len(ls)
    PROVE  /\ ConsistencyProof(ls, m) \in Seq(Runs(ls))
           /\ VerifyConsistency(m, Len(ls), TreeHash(SubSeq(ls, 1, m)), TreeHash(ls), ConsistencyProof(ls, m))
<1>1. PICK N \in Nat \ {0} : N = Len(ls)
  OBVIOUS
<1>2. PICK V : ConsistencyProof(ls, m) = V[N][0] /\ SubproofsOf(ls, m, N, V)
  BY <1>1, SubproofValue DEF SubproofsOf
<1>3. PICK first, root : first = TreeHash(SubSeq(ls, 1, m)) /\ root = TreeHash(ls)
  OBVIOUS
<1>4. PICK proof : proof = V[N][0]
  OBVIOUS
<1>5. CASE m = N
  <2>1. V[N][0] = Subproof(ls, m, V, N, 0)
    <3>1. N \in 1..N /\ 0 \in 0..(N-N)
      OBVIOUS
    <3> QED
      BY <1>2, <3>1 DEF SubproofsOf
  <2>2. proof = <<>>
    BY <1>4, <1>5, <2>1 DEF Subproof
  <2>3. SubSeq(ls, 1, m) = ls
    BY <1>1, <1>5
  <2>4. first = root
    BY <1>3, <2>3
  <2>5. ~(m > m) /\ ~(m < m)
    OBVIOUS
  <2>6. VerifyConsistency(m, m, first, root, proof)
    BY <2>2, <2>4, <2>5 DEF VerifyConsistency
  <2>7. proof \in Seq(Runs(ls))
    BY <2>2
  <2> QED
    BY <1>1, <1>2, <1>3, <1>4, <1>5, <2>6, <2>7
<1>6. CASE m < N
  <2>1. PICK y \in Nat : y = N - 1
    OBVIOUS
  <2>2. PICK t \in Nat : t = Twos(m) /\ \E q \in Nat : m = q * Pow2[t] /\ q % 2 = 1
    BY TwosValue
  <2>3. PICK p \in Nat \ {0} : p = Pow2[t]
    BY Pow2Value
  <2>4. PICK h \in Nat : m = (2 * h + 1) * p
    <3>1. PICK q \in Nat : m = q * p /\ q % 2 = 1
      BY <2>2, <2>3
    <3>2. PICK h \in Nat : q = 2 * h + 1
      BY <3>1
    <3> QED
      BY <3>1, <3>2
  <2>5. PICK x \in Nat : x = m - p
    <3>1. (2 * h + 1) * p = (2 * h) * p + p /\ (2 * h) * p \in Nat
      OBVIOUS
    <3> QED
      BY <2>4, <3>1
  <2>6. PICK b : b = Over(ls, x, m)
    OBVIOUS
  <2>7. b \in Runs(ls)
    <3>1. x \in 0..Len(ls) /\ m \in 0..Len(ls)
      BY <1>1, <1>6, <2>5
    <3> QED
      BY <2>6, <3>1 DEF Runs
  <2>8. OldEnd(ls, m, t, b)
    BY <2>3, <2>4, <2>5, <2>6 DEF OldEnd
  <2>9. PICK K \in Nat : Frame(N, 0, N, K)
    BY FrameTop
  <2>10. Arrives(ls, m, y, t, b, V, K, 0, N)
    <3>1. EndsIn(N, m, 0, N, K)
      BY <1>6, <2>9 DEF EndsIn
    <3>2. Sized(ls, N, y)
      BY <1>1, <2>1 DEF Sized
    <3> QED
      BY <1>2, <1>6, <2>7, <2>8, <3>1, <3>2, SubproofReaches
  <2>11. PICK q : Continues(ls, m, t, b, proof, q) /\ Keeps(ls, m, y, t, b, q, K, 0, N)
    BY <1>4, <2>10 DEF Arrives
  <2>12. q \in Seq(Runs(ls)) /\ proof = IF m = Pow2[t] THEN q ELSE <<b>> \o q
    BY <2>11 DEF Continues
  <2>13. PICK w : w = Onward(m, y, t, b, q)
    OBVIOUS
  <2>14. w.ok /\ Between(m - 1, y, K, w) /\ w.fr = Over(ls, 0, m) /\ w.sr = Over(ls, 0, N)
    BY <2>11, <2>13 DEF Keeps
  <2>15. w.fr = first /\ w.sr = root
    BY <1>1, <1>3, <1>6, <2>14, TreeOfPrefix, TreeIsOver
  <2>16. w.sn = 0
    <3>1. Above(y, K, w.sn)
      BY <2>14 DEF Between
    <3>2. w.sn \in Nat /\ w.sn * Pow2[K] = 0
      BY <2>1, <2>9, <3>1, FrameAbove
    <3>3. PICK s \in Nat \ {0} : s = Pow2[K]
      BY Pow2Value
    <3> QED
      BY <3>2, <3>3
  <2>17. PICK path : path = IF m = Pow2[t] THEN <<first>> \o proof ELSE proof
    OBVIOUS
  <2>18. path = <<b>> \o q
    <3>1. m = Pow2[t] => first = b
      <4>1. m = p => x = 0
        BY <2>5
      <4> QED
        BY <2>3, <2>6, <2>14, <2>15, <4>1
    <3> QED
      BY <2>12, <2>17, <3>1
  <2>19. path # <<>> /\ path[1] = b /\ Tail(path) = q
    <3>1. PICK D : D = Runs(ls)
      OBVIOUS
    <3>2. b \in D /\ q \in Seq(D)
      BY <2>7, <2>12, <3>1
    <3> QED
      BY <2>18, <3>2, Prepended
  <2>20. w = Walk((m - 1) \div Pow2[Twos(m)], (N - 1) \div Pow2[Twos(m)], path[1], Tail(path))
    BY <2>1, <2>2, <2>13, <2>19 DEF Onward
  <2>21. VerifyConsistency(m, N, first, root, proof)
    <3>1. m # 0 /\ m # N /\ ~(m > N) /\ m < N
      BY <1>6
    <3> QED
      BY <2>2, <2>14, <2>15, <2>16, <2>17, <2>19, <2>20, <3>1 DEF VerifyConsistency
  <2>22. proof \in Seq(Runs(ls))
    <3>1. PICK D : D = Runs(ls)
      OBVIOUS
    <3>2. b \in D /\ q \in Seq(D)
      BY <2>7, <2>12, <3>1
    <3>3. <<b>> \in Seq(D)
      BY <3>2
    <3>4. <<b>> \o q \in Seq(D)
      BY <3>2, <3>3, ConcatProperties
    <3> QED
      BY <2>12, <3>1, <3>2, <3>4
  <2> QED
    BY <1>1, <1>2, <1>3, <1>4, <2>21, <2>22
<1> QED
  BY <1>1, <1>5, <1>6

\* A sequence over a set is one over a larger set.
LEMMA SeqWiden ==
    ASSUME NEW A, NEW B, A \subseteq B, NEW p \in Seq(A)
    PROVE  p \in Seq(B)
<1>1. Len(p) \in Nat /\ p \in [1..Len(p) -> A]
  OBVIOUS
<1>2. p \in [1..Len(p) -> B]
  BY <1>1
<1> QED
  BY <1>1, <1>2

\* Whatever the three shards hold, their proofs bind.
LEMMA ShardsBound ==
    ASSUME NEW S, NEW shard, \A s \in 1..3 : shard[s] \in Seq(S)
    PROVE  ShardsBind(shard)
<1> DEFINE roots == [s \in 1..3 |-> TreeHash(shard[s])]
           Accepted(s, i, t, j) ==
               VerifyShardedInclusion(shard[t][j + 1], i, Len(shard[s]),
                   InclusionProof(shard[t], j), roots[t],
                   s - 1, 3, ShardSuperProof(roots, t - 1), ShardSuperRoot(roots))
           R == {TreeHash(shard[s]) : s \in 1..3}
           H == {LeafHash(d) : d \in R}
           hs == LeafHashes(roots)
<1>1. roots \in Seq(R) /\ Len(roots) = 3 /\ \A s \in 1..3 : roots[s] = TreeHash(shard[s])
  OBVIOUS
<1> HIDE DEF roots, R
<1>2. hs \in Seq(H) /\ Len(hs) = 3 /\ \A s \in 1..3 : hs[s] = LeafHash(roots[s])
  BY <1>1, LeafHashesType
<1>3. ShardSuperRoot(roots) = TreeHash(hs) /\ \A n : ShardSuperProof(roots, n) = InclusionProof(hs, n)
  BY DEF ShardSuperRoot, ShardSuperProof
<1> HIDE DEF H, hs
<1>4. ASSUME NEW t \in 1..3, NEW j \in 0..Len(shard[t])-1
      PROVE  /\ Accepted(t, j, t, j)
             /\ \A s \in 1..3 : \A i \in 0..Len(shard[s])-1 : Accepted(s, i, t, j) => shard[s][i + 1] = shard[t][j + 1]
  <2>1. PICK ls : ls = shard[t] /\ ls \in Seq(S)
    OBVIOUS
  <2>2. PICK proof : proof = InclusionProof(ls, j)
    OBVIOUS
  <2>3. proof \in Seq(Runs(ls)) /\ VerifyInclusion(j, Len(ls), ls[j + 1], proof, roots[t])
    <3>1. j \in 0..Len(ls)-1 /\ roots[t] = TreeHash(ls)
      BY <1>1, <2>1
    <3> QED
      BY <2>1, <2>2, <3>1, InclusionComplete
  <2>4. PICK u : u = t - 1 /\ u \in 0..Len(hs)-1
    BY <1>2
  <2>5. PICK super : super = InclusionProof(hs, u)
    OBVIOUS
  <2>6. super \in Seq(Runs(hs)) /\ VerifyInclusion(u, 3, LeafHash(roots[t]), super, TreeHash(hs))
    <3>1. u + 1 = t /\ hs[t] = LeafHash(roots[t])
      BY <1>2, <2>4
    <3>2. super \in Seq(Runs(hs)) /\ VerifyInclusion(u, Len(hs), hs[u + 1], super, TreeHash(hs))
      BY <1>2, <2>4, <2>5, InclusionComplete
    <3> QED
      BY <1>2, <3>1, <3>2
  <2>7. \A s, i : Accepted(s, i, t, j) <=>
                      VerifyShardedInclusion(ls[j + 1], i, Len(shard[s]), proof, roots[t], s - 1, 3, super, ShardSuperRoot(roots))
    BY <1>3, <2>1, <2>2, <2>4, <2>5
  <2>8. Accepted(t, j, t, j)
    BY <1>3, <2>1, <2>3, <2>4, <2>6, <2>7 DEF VerifyShardedInclusion
  <2>9. PICK C : C = Runs(ls) \cup Runs(hs)
    OBVIOUS
  <2>10. proof \in Seq(C) /\ super \in Seq(C)
    BY <2>3, <2>6, <2>9, SeqWiden
  <2>11. ASSUME NEW s \in 1..3, NEW i \in 0..Len(shard[s])-1, Accepted(s, i, t, j)
         PROVE  shard[s][i + 1] = ls[j + 1]
    <3>1. PICK ms : ms = shard[s] /\ ms \in Seq(S)
      OBVIOUS
    <3>2. PICK n \in Nat : n = s - 1 /\ n + 1 = s
      OBVIOUS
    <3>3. i \in Nat
      BY <3>1
    <3>4. roots[n + 1] = TreeHash(ms)
      BY <1>1, <3>1, <3>2
    <3>5. VerifyShardedInclusion(ls[j + 1], i, Len(ms), proof, roots[t], n, Len(roots), super, ShardSuperRoot(roots))
      BY <1>1, <2>7, <2>11, <3>1, <3>2
    <3>6. ls[j + 1] = ms[i + 1]
      <4>1. roots \in Seq(R) /\ ms \in Seq(S) /\ i \in Nat
        BY <1>1, <3>1, <3>3
      <4> HIDE DEF Accepted
      <4> QED
        BY <2>10, <3>4, <3>5, <4>1, ShardedSound, Zenon
    <3> QED
      BY <3>1, <3>6
  <2> HIDE DEF Accepted
  <2> QED
    BY <2>1, <2>8, <2>11
<1> QED
  BY <1>4, Zenon DEF ShardsBind, roots

\* The proofs the run tries are sequences of hashes.
LEMMA CandidatesType ==
    ASSUME NEW ls, NEW proof \in CandidateProofs(ls)
    PROVE  proof \in Seq(Subtrees(ls))
<1>1. PICK n \in 0..MaxProof : proof \in [1..n -> Subtrees(ls)]
  BY DEF CandidateProofs
<1>2. n \in Nat
  BY MerkleAssumption
<1> QED
  BY <1>1, <1>2

\* What the invariant says of the log and of the root that is signed.
LEMMA RootIsTree ==
    ASSUME NoneIsNoHash, TreeInv
    PROVE  (\E H : leaves \in Seq(H)) /\ RootOf(frontier) = TreeHash(leaves)
<1> DEFINE H == {LeafHash(d) : d \in AllData}
<1>1. leaves \in Seq(H) /\ FrontierRight(leaves, frontier)
  BY DEF TreeInv
<1>2. PICK U : frontier \in Seq(U)
  BY DEF TreeInv
<1>3. Unhashed(H)
  BY NoneIsNoHash DEF Unhashed, NoneIsNoHash
<1> HIDE DEF H
<1>4. RootOf(frontier) = TreeHash(leaves)
  BY <1>1, <1>2, <1>3, RootRight
<1> QED
  BY <1>1, <1>4

\* docs/ARCHITECTURE.md:67 and merkle.py:207: at every size the audit path of a leaf
\* verifies against the root that is signed, and what verifies at an index is the leaf
\* at that index, in a log and in one cut into shards.
THEOREM InclusionKept == ASSUME NoneIsNoHash PROVE TreeSpec => []InclusionBinds
<1>1. ASSUME TreeInv PROVE InclusionBinds
  <2>1. PICK H : leaves \in Seq(H)
    BY <1>1, RootIsTree
  <2>2. PICK ls, root : ls = leaves /\ root = TreeHash(ls) /\ root = RootOf(frontier)
    BY <1>1, RootIsTree
  <2>3. ls \in Seq(H)
    BY <2>1, <2>2
  <2>4. PICK size \in Nat : size = Len(ls)
    BY <2>3
  <2>5. ASSUME NEW i \in 0..size-1
        PROVE  VerifyInclusion(i, size, ls[i + 1], InclusionProof(ls, i), root)
    BY <2>2, <2>3, <2>4, InclusionComplete
  <2>6. ASSUME NEW proof \in CandidateProofs(ls), NEW leaf \in Subtrees(ls), NEW i \in 0..size,
               VerifyInclusion(i, size, leaf, proof, root)
        PROVE  leaf = ls[i + 1]
    <3>1. PICK C : C = Subtrees(ls)
      OBVIOUS
    <3>2. proof \in Seq(C) /\ i \in Nat
      BY <3>1, CandidatesType
    <3>3. VerifyInclusion(i, Len(ls), leaf, proof, TreeHash(ls))
      BY <2>2, <2>4, <2>6
    <3> QED
      BY <2>3, <3>2, <3>3, InclusionSound, Zenon
  <2>7. ASSUME NEW c1 \in 0..size, NEW c2 \in c1..size
        PROVE  ShardsBind(<<SubSeq(ls, 1, c1), SubSeq(ls, c1 + 1, c2), SubSeq(ls, c2 + 1, size)>>)
    <3>1. PICK x, y, z : x = SubSeq(ls, 1, c1) /\ y = SubSeq(ls, c1 + 1, c2) /\ z = SubSeq(ls, c2 + 1, size)
      OBVIOUS
    <3>2. x \in Seq(H) /\ y \in Seq(H) /\ z \in Seq(H)
      <4>1. c1 \in Nat /\ c2 \in Nat /\ c1 <= c2 /\ c2 <= size
        OBVIOUS
      <4>2. ASSUME NEW a \in Nat \ {0}, NEW b \in Nat, b <= size PROVE SubSeq(ls, a, b) \in Seq(H)
        BY <2>3, <2>4, <4>2
      <4>4. 1 \in Nat \ {0} /\ c1 + 1 \in Nat \ {0} /\ c2 + 1 \in Nat \ {0} /\ c1 <= size /\ size <= size
        BY <4>1
      <4>3. SubSeq(ls, 1, c1) \in Seq(H) /\ SubSeq(ls, c1 + 1, c2) \in Seq(H) /\ SubSeq(ls, c2 + 1, size) \in Seq(H)
        BY <4>1, <4>2, <4>4
      <4> QED
        BY <3>1, <4>3
    <3>3. \A s \in 1..3 : <<x, y, z>>[s] \in Seq(H)
      <4>1. \A s \in 1..3 : s = 1 \/ s = 2 \/ s = 3
        OBVIOUS
      <4> QED
        BY <3>2, <4>1
    <3>4. ShardsBind(<<x, y, z>>)
      BY <3>3, ShardsBound
    <3> QED
      BY <3>1, <3>4
  <2>8. \A i \in 0..size - 1 : VerifyInclusion(i, size, leaves[i + 1], InclusionProof(leaves, i), RootOf(frontier))
    BY <2>2, <2>5
  <2>10. \A proof \in CandidateProofs(leaves), leaf \in Subtrees(leaves), i \in 0..size :
            VerifyInclusion(i, size, leaf, proof, RootOf(frontier)) => leaf = leaves[i + 1]
    BY <2>2, <2>6
  <2>11. \A c1 \in 0..size : \A c2 \in c1..size :
            ShardsBind(<<SubSeq(leaves, 1, c1), SubSeq(leaves, c1 + 1, c2), SubSeq(leaves, c2 + 1, size)>>)
    BY <2>2, <2>7
  <2>9. size = Len(leaves)
    BY <2>2, <2>4
  <2> QED
    BY <2>8, <2>9, <2>10, <2>11, Zenon DEF InclusionBinds
<1> QED
  BY <1>1, TreeInvInit, TreeInvNext, PTL DEF TreeSpec

\* docs/SECURITY.md:33: the proof from every earlier head verifies against the root that
\* is signed, and whatever the proof, the head of an earlier size that verifies is the
\* one this log had.
THEOREM ConsistencyKept == ASSUME NoneIsNoHash PROVE TreeSpec => []ConsistencyBinds
<1>1. ASSUME TreeInv PROVE ConsistencyBinds
  <2>1. PICK H : leaves \in Seq(H)
    BY <1>1, RootIsTree
  <2>2. PICK ls, root : ls = leaves /\ root = TreeHash(ls) /\ root = RootOf(frontier)
    BY <1>1, RootIsTree
  <2>3. ls \in Seq(H)
    BY <2>1, <2>2
  <2>4. PICK size \in Nat : size = Len(ls)
    BY <2>3
  <2>5. \A m : Prefixed(m) = SubSeq(ls, 1, m)
    BY <2>2 DEF Prefixed
  <2>6. ASSUME NEW m \in 1..size
        PROVE  VerifyConsistency(m, size, TreeHash(Prefixed(m)), root, ConsistencyProof(ls, m))
    <3>1. m \in Nat \ {0} /\ m <= Len(ls)
      BY <2>4
    <3> QED
      BY <2>2, <2>3, <2>4, <2>5, <3>1, ConsistencyComplete
  <2>7. ASSUME NEW m \in 1..size, NEW proof \in CandidateProofs(ls), NEW first,
               VerifyConsistency(m, size, first, root, proof)
        PROVE  first = TreeHash(Prefixed(m))
    <3>1. PICK C : C = Subtrees(ls)
      OBVIOUS
    <3>2. proof \in Seq(C) /\ m \in Nat /\ 0 < m /\ m <= Len(ls)
      BY <2>4, <3>1, CandidatesType
    <3>3. VerifyConsistency(m, Len(ls), first, TreeHash(ls), proof)
      BY <2>2, <2>4, <2>7
    <3>4. first = TreeHash(SubSeq(ls, 1, m))
      BY <2>3, <3>2, <3>3, ConsistencySound, Zenon
    <3> QED
      BY <2>5, <3>4
  <2> QED
    BY <2>2, <2>4, <2>6, <2>7, Zenon DEF ConsistencyBinds
<1> QED
  BY <1>1, TreeInvInit, TreeInvNext, PTL DEF TreeSpec

(***************************************************************************)
(* The Go core's roots and proofs. Its recursions go through slices of one  *)
(* sequence of leaves, those of merkle.py through the sizes and the first   *)
(* leaves of subtrees.                                                      *)
(***************************************************************************)
\* The loop of largestPow2Lt ends at the split of merkle.py.
LEMMA GoSplit ==
  ASSUME NEW n \in Nat \ {0, 1}
  PROVE  Core!LargestPow2Lt(n) = LargestPow2(n)
<1> DEFINE To(g, k) == IF k * 2 < n THEN g[k * 2] ELSE k
           Right(g, j) == \A k \in 1..n : n - j <= k => g[k] = To(g, k)
           Good == {j \in Nat : \E g : Right(g, j)}
<1>1. ASSUME NEW j \in Nat, 0..(j-1) \subseteq Good PROVE \E g : Right(g, j)
  <2>1. CASE j = 0
    <3> DEFINE g == [k \in 1..n |-> k]
    <3>1. Right(g, j)
      BY <2>1
    <3> QED
      BY <3>1
  <2>2. CASE j # 0
    <3>1. j - 1 \in 0..(j-1)
      BY <2>2
    <3>2. PICK g : Right(g, j - 1)
      BY <1>1, <3>1
    <3> DEFINE f == [k \in 1..n |-> To(g, k)]
    <3>3. ASSUME NEW k \in 1..n, n - j <= k PROVE f[k] = To(f, k)
      <4>1. CASE k * 2 < n
        <5>1. k * 2 \in 1..n /\ n - (j - 1) <= k * 2
          BY <3>3, <4>1
        <5>2. g[k * 2] = To(g, k * 2)
          BY <3>2, <5>1
        <5> QED
          BY <4>1, <5>1, <5>2
      <4>2. CASE ~(k * 2 < n)
        BY <4>2
      <4> QED
        BY <4>1, <4>2
    <3> QED
      BY <3>3
  <2> QED
    BY <2>1, <2>2
<1>2. \A j \in Nat : 0..(j-1) \subseteq Good => j \in Good
  BY <1>1
<1>3. n \in Good
  <2> HIDE DEF Good
  <2> QED
    BY <1>2, Induction
<1>4. PICK g : Right(g, n)
  BY <1>3
<1>5. \A k \in 1..n : g[k] = To(g, k)
  BY <1>4
<1> DEFINE F == [k \in 1..n |-> To(g, k)]
<1>6. F = [k \in 1..n |-> To(F, k)]
  <2>1. \A k \in 1..n : To(g, k) = To(F, k)
    <3>1. \A k \in 1..n : k * 2 < n => k * 2 \in 1..n
      OBVIOUS
    <3> QED
      BY <1>5, <3>1
  <2> QED
    BY <2>1
<1> DEFINE D == CHOOSE h : h = [k \in 1..n |-> To(h, k)]
<1>7. D = [k \in 1..n |-> To(D, k)]
  BY <1>6
<1>8. Core!LargestPow2Lt(n) = D[1]
  BY DEF Core!LargestPow2Lt
<1> HIDE DEF D
<1>9. \A k \in 1..n : D[k] = IF k * 2 < n THEN D[k * 2] ELSE k
  BY <1>7
<1>10. PICK e : Splits(n, e)
  BY SplitExists
<1>11. e \in Nat /\ Pow2[e] \in Nat \ {0} /\ Pow2[e] < n /\ n <= 2 * Pow2[e]
  BY <1>10, Pow2Value DEF Splits
<1> DEFINE Ends == {i \in Nat : i <= e => D[Pow2[e - i]] = Pow2[e]}
<1>12. ASSUME NEW i \in Nat, 0..(i-1) \subseteq Ends, i <= e PROVE D[Pow2[e - i]] = Pow2[e]
  <2>1. CASE i = 0
    <3>1. D[Pow2[e]] = Pow2[e]
      BY <1>9, <1>11
    <3> QED
      BY <1>11, <2>1, <3>1
  <2>2. CASE i # 0
    <3>1. i - 1 \in Ends /\ i - 1 <= e /\ e - i \in Nat /\ (e - i) + 1 = e - (i - 1) /\ e - i < e
      BY <1>11, <1>12, <2>2
    <3>2. D[Pow2[e - (i - 1)]] = Pow2[e]
      BY <3>1
    <3>3. Pow2[e - i] \in Nat \ {0} /\ Pow2[e - (i - 1)] = 2 * Pow2[e - i]
      BY <3>1, Pow2Value
    <3>4. 2 * Pow2[e - i] <= Pow2[e]
      BY <1>11, <3>1, Pow2Order
    <3>5. Pow2[e - i] \in 1..n /\ Pow2[e - i] * 2 < n
      BY <1>11, <3>3, <3>4
    <3> QED
      BY <1>9, <3>2, <3>3, <3>5
  <2> QED
    BY <2>1, <2>2
<1>13. \A i \in Nat : 0..(i-1) \subseteq Ends => i \in Ends
  BY <1>12
<1>14. e \in Ends
  <2> HIDE DEF Ends
  <2> QED
    BY <1>11, <1>13, Induction
<1>15. D[Pow2[0]] = Pow2[e]
  BY <1>11, <1>14
<1> QED
  BY <1>8, <1>10, <1>15, Pow2Value, SplitValue

\* The root of a slice as merkle.py has it.
RootOn(ls, s) == IF s[1] = s[2] THEN EmptyRoot ELSE Subtree(ls)[s[2] - s[1]][s[1]]

\* How a slice is split.
LEMMA GoParts ==
  ASSUME NEW L \in Nat, NEW s \in Core!Slices(L)
  PROVE  /\ s = <<s[1], s[2]>> /\ s[1] \in 0..L /\ s[2] \in s[1]..L /\ s[2] - s[1] \in 0..L
         /\ s[2] - s[1] > 1 =>
               \E k \in 1..(s[2] - s[1] - 1) :
                  /\ k = LargestPow2(s[2] - s[1]) /\ Core!SplitAt(s) = s[1] + k
                  /\ Core!FirstPart(s) = <<s[1], s[1] + k>> /\ Core!SecondPart(s) = <<s[1] + k, s[2]>>
                  /\ Core!FirstPart(s) \in Core!Slices(L) /\ Core!SecondPart(s) \in Core!Slices(L)
<1>1. /\ s = <<s[1], s[2]>> /\ s[1] \in 0..L /\ s[2] \in s[1]..L /\ s[2] - s[1] \in 0..L
  BY DEF Core!Slices
<1>2. ASSUME s[2] - s[1] > 1
      PROVE  \E k \in 1..(s[2] - s[1] - 1) :
                  /\ k = LargestPow2(s[2] - s[1]) /\ Core!SplitAt(s) = s[1] + k
                  /\ Core!FirstPart(s) = <<s[1], s[1] + k>> /\ Core!SecondPart(s) = <<s[1] + k, s[2]>>
                  /\ Core!FirstPart(s) \in Core!Slices(L) /\ Core!SecondPart(s) \in Core!Slices(L)
  <2>1. PICK n \in Nat \ {0, 1} : n = s[2] - s[1]
    BY <1>1, <1>2
  <2>2. PICK k \in 1..(n - 1) : k = LargestPow2(n)
    BY SplitParts
  <2>3. Core!SplitAt(s) = s[1] + k
    BY <2>1, <2>2, GoSplit DEF Core!SplitAt
  <2>4. Core!FirstPart(s) = <<s[1], s[1] + k>> /\ Core!SecondPart(s) = <<s[1] + k, s[2]>>
    BY <2>3 DEF Core!FirstPart, Core!SecondPart
  <2>5. s[1] + k \in 0..L /\ s[1] <= s[1] + k /\ s[1] + k <= s[2] /\ s[2] \in 0..L
    BY <1>1, <2>1, <2>2
  <2>6. Core!FirstPart(s) \in Core!Slices(L) /\ Core!SecondPart(s) \in Core!Slices(L)
    BY <1>1, <2>4, <2>5 DEF Core!Slices
  <2> QED
    BY <2>1, <2>2, <2>3, <2>4, <2>6
<1> QED
  BY <1>1, <1>2

\* One step of the recursion of TreeHash, where T has the roots of the smaller slices.
GoRoot(ls, T, s) ==
    IF s[2] - s[1] = 0 THEN EmptyRoot
    ELSE IF s[2] - s[1] = 1 THEN ls[s[2]]
    ELSE NodeHash(T[Core!FirstPart(s)], T[Core!SecondPart(s)])

\* merkle.go:41-51: the recursion yields of each slice the hash that merkle.py yields.
LEMMA GoRoots ==
  ASSUME NEW ls, NEW L \in Nat, L = Len(ls)
  PROVE  \A s \in Core!Slices(L) : Core!Roots(ls)[s] = RootOn(ls, s)
<1> DEFINE T == [s \in Core!Slices(L) |-> RootOn(ls, s)]
<1>1. ASSUME NEW s \in Core!Slices(L), NEW U,
             s[2] - s[1] > 1 => /\ U[Core!FirstPart(s)] = RootOn(ls, Core!FirstPart(s))
                                /\ U[Core!SecondPart(s)] = RootOn(ls, Core!SecondPart(s))
      PROVE  GoRoot(ls, U, s) = RootOn(ls, s)
  <2>1. s[1] \in 0..L /\ s[2] \in s[1]..L /\ s[2] - s[1] \in 0..L
    BY GoParts
  <2>2. CASE s[2] - s[1] = 0
    BY <2>1, <2>2 DEF GoRoot, RootOn
  <2>3. ASSUME s[2] - s[1] # 0
        PROVE  RootOn(ls, s) = Hashed(ls, Subtree(ls), s[2] - s[1], s[1])
    <3>1. s[2] - s[1] \in 1..L /\ s[1] \in 0..(L - (s[2] - s[1])) /\ s[1] # s[2]
      BY <2>1, <2>3
    <3> QED
      BY <3>1, SubtreeValue DEF RootOn
  <2>4. CASE s[2] - s[1] = 1
    <3>1. s[1] + 1 = s[2]
      BY <2>1, <2>4
    <3> QED
      BY <2>3, <2>4, <3>1 DEF Hashed, GoRoot
  <2>5. CASE s[2] - s[1] > 1
    <3>1. PICK k \in 1..(s[2] - s[1] - 1) :
                  /\ k = LargestPow2(s[2] - s[1])
                  /\ Core!FirstPart(s) = <<s[1], s[1] + k>> /\ Core!SecondPart(s) = <<s[1] + k, s[2]>>
      BY <2>5, GoParts
    <3>2. /\ RootOn(ls, Core!FirstPart(s)) = Subtree(ls)[k][s[1]]
          /\ RootOn(ls, Core!SecondPart(s)) = Subtree(ls)[(s[2] - s[1]) - k][s[1] + k]
      <4>1. (s[1] + k) - s[1] = k /\ s[2] - (s[1] + k) = (s[2] - s[1]) - k /\ s[1] # s[1] + k /\ s[1] + k # s[2]
        BY <2>1, <3>1
      <4> QED
        BY <3>1, <4>1 DEF RootOn
    <3>3. Hashed(ls, Subtree(ls), s[2] - s[1], s[1])
            = NodeHash(Subtree(ls)[k][s[1]], Subtree(ls)[(s[2] - s[1]) - k][s[1] + k])
      BY <2>5, <3>1 DEF Hashed
    <3>4. GoRoot(ls, U, s) = NodeHash(U[Core!FirstPart(s)], U[Core!SecondPart(s)])
      BY <2>5 DEF GoRoot
    <3> QED
      BY <1>1, <2>3, <2>5, <3>2, <3>3, <3>4
  <2> QED
    BY <2>1, <2>2, <2>4, <2>5
<1>2. \A s \in Core!Slices(L) : s[2] - s[1] > 1 => Core!FirstPart(s) \in Core!Slices(L) /\ Core!SecondPart(s) \in Core!Slices(L)
  BY GoParts
<1>3. T = [s \in Core!Slices(L) |-> GoRoot(ls, T, s)]
  <2>1. \A s \in Core!Slices(L) : GoRoot(ls, T, s) = RootOn(ls, s)
    BY <1>1, <1>2
  <2> QED
    BY <2>1
<1> DEFINE D(U) == U = [s \in Core!Slices(Len(ls)) |->
                          IF s[2] - s[1] = 0 THEN Core!EmptyRoot
                          ELSE IF s[2] - s[1] = 1 THEN ls[s[2]]
                          ELSE Core!NodeHash(U[Core!FirstPart(s)], U[Core!SecondPart(s)])]
           R == Core!Roots(ls)
<1>4. \A U : D(U) <=> U = [s \in Core!Slices(L) |-> GoRoot(ls, U, s)]
  BY DEF GoRoot, Core!EmptyRoot, EmptyRoot, Core!NodeHash, NodeHash
<1>5. R = [s \in Core!Slices(L) |-> GoRoot(ls, R, s)]
  <2>1. R = CHOOSE U : D(U)
    BY Zenon DEF Core!Roots
  <2>2. \E U : D(U)
    <3> HIDE DEF T, D
    <3> QED
      BY <1>3, <1>4
  <2>3. D(R)
    <3> HIDE DEF D, R
    <3> QED
      BY <2>1, <2>2
  <2> QED
    <3> HIDE DEF D, R
    <3> QED
      BY <1>4, <2>3
<1> HIDE DEF R
<1> DEFINE Good == {d \in Nat : \A s \in Core!Slices(L) : s[2] - s[1] = d => R[s] = RootOn(ls, s)}
<1>6. ASSUME NEW d \in Nat, 0..(d-1) \subseteq Good, NEW s \in Core!Slices(L), s[2] - s[1] = d
      PROVE  R[s] = RootOn(ls, s)
  <2>1. ASSUME s[2] - s[1] > 1
        PROVE  /\ R[Core!FirstPart(s)] = RootOn(ls, Core!FirstPart(s))
               /\ R[Core!SecondPart(s)] = RootOn(ls, Core!SecondPart(s))
    <3>1. PICK k \in 1..(s[2] - s[1] - 1) :
                  Core!FirstPart(s) = <<s[1], s[1] + k>> /\ Core!SecondPart(s) = <<s[1] + k, s[2]>>
      BY <2>1, GoParts
    <3>2. s[1] \in Nat /\ s[2] \in Nat
      BY GoParts
    <3>3. k \in 0..(d-1) /\ d - k \in 0..(d-1) /\ (s[1] + k) - s[1] = k /\ s[2] - (s[1] + k) = d - k
      BY <1>6, <3>1, <3>2
    <3>4. k \in Good /\ d - k \in Good
      BY <1>6, <3>3
    <3> QED
      BY <1>2, <2>1, <3>1, <3>3, <3>4
  <2> QED
    BY <1>1, <1>5, <2>1
<1>7. \A d \in Nat : 0..(d-1) \subseteq Good => d \in Good
  BY <1>6
<1>8. ASSUME NEW s \in Core!Slices(L) PROVE R[s] = RootOn(ls, s)
  <2>1. s[2] - s[1] \in Nat
    BY GoParts
  <2>2. s[2] - s[1] \in Good
    <3> HIDE DEF Good
    <3> QED
      BY <1>7, <2>1, Induction
  <2> QED
    BY <2>2
<1> QED
  BY <1>8 DEF R

\* Root of the Go core is Root of merkle.py, for leaves of any number and value.
LEMMA GoTreeHash ==
  ASSUME NEW S, NEW ls \in Seq(S)
  PROVE  Core!TreeHash(ls) = TreeHash(ls)
<1>1. PICK L \in Nat : L = Len(ls) /\ (L = 0 <=> ls = <<>>)
  OBVIOUS
<1>2. <<0, L>> \in Core!Slices(L)
  BY <1>1 DEF Core!Slices
<1>3. Core!Roots(ls)[<<0, L>>] = RootOn(ls, <<0, L>>)
  BY <1>1, <1>2, GoRoots
<1>4. RootOn(ls, <<0, L>>) = IF L = 0 THEN EmptyRoot ELSE Subtree(ls)[L][0]
  BY <1>1 DEF RootOn
<1> QED
  BY <1>1, <1>3, <1>4 DEF Core!TreeHash, TreeHash

\* One step of the recursion of InclusionProof, where P has the paths in the smaller slices.
GoAudited(ls, m, P, s) ==
    IF s[2] - s[1] < 2 THEN <<>>
    ELSE IF m < Core!SplitAt(s) THEN Append(P[Core!FirstPart(s)], Core!Roots(ls)[Core!SecondPart(s)])
    ELSE Append(P[Core!SecondPart(s)], Core!Roots(ls)[Core!FirstPart(s)])

\* The path in a slice as merkle.py has it.
PathOn(V, s) == IF s[1] = s[2] THEN <<>> ELSE V[s[2] - s[1]][s[1]]

\* merkle.go:54-67: the Go core generates the audit path that merkle.py generates.
LEMMA GoInclusionProof ==
  ASSUME NEW S, NEW ls \in Seq(S), NEW m \in Nat
  PROVE  Len(ls) # 0 => Core!InclusionProof(ls, m) = InclusionProof(ls, m)
<1> SUFFICES ASSUME Len(ls) # 0 PROVE Core!InclusionProof(ls, m) = InclusionProof(ls, m)
  OBVIOUS
<1>0. PICK L \in Nat \ {0} : L = Len(ls)
  OBVIOUS
<1>1. PICK V : /\ InclusionProof(ls, m) = V[L][0]
               /\ \A n \in 1..L : \A lo \in 0..(L-n) : V[n][lo] = Audited(ls, m, V, n, lo)
  BY <1>0, PathValue
<1>2. ASSUME NEW s \in Core!Slices(L), NEW U,
             s[2] - s[1] > 1 => /\ U[Core!FirstPart(s)] = PathOn(V, Core!FirstPart(s))
                                /\ U[Core!SecondPart(s)] = PathOn(V, Core!SecondPart(s))
      PROVE  GoAudited(ls, m, U, s) = PathOn(V, s)
  <2>1. s[1] \in 0..L /\ s[2] \in s[1]..L /\ s[2] - s[1] \in 0..L
    BY GoParts
  <2>2. CASE s[2] - s[1] = 0
    BY <2>1, <2>2 DEF GoAudited, PathOn
  <2>3. ASSUME s[2] - s[1] # 0
        PROVE  PathOn(V, s) = Audited(ls, m, V, s[2] - s[1], s[1])
    <3>1. s[2] - s[1] \in 1..L /\ s[1] \in 0..(L - (s[2] - s[1])) /\ s[1] # s[2]
      BY <2>1, <2>3
    <3> QED
      BY <1>1, <3>1 DEF PathOn
  <2>4. CASE s[2] - s[1] = 1
    BY <2>3, <2>4 DEF Audited, GoAudited
  <2>5. CASE s[2] - s[1] > 1
    <3>1. PICK k \in 1..(s[2] - s[1] - 1) :
                  /\ k = LargestPow2(s[2] - s[1]) /\ Core!SplitAt(s) = s[1] + k
                  /\ Core!FirstPart(s) = <<s[1], s[1] + k>> /\ Core!SecondPart(s) = <<s[1] + k, s[2]>>
                  /\ Core!FirstPart(s) \in Core!Slices(L) /\ Core!SecondPart(s) \in Core!Slices(L)
      BY <2>5, GoParts
    <3>0. (s[1] + k) - s[1] = k /\ s[2] - (s[1] + k) = (s[2] - s[1]) - k /\ s[1] # s[1] + k /\ s[1] + k # s[2]
      BY <2>1, <3>1
    <3>2. /\ PathOn(V, Core!FirstPart(s)) = V[k][s[1]]
          /\ PathOn(V, Core!SecondPart(s)) = V[(s[2] - s[1]) - k][s[1] + k]
      BY <3>0, <3>1 DEF PathOn
    <3>3. /\ Core!Roots(ls)[Core!FirstPart(s)] = Subtree(ls)[k][s[1]]
          /\ Core!Roots(ls)[Core!SecondPart(s)] = Subtree(ls)[(s[2] - s[1]) - k][s[1] + k]
      <4>1. /\ Core!Roots(ls)[Core!FirstPart(s)] = RootOn(ls, Core!FirstPart(s))
            /\ Core!Roots(ls)[Core!SecondPart(s)] = RootOn(ls, Core!SecondPart(s))
        BY <1>0, <3>1, GoRoots
      <4> QED
        BY <3>0, <3>1, <4>1 DEF RootOn
    <3>4. Audited(ls, m, V, s[2] - s[1], s[1]) =
            IF m < s[1] + k THEN Append(V[k][s[1]], Subtree(ls)[(s[2] - s[1]) - k][s[1] + k])
            ELSE Append(V[(s[2] - s[1]) - k][s[1] + k], Subtree(ls)[k][s[1]])
      BY <2>5, <3>1 DEF Audited
    <3>5. GoAudited(ls, m, U, s) =
            IF m < s[1] + k THEN Append(U[Core!FirstPart(s)], Core!Roots(ls)[Core!SecondPart(s)])
            ELSE Append(U[Core!SecondPart(s)], Core!Roots(ls)[Core!FirstPart(s)])
      <4>1. ~(s[2] - s[1] < 2)
        BY <2>1, <2>5
      <4> QED
        BY <3>1, <4>1 DEF GoAudited
    <3>6. U[Core!FirstPart(s)] = V[k][s[1]] /\ U[Core!SecondPart(s)] = V[(s[2] - s[1]) - k][s[1] + k]
      BY <1>2, <2>5, <3>2
    <3> QED
      <4>1. PathOn(V, s) = Audited(ls, m, V, s[2] - s[1], s[1])
        <5>1. s[2] - s[1] # 0
          BY <2>5
        <5> QED
          BY <2>3, <5>1
      <4> QED
        BY <3>3, <3>4, <3>5, <3>6, <4>1, Zenon
  <2> QED
    BY <2>1, <2>2, <2>4, <2>5
<1>3. \A s \in Core!Slices(L) : s[2] - s[1] > 1 => Core!FirstPart(s) \in Core!Slices(L) /\ Core!SecondPart(s) \in Core!Slices(L)
  BY GoParts
<1> DEFINE T == [s \in Core!Slices(L) |-> PathOn(V, s)]
           D(P) == P = [s \in Core!Slices(Len(ls)) |->
                          IF s[2] - s[1] < 2 THEN <<>>
                          ELSE IF m < Core!SplitAt(s)
                            THEN Append(P[Core!FirstPart(s)], Core!Roots(ls)[Core!SecondPart(s)])
                          ELSE Append(P[Core!SecondPart(s)], Core!Roots(ls)[Core!FirstPart(s)])]
           P == CHOOSE f : D(f)
<1>4. Core!InclusionProof(ls, m) = P[<<0, Len(ls)>>]
  BY Zenon DEF Core!InclusionProof
<1>5. \A U : D(U) <=> U = [s \in Core!Slices(L) |-> GoAudited(ls, m, U, s)]
  BY <1>0 DEF GoAudited
<1>6. T = [s \in Core!Slices(L) |-> GoAudited(ls, m, T, s)]
  <2>1. \A s \in Core!Slices(L) : GoAudited(ls, m, T, s) = PathOn(V, s)
    BY <1>2, <1>3
  <2> QED
    BY <2>1
<1>7. P = [s \in Core!Slices(L) |-> GoAudited(ls, m, P, s)]
  <2>1. D(T)
    <3> HIDE DEF T, D
    <3> QED
      BY <1>5, <1>6
  <2>2. D(P)
    <3> HIDE DEF D, T
    <3> QED
      BY <2>1
  <2> QED
    <3> HIDE DEF D, P
    <3> QED
      BY <1>5, <2>2
<1> HIDE DEF P
<1> DEFINE Good == {d \in Nat : \A s \in Core!Slices(L) : s[2] - s[1] = d => P[s] = PathOn(V, s)}
<1>8. ASSUME NEW d \in Nat, 0..(d-1) \subseteq Good, NEW s \in Core!Slices(L), s[2] - s[1] = d
      PROVE  P[s] = PathOn(V, s)
  <2>1. ASSUME s[2] - s[1] > 1
        PROVE  /\ P[Core!FirstPart(s)] = PathOn(V, Core!FirstPart(s))
               /\ P[Core!SecondPart(s)] = PathOn(V, Core!SecondPart(s))
    <3>1. PICK k \in 1..(s[2] - s[1] - 1) :
                  Core!FirstPart(s) = <<s[1], s[1] + k>> /\ Core!SecondPart(s) = <<s[1] + k, s[2]>>
      BY <2>1, GoParts
    <3>2. s[1] \in Nat /\ s[2] \in Nat
      BY GoParts
    <3>3. k \in 0..(d-1) /\ d - k \in 0..(d-1) /\ (s[1] + k) - s[1] = k /\ s[2] - (s[1] + k) = d - k
      BY <1>8, <3>1, <3>2
    <3>4. k \in Good /\ d - k \in Good
      BY <1>8, <3>3
    <3> QED
      BY <1>3, <2>1, <3>1, <3>3, <3>4
  <2> QED
    BY <1>2, <1>7, <2>1
<1>9. \A d \in Nat : 0..(d-1) \subseteq Good => d \in Good
  BY <1>8
<1>10. L \in Good
  <2> HIDE DEF Good
  <2> QED
    BY <1>9, Induction
<1>11. <<0, L>> \in Core!Slices(L)
  BY DEF Core!Slices
<1>12. P[<<0, L>>] = PathOn(V, <<0, L>>)
  BY <1>10, <1>11
<1> QED
  BY <1>0, <1>1, <1>4, <1>12 DEF PathOn

\* One step of the recursion of subproof.
GoSubproof(ls, m, P, x) ==
    IF m = x[1][2] \/ x[1][2] - x[1][1] < 2 THEN IF x[2] THEN <<>> ELSE <<Core!Roots(ls)[x[1]]>>
    ELSE IF m <= Core!SplitAt(x[1])
      THEN Append(P[<<Core!FirstPart(x[1]), x[2]>>], Core!Roots(ls)[Core!SecondPart(x[1])])
    ELSE Append(P[<<Core!SecondPart(x[1]), FALSE>>], Core!Roots(ls)[Core!FirstPart(x[1])])

\* P has the results of that recursion for every slice and b.
GoSubproofsOf(ls, L, m, P) ==
    /\ Core!Subproof(ls, m) = P[<<<<0, L>>, TRUE>>]
    /\ \A x \in Core!Slices(L) \X BOOLEAN : P[x] = GoSubproof(ls, m, P, x)

\* The recursion of subproof (consistency.go:12-29) has a value for every slice.
LEMMA GoSubproofs ==
  ASSUME NEW ls, NEW L \in Nat, L = Len(ls), NEW m
  PROVE  \E P : GoSubproofsOf(ls, L, m, P)
<1> DEFINE I == Core!Slices(L) \X BOOLEAN
           Size(x) == x[1][2] - x[1][1]
           Right(g, d) == \A x \in I : Size(x) <= d => g[x] = GoSubproof(ls, m, g, x)
           Good == {d \in Nat : \E g : Right(g, d)}
<1>1. ASSUME NEW x \in I, Size(x) > 1
      PROVE  /\ <<Core!FirstPart(x[1]), x[2]>> \in I /\ <<Core!SecondPart(x[1]), FALSE>> \in I
             /\ Size(<<Core!FirstPart(x[1]), x[2]>>) < Size(x) /\ Size(<<Core!SecondPart(x[1]), FALSE>>) < Size(x)
             /\ Size(<<Core!FirstPart(x[1]), x[2]>>) \in Nat /\ Size(<<Core!SecondPart(x[1]), FALSE>>) \in Nat
  <2>1. PICK s \in Core!Slices(L) : s = x[1]
    OBVIOUS
  <2>2. s[1] \in Nat /\ s[2] \in Nat /\ x[2] \in BOOLEAN /\ s[2] - s[1] > 1
    BY <1>1, <2>1, GoParts
  <2>3. PICK k \in 1..(s[2] - s[1] - 1) :
                  /\ Core!FirstPart(s) = <<s[1], s[1] + k>> /\ Core!SecondPart(s) = <<s[1] + k, s[2]>>
                  /\ Core!FirstPart(s) \in Core!Slices(L) /\ Core!SecondPart(s) \in Core!Slices(L)
    BY <2>2, GoParts
  <2>4. /\ Core!FirstPart(s)[2] - Core!FirstPart(s)[1] = k
        /\ Core!SecondPart(s)[2] - Core!SecondPart(s)[1] = (s[2] - s[1]) - k
    BY <2>2, <2>3
  <2>5. k < s[2] - s[1] /\ (s[2] - s[1]) - k < s[2] - s[1] /\ k \in Nat /\ (s[2] - s[1]) - k \in Nat
    BY <2>2, <2>3
  <2> QED
    BY <2>1, <2>2, <2>3, <2>4, <2>5
<1>2. ASSUME NEW x \in I, NEW g, NEW h,
             Size(x) > 1 => /\ g[<<Core!FirstPart(x[1]), x[2]>>] = h[<<Core!FirstPart(x[1]), x[2]>>]
                            /\ g[<<Core!SecondPart(x[1]), FALSE>>] = h[<<Core!SecondPart(x[1]), FALSE>>]
      PROVE  GoSubproof(ls, m, g, x) = GoSubproof(ls, m, h, x)
  <2>1. Size(x) \in Nat
    BY GoParts
  <2>2. CASE Size(x) < 2
    BY <2>2 DEF GoSubproof
  <2>3. CASE Size(x) > 1
    BY <1>2, <2>3 DEF GoSubproof
  <2> QED
    BY <2>1, <2>2, <2>3
<1>3. \A x \in I : Size(x) \in 0..L
  BY GoParts
<1> HIDE DEF I, Size
<1>4. ASSUME NEW d \in Nat, 0..(d-1) \subseteq Good
      PROVE  \E g : Right(g, d)
  <2>1. CASE d = 0
    <3> DEFINE g == [x \in I |-> GoSubproof(ls, m, <<>>, x)]
    <3>1. \A x \in I : Size(x) <= 0 => ~(Size(x) > 1)
      BY <1>3
    <3>2. \A x \in I : Size(x) <= 0 => GoSubproof(ls, m, <<>>, x) = GoSubproof(ls, m, g, x)
      <4> HIDE DEF g
      <4> QED
        BY <1>2, <3>1
    <3>3. Right(g, d)
      BY <2>1, <3>2
    <3> QED
      BY <3>3
  <2>2. CASE d # 0
    <3>1. d - 1 \in 0..(d-1)
      BY <2>2
    <3>2. PICK h : Right(h, d - 1)
      BY <1>4, <3>1
    <3> DEFINE g == [x \in I |-> GoSubproof(ls, m, h, x)]
    <3>3. \A x \in I : g[x] = GoSubproof(ls, m, h, x)
      OBVIOUS
    <3> HIDE DEF g
    <3>4. \A x \in I : Size(x) <= d - 1 => h[x] = g[x]
      BY <3>2, <3>3
    <3>5. ASSUME NEW x \in I, Size(x) <= d
          PROVE  GoSubproof(ls, m, h, x) = GoSubproof(ls, m, g, x)
      <4>1. ASSUME Size(x) > 1
            PROVE  /\ h[<<Core!FirstPart(x[1]), x[2]>>] = g[<<Core!FirstPart(x[1]), x[2]>>]
                   /\ h[<<Core!SecondPart(x[1]), FALSE>>] = g[<<Core!SecondPart(x[1]), FALSE>>]
        <5>1. Size(x) \in Nat
          BY <1>3
        <5>2. \A y \in I : Size(y) \in Nat /\ Size(y) < Size(x) => Size(y) <= d - 1
          BY <3>5, <5>1
        <5> QED
          BY <1>1, <3>4, <4>1, <5>2
      <4> QED
        BY <1>2, <4>1
    <3>6. Right(g, d)
      BY <3>3, <3>5
    <3> QED
      BY <3>6
  <2> QED
    BY <2>1, <2>2
<1>5. \A d \in Nat : 0..(d-1) \subseteq Good => d \in Good
  BY <1>4
<1>6. L \in Good
  <2> HIDE DEF Good
  <2> QED
    BY <1>5, Induction
<1>7. PICK h : Right(h, L)
  BY <1>6
<1> DEFINE F == [x \in I |-> GoSubproof(ls, m, h, x)]
           D(P) == P = [x \in Core!Slices(Len(ls)) \X BOOLEAN |-> GoSubproof(ls, m, P, x)]
           P == CHOOSE f : D(f)
<1>8. \A x \in I : h[x] = F[x]
  BY <1>3, <1>7
<1>9. \A x \in I : GoSubproof(ls, m, h, x) = GoSubproof(ls, m, F, x)
  <2> HIDE DEF F
  <2> QED
    BY <1>1, <1>2, <1>8
<1>10. D(F)
  BY <1>9 DEF I
<1>11. Core!Subproof(ls, m) = P[<<<<0, Len(ls)>>, TRUE>>]
  BY Zenon DEF Core!Subproof, GoSubproof
<1>12. D(P)
  <2> HIDE DEF D, F
  <2> QED
    BY <1>10
<1> HIDE DEF P
<1>13. \A x \in I : P[x] = GoSubproof(ls, m, P, x)
  BY <1>12 DEF I
<1> QED
  BY <1>11, <1>13 DEF I, GoSubproofsOf

\* b says that the slice begins with the first leaf, as lo = 0 does in _subproof.
LEMMA GoConsistencyProof ==
  ASSUME NEW S, NEW ls \in Seq(S), NEW m \in Nat
  PROVE  Len(ls) # 0 => Core!ConsistencyProof(ls, m) = ConsistencyProof(ls, m)
<1> SUFFICES ASSUME Len(ls) # 0 PROVE Core!ConsistencyProof(ls, m) = ConsistencyProof(ls, m)
  OBVIOUS
<1>0. PICK L \in Nat \ {0} : L = Len(ls)
  OBVIOUS
<1>1. PICK V : /\ ConsistencyProof(ls, m) = V[L][0]
               /\ \A n \in 1..L : \A lo \in 0..(L-n) : V[n][lo] = Subproof(ls, m, V, n, lo)
  BY <1>0, SubproofValue
<1>2. PICK P : GoSubproofsOf(ls, L, m, P)
  BY <1>0, GoSubproofs
<1>3. L \in 1..L /\ 0 \in 0..(L-L) /\ 0 + L = L
  OBVIOUS
<1>4. CASE m = L
  <2>1. V[L][0] = <<>>
    BY <1>1, <1>3, <1>4 DEF Subproof
  <2> QED
    BY <1>0, <1>1, <1>4, <2>1 DEF Core!ConsistencyProof
<1>5. CASE m # L
  <2> DEFINE Proof(s) == IF s[1] = 0 THEN P[<<s, TRUE>>] ELSE P[<<s, FALSE>>]
             Good == {d \in Nat : \A s \in Core!Slices(L) : s[2] - s[1] = d /\ d # 0 => Proof(s) = V[d][s[1]]}
  <2>0. ASSUME NEW s \in Core!Slices(L)
        PROVE  Proof(s) = IF m = s[2] \/ s[2] - s[1] < 2 THEN IF s[1] = 0 THEN <<>> ELSE <<Core!Roots(ls)[s]>>
                       ELSE IF m <= Core!SplitAt(s)
                         THEN Append(IF s[1] = 0 THEN P[<<Core!FirstPart(s), TRUE>>] ELSE P[<<Core!FirstPart(s), FALSE>>],
                                     Core!Roots(ls)[Core!SecondPart(s)])
                       ELSE Append(P[<<Core!SecondPart(s), FALSE>>], Core!Roots(ls)[Core!FirstPart(s)])
    <3>1. P[<<s, TRUE>>] = GoSubproof(ls, m, P, <<s, TRUE>>) /\ P[<<s, FALSE>>] = GoSubproof(ls, m, P, <<s, FALSE>>)
      BY <1>2 DEF GoSubproofsOf
    <3>2. /\ <<s, TRUE>>[1] = s /\ <<s, TRUE>>[2] = TRUE
          /\ <<s, FALSE>>[1] = s /\ <<s, FALSE>>[2] = FALSE
      OBVIOUS
    <3> QED
      BY <3>1, <3>2, Zenon DEF GoSubproof
  <2> HIDE DEF Proof
  <2>1. ASSUME NEW d \in Nat, 0..(d-1) \subseteq Good, NEW s \in Core!Slices(L), s[2] - s[1] = d, d # 0
        PROVE  Proof(s) = V[d][s[1]]
    <3>0. s[1] \in 0..L /\ s[2] \in s[1]..L
      BY GoParts
    <3>1. d \in 1..L /\ s[1] \in 0..(L-d) /\ s[1] + d = s[2] /\ s[1] # s[2]
      BY <2>1, <3>0
    <3>3. V[d][s[1]] = Subproof(ls, m, V, d, s[1])
      BY <1>1, <3>1
    <3>4. CASE m = s[2] \/ d = 1
      <4>1. Core!Roots(ls)[s] = Subtree(ls)[d][s[1]]
        <5>1. Core!Roots(ls)[s] = RootOn(ls, s)
          BY <1>0, GoRoots
        <5> QED
          BY <2>1, <3>1, <5>1 DEF RootOn
      <4>2. Subproof(ls, m, V, d, s[1]) = IF s[1] = 0 THEN <<>> ELSE <<Subtree(ls)[d][s[1]]>>
        BY <3>1, <3>4 DEF Subproof
      <4>3. Proof(s) = IF s[1] = 0 THEN <<>> ELSE <<Core!Roots(ls)[s]>>
        <5>1. m = s[2] \/ s[2] - s[1] < 2
          BY <2>1, <3>4
        <5> QED
          BY <2>0, <5>1
      <4> QED
        BY <3>3, <4>1, <4>2, <4>3
    <3>5. CASE m # s[2] /\ d # 1
      <4>1. PICK k \in 1..(d - 1) :
                  /\ k = LargestPow2(d) /\ Core!SplitAt(s) = s[1] + k
                  /\ Core!FirstPart(s) = <<s[1], s[1] + k>> /\ Core!SecondPart(s) = <<s[1] + k, s[2]>>
                  /\ Core!FirstPart(s) \in Core!Slices(L) /\ Core!SecondPart(s) \in Core!Slices(L)
        <5>1. s[2] - s[1] > 1
          BY <2>1, <3>5
        <5> QED
          BY <2>1, <5>1, GoParts
      <4>2. /\ (s[1] + k) - s[1] = k /\ s[2] - (s[1] + k) = d - k /\ s[1] # s[1] + k /\ s[1] + k # s[2]
            /\ s[1] + k # 0 /\ k \in 0..(d-1) /\ d - k \in 0..(d-1) /\ k # 0 /\ d - k # 0
        BY <3>0, <3>1
      <4>3. /\ Core!Roots(ls)[Core!FirstPart(s)] = Subtree(ls)[k][s[1]]
            /\ Core!Roots(ls)[Core!SecondPart(s)] = Subtree(ls)[d - k][s[1] + k]
        <5>1. /\ Core!Roots(ls)[Core!FirstPart(s)] = RootOn(ls, Core!FirstPart(s))
              /\ Core!Roots(ls)[Core!SecondPart(s)] = RootOn(ls, Core!SecondPart(s))
          BY <1>0, <4>1, GoRoots
        <5> QED
          BY <4>1, <4>2, <5>1 DEF RootOn
      <4>4. Proof(Core!FirstPart(s)) = V[k][s[1]]
        <5>1. k \in Good
          BY <2>1, <4>2
        <5>2. Core!FirstPart(s)[1] = s[1] /\ Core!FirstPart(s)[2] - Core!FirstPart(s)[1] = k
          BY <4>1, <4>2
        <5> QED
          BY <4>1, <4>2, <5>1, <5>2
      <4>5. Proof(Core!SecondPart(s)) = V[d - k][s[1] + k]
        <5>1. d - k \in Good
          BY <2>1, <4>2
        <5>2. Core!SecondPart(s)[1] = s[1] + k /\ Core!SecondPart(s)[2] - Core!SecondPart(s)[1] = d - k
          BY <4>1, <4>2
        <5> QED
          BY <4>1, <4>2, <5>1, <5>2
      <4>6. Subproof(ls, m, V, d, s[1]) =
              IF m <= s[1] + k THEN Append(V[k][s[1]], Subtree(ls)[d - k][s[1] + k])
              ELSE Append(V[d - k][s[1] + k], Subtree(ls)[k][s[1]])
        BY <3>1, <3>5, <4>1 DEF Subproof
      <4>7. Proof(s) = IF m <= s[1] + k THEN Append(Proof(Core!FirstPart(s)), Core!Roots(ls)[Core!SecondPart(s)])
                    ELSE Append(Proof(Core!SecondPart(s)), Core!Roots(ls)[Core!FirstPart(s)])
        <5>1. ~(m = s[2] \/ s[2] - s[1] < 2)
          BY <2>1, <3>5
        <5>2. /\ Proof(Core!FirstPart(s)) =
                   IF s[1] = 0 THEN P[<<Core!FirstPart(s), TRUE>>] ELSE P[<<Core!FirstPart(s), FALSE>>]
              /\ Proof(Core!SecondPart(s)) = P[<<Core!SecondPart(s), FALSE>>]
          <6>1. Core!FirstPart(s)[1] = s[1] /\ Core!SecondPart(s)[1] = s[1] + k
            BY <4>1
          <6> QED
            BY <4>2, <6>1 DEF Proof
        <5> QED
          BY <2>0, <4>1, <5>1, <5>2
      <4> QED
        BY <3>3, <4>3, <4>4, <4>5, <4>6, <4>7, Zenon
    <3> QED
      BY <3>4, <3>5
  <2>2. \A d \in Nat : 0..(d-1) \subseteq Good => d \in Good
    BY <2>1
  <2>3. L \in Good
    <3> HIDE DEF Good
    <3> QED
      BY <2>2, Induction
  <2>4. <<0, L>> \in Core!Slices(L) /\ <<0, L>>[2] - <<0, L>>[1] = L /\ <<0, L>>[1] = 0
    BY DEF Core!Slices
  <2>5. Proof(<<0, L>>) = V[L][0]
    BY <2>3, <2>4
  <2> QED
    BY <1>0, <1>1, <1>2, <1>5, <2>4, <2>5 DEF Core!ConsistencyProof, Proof, GoSubproofsOf
<1> QED
  BY <1>4, <1>5

(***************************************************************************)
(* The Go core's verifier walks up the same nodes: its loops rise level by  *)
(* level, merkle.py's rise at once.                                         *)
(***************************************************************************)
\* The powers of two of the Go core.
LEMMA GoPow2 == Core!Pow2 = Pow2
  BY Zenon DEF Core!Pow2, Pow2

\* Levels are climbed one after the other or at once.
LEMMA DividedTwice ==
  ASSUME NEW x \in Nat, NEW i \in Nat, NEW j \in Nat
  PROVE  /\ x \div Pow2[i] \in Nat
         /\ (x \div Pow2[i]) \div Pow2[j] = x \div Pow2[i + j]
<1>1. Above(x, 0, x) /\ 0 + i = i /\ i + j \in Nat /\ 0 + (i + j) = i + j
  BY Pow2Value DEF Above
<1>2. Above(x, i, x \div Pow2[i])
  BY <1>1, AboveRise
<1>3. Above(x, i + j, x \div Pow2[i + j])
  BY <1>1, AboveRise
<1>4. Above(x, i + j, (x \div Pow2[i]) \div Pow2[j])
  BY <1>2, AboveRise
<1>5. x \div Pow2[i + j] = (x \div Pow2[i]) \div Pow2[j]
  BY <1>1, <1>3, <1>4, AboveOne
<1> QED
  BY <1>2, <1>5 DEF Above

\* The first two powers.
LEMMA PowOne == Pow2[1] = 2 /\ Pow2[0] = 1
<1>1. 0 + 1 = 1 /\ 0 \in Nat
  OBVIOUS
<1>2. Pow2[0 + 1] = 2 * Pow2[0] /\ Pow2[0] = 1
  BY <1>1, Pow2Value
<1> QED
  BY <1>1, <1>2

\* A half has one factor of 2 less.
LEMMA TwosOfHalf ==
  ASSUME NEW n \in Nat \ {0}
  PROVE  /\ Twos(n) \in Nat
         /\ n % 2 = 1 => Twos(n) = 0
         /\ n % 2 = 0 => n \div 2 \in Nat \ {0} /\ Twos(n \div 2) \in Nat /\ Twos(n) = Twos(n \div 2) + 1
<1>1. PICK e \in Nat, a \in Nat : e = Twos(n) /\ n = (2 * a + 1) * Pow2[e]
  <2>1. PICK q \in Nat : n = q * Pow2[Twos(n)] /\ q % 2 = 1
    BY TwosValue
  <2>2. PICK a \in Nat : q = 2 * a + 1
    <3>1. q = 2 * (q \div 2) + 1 /\ q \div 2 \in Nat
      BY <2>1
    <3> QED
      BY <3>1
  <2> QED
    BY <2>1, <2>2, TwosValue
<1>2. CASE n % 2 = 1
  <2>1. PICK b \in Nat : n = 2 * b + 1
    <3>1. n = 2 * (n \div 2) + 1 /\ n \div 2 \in Nat
      BY <1>2
    <3> QED
      BY <3>1
  <2>2. n = (2 * b + 1) * Pow2[0] /\ 0 \in Nat
    BY <2>1, PowOne
  <2>3. e = 0
    <3>1. (2 * a + 1) * Pow2[e] = (2 * b + 1) * Pow2[0]
      BY <1>1, <2>2
    <3> QED
      BY <2>2, <3>1, OddPart
  <2> QED
    BY <1>1, <1>2, <2>3
<1>3. CASE n % 2 = 0
  <2>1. PICK h \in Nat \ {0} : n = 2 * h /\ h = n \div 2
    <3>1. n = 2 * (n \div 2) /\ n \div 2 \in Nat \ {0}
      BY <1>3
    <3> QED
      BY <3>1
  <2>2. PICK d \in Nat, b \in Nat : d = Twos(h) /\ h = (2 * b + 1) * Pow2[d]
    <3>1. PICK q \in Nat : h = q * Pow2[Twos(h)] /\ q % 2 = 1
      BY TwosValue
    <3>2. PICK b \in Nat : q = 2 * b + 1
      <4>1. q = 2 * (q \div 2) + 1 /\ q \div 2 \in Nat
        BY <3>1
      <4> QED
        BY <4>1
    <3> QED
      BY <3>1, <3>2, TwosValue
  <2>3. PICK p \in Nat : p = Pow2[d] /\ Pow2[d + 1] = 2 * p
    BY Pow2Value
  <2>4. n = (2 * b + 1) * Pow2[d + 1]
    <3>1. 2 * ((2 * b + 1) * p) = (2 * b + 1) * (2 * p)
      OBVIOUS
    <3> QED
      BY <2>1, <2>2, <2>3, <3>1
  <2>5. e = d + 1
    <3>1. (2 * a + 1) * Pow2[e] = (2 * b + 1) * Pow2[d + 1]
      BY <1>1, <2>4, Zenon
    <3>2. d + 1 \in Nat
      OBVIOUS
    <3> QED
      BY <3>1, <3>2, OddPart
  <2> QED
    BY <1>1, <1>3, <2>1, <2>2, <2>5
<1> QED
  BY <1>1, <1>2, <1>3

\* Both nodes of a walk some levels up.
Risen(v, e) == <<v[1] \div Pow2[e], v[2] \div Pow2[e]>>

\* e + 1 levels up is one level up and then e more.
LEMMA RisenOn ==
  ASSUME NEW v \in Nat \X Nat, NEW e \in Nat
  PROVE  /\ Risen(v, 0) = v
         /\ <<v[1] \div 2, v[2] \div 2>> \in Nat \X Nat
         /\ Risen(<<v[1] \div 2, v[2] \div 2>>, e) = Risen(v, e + 1)
<1>1. v[1] \in Nat /\ v[2] \in Nat /\ v = <<v[1], v[2]>>
  OBVIOUS
<1>2. v[1] \div 2 \in Nat /\ v[2] \div 2 \in Nat /\ v[1] \div 1 = v[1] /\ v[2] \div 1 = v[2]
  BY <1>1
<1>3. /\ (v[1] \div Pow2[1]) \div Pow2[e] = v[1] \div Pow2[1 + e]
      /\ (v[2] \div Pow2[1]) \div Pow2[e] = v[2] \div Pow2[1 + e]
  <2>1. \A x \in Nat : (x \div Pow2[1]) \div Pow2[e] = x \div Pow2[1 + e]
    BY DividedTwice
  <2> QED
    BY <1>1, <2>1
<1>4. 1 + e = e + 1
  OBVIOUS
<1> QED
  BY <1>1, <1>2, <1>3, <1>4, PowOne DEF Risen

\* The loop of ShiftOdd goes up as many levels as fn ends in ones,
LEMMA ShiftOddRises ==
  ASSUME NEW w, w.fn \in Nat, w.sn \in Nat
  PROVE  LET e == Twos(w.fn + 1)
         IN  Core!ShiftOdd(w) = [w EXCEPT !.fn = w.fn \div Pow2[e], !.sn = w.sn \div Pow2[e]]
<1> DEFINE V == Nat \X Nat
           Up(v) == <<v[1] \div 2, v[2] \div 2>>
           To(v) == Risen(v, Twos(v[1] + 1))
           D(S) == S = [v \in V |-> IF v[1] % 2 = 1 THEN S[<<v[1] \div 2, v[2] \div 2>>] ELSE v]
           S == CHOOSE f : D(f)
           T == [v \in V |-> To(v)]
<1>1. Core!ShiftOdd(w) = [w EXCEPT !.fn = S[<<w.fn, w.sn>>][1], !.sn = S[<<w.fn, w.sn>>][2]]
  BY Zenon DEF Core!ShiftOdd
<1>2. ASSUME NEW v \in V
      PROVE  Up(v) \in V /\ To(v) = IF v[1] % 2 = 1 THEN To(Up(v)) ELSE v
  <2>1. v[1] \in Nat /\ v[1] + 1 \in Nat \ {0} /\ Up(v) \in V
    BY RisenOn
  <2>2. CASE v[1] % 2 = 1
    <3>1. (v[1] + 1) % 2 = 0 /\ (v[1] + 1) \div 2 = v[1] \div 2 + 1
      BY <2>1, <2>2
    <3>2. /\ Twos(v[1] \div 2 + 1) \in Nat /\ Twos(v[1] + 1) = Twos(v[1] \div 2 + 1) + 1
      BY <2>1, <3>1, TwosOfHalf
    <3>3. Up(v)[1] = v[1] \div 2
      OBVIOUS
    <3>4. To(Up(v)) = Risen(Up(v), Twos(v[1] \div 2 + 1))
      BY <3>3
    <3> QED
      BY <2>1, <2>2, <3>2, <3>4, RisenOn
  <2>3. CASE v[1] % 2 # 1
    <3>1. (v[1] + 1) % 2 = 1
      BY <2>1, <2>3
    <3>2. Twos(v[1] + 1) = 0
      BY <2>1, <3>1, TwosOfHalf
    <3>3. Risen(v, 0) = v
      BY RisenOn
    <3> QED
      BY <2>1, <2>3, <3>2, <3>3
  <2> QED
    BY <2>2, <2>3
<1> HIDE DEF To
<1>3. D(T)
  <2>1. \A v \in V : T[v] = IF v[1] % 2 = 1 THEN T[Up(v)] ELSE v
    BY <1>2
  <2>2. T = [v \in V |-> IF v[1] % 2 = 1 THEN T[Up(v)] ELSE v]
    <3> HIDE DEF Up, V
    <3> QED
      BY <2>1
  <2> QED
    BY <2>2
<1>4. D(S)
  <2> HIDE DEF D, T
  <2> QED
    BY <1>3
<1> HIDE DEF S
<1>5. \A v \in V : S[v] = IF v[1] % 2 = 1 THEN S[Up(v)] ELSE v
  BY <1>4
<1> DEFINE Good == {n \in Nat : \A v \in V : v[1] = n => S[v] = To(v)}
<1>6. ASSUME NEW n \in Nat, 0..(n-1) \subseteq Good, NEW v \in V, v[1] = n
      PROVE  S[v] = To(v)
  <2>1. CASE v[1] % 2 = 1
    <3>1. Up(v) \in V /\ Up(v)[1] = v[1] \div 2 /\ v[1] \div 2 \in 0..(n-1)
      BY <1>2, <1>6, <2>1
    <3>2. S[Up(v)] = To(Up(v))
      BY <1>6, <3>1
    <3> QED
      BY <1>2, <1>5, <2>1, <3>2
  <2>2. CASE v[1] % 2 # 1
    BY <1>2, <1>5, <2>2
  <2> QED
    BY <2>1, <2>2
<1>7. \A n \in Nat : 0..(n-1) \subseteq Good => n \in Good
  BY <1>6
<1>8. w.fn \in Good
  <2> HIDE DEF Good
  <2> QED
    BY <1>7, Induction
<1>9. <<w.fn, w.sn>> \in V /\ <<w.fn, w.sn>>[1] = w.fn /\ <<w.fn, w.sn>>[2] = w.sn
  OBVIOUS
<1>10. S[<<w.fn, w.sn>>] = To(<<w.fn, w.sn>>)
  BY <1>8, <1>9
<1>11. To(<<w.fn, w.sn>>) = <<w.fn \div Pow2[Twos(w.fn + 1)], w.sn \div Pow2[Twos(w.fn + 1)]>>
  BY <1>9 DEF To, Risen
<1>12. /\ S[<<w.fn, w.sn>>][1] = w.fn \div Pow2[Twos(w.fn + 1)]
       /\ S[<<w.fn, w.sn>>][2] = w.sn \div Pow2[Twos(w.fn + 1)]
  BY <1>10, <1>11
<1> QED
  BY <1>1, <1>12, Zenon

\* and that of ShiftEven as many as fn ends in zeros.
LEMMA ShiftEvenRises ==
  ASSUME NEW w, w.fn \in Nat, w.sn \in Nat
  PROVE  LET e == IF w.fn = 0 THEN 0 ELSE Twos(w.fn)
         IN  Core!ShiftEven(w) = [w EXCEPT !.fn = w.fn \div Pow2[e], !.sn = w.sn \div Pow2[e]]
<1> DEFINE V == Nat \X Nat
           Up(v) == <<v[1] \div 2, v[2] \div 2>>
           To(v) == Risen(v, IF v[1] = 0 THEN 0 ELSE Twos(v[1]))
           D(S) == S = [v \in V |-> IF v[1] % 2 = 0 /\ v[1] # 0 THEN S[<<v[1] \div 2, v[2] \div 2>>] ELSE v]
           S == CHOOSE f : D(f)
           T == [v \in V |-> To(v)]
<1>1. Core!ShiftEven(w) = [w EXCEPT !.fn = S[<<w.fn, w.sn>>][1], !.sn = S[<<w.fn, w.sn>>][2]]
  BY Zenon DEF Core!ShiftEven
<1>2. ASSUME NEW v \in V
      PROVE  Up(v) \in V /\ To(v) = IF v[1] % 2 = 0 /\ v[1] # 0 THEN To(Up(v)) ELSE v
  <2>1. v[1] \in Nat /\ Up(v) \in V
    BY RisenOn
  <2>2. CASE v[1] % 2 = 0 /\ v[1] # 0
    <3>2. /\ v[1] \div 2 \in Nat \ {0} /\ Twos(v[1] \div 2) \in Nat /\ Twos(v[1]) = Twos(v[1] \div 2) + 1
      BY <2>1, <2>2, TwosOfHalf
    <3>3. Up(v)[1] = v[1] \div 2
      OBVIOUS
    <3>4. To(Up(v)) = Risen(Up(v), Twos(v[1] \div 2))
      BY <3>2, <3>3
    <3> QED
      BY <2>1, <2>2, <3>2, <3>4, RisenOn
  <2>3. CASE ~(v[1] % 2 = 0 /\ v[1] # 0)
    <3>1. v[1] = 0 \/ v[1] % 2 = 1
      BY <2>1, <2>3
    <3>2. (IF v[1] = 0 THEN 0 ELSE Twos(v[1])) = 0
      BY <2>1, <3>1, TwosOfHalf
    <3>3. Risen(v, 0) = v
      BY RisenOn
    <3> QED
      BY <2>1, <2>3, <3>2, <3>3
  <2> QED
    BY <2>2, <2>3
<1> HIDE DEF To
<1>3. D(T)
  <2>1. \A v \in V : T[v] = IF v[1] % 2 = 0 /\ v[1] # 0 THEN T[Up(v)] ELSE v
    BY <1>2
  <2>2. T = [v \in V |-> IF v[1] % 2 = 0 /\ v[1] # 0 THEN T[Up(v)] ELSE v]
    <3> HIDE DEF Up, V
    <3> QED
      BY <2>1
  <2> QED
    BY <2>2
<1>4. D(S)
  <2> HIDE DEF D, T
  <2> QED
    BY <1>3
<1> HIDE DEF S
<1>5. \A v \in V : S[v] = IF v[1] % 2 = 0 /\ v[1] # 0 THEN S[Up(v)] ELSE v
  BY <1>4
<1> DEFINE Good == {n \in Nat : \A v \in V : v[1] = n => S[v] = To(v)}
<1>6. ASSUME NEW n \in Nat, 0..(n-1) \subseteq Good, NEW v \in V, v[1] = n
      PROVE  S[v] = To(v)
  <2>1. CASE v[1] % 2 = 0 /\ v[1] # 0
    <3>1. Up(v) \in V /\ Up(v)[1] = v[1] \div 2 /\ v[1] \div 2 \in 0..(n-1)
      BY <1>2, <1>6, <2>1
    <3>2. S[Up(v)] = To(Up(v))
      BY <1>6, <3>1
    <3> QED
      BY <1>2, <1>5, <2>1, <3>2
  <2>2. CASE ~(v[1] % 2 = 0 /\ v[1] # 0)
    BY <1>2, <1>5, <2>2
  <2> QED
    BY <2>1, <2>2
<1>7. \A n \in Nat : 0..(n-1) \subseteq Good => n \in Good
  BY <1>6
<1>8. w.fn \in Good
  <2> HIDE DEF Good
  <2> QED
    BY <1>7, Induction
<1>9. <<w.fn, w.sn>> \in V /\ <<w.fn, w.sn>>[1] = w.fn /\ <<w.fn, w.sn>>[2] = w.sn
  OBVIOUS
<1>10. S[<<w.fn, w.sn>>] = To(<<w.fn, w.sn>>)
  BY <1>8, <1>9
<1> DEFINE e == IF w.fn = 0 THEN 0 ELSE Twos(w.fn)
<1>11. To(<<w.fn, w.sn>>) = <<w.fn \div Pow2[e], w.sn \div Pow2[e]>>
  BY <1>9 DEF To, Risen
<1>12. /\ S[<<w.fn, w.sn>>][1] = w.fn \div Pow2[e]
       /\ S[<<w.fn, w.sn>>][2] = w.sn \div Pow2[e]
  BY <1>10, <1>11
<1> QED
  BY <1>1, <1>12, Zenon

\* The state of a walk, and what a loop changes of it.
WalkOf(fn, sn, fr, sr, ok) == [fn |-> fn, sn |-> sn, fr |-> fr, sr |-> sr, ok |-> ok]
Placed(w, fn, sn) == [w EXCEPT !.fn = fn, !.sn = sn]
Joined(w, fr, sr) == [w EXCEPT !.fr = fr, !.sr = sr]
Extended(w, sr) == [w EXCEPT !.sr = sr]
Accepting(w) == w.ok

\* The fields of a walk.
LEMMA WalkFields ==
  ASSUME NEW fn, NEW sn, NEW fr, NEW sr, NEW ok, NEW w, w = WalkOf(fn, sn, fr, sr, ok)
  PROVE  w.fn = fn /\ w.sn = sn /\ w.fr = fr /\ w.sr = sr /\ w.ok = ok /\ "ok" \in DOMAIN w
BY DEF WalkOf

\* What a step of a loop leaves of a walk.
LEMMA WalkChanges ==
  ASSUME NEW fn, NEW sn, NEW fr, NEW sr, NEW ok, NEW x, NEW y, NEW w, w = WalkOf(fn, sn, fr, sr, ok)
  PROVE  /\ Placed(w, x, y) = WalkOf(x, y, fr, sr, ok)
         /\ Joined(w, x, y) = WalkOf(fn, sn, x, y, ok)
         /\ Extended(w, y) = WalkOf(fn, sn, fr, y, ok)
<1>1. w = [fn |-> fn, sn |-> sn, fr |-> fr, sr |-> sr, ok |-> ok]
  BY DEF WalkOf
<1>2. Joined(w, x, y) = [i \in DOMAIN w |-> IF i = "fr" THEN x ELSE IF i = "sr" THEN y ELSE w[i]]
  <2> \A v : [v EXCEPT !.fr = x, !.sr = y] = [i \in DOMAIN v |-> IF i = "fr" THEN x ELSE IF i = "sr" THEN y ELSE v[i]]
    OBVIOUS
  <2> QED
    BY DEF Joined
<1>3. Placed(w, x, y) = [i \in DOMAIN w |-> IF i = "fn" THEN x ELSE IF i = "sn" THEN y ELSE w[i]]
  <2> \A v : [v EXCEPT !.fn = x, !.sn = y] = [i \in DOMAIN v |-> IF i = "fn" THEN x ELSE IF i = "sn" THEN y ELSE v[i]]
    OBVIOUS
  <2> QED
    BY DEF Placed
<1>4. Joined(w, x, y) = [fn |-> fn, sn |-> sn, fr |-> x, sr |-> y, ok |-> ok]
  <2> HIDE DEF Joined
  <2> QED
    BY <1>1, <1>2
<1>5. Placed(w, x, y) = [fn |-> x, sn |-> y, fr |-> fr, sr |-> sr, ok |-> ok]
  BY <1>1, <1>3
<1>6. Extended(w, y) = [fn |-> fn, sn |-> sn, fr |-> fr, sr |-> y, ok |-> ok]
  BY <1>1 DEF Extended
<1> QED
  BY <1>4, <1>5, <1>6, Zenon DEF WalkOf

\* A step that does not refuse, and a pass of the Go loop.
LEMMA StepIs ==
  ASSUME NEW w, NEW c, w.sn # 0
  PROVE  LET onRight == w.fn % 2 = 1 \/ w.fn = w.sn
             rise == Pow2[IF onRight /\ w.fn % 2 = 0 THEN Twos(w.fn) + 1 ELSE 1]
         IN  Step(w, c) = WalkOf(w.fn \div rise, w.sn \div rise,
                                 IF onRight THEN NodeHash(c, w.fr) ELSE w.fr,
                                 IF onRight THEN NodeHash(c, w.sr) ELSE NodeHash(w.sr, c), w.ok)
BY Zenon DEF Step, WalkOf

\* A pass of the loop of VerifyConsistency (consistency.go:76-92) that goes on.
LEMMA ClimbIs ==
  ASSUME NEW w, NEW c, w.sn # 0, Accepting(w)
  PROVE  LET onRight == w.fn % 2 = 1 \/ w.fn = w.sn
             u == IF onRight THEN Core!ShiftEven(Joined(w, NodeHash(c, w.fr), NodeHash(c, w.sr)))
                  ELSE Extended(w, NodeHash(w.sr, c))
         IN  Core!Climb(w, c) = Placed(u, u.fn \div 2, u.sn \div 2)
<1>1. \A x, y : Core!NodeHash(x, y) = NodeHash(x, y)
  BY DEF Core!NodeHash, NodeHash
<1> QED
  BY <1>1, Zenon DEF Core!Climb, Joined, Extended, Placed, Accepting

\* While a walk goes on, one pass of the Go loop is one step of merkle.py.
LEMMA GoSteps ==
  ASSUME NEW fn \in Nat, NEW sn \in Nat, NEW fr, NEW sr, NEW ok, NEW c, NEW w, Accepting(w),
         w = WalkOf(fn, sn, fr, sr, ok)
  PROVE  Core!Climb(w, c) = Step(w, c)
<1> DEFINE paired == fn % 2 = 1 \/ fn = sn
<1>0. w.fn = fn /\ w.sn = sn /\ w.fr = fr /\ w.sr = sr /\ w.ok = ok
  BY WalkFields
<1>1. CASE sn = 0
  <2>1. w.sn = 0
    BY <1>0, <1>1
  <2> QED
    BY <2>1, Zenon DEF Core!Climb, Step
<1>2. CASE sn # 0 /\ paired
  <2>0. PICK x, y : x = NodeHash(c, fr) /\ y = NodeHash(c, sr)
    OBVIOUS
  <2>1. PICK e \in Nat : /\ e = IF fn = 0 THEN 0 ELSE Twos(fn)
                         /\ e + 1 = IF paired /\ fn % 2 = 0 THEN Twos(fn) + 1 ELSE 1
    <3>1. fn # 0
      BY <1>2
    <3>2. Twos(fn) \in Nat /\ (fn % 2 = 1 => Twos(fn) = 0)
      BY <3>1, TwosOfHalf
    <3>3. fn % 2 = 1 \/ fn % 2 = 0
      OBVIOUS
    <3> QED
      BY <1>2, <3>1, <3>2, <3>3
  <2>2. Step(w, c) = WalkOf(fn \div Pow2[e + 1], sn \div Pow2[e + 1], x, y, ok)
    BY <1>0, <1>2, <2>0, <2>1, StepIs, Zenon
  <2>3. PICK v : v = WalkOf(fn, sn, x, y, ok)
    OBVIOUS
  <2>4. PICK u : u = Core!ShiftEven(v)
    OBVIOUS
  <2>5. Core!Climb(w, c) = Placed(u, u.fn \div 2, u.sn \div 2)
    <3>1. Joined(w, x, y) = v
      BY <2>3, WalkChanges
    <3>2. w.sn # 0 /\ (w.fn % 2 = 1 \/ w.fn = w.sn)
      BY <1>0, <1>2
    <3> QED
      BY <1>0, <2>0, <2>4, <3>1, <3>2, ClimbIs, Zenon
  <2>6. u = WalkOf(fn \div Pow2[e], sn \div Pow2[e], x, y, ok)
    <3>1. v.fn = fn /\ v.sn = sn
      BY <2>3, WalkFields
    <3>2. Core!ShiftEven(v) = Placed(v, fn \div Pow2[e], sn \div Pow2[e])
      BY <2>1, <3>1, ShiftEvenRises DEF Placed
    <3> QED
      BY <2>3, <2>4, <3>2, WalkChanges
  <2>7. u.fn = fn \div Pow2[e] /\ u.sn = sn \div Pow2[e]
    BY <2>6, WalkFields
  <2>8. Core!Climb(w, c) = WalkOf((fn \div Pow2[e]) \div 2, (sn \div Pow2[e]) \div 2, x, y, ok)
    BY <2>5, <2>6, <2>7, WalkChanges
  <2>9. (fn \div Pow2[e]) \div 2 = fn \div Pow2[e + 1] /\ (sn \div Pow2[e]) \div 2 = sn \div Pow2[e + 1]
    <3>1. \A z \in Nat : (z \div Pow2[e]) \div Pow2[1] = z \div Pow2[e + 1]
      BY DividedTwice
    <3> QED
      BY <3>1, PowOne
  <2> QED
    BY <2>2, <2>8, <2>9, Zenon
<1>3. CASE sn # 0 /\ ~paired
  <2>1. Step(w, c) = WalkOf(fn \div 2, sn \div 2, fr, NodeHash(sr, c), ok)
    BY <1>0, <1>3, StepIs, PowOne, Zenon
  <2>2. PICK u : u = WalkOf(fn, sn, fr, NodeHash(sr, c), ok)
    OBVIOUS
  <2>3. Core!Climb(w, c) = Placed(u, u.fn \div 2, u.sn \div 2)
    <3>1. Extended(w, NodeHash(sr, c)) = u
      BY <2>2, WalkChanges
    <3>2. w.sn # 0 /\ ~(w.fn % 2 = 1 \/ w.fn = w.sn)
      BY <1>0, <1>3
    <3> QED
      BY <1>0, <3>1, <3>2, ClimbIs, Zenon
  <2>4. u.fn = fn /\ u.sn = sn
    BY <2>2, WalkFields
  <2>5. Core!Climb(w, c) = WalkOf(fn \div 2, sn \div 2, fr, NodeHash(sr, c), ok)
    BY <2>2, <2>3, <2>4, WalkChanges
  <2> QED
    BY <2>1, <2>5
<1> QED
  BY <1>1, <1>2, <1>3

\* A walk goes on, or has refused the proof.
Going(w) == Accepting(w) /\ \E fn, sn \in Nat : \E fr, sr, ok : w = WalkOf(fn, sn, fr, sr, ok)
Refusing(w) == "ok" \in DOMAIN w /\ ~w.ok

\* A walk goes on or refuses,
LEMMA GoingOn ==
  ASSUME NEW w, Going(w), NEW c
  PROVE  /\ Core!Climb(w, c) = Step(w, c)
         /\ Going(Step(w, c)) \/ Refusing(Step(w, c))
<1>1. PICK fn \in Nat, sn \in Nat : \E fr, sr, ok : w = WalkOf(fn, sn, fr, sr, ok)
  BY DEF Going
<1>2. PICK fr, sr, ok : w = WalkOf(fn, sn, fr, sr, ok)
  BY <1>1
<1>3. Core!Climb(w, c) = Step(w, c)
  BY <1>2, GoSteps DEF Going
<1>0. w.fn = fn /\ w.sn = sn /\ "ok" \in DOMAIN w
  BY <1>2, WalkFields
<1>4. CASE sn = 0
  BY <1>0, <1>3, <1>4, StepStops DEF Refusing
<1>5. CASE sn # 0
  <2>1. PICK e \in Nat : e = IF (fn % 2 = 1 \/ fn = sn) /\ fn % 2 = 0 THEN Twos(fn) + 1 ELSE 1
    <3>1. CASE (fn % 2 = 1 \/ fn = sn) /\ fn % 2 = 0
      <4>1. fn \in Nat \ {0}
        BY <1>5, <3>1
      <4>2. Twos(fn) \in Nat
        BY <4>1, TwosValue
      <4> QED
        BY <3>1, <4>2
    <3>2. CASE ~((fn % 2 = 1 \/ fn = sn) /\ fn % 2 = 0)
      BY <3>2
    <3> QED
      BY <3>1, <3>2
  <2>2. PICK x, y, z : Step(w, c) = WalkOf(fn \div Pow2[e], sn \div Pow2[e], x, y, z)
    BY <1>0, <1>5, <2>1, StepIs, Zenon
  <2>3. fn \div Pow2[e] \in Nat /\ sn \div Pow2[e] \in Nat
    BY DividedTwice
  <2>4. Accepting(Step(w, c))
    BY <1>0, <1>5, StepStops DEF Going, Accepting
  <2>5. Going(Step(w, c))
    BY <2>2, <2>3, <2>4 DEF Going
  <2> QED
    BY <1>3, <2>5
<1> QED
  BY <1>4, <1>5

\* and once it has refused the proof it goes on refusing it, in either verifier.
LEMMA RefusedOn ==
  ASSUME NEW w, Refusing(w), NEW c
  PROVE  Refusing(Step(w, c)) /\ Refusing(Core!Climb(w, c))
<1>1. Refusing(Step(w, c))
  BY StepStops DEF Refusing
<1>2. Core!Climb(w, c) = [w EXCEPT !.ok = FALSE]
  BY DEF Refusing, Core!Climb
<1> QED
  BY <1>1, <1>2 DEF Refusing

\* Every state of the Go loop.
GoStepped(W, start, path, n) ==
    W[0] = start /\ \A i \in 1..n : W[i] = Core!Climb(W[i - 1], path[i + 1])

\* The loop over the nodes of a proof has a value for every proof.
LEMMA GoWalk ==
  ASSUME NEW start, NEW path, NEW L \in Nat, Len(path) = L + 1
  PROVE  \E W : GoStepped(W, start, path, L) /\ Core!Climbed(start, path) = W[L]
<1> DEFINE To(g, i) == IF i = 0 THEN start ELSE Core!Climb(g[i - 1], path[i + 1])
           Right(g, d) == \A i \in 0..d : g[i] = To(g, i)
           Good == {d \in Nat : \E g : Right(g, d)}
<1>1. ASSUME NEW d \in Nat, 0..(d-1) \subseteq Good
      PROVE  \E g : Right(g, d)
  <2>1. CASE d = 0
    <3> DEFINE g == [i \in 0..0 |-> start]
    <3>1. Right(g, d)
      BY <2>1
    <3> QED
      BY <3>1
  <2>2. CASE d # 0
    <3>1. d - 1 \in 0..(d-1)
      BY <2>2
    <3>2. PICK g : Right(g, d - 1)
      BY <1>1, <3>1
    <3> DEFINE f == [i \in 0..d |-> To(g, i)]
    <3>3. \A i \in 0..d : f[i] = To(g, i)
      OBVIOUS
    <3>4. \A i \in 0..d : i # 0 => i - 1 \in 0..(d-1) /\ i - 1 \in 0..d
      BY <2>2
    <3> HIDE DEF f
    <3>5. \A i \in 0..(d-1) : f[i] = g[i]
      <4> HIDE DEF To
      <4>1. \A i \in 0..(d-1) : i \in 0..d
        BY <2>2
      <4>2. \A i \in 0..(d-1) : g[i] = To(g, i)
        BY <3>2
      <4> QED
        BY <3>3, <4>1, <4>2
    <3>6. \A i \in 0..d : To(g, i) = To(f, i)
      BY <3>4, <3>5
    <3>7. Right(f, d)
      BY <3>3, <3>6
    <3> QED
      BY <3>7
  <2> QED
    BY <2>1, <2>2
<1>2. \A d \in Nat : 0..(d-1) \subseteq Good => d \in Good
  BY <1>1
<1>3. L \in Good
  <2> HIDE DEF Good
  <2> QED
    BY <1>2, Induction
<1>4. PICK g : Right(g, L)
  BY <1>3
<1> DEFINE F == [i \in 0..L |-> To(g, i)]
           D(f) == f = [i \in 0..Len(path) - 1 |-> To(f, i)]
<1>0. Len(path) - 1 = L
  OBVIOUS
<1>5. \A i \in 0..L : F[i] = To(g, i) /\ g[i] = To(g, i)
  BY <1>4
<1>6. \A i \in 0..L : To(F, i) = To(g, i)
  <2> HIDE DEF F
  <2>1. \A i \in 0..L : i # 0 => i - 1 \in 0..L
    OBVIOUS
  <2> QED
    BY <1>5, <2>1
<1>7. D(F)
  BY <1>0, <1>6
<1> DEFINE V == CHOOSE f : D(f)
<1>8. Core!Climbed(start, path) = V[Len(path) - 1]
  BY Zenon DEF Core!Climbed
<1>9. D(V)
  <2>1. \E f : D(f)
    BY <1>7
  <2> HIDE DEF D
  <2> QED
    BY <2>1
<1> HIDE DEF V
<1>10. ASSUME NEW i \in 0..L PROVE V[i] = To(V, i)
  BY <1>0, <1>9
<1>11. V[0] = start /\ \A i \in 1..L : V[i] = Core!Climb(V[i - 1], path[i + 1])
  <2>1. 0 \in 0..L /\ \A i \in 1..L : i \in 0..L /\ i # 0
    OBVIOUS
  <2> QED
    BY <1>10, <2>1
<1>12. GoStepped(V, start, path, L)
  BY <1>11 DEF GoStepped
<1> QED
  BY <1>0, <1>8, <1>12

\* Both recognise a first size that is a power of two.
LEMMA GoIsPow2 ==
  ASSUME NEW n \in Nat \ {0}
  PROVE  Core!IsPow2(n) <=> n = Pow2[Twos(n)]
<1>1. PICK q \in Nat : n = q * Pow2[Twos(n)] /\ q % 2 = 1
  BY TwosValue
<1>2. Twos(n) \in Nat
  BY TwosValue
<1>3. ASSUME n = Pow2[Twos(n)] PROVE Core!IsPow2(n)
  <2>1. Twos(n) < Pow2[Twos(n)]
    BY <1>2, Pow2Bound
  <2>2. Twos(n) \in 0..n
    BY <1>2, <1>3, <2>1
  <2> QED
    BY <1>3, <2>2, GoPow2 DEF Core!IsPow2
<1>4. ASSUME Core!IsPow2(n) PROVE n = Pow2[Twos(n)]
  <2>1. PICK e \in 0..n : n = Pow2[e]
    BY <1>4, GoPow2 DEF Core!IsPow2
  <2>2. PICK a \in Nat : q = 2 * a + 1
    <3>1. q = 2 * (q \div 2) + 1 /\ q \div 2 \in Nat
      BY <1>1
    <3> QED
      BY <3>1
  <2>3. (2 * a + 1) * Pow2[Twos(n)] = (2 * 0 + 1) * Pow2[e]
    <3>1. PICK p \in Nat : p = Pow2[e]
      BY Pow2Value
    <3>2. (2 * 0 + 1) * p = p
      OBVIOUS
    <3> QED
      BY <1>1, <2>1, <2>2, <3>1, <3>2
  <2>4. Twos(n) = e
    <3>1. e \in Nat /\ 0 \in Nat
      OBVIOUS
    <3> QED
      BY <1>2, <2>3, <3>1, OddPart
  <2> QED
    BY <2>1, <2>4
<1> QED
  BY <1>3, <1>4

\* Both walks start at the same nodes,
LEMMA GoStarts ==
  ASSUME NEW first \in Nat \ {0}, NEW second \in Nat \ {0}, NEW h
  PROVE  LET e == Twos(first)
         IN  Core!ShiftOdd([fn |-> first - 1, sn |-> second - 1, fr |-> h, sr |-> h, ok |-> TRUE])
               = WalkOf((first - 1) \div Pow2[e], (second - 1) \div Pow2[e], h, h, TRUE)
<1>0. PICK ok : ok = TRUE
  OBVIOUS
<1>1. PICK w : w = WalkOf(first - 1, second - 1, h, h, ok)
  OBVIOUS
<1>2. w.fn = first - 1 /\ w.sn = second - 1
  BY <1>1, WalkFields
<1>3. first - 1 \in Nat /\ second - 1 \in Nat /\ (first - 1) + 1 = first
  OBVIOUS
<1>4. Core!ShiftOdd(w) = Placed(w, (first - 1) \div Pow2[Twos(first)], (second - 1) \div Pow2[Twos(first)])
  <2>1. w.fn \in Nat /\ w.sn \in Nat /\ w.fn + 1 = first
    BY <1>2, <1>3
  <2>2. Core!ShiftOdd(w) = Placed(w, w.fn \div Pow2[Twos(w.fn + 1)], w.sn \div Pow2[Twos(w.fn + 1)])
    BY <2>1, ShiftOddRises DEF Placed
  <2> QED
    BY <1>2, <2>1, <2>2
<1>5. Placed(w, (first - 1) \div Pow2[Twos(first)], (second - 1) \div Pow2[Twos(first)])
        = WalkOf((first - 1) \div Pow2[Twos(first)], (second - 1) \div Pow2[Twos(first)], h, h, ok)
  BY <1>1, WalkChanges
<1>6. w = [fn |-> first - 1, sn |-> second - 1, fr |-> h, sr |-> h, ok |-> TRUE]
  BY <1>0, <1>1, Zenon DEF WalkOf
<1> QED
  BY <1>0, <1>4, <1>5, <1>6, Zenon

\* and end at the same nodes, or both refuse.
LEMMA GoEnds ==
  ASSUME NEW S, NEW path \in Seq(S), NEW L \in Nat, Len(path) = L + 1,
         NEW fn \in Nat, NEW sn \in Nat
  PROVE  LET go == Core!Climbed(WalkOf(fn, sn, path[1], path[1], TRUE), path)
             w == Walk(fn, sn, path[1], Tail(path))
         IN  (Going(w) /\ go = w) \/ (Refusing(w) /\ Refusing(go))
<1> DEFINE start == WalkOf(fn, sn, path[1], path[1], TRUE)
<1>0. Len(Tail(path)) = L /\ \A i \in 1..L : Tail(path)[i] = path[i + 1]
  <2>1. path # <<>>
    OBVIOUS
  <2> QED
    BY <2>1
<1>1. PICK W : GoStepped(W, start, path, L) /\ Core!Climbed(start, path) = W[L]
  BY GoWalk
<1>2. PICK V : Stepped(V, fn, sn, path[1], Tail(path)) /\ Walk(fn, sn, path[1], Tail(path)) = V[L]
  <2>1. PICK p : p = Tail(path)
    OBVIOUS
  <2>2. PICK h : h = path[1]
    OBVIOUS
  <2>3. L = Len(p)
    BY <1>0, <2>1
  <2>4. \E V : Stepped(V, fn, sn, h, p) /\ Walk(fn, sn, h, p) = V[L]
    <3> HIDE DEF start
    <3> QED
      BY <2>3, WalkSteps, SMTT(30)
  <2> QED
    BY <2>1, <2>2, <2>4
<1> DEFINE Same(i) == (Going(V[i]) /\ W[i] = V[i]) \/ (Refusing(V[i]) /\ Refusing(W[i]))
           Good == {i \in Nat : i <= L => Same(i)}
<1>3. Same(0)
  <2>1. V[0] = start
    BY <1>2, Zenon DEF Stepped, WalkOf
  <2>2. W[0] = start
    BY <1>1 DEF GoStepped
  <2>3. Accepting(start)
    BY DEF Accepting, WalkOf
  <2>4. Going(start)
    <3> HIDE DEF start
    <3>1. \E x, y, ok : start = WalkOf(fn, sn, x, y, ok)
      BY DEF start
    <3> QED
      BY <2>3, <3>1 DEF Going
  <2> HIDE DEF start
  <2> QED
    BY <2>1, <2>2, <2>4
<1>4. ASSUME NEW i \in 1..L, Same(i - 1)
      PROVE  Same(i)
  <2>1. V[i] = Step(V[i - 1], path[i + 1])
    BY <1>0, <1>2 DEF Stepped
  <2>2. W[i] = Core!Climb(W[i - 1], path[i + 1])
    BY <1>1 DEF GoStepped
  <2>3. CASE Going(V[i - 1]) /\ W[i - 1] = V[i - 1]
    <3>1. W[i] = V[i]
      BY <2>1, <2>2, <2>3, GoingOn
    <3>2. Going(V[i]) \/ Refusing(V[i])
      BY <2>1, <2>3, GoingOn
    <3> QED
      BY <3>1, <3>2
  <2>4. CASE Refusing(V[i - 1]) /\ Refusing(W[i - 1])
    BY <2>1, <2>2, <2>4, RefusedOn
  <2> QED
    BY <1>4, <2>3, <2>4
<1> HIDE DEF Same
<1>5. ASSUME NEW i \in Nat, 0..(i-1) \subseteq Good, i <= L
      PROVE  Same(i)
  <2>1. CASE i = 0
    BY <1>3, <2>1
  <2>2. CASE i # 0
    <3>1. i \in 1..L /\ i - 1 \in 0..(i-1) /\ i - 1 <= L
      BY <1>5, <2>2
    <3>2. Same(i - 1)
      BY <1>5, <3>1
    <3> QED
      BY <1>4, <3>1, <3>2
  <2> QED
    BY <2>1, <2>2
<1>6. \A i \in Nat : 0..(i-1) \subseteq Good => i \in Good
  BY <1>5
<1>7. L \in Good
  <2> HIDE DEF Good
  <2> QED
    BY <1>6, Induction
<1>8. Same(L)
  BY <1>7
<1> QED
  BY <1>1, <1>2, <1>8 DEF Same

\* Both verifiers accept the same consistency proofs.
LEMMA GoVerifies ==
  ASSUME NEW S, NEW first \in Nat, NEW second \in Nat, NEW firstRoot \in S, NEW secondRoot, NEW proof \in Seq(S)
  PROVE  Core!VerifyConsistency(first, second, firstRoot, secondRoot, proof)
           <=> VerifyConsistency(first, second, firstRoot, secondRoot, proof)
<1>1. CASE first > second
  <2>1. first # second /\ ~(first < second) /\ (first = 0 => ~(second > 0))
    BY <1>1
  <2>2. ~Core!VerifyConsistency(first, second, firstRoot, secondRoot, proof)
    BY <1>1, <2>1, Zenon DEF Core!VerifyConsistency
  <2>3. ~VerifyConsistency(first, second, firstRoot, secondRoot, proof)
    BY <1>1, <2>1, Zenon DEF VerifyConsistency
  <2> QED
    BY <2>2, <2>3
<1>2. CASE first = second
  <2>1. ~(first > second)
    BY <1>2
  <2> QED
    BY <1>2, <2>1 DEF Core!VerifyConsistency, VerifyConsistency
<1>3. CASE first = 0 /\ first < second
  <2>1. ~(first > second) /\ first # second /\ second > 0
    BY <1>3
  <2> QED
    BY <1>3, <2>1 DEF Core!VerifyConsistency, VerifyConsistency
<1>4. CASE first # 0 /\ first < second
  <2>0. first \in Nat \ {0} /\ second \in Nat \ {0} /\ ~(first > second) /\ first # second
    BY <1>4
  <2>1. PICK path : path = IF first = Pow2[Twos(first)] THEN <<firstRoot>> \o proof ELSE proof
    OBVIOUS
  <2>2. path \in Seq(S)
    BY <2>1
  <2>3. PICK e : e = Twos(first)
    OBVIOUS
  <2>4. PICK w : w = Walk((first - 1) \div Pow2[e], (second - 1) \div Pow2[e], path[1], Tail(path))
    OBVIOUS
  <2>5. PICK go : go = Core!Climbed(Core!ShiftOdd([fn |-> first - 1, sn |-> second - 1,
                                  fr |-> Head(path), sr |-> Head(path), ok |-> TRUE]), path)
    OBVIOUS
  <2>6. Core!VerifyConsistency(first, second, firstRoot, secondRoot, proof)
          <=> path # <<>> /\ go.ok /\ go.sn = 0 /\ go.fr = firstRoot /\ go.sr = secondRoot
    <3>1. Core!IsPow2(first) <=> first = Pow2[Twos(first)]
      BY <2>0, GoIsPow2
    <3>2. path = IF Core!IsPow2(first) THEN <<firstRoot>> \o proof ELSE proof
      BY <2>1, <3>1
    <3> QED
      BY <1>4, <2>0, <2>5, <3>2, Zenon DEF Core!VerifyConsistency
  <2>7. VerifyConsistency(first, second, firstRoot, secondRoot, proof)
          <=> path # <<>> /\ w.ok /\ w.sn = 0 /\ w.fr = firstRoot /\ w.sr = secondRoot
    BY <1>4, <2>0, <2>1, <2>3, <2>4, Zenon DEF VerifyConsistency
  <2>8. CASE path = <<>>
    BY <2>6, <2>7, <2>8
  <2>9. CASE path # <<>>
    <3>1. PICK L \in Nat : Len(path) = L + 1
      <4>1. Len(path) - 1 \in Nat /\ Len(path) = (Len(path) - 1) + 1
        BY <2>2, <2>9
      <4> QED
        BY <4>1
    <3>2. PICK fn \in Nat, sn \in Nat : fn = (first - 1) \div Pow2[e] /\ sn = (second - 1) \div Pow2[e]
      <4>1. e \in Nat /\ first - 1 \in Nat /\ second - 1 \in Nat
        BY <2>0, <2>3, TwosValue
      <4> QED
        BY <4>1, DividedTwice
    <3>3. go = Core!Climbed(WalkOf(fn, sn, path[1], path[1], TRUE), path)
      <4>1. Head(path) = path[1]
        BY <2>2, <2>9
      <4> QED
        BY <2>0, <2>3, <2>5, <3>2, <4>1, GoStarts
    <3>4. (Going(w) /\ go = w) \/ (Refusing(w) /\ Refusing(go))
      BY <2>2, <2>4, <3>1, <3>2, <3>3, GoEnds
    <3>5. CASE go = w
      BY <2>6, <2>7, <3>5
    <3>6. CASE Refusing(w) /\ Refusing(go)
      BY <2>6, <2>7, <3>6 DEF Refusing
    <3> QED
      BY <3>4, <3>5, <3>6
  <2> QED
    BY <2>8, <2>9
<1> QED
  BY <1>1, <1>2, <1>3, <1>4

\* The log has the hashes of data.
LogTyped == leaves \in Seq({LeafHash(d) : d \in AllData})

\* The leaves stay hashes of data, whatever is appended (merkle.py).
LEMMA LogTypedNext == LogTyped /\ [TreeNext]_treeVars => LogTyped'
<1> SUFFICES ASSUME LogTyped, [TreeNext]_treeVars PROVE LogTyped'
  OBVIOUS
<1> DEFINE H == {LeafHash(d) : d \in AllData}
<1>1. ASSUME NEW d \in AllData, AppendLeaf(d) PROVE LogTyped'
  <2>1. LeafHash(d) \in H
    OBVIOUS
  <2>2. leaves \in Seq(H) /\ leaves' = Append(leaves, LeafHash(d))
    BY <1>1 DEF LogTyped, AppendLeaf
  <2> HIDE DEF H
  <2>3. leaves' \in Seq(H)
    BY <2>1, <2>2
  <2> QED
    BY <2>3 DEF LogTyped, H
<1>2. CASE TreeNext
  <2>1. \A d \in Data : d \in AllData
    BY DEF AllData
  <2>2. ASSUME Len(leaves) - FreeLeaves \in 0..Len(Rest) - 1
        PROVE  Rest[Len(leaves) - FreeLeaves + 1] \in AllData
    <3>1. Len(leaves) \in Nat /\ FreeLeaves \in Nat /\ Rest \in Seq(ToSet(Rest))
      BY MerkleAssumption DEF LogTyped
    <3>2. Len(leaves) - FreeLeaves + 1 \in 1..Len(Rest)
      BY <2>2, <3>1
    <3> QED
      BY <3>1, <3>2 DEF AllData
  <2> QED
    BY <1>1, <1>2, <2>1, <2>2 DEF TreeNext
<1>3. CASE UNCHANGED treeVars
  BY <1>3 DEF LogTyped, treeVars
<1> QED
  BY <1>2, <1>3

\* core-go/consistency.go:5, "ported byte-identically": of every log the two cores have
\* the same root, the same audit paths and the same consistency proofs, and one verifier
\* accepts what the other does.
THEOREM GoAgreesKept == TreeSpec => []GoAgrees
<1>1. TreeInit => LogTyped
  <2> SUFFICES ASSUME TreeInit PROVE LogTyped
    OBVIOUS
  <2>1. leaves = <<>> /\ \A H : <<>> \in Seq(H)
    BY DEF TreeInit
  <2> QED
    BY <2>1 DEF LogTyped
<1>2. ASSUME LogTyped PROVE GoAgrees
  <2> DEFINE size == Len(leaves)
  <2>1. PICK H : leaves \in Seq(H)
    BY <1>2 DEF LogTyped
  <2>2. Core!TreeHash(leaves) = TreeHash(leaves)
    BY <2>1, GoTreeHash
  <2>3. ASSUME NEW m \in 0..size - 1 PROVE Core!InclusionProof(leaves, m) = InclusionProof(leaves, m)
    <3>1. m \in Nat /\ Len(leaves) # 0
      BY <2>1
    <3> QED
      BY <2>1, <3>1, GoInclusionProof
  <2>4. ASSUME NEW m \in 1..size PROVE Core!ConsistencyProof(leaves, m) = ConsistencyProof(leaves, m)
    <3>1. m \in Nat /\ Len(leaves) # 0
      BY <2>1
    <3> QED
      BY <2>1, <3>1, GoConsistencyProof
  <2>5. ASSUME NEW m \in 0..size + 1, NEW n \in 1..size, NEW root \in {TreeHash(Prefixed(k)) : k \in 1..size}
        PROVE  LET proof == ConsistencyProof(leaves, n)
                   agree(p) == Core!VerifyConsistency(m, size, root, TreeHash(leaves), p)
                                 <=> VerifyConsistency(m, size, root, TreeHash(leaves), p)
               IN  agree(proof) /\ agree(Append(proof, root)) /\ (proof # <<>> => agree(Tail(proof)))
    <3> DEFINE S == Runs(leaves) \cup {root}
    <3>1. PICK proof : proof = ConsistencyProof(leaves, n)
      OBVIOUS
    <3>2. proof \in Seq(Runs(leaves))
      <4>1. n \in Nat \ {0} /\ n <= Len(leaves)
        BY <2>1
      <4> QED
        BY <2>1, <3>1, <4>1, ConsistencyComplete
    <3>3. root \in S /\ Runs(leaves) \subseteq S
      OBVIOUS
    <3> HIDE DEF S
    <3>4. proof \in Seq(S)
      BY <3>2, <3>3, SeqWiden
    <3>5. Append(proof, root) \in Seq(S) /\ (proof # <<>> => Tail(proof) \in Seq(S))
      BY <3>3, <3>4
    <3>6. m \in Nat /\ size \in Nat
      BY <2>1
    <3>7. \A p \in Seq(S) : Core!VerifyConsistency(m, size, root, TreeHash(leaves), p)
                                 <=> VerifyConsistency(m, size, root, TreeHash(leaves), p)
      BY <3>3, <3>6, GoVerifies
    <3> QED
      BY <3>1, <3>4, <3>5, <3>7
  <2> QED
    BY <2>2, <2>3, <2>4, <2>5 DEF GoAgrees
<1> QED
  BY <1>1, <1>2, LogTypedNext, PTL DEF TreeSpec
=============================================================================
