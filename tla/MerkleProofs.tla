---------------------------- MODULE MerkleProofs ----------------------------
(***************************************************************************)
(* The functions of merkle.py: the recursive tree hash and the proofs it    *)
(* yields, the iterative verifiers of the proofs, and the super-tree over   *)
(* the roots of shards.                                                     *)
(*                                                                         *)
(* A hash is the term it is computed from.  A datum may itself be a pair of *)
(* hashes, the bytes of an interior node, which is what the prefixes of the *)
(* two hash functions are for.                                             *)
(***************************************************************************)
EXTENDS Integers, SequencesExt

----------------------------------------------------------------------------
(* Hashes and the recursive definitions.                                    *)

LeafHash(d) == <<"leaf", d>>

\* Mutant: both hash functions have the same prefix.
NodeHashUnprefixed(l, r) == <<"leaf", <<l, r>>>>

NodeHash(l, r) == <<"node", <<l, r>>>>

EmptyRoot == <<>>

LeafHashes(data) == [i \in DOMAIN data |-> LeafHash(data[i])]

Pow2[n \in Nat] == IF n = 0 THEN 1 ELSE 2 * Pow2[n - 1]

\* The largest power of two below n, for n > 1.
LargestPow2(n) == Pow2[CHOOSE e \in 0..n : Pow2[e] < n /\ n <= Pow2[e + 1]]

\* The root over n leaves of ls, those after the first lo, is Subtree(ls)[n][lo].
Subtree(ls) ==
    LET H[n \in 1..Len(ls)] ==
            [lo \in 0..(Len(ls) - n) |->
                LET k == LargestPow2(n)
                IN  IF n = 1 THEN ls[lo + 1] ELSE NodeHash(H[k][lo], H[n - k][lo + k])]
    IN  H

TreeHash(ls) == IF ls = <<>> THEN EmptyRoot ELSE Subtree(ls)[Len(ls)][0]

\* The audit path of the leaf at m, for m in 0 .. Len(ls) - 1.
InclusionProof(ls, m) ==
    LET H == Subtree(ls)
        Path[n \in 1..Len(ls)] ==
            [lo \in 0..(Len(ls) - n) |->
                LET k == LargestPow2(n)
                IN  IF n = 1 THEN <<>>
                    ELSE IF m < lo + k THEN Append(Path[k][lo], H[n - k][lo + k])
                    ELSE Append(Path[n - k][lo + k], H[k][lo])]
    IN  Path[Len(ls)][0]

\* _subproof, where the old tree ends at leaf m; b as long as it starts at lo = 0.
\* For m in 1 .. Len(ls), so that a single leaf is the last one of the old tree.
ConsistencyProof(ls, m) ==
    LET H == Subtree(ls)
        Sub[n \in 1..Len(ls)] ==
            [lo \in 0..(Len(ls) - n) |->
                LET k == LargestPow2(n)
                IN  IF n = 1 \/ lo + n = m THEN IF lo = 0 THEN <<>> ELSE <<H[n][lo]>>
                    ELSE IF m <= lo + k THEN Append(Sub[k][lo], H[n - k][lo + k])
                    ELSE Append(Sub[n - k][lo + k], H[k][lo])]
    IN  Sub[Len(ls)][0]

----------------------------------------------------------------------------
(* The verifiers.  Both walk up from a node fn of a level whose last node   *)
(* is sn; fr and sr are the hashes of the old and of the new tree so far.   *)

\* How often 2 divides n, for n > 0.
Twos(n) == CHOOSE e \in 0..n : n % Pow2[e] = 0 /\ (n \div Pow2[e]) % 2 = 1

\* Mutant: the levels at which the last node has no sibling are not skipped.
StepOneLevel(w, c) ==
    LET onRight == w.fn % 2 = 1 \/ w.fn = w.sn
    IN  IF w.sn = 0
          THEN [w EXCEPT !.ok = FALSE]
          ELSE [fn |-> w.fn \div 2, sn |-> w.sn \div 2,
                fr |-> IF onRight THEN NodeHash(c, w.fr) ELSE w.fr,
                sr |-> IF onRight THEN NodeHash(c, w.sr) ELSE NodeHash(w.sr, c),
                ok |-> w.ok]

\* One node of the proof: the sibling c is on the left of a right child and of the
\* last node, which rises past the levels where it has none.
Step(w, c) ==
    LET onRight == w.fn % 2 = 1 \/ w.fn = w.sn
        rise == Pow2[IF onRight /\ w.fn % 2 = 0 THEN Twos(w.fn) + 1 ELSE 1]
    IN  IF w.sn = 0
          THEN [w EXCEPT !.ok = FALSE]
          ELSE [fn |-> w.fn \div rise, sn |-> w.sn \div rise,
                fr |-> IF onRight THEN NodeHash(c, w.fr) ELSE w.fr,
                sr |-> IF onRight THEN NodeHash(c, w.sr) ELSE NodeHash(w.sr, c),
                ok |-> w.ok]

\* Where the walk from node fn with hash h ends.
Walk(fn, sn, h, proof) ==
    LET W[i \in 0..Len(proof)] ==
            IF i = 0 THEN [fn |-> fn, sn |-> sn, fr |-> h, sr |-> h, ok |-> TRUE]
            ELSE Step(W[i - 1], proof[i])
    IN  W[Len(proof)]

VerifyInclusion(index, size, leaf, proof, root) ==
    /\ 0 <= index /\ index < size
    /\ LET w == Walk(index, size - 1, leaf, proof)
       IN  w.ok /\ w.sn = 0 /\ w.sr = root

\* The walk starts at the largest complete subtree that ends the first tree: as
\* many levels up as the index first - 1 ends in ones.
VerifyConsistency(first, second, firstRoot, secondRoot, proof) ==
    CASE first > second  -> FALSE
      [] first = second  -> proof = <<>> /\ firstRoot = secondRoot
      [] first = 0 /\ first < second -> proof = <<>>
      [] first # 0 /\ first < second ->
            LET path == IF first = Pow2[Twos(first)] THEN <<firstRoot>> \o proof ELSE proof
                rise == Pow2[Twos(first)]
                w == Walk((first - 1) \div rise, (second - 1) \div rise, path[1], Tail(path))
            IN  /\ path # <<>>
                /\ w.ok /\ w.sn = 0
                /\ w.fr = firstRoot /\ w.sr = secondRoot

----------------------------------------------------------------------------
(* The super-tree: its leaves are made from the roots of the shards.        *)

ShardSuperRoot(roots) == TreeHash(LeafHashes(roots))
ShardSuperProof(roots, shard) == InclusionProof(LeafHashes(roots), shard)

\* Mutant: the shard's root is not looked up in the super-tree.
VerifyShardOnly(leaf, index, size, proof, root, shard, shards, superProof, superRoot) ==
    VerifyInclusion(index, size, leaf, proof, root)

VerifyShardedInclusion(leaf, index, size, proof, root, shard, shards, superProof, superRoot) ==
    /\ VerifyInclusion(index, size, leaf, proof, root)
    /\ VerifyInclusion(shard, shards, LeafHash(root), superProof, superRoot)
=============================================================================
