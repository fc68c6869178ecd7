----------------------------- MODULE MerkleTree -----------------------------
(***************************************************************************)
(* IncrementalMerkleTree of merkle.py, the frontier tree that Ledger keeps  *)
(* its root in, and what its root, the generators and the verifiers of      *)
(* MerkleProofs owe to each other.                                         *)
(***************************************************************************)
EXTENDS MerkleProofs

CONSTANTS Data,           \* what the first leaves are made from
          FreeLeaves,     \* bound of the model: how many leaves take any datum
          Rest,           \* bound of the model: the data of the leaves after them
          MaxExhaustive,  \* bound of the model: trees up to this size meet every proof
          MaxProof,       \* bound of the model: the length of those proofs
          None            \* no pending subtree

ASSUME MerkleAssumption ==
    /\ {FreeLeaves, MaxExhaustive, MaxProof} \subseteq Nat
    /\ Rest \in Seq(ToSet(Rest))

VARIABLES leaves,    \* the leaf hashes appended, Ledger._leaves
          frontier   \* _frontier: at level i the pending subtree of 2^(i-1) leaves

treeVars == <<leaves, frontier>>

----------------------------------------------------------------------------
(* IncrementalMerkleTree.                                                   *)

\* What root() folds the levels of the frontier to, the smallest subtree first.
Folded(f) ==
    LET Acc[l \in 0..Len(f)] ==
            IF l = 0 THEN None
            ELSE IF f[l] = None THEN Acc[l - 1]
            ELSE IF Acc[l - 1] = None THEN f[l]
            ELSE NodeHash(f[l], Acc[l - 1])
    IN  Acc

RootOf(f) ==
    LET acc == Folded(f)[Len(f)]
    IN  IF acc = None THEN EmptyRoot ELSE acc

\* The first level without a subtree, a new one when there is none.
FreeLevel(f) ==
    CHOOSE l \in 1..Len(f) + 1 :
        /\ l = Len(f) + 1 \/ f[l] = None
        /\ \A i \in 1..l - 1 : f[i] # None

\* What leaf has become at each level up to that one: it is merged with the subtrees
\* of the levels below.
Carry(f, leaf) ==
    LET C[l \in 1..FreeLevel(f)] == IF l = 1 THEN leaf ELSE NodeHash(f[l - 1], C[l - 1])
    IN  C

\* The frontier once leaf is appended.
Carried(f, leaf) ==
    LET free == FreeLevel(f)
    IN  [i \in DOMAIN f \cup {free} |->
            IF i < free THEN None ELSE IF i = free THEN Carry(f, leaf)[free] ELSE f[i]]

TreeInit == leaves = <<>> /\ frontier = <<>>

AppendLeaf(d) ==
    /\ leaves' = Append(leaves, LeafHash(d))
    /\ frontier' = Carried(frontier, LeafHash(d))

TreeNext ==
    \/ Len(leaves) < FreeLeaves /\ \E d \in Data : AppendLeaf(d)
    \/ Len(leaves) - FreeLeaves \in 0..Len(Rest) - 1
          /\ AppendLeaf(Rest[Len(leaves) - FreeLeaves + 1])

TreeSpec == TreeInit /\ [][TreeNext]_treeVars

----------------------------------------------------------------------------
(* Properties.                                                              *)

\* The levels that hold a subtree are the bits of the size.
TreeTypeOK ==
    /\ leaves \in Seq({LeafHash(d) : d \in Data \cup ToSet(Rest)})
    /\ Len(leaves) < Pow2[Len(frontier)]
    /\ \A l \in DOMAIN frontier : frontier[l] # None <=> (Len(leaves) \div Pow2[l - 1]) % 2 = 1

\* IncrementalMerkleTree, "byte-identical to tree_hash": the root that is signed,
\* from the frontier, is the root that the proofs are generated for, and it commits to
\* one sequence of leaves: no other history has it, and no datum that is shaped like
\* an interior node takes the place of a subtree.
RootAgrees ==
    /\ RootOf(frontier) = TreeHash(leaves)
    /\ \A n \in 0..FreeLeaves : \A data \in [1..n -> Data] :
          TreeHash(LeafHashes(data)) = RootOf(frontier) => LeafHashes(data) = leaves

\* The hashes of the subtrees that make up the tree over ls.
Subtrees(ls) ==
    LET Below[n \in 1..Len(ls)] ==
            [lo \in 0..(Len(ls) - n) |->
                LET k == LargestPow2(n)
                IN  {Subtree(ls)[n][lo]}
                    \cup IF n = 1 THEN {} ELSE Below[k][lo] \cup Below[n - k][lo + k]]
    IN  IF ls = <<>> THEN {} ELSE Below[Len(ls)][0]

\* Every proof made of subtrees.  One with another node in it cannot hash to the root.
CandidateProofs(ls) == UNION {[1..n -> Subtrees(ls)] : n \in 0..MaxProof}

Prefixed(m) == SubSeq(leaves, 1, m)

\* The leaves are cut into three shards: the proofs of an event verify for its shard
\* and its index, and verify for another shard or index only if the same event is there.
ShardsBind(shard) ==
    LET roots == [s \in 1..3 |-> TreeHash(shard[s])]
        Accepted(s, i, t, j) ==  \* the event at j of shard t passes for i of shard s
            VerifyShardedInclusion(shard[t][j + 1], i, Len(shard[s]),
                InclusionProof(shard[t], j), roots[t],
                s - 1, 3, ShardSuperProof(roots, t - 1), ShardSuperRoot(roots))
    IN  \A t \in 1..3 : \A j \in 0..Len(shard[t]) - 1 :
           /\ Accepted(t, j, t, j)
           /\ \A s \in 1..3 : \A i \in 0..Len(shard[s]) - 1 :
                 Accepted(s, i, t, j) => shard[s][i + 1] = shard[t][j + 1]

\* docs/ARCHITECTURE.md:67, "a specific event leaf is contained in the tree": the
\* audit path of every leaf verifies against the root that is signed, and whatever
\* the proof, what verifies at an index is the leaf at that index.  merkle.py:207, the
\* same across shards, in whatever way the leaves are spread over them.
InclusionBinds ==
    LET size == Len(leaves)
        root == RootOf(frontier)
    IN  /\ \A i \in 0..size - 1 :
              VerifyInclusion(i, size, leaves[i + 1], InclusionProof(leaves, i), root)
        /\ size \in 1..MaxExhaustive =>
              \A proof \in CandidateProofs(leaves), leaf \in Subtrees(leaves), i \in 0..size :
                  VerifyInclusion(i, size, leaf, proof, root) => leaf = leaves[i + 1]
        /\ size \in 1..MaxExhaustive =>
              \A c1 \in 0..size : \A c2 \in c1..size :
                  ShardsBind(<<SubSeq(leaves, 1, c1), SubSeq(leaves, c1 + 1, c2),
                               SubSeq(leaves, c2 + 1, size)>>)

\* docs/SECURITY.md:33, a consistency proof "proves that a tree of size m is a prefix
\* of a tree of size n": the proof from every earlier head verifies, and whatever the
\* proof, the only earlier head that verifies is the one this log had.
ConsistencyBinds ==
    LET size == Len(leaves)
        root == RootOf(frontier)
    IN  /\ \A m \in 1..size :
              VerifyConsistency(m, size, TreeHash(Prefixed(m)), root, ConsistencyProof(leaves, m))
        /\ size \in 1..MaxExhaustive =>
              \A m \in 1..size :
                  LET others == {TreeHash(LeafHashes(data)) : data \in [1..m -> Data]}
                  IN  \A proof \in CandidateProofs(leaves), first \in others \cup Subtrees(leaves) :
                          VerifyConsistency(m, size, first, root, proof)
                              => first = TreeHash(Prefixed(m))
=============================================================================
