------------------------------ MODULE MerkleGo ------------------------------
(***************************************************************************)
(* The Merkle tree of the Go core beside the one of merkle.py.              *)
(***************************************************************************)
EXTENDS MerkleTree

\* The second implementation (see CoreGo).
Core == INSTANCE CoreGo WITH Null <- None

\* core-go/consistency.go:5, "ported byte-identically": the Go core computes the same
\* roots and the same proofs, and its verifier accepts the same ones, for heads of
\* this log and for others, at every size, the sizes that no tree has included.
GoAgrees ==
    LET size == Len(leaves) IN
    /\ Core!TreeHash(leaves) = TreeHash(leaves)
    /\ \A m \in 0..size - 1 : Core!InclusionProof(leaves, m) = InclusionProof(leaves, m)
    /\ \A m \in 1..size : Core!ConsistencyProof(leaves, m) = ConsistencyProof(leaves, m)
    /\ \A m \in 0..size + 1, n \in 1..size, root \in {TreeHash(Prefixed(k)) : k \in 1..size} :
          LET proof == ConsistencyProof(leaves, n)
              agree(p) == Core!VerifyConsistency(m, size, root, TreeHash(leaves), p)
                            <=> VerifyConsistency(m, size, root, TreeHash(leaves), p)
          IN  agree(proof) /\ agree(Append(proof, root)) /\ (proof # <<>> => agree(Tail(proof)))
=============================================================================
