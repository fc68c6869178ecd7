---------------------------- MODULE MCMerkleTree ----------------------------
EXTENDS MerkleGo

CONSTANTS a, b, r1, r2, r3, r4, r5, r6

\* The last datum is what the bytes of the node over the leaves a and b are.
MCData == {a, b, <<LeafHash(a), LeafHash(b)>>}

\* Up to nine leaves: the sizes 8 and 9 are on both sides of a full tree.
MCRest == <<r1, r2, r3, r4, r5, r6>>
=============================================================================
