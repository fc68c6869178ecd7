------------------------- MODULE MCEvidencePipeline -------------------------
(* Instances of EvidencePipeline: every line of the spill has three bytes,   *)
(* so that a torn line lacks its newline alone (2) or text as well (1).      *)
EXTENDS EvidencePipeline, TLC

MCLineLen == [s \in Spans |-> 3]

Symmetry == Permutations(Spans \ Malformed)
=============================================================================
