-------------------------- MODULE MCEvidenceLedger --------------------------
(* Instances of EvidenceLedger.  Events and writers are interchangeable.     *)
EXTENDS EvidenceLedger, TLC

Symmetry == Permutations(Events) \cup Permutations(Writers)
=============================================================================
