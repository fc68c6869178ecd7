---------------------------- MODULE MCSpillQueue ----------------------------
(* SpillQueue with three spans, the second with a longer line, so that a     *)
(* cursor left over from another file can land inside a line.                *)
EXTENDS SpillQueue, TLC

CONSTANTS s1, s2, s3

MCLineLen == (s1 :> 2) @@ (s2 :> 3) @@ (s3 :> 2)
=============================================================================
