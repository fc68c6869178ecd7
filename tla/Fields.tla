------------------------------- MODULE Fields -------------------------------
(***************************************************************************)
(* Records as functions of their fields, put together as dict.update does:  *)
(* @@ and :> of TLC, by definitions that can be proved about.               *)
(***************************************************************************)

\* The fields of both; f's come before g's.
f ++ g == [x \in DOMAIN f \cup DOMAIN g |-> IF x \in DOMAIN f THEN f[x] ELSE g[x]]

\* One field.
x <: value == [y \in {x} |-> value]
=============================================================================
