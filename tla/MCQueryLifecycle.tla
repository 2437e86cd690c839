--------------------------- MODULE MCQueryLifecycle ---------------------------
(* Two or three statements over a small host arena. *)
EXTENDS QueryLifecycle, TLC

Symmetry == Permutations(Statements)
===============================================================================
