----------------------------- MODULE MCJobEvents -----------------------------
(* JobEvents for TLC: the names of the model values. *)
EXTENDS JobEvents

CONSTANTS c1, c2, j1, j2

=============================================================================
