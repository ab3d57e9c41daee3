------------------------- MODULE MCMediaPoolStream -------------------------
(* MediaPoolStream on a small ring, for TLC.                               *)
EXTENDS MediaPoolStream, TLC

Symmetry == Permutations(Users)
=============================================================================
