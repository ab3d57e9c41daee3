---------------------------- MODULE MCMediaPool ----------------------------
(* MediaPool on a small ring, for TLC: the users are interchangeable.      *)
EXTENDS MediaPool, TLC

Symmetry == Permutations(Users)
=============================================================================
