--------------------------- MODULE MCSpookServer ---------------------------
(* SpookServer on small tables, for TLC: descriptors and protocols are     *)
(* interchangeable.                                                        *)
EXTENDS SpookServer, TLC

Symmetry == Permutations(Fds) \cup Permutations(Protocols)
=============================================================================
