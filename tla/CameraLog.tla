----------------------------- MODULE CameraLog -----------------------------
(***************************************************************************)
(* What a session with a camera promises of a stream: on each connection   *)
(* the camera sends bytes that its frames cut into spans, and what is      *)
(* handed on are whole frames, in their order, none twice.  Frames may be  *)
(* missing: a pool refuses some, and the last one has no successor yet.    *)
(***************************************************************************)
EXTENDS Naturals

VARIABLES
  ends,   \* positions at which a frame of this connection ends
  got     \* the span handed on last: what comes after got[1], up to got[2]

logVars == <<ends, got>>

LogInit == ends = {} /\ got = <<0, 0>>

(* A frame begins where the one before it ends; it may be empty.           *)
LogDeliver ==
  \E a \in {0} \cup ends, p \in ends :
    /\ got[2] <= a /\ a <= p /\ \A q \in ends : q <= a \/ p <= q
    /\ got' = <<a, p>> /\ UNCHANGED ends

LogConnect == ends' \subseteq Nat /\ got' = <<0, 0>>

LogSpec == LogInit /\ [][LogDeliver \/ LogConnect]_logVars
=============================================================================
