----------------------------- MODULE FrameLog ------------------------------
(***************************************************************************)
(* What a frame pool promises its users: the frames form a log of which    *)
(* the pool keeps the last ones.  A user gets complete frames only and     *)
(* moves forward in the log only.  As long as the frame it had last is     *)
(* kept it gets the very next one: only a user that falls behind what the  *)
(* pool keeps may miss frames.  The promise ends when the pool is emptied. *)
(***************************************************************************)
EXTENDS Naturals

CONSTANTS
  Users,
  MaxFrames   (* bound on the frames of the log                            *)

VARIABLES
  published,  (* number of the last complete frame                         *)
  oldest,     (* number of the oldest frame the pool keeps, 0 for none     *)
  delivered,  (* per user: number of the last frame it got, or 0           *)
  emptied     (* the pool was emptied                                      *)

logVars == <<published, oldest, delivered, emptied>>

LogInit ==
  /\ published = 0 /\ oldest = 0
  /\ delivered = [u \in Users |-> 0]
  /\ emptied = FALSE

(* With a new frame the pool may give up old ones.                         *)
LogPublish ==
  /\ published < MaxFrames
  /\ published' = published + 1
  /\ oldest' \in IF emptied THEN {0} ELSE oldest .. published'
  /\ UNCHANGED <<delivered, emptied>>

(* The frames user u may get now.                                          *)
Deliverable(u) ==
  IF emptied THEN 0 .. published
  ELSE IF delivered[u] # 0 /\ delivered[u] >= oldest
       THEN {delivered[u] + 1} \cap 1 .. published
       ELSE delivered[u] + 1 .. published

LogDeliver(u) ==
  /\ \E n \in Deliverable(u) : delivered' = [delivered EXCEPT ![u] = n]
  /\ UNCHANGED <<published, oldest, emptied>>

LogJoin(u) ==
  /\ delivered' = [delivered EXCEPT ![u] = 0]
  /\ UNCHANGED <<published, oldest, emptied>>

LogEmptied ==
  /\ emptied' = TRUE /\ oldest' = 0
  /\ UNCHANGED <<published, delivered>>

LogNext == LogPublish \/ LogEmptied \/ \E u \in Users : LogDeliver(u) \/ LogJoin(u)

LogSpec == LogInit /\ [][LogNext]_logVars
=============================================================================
