-------------------------- MODULE MediaPoolStream --------------------------
(***************************************************************************)
(* The pool of MediaPool seen as a stream: the frames are numbered in the  *)
(* order of their commits, and each user's deliveries are recorded.  The   *)
(* variables added here observe MediaPool and never constrain it, but for  *)
(* MaxFrames, the bound on the frames put in.                              *)
(***************************************************************************)
EXTENDS MediaPool

CONSTANT MaxFrames

ASSUME StreamAssumption == MaxFrames \in Nat

VARIABLES
  published,   (* number of the last complete frame                        *)
  number,      (* per entry: number of its frame, 0 until it is complete   *)
  delivered,   (* per user: number of the last frame it took out, or 0     *)
  emptied      (* the pool was emptied at least once                       *)

streamVars == <<published, number, delivered, emptied>>

StreamInit ==
  /\ Init
  /\ published = 0
  /\ number = [e \in Entries |-> 0]
  /\ delivered = [u \in Users |-> 0]
  /\ emptied = FALSE

Fill ==
  /\ \E key \in BOOLEAN : RequestLocked(key)
  /\ number' = [number EXCEPT ![entry_in] = 0]
  /\ UNCHANGED <<published, delivered, emptied>>

Publish ==
  /\ Commit
  /\ published' = published + 1
  /\ number' = [number EXCEPT ![entry_in] = published + 1]
  /\ UNCHANGED <<delivered, emptied>>

Emptying ==
  /\ FindNextFails \/ SignalLoss
  /\ emptied' = TRUE
  /\ UNCHANGED <<published, number, delivered>>

Join(u) ==
  /\ Attach(u)
  /\ delivered' = [delivered EXCEPT ![u] = 0]
  /\ UNCHANGED <<published, number, emptied>>

Deliver(u) ==
  /\ OutNext(u) \/ OutKey(u)
  /\ delivered' = [delivered EXCEPT ![u] =
       IF out_ptr'[u] = None THEN @ ELSE number[out_ptr'[u]]]
  /\ UNCHANGED <<published, number, emptied>>

(* MEDIAPOOL_user_sync is left out: MEDIABUF_sync alone calls it           *)
(* (media_buf.c:139), which nothing under src/ calls in turn.  A user that *)
(* did would go back to the latest key frame, maybe for a second time.     *)
Unobserved ==
  /\ \/ Request /\ published < MaxFrames
     \/ RequestAlloc \/ RequestAllocFails \/ Append
     \/ ScanStep \/ ScanDone \/ FindNext \/ ExhaustedStep \/ ExhaustedDone \/ CommitUnlock
     \/ LossStep \/ LossDone
     \/ \E u \in Users : Detach(u) \/ OutLock(u) \/ OutNothing(u) \/ OutResync(u) \/ OutUnlock(u)
  /\ UNCHANGED streamVars

StreamNext ==
  \/ Fill \/ Publish \/ Emptying \/ Unobserved
  \/ \E u \in Users : Join(u) \/ Deliver(u)

StreamSpec == StreamInit /\ [][StreamNext]_<<vars, streamVars>> /\ Fairness

-----------------------------------------------------------------------------
(* Until the pool is emptied a user of a pool that remembers two key       *)
(* frames moves forward only: no frame is delivered twice or after a newer *)
(* one, and none before it is complete, however the user's resync to the   *)
(* nearest key frame falls between the steps of a commit.  The frames      *)
(* since the oldest key frame remembered are kept: a user misses none of   *)
(* them.                                                                   *)
Log == INSTANCE FrameLog WITH
  Users <- Users, MaxFrames <- MaxFrames,
  published <- published, delivered <- delivered, emptied <- emptied,
  oldest <- IF emptied THEN 0 ELSE number[key_history[K-1]]

StreamIsLog == Log!LogSpec
=============================================================================
