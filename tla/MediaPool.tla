----------------------------- MODULE MediaPool -----------------------------
(***************************************************************************)
(* The frame pool of one video stream (app/mediabuf/media_pool.c): a ring  *)
(* of entries, each holding one encoded frame under a read-write lock of   *)
(* its own.                                                                *)
(*                                                                         *)
(*   - One encoder thread puts frames in with in_request, in_append and    *)
(*     in_commit.  The commit of a key frame clears the entries older than *)
(*     the oldest remembered key frame; a commit that finds no free entry  *)
(*     calls the pool-exhausted hook of app/dvr.c, which empties the pool. *)
(*   - Users (recorder, network sessions) attach, lock the entry they read *)
(*     next, take the frame out, use it and unlock.                        *)
(*   - The video-loss thread (app/jdk/jdk.c, hook in app/app_jdk.c) empties *)
(*     the pool whenever the channel loses its signal.                     *)
(*                                                                         *)
(* A frame is abstracted to whether its entry has a non-zero data_size and *)
(* a non-NULL data pointer.  Atomicity is that of the entry locks: a step  *)
(* is what happens between two accesses to state that other threads use.   *)
(* Coarser than the code are the shift of key_history in a commit, its     *)
(* reading by a resync, and what a resynced user reads of the key frame's  *)
(* entry (data_size, next, data): each is one step.                        *)
(***************************************************************************)
EXTENDS Naturals, FiniteSets

CONSTANTS
  N,             (* entry_available: entries in the ring                   *)
  K,             (* entry_key_available: key frames remembered             *)
  Users,         (* threads that read the stream                           *)
  UserAvailable, (* user_available: user slots of the pool                 *)
  Pieces,        (* in_append calls that make up one frame                 *)
  CallocMayFail, (* whether calloc can return NULL                         *)
  SignalMayLoss  (* whether the channel can lose its signal                *)

ASSUME PoolAssumption ==
  /\ N \in Nat /\ K \in Nat \ {0} /\ K < N  \* the assertions of MEDIAPOOL_create
  /\ UserAvailable \in Nat \ {0}
  /\ Pieces \in Nat \ {0}
  /\ CallocMayFail \in BOOLEAN /\ SignalMayLoss \in BOOLEAN

VARIABLES
  full_flag, entry_in, key_history,
  timestamp,     (* the pool's timestamp is not 0: a key frame was committed   *)
  data_size,     (* per entry: data_size is not 0                          *)
  data,          (* per entry: data is not NULL                            *)
  key_flag, next,
  wrlocked,      (* entries whose lock in_request holds for writing        *)
  in_ctrl,       (* the frame being put in: its buffer and its filling     *)
  wpc,           (* where the encoder thread is in request/append/commit   *)
  cur,           (* in_commit's local entry_in, the entry being committed  *)
  wi,            (* the encoder thread's loop index i                      *)
  epc, ei,       (* the video-loss thread in MEDIAPOOL_emtpy and its i     *)
  upc,           (* where each user is                                     *)
  entry_rd,      (* per user: the entry it reads next                      *)
  lock,          (* per user: the entry whose lock it holds for reading    *)
  out_ptr        (* per user: the entry whose data it is using             *)

poolVars == <<full_flag, entry_in, key_history, timestamp>>
entryVars == <<data_size, data, key_flag, next>>
inVars == <<wrlocked, in_ctrl, wpc, cur, wi>>
lossVars == <<epc, ei>>
userVars == <<upc, entry_rd, lock, out_ptr>>
vars == <<poolVars, entryVars, inVars, lossVars, userVars>>

Entries == 0 .. N-1
None == N                        \* no entry: a NULL lock or data pointer

(* (i + entry_in + d) % entry_available, for sums below 2 * entry_available. *)
Wrap(x) == IF x >= N THEN x - N ELSE x

NoFrame == [ptr |-> FALSE, in_size |-> 0]

ReadLocked(e) == \E u \in Users : lock[u] = e

(* Mutant of Free: a lock that does not count its readers.                 *)
FreeOfWriter(e) == e \notin wrlocked

(* Whether a write lock can be had on e: wrlock waits for it, trywrlock fails without it. *)
Free(e) == e \notin wrlocked /\ ~ReadLocked(e)

(* MEDIAENTRY_clear(e, key_history[0]) under a lock had with trywrlock and given back. *)
Clear(e) ==
  /\ data_size' = [data_size EXCEPT ![e] = FALSE]
  /\ data' = [data EXCEPT ![e] = FALSE]
  /\ key_flag' = [key_flag EXCEPT ![e] = FALSE]
  /\ next' = [next EXCEPT ![e] = key_history[0]]

-----------------------------------------------------------------------------
(* MEDIAPOOL_create, by way of MEDIABUF_new from DVR_Init (dvr.c:514),     *)
(* which then sets the pool-exhausted hook.                                *)

Init ==
  /\ full_flag = FALSE /\ timestamp = FALSE
  /\ entry_in = 0
  /\ key_history = [k \in 0 .. K-1 |-> 0]
  /\ data_size = [e \in Entries |-> FALSE]
  /\ data = [e \in Entries |-> FALSE]
  /\ key_flag = [e \in Entries |-> FALSE]
  /\ next = [e \in Entries |-> 0]
  /\ wrlocked = {} /\ in_ctrl = NoFrame
  /\ wpc = "idle" /\ cur = 0 /\ wi = 0
  /\ epc = "idle" /\ ei = 0
  /\ upc = [u \in Users |-> "detached"]
  /\ entry_rd = [u \in Users |-> 0]
  /\ lock = [u \in Users |-> None]
  /\ out_ptr = [u \in Users |-> None]

-----------------------------------------------------------------------------
(* The encoder thread: in_request.                                         *)

(* The checks before the entry lock: a full pool, a frame being put in and *)
(* an entry that still has its data make the request fail.                 *)
Accepts == ~full_flag /\ ~in_ctrl.ptr /\ ~data_size[entry_in]

Request ==
  /\ wpc = "idle" /\ Accepts
  /\ wpc' = "wrlock"
  /\ UNCHANGED <<poolVars, entryVars, wrlocked, in_ctrl, cur, wi, lossVars, userVars>>

(* RWLOCK_WRLOCK waits for the users still on the entry; then the entry    *)
(* gets its attributes.  The return on a non-zero data_size keeps the lock. *)
RequestLocked(key) ==
  /\ wpc = "wrlock" /\ Free(entry_in)
  /\ wrlocked' = wrlocked \cup {entry_in}
  /\ key_flag' = [key_flag EXCEPT ![entry_in] = key]
  /\ wpc' = IF data_size[entry_in] THEN "idle" ELSE "calloc"
  /\ data_size' = [data_size EXCEPT ![entry_in] = TRUE]
  /\ UNCHANGED <<poolVars, data, next, in_ctrl, cur, wi, lossVars, userVars>>

(* An entry that has data already is left with its lock held.              *)
RequestAlloc ==
  /\ wpc = "calloc"
  /\ IF data[entry_in]
     THEN wpc' = "idle" /\ UNCHANGED <<data, in_ctrl>>
     ELSE /\ data' = [data EXCEPT ![entry_in] = TRUE]
          /\ in_ctrl' = [ptr |-> TRUE, in_size |-> 0]
          /\ wpc' = "append"
  /\ UNCHANGED <<poolVars, data_size, key_flag, next, wrlocked, cur, wi, lossVars, userVars>>

(* Mutant of RequestAllocFails: an error return that forgets the unlock.   *)
RequestAllocFailsLocked ==
  /\ wpc = "calloc" /\ CallocMayFail /\ ~data[entry_in]
  /\ wpc' = "idle"
  /\ UNCHANGED <<poolVars, entryVars, wrlocked, in_ctrl, cur, wi, lossVars, userVars>>

(* calloc fails: the lock is released, data_size keeps the requested size. *)
RequestAllocFails ==
  /\ wpc = "calloc" /\ CallocMayFail /\ ~data[entry_in]
  /\ wrlocked' = wrlocked \ {entry_in}
  /\ wpc' = "idle"
  /\ UNCHANGED <<poolVars, entryVars, in_ctrl, cur, wi, lossVars, userVars>>

-----------------------------------------------------------------------------
(* The encoder thread: in_append and in_commit.                            *)

(* Mutant of Append: the overload check compares before it adds.           *)
AppendOverloads ==
  /\ wpc = "append" /\ in_ctrl.in_size <= Pieces
  /\ in_ctrl' = [in_ctrl EXCEPT !.in_size = @ + 1]
  /\ UNCHANGED <<poolVars, entryVars, wrlocked, wpc, cur, wi, lossVars, userVars>>

Append ==
  /\ wpc = "append" /\ in_ctrl.in_size < Pieces
  /\ in_ctrl' = [in_ctrl EXCEPT !.in_size = @ + 1]
  /\ UNCHANGED <<poolVars, entryVars, wrlocked, wpc, cur, wi, lossVars, userVars>>

(* A key frame enters the history, newest first, and starts the scan; any  *)
(* other frame goes straight to the search for the next entry.             *)
Commit ==
  /\ wpc = "append" /\ in_ctrl.in_size = Pieces
  /\ cur' = entry_in /\ wi' = 0
  /\ IF key_flag[entry_in]
     THEN /\ key_history' = [k \in 0 .. K-1 |-> IF k = 0 THEN entry_in ELSE key_history[k-1]]
          /\ timestamp' = TRUE
          /\ wpc' = "scan"
     ELSE wpc' = "find" /\ UNCHANGED <<key_history, timestamp>>
  /\ UNCHANGED <<full_flag, entry_in, entryVars, wrlocked, in_ctrl, lossVars, userVars>>

(* The scan looks at the entries after the new key frame, up to the oldest *)
(* key frame it remembers.                                                 *)
ScanEntry == Wrap(wi + entry_in + 1)
ScanOver == wi = N-1 \/ ScanEntry = key_history[K-1]

ScanDone ==
  /\ wpc = "scan" /\ ScanOver
  /\ wpc' = "find" /\ wi' = 0
  /\ UNCHANGED <<poolVars, entryVars, wrlocked, in_ctrl, cur, lossVars, userVars>>

(* An entry nobody reads is cleared; the next of one that is being read is *)
(* forced to the new key frame.                                            *)
ScanStep ==
  /\ wpc = "scan" /\ ~ScanOver
  /\ wi' = wi + 1
  /\ IF data_size[ScanEntry] /\ Free(ScanEntry)
     THEN Clear(ScanEntry)
     ELSE /\ next' = IF data_size[ScanEntry]
                     THEN [next EXCEPT ![ScanEntry] = key_history[0]] ELSE next
          /\ UNCHANGED <<data_size, data, key_flag>>
  /\ UNCHANGED <<poolVars, wrlocked, in_ctrl, wpc, cur, lossVars, userVars>>

(* Mutant of FindNext: a search that goes round until an entry is free.    *)
FindNextForEver ==
  /\ wpc = "find" /\ wi < N-1
  /\ LET e == Wrap(wi + entry_in + 1) IN
       IF ~data[e]
       THEN /\ entry_in' = e
            /\ next' = [next EXCEPT ![cur] = e]
            /\ wpc' = "unlock" /\ UNCHANGED wi
       ELSE wi' = (IF wi = N-2 THEN 0 ELSE wi + 1) /\ UNCHANGED <<entry_in, next, wpc>>
  /\ UNCHANGED <<full_flag, key_history, timestamp, data_size, data, key_flag,
                 wrlocked, in_ctrl, cur, lossVars, userVars>>

(* The search for the next entry stops at the first one without data.      *)
FindNext ==
  /\ wpc = "find" /\ wi < N-1
  /\ LET e == Wrap(wi + entry_in + 1) IN
       IF ~data[e]
       THEN /\ entry_in' = e
            /\ next' = [next EXCEPT ![cur] = e]
            /\ wpc' = "unlock" /\ UNCHANGED wi
       ELSE wi' = wi + 1 /\ UNCHANGED <<entry_in, next, wpc>>
  /\ UNCHANGED <<full_flag, key_history, timestamp, data_size, data, key_flag,
                 wrlocked, in_ctrl, cur, lossVars, userVars>>

(* No entry is free: the pool restarts at the latest key frame and the     *)
(* pool-exhausted hook is called.                                          *)
FindNextFails ==
  /\ wpc = "find" /\ wi = N-1
  /\ full_flag' = TRUE
  /\ entry_in' = key_history[0]
  /\ next' = [next EXCEPT ![cur] = key_history[0]]
  /\ wpc' = "exhausted" /\ wi' = 0
  /\ UNCHANGED <<key_history, timestamp, data_size, data, key_flag, wrlocked, in_ctrl, cur, lossVars, userVars>>

CommitUnlock ==
  /\ wpc = "unlock"
  /\ wrlocked' = wrlocked \ {cur}
  /\ in_ctrl' = NoFrame
  /\ wpc' = "idle"
  /\ UNCHANGED <<poolVars, entryVars, cur, wi, lossVars, userVars>>

-----------------------------------------------------------------------------
(* MEDIAPOOL_emtpy: one loop, run by the encoder thread from the           *)
(* pool-exhausted hook and by the video-loss thread.  It reads entry_in    *)
(* again in every turn.                                                    *)

(* Mutant of EmptyStep: it respects the users' locks only.                 *)
EmptyUnread(i) ==
  LET e == Wrap(i + entry_in) IN
    IF data_size[e] /\ ~ReadLocked(e) THEN Clear(e) ELSE UNCHANGED entryVars

EmptyStep(i) ==
  LET e == Wrap(i + entry_in) IN
    IF data_size[e] /\ Free(e) THEN Clear(e) ELSE UNCHANGED entryVars

ExhaustedStep ==
  /\ wpc = "exhausted" /\ wi < N
  /\ EmptyStep(wi)
  /\ wi' = wi + 1
  /\ UNCHANGED <<poolVars, wrlocked, in_ctrl, wpc, cur, lossVars, userVars>>

(* Mutant of ExhaustedDone: the pool stays marked full.                    *)
ExhaustedStaysFull ==
  /\ wpc = "exhausted" /\ wi = N
  /\ wpc' = "unlock" /\ wi' = 0
  /\ UNCHANGED <<poolVars, entryVars, wrlocked, in_ctrl, cur, lossVars, userVars>>

ExhaustedDone ==
  /\ wpc = "exhausted" /\ wi = N
  /\ full_flag' = FALSE
  /\ wpc' = "unlock" /\ wi' = 0
  /\ UNCHANGED <<entry_in, key_history, timestamp, entryVars, wrlocked, in_ctrl, cur, lossVars, userVars>>

SignalLoss ==
  /\ SignalMayLoss /\ epc = "idle"
  /\ epc' = "empty" /\ ei' = 0
  /\ UNCHANGED <<poolVars, entryVars, inVars, userVars>>

LossStep ==
  /\ epc = "empty" /\ ei < N
  /\ EmptyStep(ei)
  /\ ei' = ei + 1
  /\ UNCHANGED <<poolVars, inVars, epc, userVars>>

LossDone ==
  /\ epc = "empty" /\ ei = N
  /\ full_flag' = FALSE
  /\ epc' = "idle" /\ ei' = 0
  /\ UNCHANGED <<entry_in, key_history, timestamp, entryVars, inVars, userVars>>

-----------------------------------------------------------------------------
(* The users.                                                              *)

Attached == {u \in Users : upc[u] # "detached"}

(* user_find_vacancy: a vacant slot starts at the latest key frame.        *)
Attach(u) ==
  /\ upc[u] = "detached" /\ Cardinality(Attached) < UserAvailable
  /\ upc' = [upc EXCEPT ![u] = "ready"]
  /\ entry_rd' = [entry_rd EXCEPT ![u] = key_history[0]]
  /\ lock' = [lock EXCEPT ![u] = None]
  /\ UNCHANGED <<poolVars, entryVars, inVars, lossVars, out_ptr>>

Detach(u) ==
  /\ upc[u] = "ready"
  /\ upc' = [upc EXCEPT ![u] = "detached"]
  /\ UNCHANGED <<poolVars, entryVars, inVars, lossVars, entry_rd, lock, out_ptr>>

(* The user's timestamp is a 32-bit time_t and the pool's 64 bits of       *)
(* microseconds: whether sync sees a newer key frame depends on bit 31 of  *)
(* the truncated copy, so it may happen whether there is one or not.       *)
UserSync(u) ==
  /\ upc[u] = "ready" /\ timestamp
  /\ entry_rd' = [entry_rd EXCEPT ![u] = key_history[0]]
  /\ UNCHANGED <<poolVars, entryVars, inVars, lossVars, upc, lock, out_ptr>>

(* RWLOCK_TRYRDLOCK expands to the blocking rdlock.                        *)
OutLock(u) ==
  /\ upc[u] = "ready" /\ entry_rd[u] \notin wrlocked
  /\ lock' = [lock EXCEPT ![u] = entry_rd[u]]
  /\ upc' = [upc EXCEPT ![u] = "locked"]
  /\ UNCHANGED <<poolVars, entryVars, inVars, lossVars, entry_rd, out_ptr>>

(* The interval test of MEDIAPOOL_find_nearest_key: rd lies between the    *)
(* older key position and the newer one, going forward in the ring.        *)
InGap(rd, older, newer) ==
  /\ older # newer
  /\ IF newer > older THEN older < rd /\ rd <= newer
                      ELSE ~(newer <= rd /\ rd < older)

(* Mutant of NearestKey: the key frame behind the reader in every gap.     *)
KeyBehind(rd) ==
  LET h == key_history
      gaps == {k \in 1 .. K-1 : InGap(rd, h[k], h[k-1])}
  IN  IF gaps = {} THEN h[0] ELSE h[CHOOSE k \in gaps : \A j \in gaps : j <= k]

(* MEDIAPOOL_find_nearest_key: the gaps are tried from the oldest key on.  *)
NearestKey(rd) ==
  LET h == key_history
      gaps == {k \in 1 .. K-1 : InGap(rd, h[k], h[k-1])}
      oldest == {k \in gaps : \A j \in gaps : j <= k}
  IN  IF InGap(rd, h[0], h[K-1]) THEN h[K-1]
      ELSE IF oldest = {} THEN h[0]
      ELSE h[(CHOOSE k \in oldest : TRUE) - 1]

(* MEDIAPOOL_out takes the frame of entry e and moves entry_rd on.  Under  *)
(* e's lock its reads see one state; after a resync, when the lock held is *)
(* another's, they are taken together all the same.                        *)
TakeOut(u, e) ==
  /\ entry_rd' = [entry_rd EXCEPT ![u] = next[e]]
  /\ out_ptr' = [out_ptr EXCEPT ![u] = IF data_size[e] THEN e ELSE None]
  /\ upc' = [upc EXCEPT ![u] = "done"]
  /\ UNCHANGED <<poolVars, entryVars, inVars, lossVars, lock>>

(* The user has caught up with the encoder.                                *)
OutNothing(u) ==
  /\ upc[u] = "locked" /\ entry_rd[u] = entry_in
  /\ upc' = [upc EXCEPT ![u] = "done"]
  /\ UNCHANGED <<poolVars, entryVars, inVars, lossVars, entry_rd, lock, out_ptr>>

OutNext(u) ==
  /\ upc[u] = "locked" /\ entry_rd[u] # entry_in
  /\ data_size[entry_rd[u]]
  /\ TakeOut(u, entry_rd[u])

(* The entry was cleared before the user came to it: the user goes to the  *)
(* nearest key frame, whose lock it does not hold, so that the other       *)
(* threads may work on that entry before the user reads it.                *)
OutResync(u) ==
  /\ upc[u] = "locked" /\ entry_rd[u] # entry_in
  /\ ~data_size[entry_rd[u]]
  /\ entry_rd' = [entry_rd EXCEPT ![u] = NearestKey(entry_rd[u])]
  /\ upc' = [upc EXCEPT ![u] = "resync"]
  /\ UNCHANGED <<poolVars, entryVars, inVars, lossVars, lock, out_ptr>>

OutKey(u) ==
  /\ upc[u] = "resync"
  /\ TakeOut(u, entry_rd[u])

OutUnlock(u) ==
  /\ upc[u] = "done"
  /\ lock' = [lock EXCEPT ![u] = None]
  /\ out_ptr' = [out_ptr EXCEPT ![u] = None]
  /\ upc' = [upc EXCEPT ![u] = "ready"]
  /\ UNCHANGED <<poolVars, entryVars, inVars, lossVars, entry_rd>>

-----------------------------------------------------------------------------
(* in_request and what follows it until in_commit returns.                 *)
Encoder ==
  \/ \E key \in BOOLEAN : RequestLocked(key)
  \/ RequestAlloc \/ RequestAllocFails
  \/ Append \/ Commit \/ ScanDone \/ ScanStep
  \/ FindNext \/ FindNextFails \/ ExhaustedStep \/ ExhaustedDone \/ CommitUnlock

VideoLoss == SignalLoss \/ LossStep \/ LossDone

OutDone(u) == OutNothing(u) \/ OutNext(u) \/ OutResync(u) \/ OutKey(u) \/ OutUnlock(u)

User(u) == Attach(u) \/ Detach(u) \/ UserSync(u) \/ OutLock(u) \/ OutDone(u)

Next == Request \/ Encoder \/ VideoLoss \/ \E u \in Users : User(u)

Spec == Init /\ [][Next]_vars

(* A call of the encoder thread that has begun goes on; a user that holds  *)
(* a lock takes its frame and unlocks.  The write lock is had once users   *)
(* leave the entry now and then: a user sleeps between two polls, so its   *)
(* lock is free again and again.                                           *)
Fairness ==
  /\ WF_vars(Encoder)
  /\ SF_vars(\E key \in BOOLEAN : RequestLocked(key))
  /\ \A u \in Users : WF_vars(OutDone(u))

-----------------------------------------------------------------------------
(* Type invariant.                                                         *)
TypeOK ==
  /\ full_flag \in BOOLEAN /\ timestamp \in BOOLEAN
  /\ entry_in \in Entries
  /\ key_history \in [0 .. K-1 -> Entries]
  /\ data_size \in [Entries -> BOOLEAN]
  /\ data \in [Entries -> BOOLEAN]
  /\ key_flag \in [Entries -> BOOLEAN]
  /\ next \in [Entries -> Entries]
  /\ wrlocked \in SUBSET Entries
  /\ in_ctrl \in [ptr : BOOLEAN, in_size : 0 .. Pieces]
  /\ wpc \in {"idle", "wrlock", "calloc", "append", "scan", "find", "exhausted", "unlock"}
  /\ cur \in Entries /\ wi \in 0 .. N
  /\ epc \in {"idle", "empty"} /\ ei \in 0 .. N
  /\ upc \in [Users -> {"detached", "ready", "locked", "resync", "done"}]
  /\ entry_rd \in [Users -> Entries]
  /\ lock \in [Users -> Entries \cup {None}]
  /\ out_ptr \in [Users -> Entries \cup {None}]

(* The entry the encoder thread works on.                                  *)
InFlight == IF wpc \in {"idle", "wrlock", "calloc", "append"} THEN entry_in ELSE cur

(* No write lock is leaked and none is taken twice: outside a request the  *)
(* encoder thread holds none, inside it holds exactly that of the entry it *)
(* fills, in particular on the error returns of in_request that forget to  *)
(* unlock (media_pool.c:359-370), which are therefore never taken.         *)
WriteLockOwned ==
  wrlocked = IF wpc \in {"idle", "wrlock"} THEN {} ELSE {InFlight}

(* The buffer in_append copies into is never freed by the scan or by an    *)
(* emptying running in the encoder or in the video-loss thread, up to the  *)
(* end of in_commit.                                                       *)
FillBufferLive ==
  /\ in_ctrl.ptr <=> wpc \in {"append", "scan", "find", "exhausted", "unlock"}
  /\ in_ctrl.ptr => data_size[InFlight] /\ data[InFlight]

(* A user whose frame lies in the entry it holds locked uses live data that *)
(* nobody rewrites, until out_unlock; and it never gets the NULL data of an *)
(* entry whose calloc failed.                                               *)
LockedFrameLive ==
  \A u \in Users : out_ptr[u] # None /\ out_ptr[u] = lock[u] =>
    data[out_ptr[u]] /\ out_ptr[u] \notin wrlocked

(* The pool refuses a frame for two reasons only: after an exhaustion the  *)
(* latest key frame, where it restarts, still holds its data; or a calloc  *)
(* failed on the entry.  It is never left marked full.                     *)
RefusalCause ==
  wpc = "idle" /\ ~Accepts =>
    /\ ~full_flag /\ ~in_ctrl.ptr
    /\ data[entry_in] => entry_in = key_history[0]

(* No call of the encoder thread hangs: waiting for the write lock of an   *)
(* entry that users hold, scanning, searching and emptying all end.        *)
EncoderReturns == wpc # "idle" ~> wpc = "idle"

-----------------------------------------------------------------------------
(* What comments of the code say and the code does not do.                 *)

(* media_pool.c:509-511, on an entry whose write lock was just had: "this  *)
(* entry is free / clear it immediately please".  A user that was sent to  *)
(* a key frame by OutResync uses an entry it never locked.                 *)
ClearedEntryIsFree ==
  [][\A e \in Entries : data[e] /\ ~data'[e] => \A u \in Users : out_ptr[u] # e]_vars
=============================================================================
