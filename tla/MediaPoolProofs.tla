-------------------------- MODULE MediaPoolProofs --------------------------
(***************************************************************************)
(* Proofs about MediaPool, for every ring size, number of remembered key   *)
(* frames, set of users and frame size: the type invariant, and an         *)
(* inductive invariant from which the safety invariants follow.            *)
(***************************************************************************)
EXTENDS MediaPool, TLAPS

(* The encoder thread's loops leave their index below the ring's end.      *)
LoopBounds == wpc \in {"scan", "find"} => wi <= N-1

TypeInv == TypeOK /\ LoopBounds

(* What a user holds: a lock from out_lock to out_unlock, never on an entry *)
(* being filled; while it resyncs, the entry it holds stays empty, because *)
(* in_request needs its lock to fill it.                                   *)
UserLocks ==
  \A u \in Users :
    /\ lock[u] # None <=> upc[u] \in {"locked", "resync", "done"}
    /\ lock[u] # None => lock[u] \notin wrlocked
    /\ upc[u] = "locked" => lock[u] = entry_rd[u]
    /\ upc[u] = "resync" => ~data_size[lock[u]]
    /\ out_ptr[u] # None => upc[u] = "done"

(* Data come with a size; a size without data is that of the entry in_request *)
(* allocates or failed to allocate.                                        *)
SizedEntries ==
  /\ \A e \in Entries : data[e] => data_size[e]
  /\ \A e \in Entries : data_size[e] /\ ~data[e] => e = entry_in /\ wpc \in {"idle", "calloc"}

(* What the encoder thread may rely on from one call to the next.          *)
EncoderState ==
  /\ wpc = "wrlock" => ~data_size[entry_in]
  /\ wpc = "calloc" => data_size[entry_in] /\ ~data[entry_in]
  /\ wpc \in {"scan", "find"} => cur = entry_in
  /\ wpc = "exhausted" => entry_in = key_history[0]
  /\ wpc \in {"unlock", "idle"} /\ data[entry_in] => entry_in = key_history[0]
  /\ full_flag => wpc = "exhausted"

SafeInv ==
  /\ UserLocks /\ SizedEntries /\ EncoderState
  /\ WriteLockOwned /\ FillBufferLive /\ LockedFrameLive

IInv == TypeInv /\ SafeInv

-----------------------------------------------------------------------------
(* Ring arithmetic.                                                        *)

LEMMA EntriesNotEmpty == 0 \in Entries /\ None \notin Entries /\ N \in Nat \ {0, 1}
BY PoolAssumption DEF Entries, None

(* One wrap brings a sum of two ring positions back into the ring.         *)
LEMMA WrapInRing == ASSUME NEW x \in Nat, x < N + N PROVE Wrap(x) \in Entries
BY PoolAssumption DEF Wrap, Entries

(* The scan and the search look at entries other than their own.           *)
LEMMA LaterEntries ==
  ASSUME NEW p \in Entries, NEW i \in Nat, i < N-1
  PROVE  Wrap(i + p + 1) \in Entries /\ Wrap(i + p + 1) # p
<1>1. p \in 0 .. N-1 /\ N \in Nat
  BY PoolAssumption DEF Entries
<1> QED BY <1>1 DEF Wrap, Entries

(* find_nearest_key returns a remembered key frame.                        *)
LEMMA NearestKeyRemembered ==
  ASSUME key_history \in [0 .. K-1 -> Entries], NEW rd
  PROVE  NearestKey(rd) \in Entries
<1> DEFINE gaps == {k \in 1 .. K-1 : InGap(rd, key_history[k], key_history[k-1])}
           oldest == {k \in gaps : \A j \in gaps : j <= k}
<1>1. K-1 \in 0 .. K-1 /\ 0 \in 0 .. K-1
  BY PoolAssumption
<1>2. CASE oldest # {}
  <2>1. (CHOOSE k \in oldest : TRUE) \in 1 .. K-1
    BY <1>2
  <2>2. (CHOOSE k \in oldest : TRUE) - 1 \in 0 .. K-1
    BY <2>1, PoolAssumption
  <2> HIDE DEF oldest
  <2> QED BY <2>2, <1>1, <1>2 DEF NearestKey, oldest
<1>3. CASE oldest = {}
  BY <1>1, <1>3 DEF NearestKey
<1> QED BY <1>2, <1>3

-----------------------------------------------------------------------------
(* The type invariant.                                                     *)

LEMMA TypeInvInit == Init => TypeInv
<1> SUFFICES ASSUME Init PROVE TypeInv
  OBVIOUS
<1>1. 0 \in Entries /\ 0 \in 0 .. N /\ 0 \in 0 .. Pieces
  BY EntriesNotEmpty, PoolAssumption
<1> QED BY <1>1 DEF Init, TypeInv, TypeOK, LoopBounds, NoFrame

(* One turn of the emptying loop, whichever thread runs it.                *)
LEMMA EmptyStepType ==
  ASSUME TypeOK, NEW i \in Nat, i < N, EmptyStep(i)
  PROVE  /\ data_size' \in [Entries -> BOOLEAN] /\ data' \in [Entries -> BOOLEAN]
         /\ key_flag' \in [Entries -> BOOLEAN] /\ next' \in [Entries -> Entries]
<1>1. 0 \in 0 .. K-1
  BY PoolAssumption
<1>2. key_history[0] \in Entries
  BY <1>1 DEF TypeOK
<1>3. CASE UNCHANGED entryVars
  BY <1>3 DEF TypeOK, entryVars
<1>4. CASE Clear(Wrap(i + entry_in))
  BY <1>2, <1>4 DEF TypeOK, Clear
<1> QED BY <1>3, <1>4 DEF EmptyStep

LEMMA TypeInvStep == TypeInv /\ [Next]_vars => TypeInv'
<1> SUFFICES ASSUME TypeInv, [Next]_vars PROVE TypeInv'
  OBVIOUS
<1> USE DEF TypeInv, TypeOK, LoopBounds, poolVars, entryVars, inVars, lossVars, userVars
<1>a. /\ K-1 \in 0 .. K-1 /\ 0 \in 0 .. K-1 /\ N \in Nat /\ N-1 \in Nat
      /\ 0 \in 0 .. N /\ None \notin Entries
  BY PoolAssumption, EntriesNotEmpty
<1>1. ASSUME Request PROVE TypeInv'
  BY <1>1 DEF Request
<1>2. ASSUME NEW key \in BOOLEAN, RequestLocked(key) PROVE TypeInv'
  BY <1>2 DEF RequestLocked
<1>3. ASSUME RequestAlloc PROVE TypeInv'
  <2>1. 0 \in 0 .. Pieces
    BY PoolAssumption
  <2>2. CASE data[entry_in]
    BY <1>3, <2>2 DEF RequestAlloc
  <2>3. CASE ~data[entry_in]
    <3>1. in_ctrl' = [ptr |-> TRUE, in_size |-> 0]
      BY <1>3, <2>3 DEF RequestAlloc
    <3>2. wpc' = "append" /\ data' \in [Entries -> BOOLEAN]
      BY <1>3, <2>3 DEF RequestAlloc
    <3>3. in_ctrl' \in [ptr : BOOLEAN, in_size : 0 .. Pieces]
      BY <3>1, <2>1, Zenon
    <3> QED BY <1>3, <3>2, <3>3 DEF RequestAlloc
  <2> QED BY <2>2, <2>3
<1>4. ASSUME RequestAllocFails PROVE TypeInv'
  BY <1>4 DEF RequestAllocFails
<1>5. ASSUME Append PROVE TypeInv'
  BY <1>5, PoolAssumption DEF Append
<1>6. ASSUME Commit PROVE TypeInv'
  <2>1. key_history' \in [0 .. K-1 -> Entries]
    BY <1>6, PoolAssumption DEF Commit
  <2>2. wi' \in 0 .. N /\ wi' <= N-1
    BY <1>6, EntriesNotEmpty DEF Commit
  <2> QED BY <1>6, <2>1, <2>2 DEF Commit
<1>7. ASSUME ScanDone PROVE TypeInv'
  BY <1>7, EntriesNotEmpty DEF ScanDone
<1>8. ASSUME ScanStep PROVE TypeInv'
  <2>1. wi \in Nat /\ wi < N-1 /\ wi + 1 \in 0 .. N /\ wi + 1 <= N-1
    BY <1>8, <1>a DEF ScanStep, ScanOver
  <2>2. ScanEntry \in Entries
    BY <2>1, LaterEntries DEF ScanEntry
  <2>3. /\ data_size' \in [Entries -> BOOLEAN] /\ data' \in [Entries -> BOOLEAN]
        /\ key_flag' \in [Entries -> BOOLEAN] /\ next' \in [Entries -> Entries]
    <3>1. data_size' \in [Entries -> BOOLEAN]
      BY <1>8, <1>a, <2>2 DEF ScanStep, Clear
    <3>2. data' \in [Entries -> BOOLEAN]
      BY <1>8, <1>a, <2>2 DEF ScanStep, Clear
    <3>3. key_flag' \in [Entries -> BOOLEAN]
      BY <1>8, <1>a, <2>2 DEF ScanStep, Clear
    <3>4. key_history[0] \in Entries
      BY <1>a, PoolAssumption
    <3>5. \/ next' = [next EXCEPT ![ScanEntry] = key_history[0]]
          \/ next' = next
      BY <1>8 DEF ScanStep, Clear
    <3>6. next' \in [Entries -> Entries]
      BY <1>a, <2>2, <3>4, <3>5
    <3> QED
      BY <3>1, <3>2, <3>3, <3>6
  <2> QED BY <1>8, <2>1, <2>3 DEF ScanStep
<1>9. ASSUME FindNext PROVE TypeInv'
  <2>1. wi \in Nat /\ wi < N-1 /\ wi + 1 \in 0 .. N /\ wi + 1 <= N-1
    BY <1>9, <1>a DEF FindNext
  <2>2. Wrap(wi + entry_in + 1) \in Entries
    BY <2>1, LaterEntries
  <2> QED BY <1>9, <2>1, <2>2 DEF FindNext
<1>10. ASSUME FindNextFails PROVE TypeInv'
  BY <1>10, <1>a DEF FindNextFails
<1>11. ASSUME CommitUnlock PROVE TypeInv'
  BY <1>11, PoolAssumption DEF CommitUnlock, NoFrame
<1>12. ASSUME ExhaustedStep PROVE TypeInv'
  <2>1. wi \in Nat /\ wi < N /\ wi + 1 \in 0 .. N
    BY <1>12, <1>a DEF ExhaustedStep
  <2> QED BY <1>12, <2>1, EmptyStepType DEF ExhaustedStep
<1>13. ASSUME ExhaustedDone PROVE TypeInv'
  BY <1>13, <1>a DEF ExhaustedDone
<1>14. ASSUME SignalLoss PROVE TypeInv'
  BY <1>14, <1>a DEF SignalLoss
<1>15. ASSUME LossStep PROVE TypeInv'
  <2>1. ei \in Nat /\ ei < N /\ ei + 1 \in 0 .. N
    BY <1>15, <1>a DEF LossStep
  <2> QED BY <1>15, <2>1, EmptyStepType DEF LossStep
<1>16. ASSUME LossDone PROVE TypeInv'
  BY <1>16, <1>a DEF LossDone
<1>17. ASSUME NEW u \in Users, Attach(u) PROVE TypeInv'
  BY <1>17, <1>a DEF Attach
<1>18. ASSUME NEW u \in Users, Detach(u) PROVE TypeInv'
  BY <1>18 DEF Detach
<1>19. ASSUME NEW u \in Users, UserSync(u) PROVE TypeInv'
  BY <1>19, <1>a DEF UserSync
<1>20. ASSUME NEW u \in Users, OutLock(u) PROVE TypeInv'
  BY <1>20 DEF OutLock
<1>21. ASSUME NEW u \in Users, OutNothing(u) PROVE TypeInv'
  BY <1>21 DEF OutNothing
<1>22. ASSUME NEW u \in Users, OutNext(u) PROVE TypeInv'
  BY <1>22 DEF OutNext, TakeOut
<1>23. ASSUME NEW u \in Users, OutResync(u) PROVE TypeInv'
  BY <1>23, NearestKeyRemembered DEF OutResync
<1>24. ASSUME NEW u \in Users, OutKey(u) PROVE TypeInv'
  BY <1>24 DEF OutKey, TakeOut
<1>25. ASSUME NEW u \in Users, OutUnlock(u) PROVE TypeInv'
  BY <1>25 DEF OutUnlock
<1>26. ASSUME UNCHANGED vars PROVE TypeInv'
  BY <1>26 DEF vars
<1> QED
  BY <1>1, <1>2, <1>3, <1>4, <1>5, <1>6, <1>7, <1>8, <1>9, <1>10, <1>11, <1>12, <1>13,
     <1>14, <1>15, <1>16, <1>17, <1>18, <1>19, <1>20, <1>21, <1>22, <1>23, <1>24, <1>25, <1>26
     DEF Next, Encoder, VideoLoss, User, OutDone

(* Every variable keeps its type in every reachable state: no ring index   *)
(* leaves the ring, whichever thread moves it, and in_append never fills   *)
(* more than was requested.                                                *)
THEOREM TypeCorrect == Spec => []TypeOK
<1>1. TypeInv => TypeOK
  BY DEF TypeInv
<1> QED BY TypeInvInit, TypeInvStep, <1>1, PTL DEF Spec

-----------------------------------------------------------------------------
(* The inductive invariant.                                                *)

LEMMA IInvInit == Init => IInv
<1> SUFFICES ASSUME Init PROVE IInv
  OBVIOUS
<1>1. TypeInv
  BY TypeInvInit
<1> QED
  BY <1>1, EntriesNotEmpty DEF Init, IInv, SafeInv, UserLocks, SizedEntries, EncoderState, WriteLockOwned,
              FillBufferLive, LockedFrameLive, NoFrame, InFlight

(* Clearing an entry whose lock could be had takes no frame from the        *)
(* encoder thread, nor from a user that locked the entry it reads.         *)
LEMMA ClearKeepsInv ==
  ASSUME IInv, NEW e \in Entries, Free(e), Clear(e),
         UNCHANGED <<poolVars, wrlocked, in_ctrl, wpc, cur, userVars>>
  PROVE  SafeInv'
<1> USE DEF SafeInv, IInv, poolVars, userVars
<1>1. TypeOK /\ None \notin Entries
  BY EntriesNotEmpty DEF TypeInv
<1>2. /\ \A f \in Entries \ {e} : data_size'[f] = data_size[f] /\ data'[f] = data[f]
      /\ ~data_size'[e] /\ ~data'[e]
  BY <1>1 DEF Clear, TypeOK
<1>3. \A u \in Users : lock[u] # e
  BY DEF Free, ReadLocked
<1>4. e \notin wrlocked
  BY DEF Free
<1>5. UserLocks'
  BY <1>1, <1>2, <1>3 DEF UserLocks, TypeOK
<1>6. LockedFrameLive'
  BY <1>1, <1>2, <1>3 DEF LockedFrameLive, TypeOK
<1>7. SizedEntries'
  BY <1>1, <1>2 DEF SizedEntries
<1>8. EncoderState'
  BY <1>1, <1>2, <1>4 DEF EncoderState, WriteLockOwned, InFlight, TypeOK
<1>9. WriteLockOwned'
  BY DEF WriteLockOwned, InFlight
<1>10. FillBufferLive'
  BY <1>1, <1>2, <1>4 DEF FillBufferLive, WriteLockOwned, InFlight, TypeOK
<1> QED BY <1>5, <1>6, <1>7, <1>8, <1>9, <1>10

(* So does one turn of the emptying loop, whichever thread runs it.        *)
LEMMA EmptyKeepsInv ==
  ASSUME IInv, NEW i \in Nat, i < N, EmptyStep(i),
         UNCHANGED <<poolVars, wrlocked, in_ctrl, wpc, cur, userVars>>
  PROVE  SafeInv'
<1> DEFINE e == Wrap(i + entry_in)
<1>1. TypeOK
  BY DEF IInv, TypeInv
<1>2. entry_in \in 0 .. N-1 /\ N \in Nat
  BY <1>1, EntriesNotEmpty DEF TypeOK, Entries
<1>3. e \in Entries
  BY <1>2, WrapInRing
<1>4. CASE Free(e) /\ Clear(e)
  BY <1>3, <1>4, ClearKeepsInv
<1>5. CASE UNCHANGED entryVars
  BY <1>5 DEF IInv, SafeInv, UserLocks, SizedEntries, EncoderState, WriteLockOwned,
              FillBufferLive, LockedFrameLive, InFlight, entryVars, poolVars, userVars
<1> QED BY <1>4, <1>5 DEF EmptyStep

LEMMA IInvStep == IInv /\ [Next]_vars => IInv'
<1> SUFFICES ASSUME IInv, [Next]_vars PROVE IInv'
  OBVIOUS
<1> USE DEF poolVars, entryVars, inVars, lossVars, userVars, UserLocks, SizedEntries,
            EncoderState, WriteLockOwned, FillBufferLive, LockedFrameLive, InFlight,
            TypeInv, TypeOK, SafeInv, IInv
<1>a. None \notin Entries
  BY EntriesNotEmpty
<1>1. ASSUME Request PROVE SafeInv'
  BY <1>1, <1>a DEF Request, Accepts
<1>2. ASSUME NEW key \in BOOLEAN, RequestLocked(key) PROVE SafeInv'
  BY <1>2, <1>a DEF RequestLocked, Free, ReadLocked
<1>3. ASSUME RequestAlloc PROVE SafeInv'
  BY <1>3, <1>a DEF RequestAlloc
<1>4. ASSUME RequestAllocFails PROVE SafeInv'
  BY <1>4, <1>a DEF RequestAllocFails
<1>5. ASSUME Append PROVE SafeInv'
  BY <1>5, <1>a DEF Append
<1>6. ASSUME Commit PROVE SafeInv'
  BY <1>6, <1>a DEF Commit
<1>7. ASSUME ScanDone PROVE SafeInv'
  BY <1>7, <1>a DEF ScanDone
<1>8. ASSUME ScanStep PROVE SafeInv'
  <2>1. wi \in Nat /\ wi < N-1
    BY <1>8, EntriesNotEmpty DEF ScanStep, ScanOver, LoopBounds
  <2>2. ScanEntry \in Entries
    BY <2>1, LaterEntries DEF ScanEntry
  <2>3. CASE data_size[ScanEntry] /\ Free(ScanEntry)
    <3>1. Clear(ScanEntry) /\ UNCHANGED <<poolVars, wrlocked, in_ctrl, wpc, cur, userVars>>
      BY <1>8, <2>3 DEF ScanStep
    <3> QED BY <2>2, <2>3, <3>1, ClearKeepsInv
  <2>4. CASE ~(data_size[ScanEntry] /\ Free(ScanEntry))
    BY <1>8, <2>4 DEF ScanStep
  <2> QED BY <2>3, <2>4
<1>9. ASSUME FindNext PROVE SafeInv'
  BY <1>9, <1>a DEF FindNext
<1>10. ASSUME FindNextFails PROVE SafeInv'
  BY <1>10, <1>a DEF FindNextFails
<1>11. ASSUME CommitUnlock PROVE SafeInv'
  BY <1>11, <1>a DEF CommitUnlock, NoFrame
<1>12. ASSUME ExhaustedStep PROVE SafeInv'
  <2>1. wi \in Nat /\ wi < N
    BY <1>12, EntriesNotEmpty DEF ExhaustedStep
  <2> QED BY <1>12, <2>1, EmptyKeepsInv DEF ExhaustedStep
<1>13. ASSUME ExhaustedDone PROVE SafeInv'
  BY <1>13, <1>a DEF ExhaustedDone
<1>14. ASSUME SignalLoss PROVE SafeInv'
  BY <1>14, <1>a DEF SignalLoss
<1>15. ASSUME LossStep PROVE SafeInv'
  <2>1. ei \in Nat /\ ei < N
    BY <1>15, EntriesNotEmpty DEF LossStep
  <2> QED BY <1>15, <2>1, EmptyKeepsInv DEF LossStep
<1>16. ASSUME LossDone PROVE SafeInv'
  BY <1>16, <1>a DEF LossDone
<1>17. ASSUME NEW u \in Users, Attach(u) PROVE SafeInv'
  BY <1>17, <1>a DEF Attach, TakeOut
<1>18. ASSUME NEW u \in Users, Detach(u) PROVE SafeInv'
  BY <1>18, <1>a DEF Detach, TakeOut
<1>19. ASSUME NEW u \in Users, UserSync(u) PROVE SafeInv'
  BY <1>19, <1>a DEF UserSync, TakeOut
<1>20. ASSUME NEW u \in Users, OutLock(u) PROVE SafeInv'
  BY <1>20, <1>a DEF OutLock, TakeOut
<1>21. ASSUME NEW u \in Users, OutNothing(u) PROVE SafeInv'
  BY <1>21, <1>a DEF OutNothing, TakeOut
<1>22. ASSUME NEW u \in Users, OutNext(u) PROVE SafeInv'
  BY <1>22, <1>a DEF OutNext, TakeOut
<1>23. ASSUME NEW u \in Users, OutResync(u) PROVE SafeInv'
  BY <1>23, <1>a DEF OutResync, TakeOut
<1>24. ASSUME NEW u \in Users, OutKey(u) PROVE SafeInv'
  BY <1>24, <1>a DEF OutKey, TakeOut
<1>25. ASSUME NEW u \in Users, OutUnlock(u) PROVE SafeInv'
  BY <1>25, <1>a DEF OutUnlock, TakeOut
<1>26. ASSUME UNCHANGED vars PROVE SafeInv'
  BY <1>26 DEF vars
<1> HIDE DEF poolVars, entryVars, inVars, lossVars, userVars, UserLocks, SizedEntries,
             EncoderState, WriteLockOwned, FillBufferLive, LockedFrameLive, InFlight,
             TypeInv, TypeOK, SafeInv, IInv
<1>b. TypeInv'
  BY TypeInvStep, IInv DEF IInv
<1>c. ASSUME Encoder PROVE SafeInv'
  BY <1>c, <1>2, <1>3, <1>4, <1>5, <1>6, <1>7, <1>8, <1>9, <1>10, <1>11, <1>12, <1>13 DEF Encoder
<1>d. ASSUME VideoLoss PROVE SafeInv'
  BY <1>d, <1>14, <1>15, <1>16 DEF VideoLoss
<1>e. ASSUME NEW u \in Users, User(u) PROVE SafeInv'
  BY <1>e, <1>17, <1>18, <1>19, <1>20, <1>21, <1>22, <1>23, <1>24, <1>25 DEF User, OutDone
<1>f. SafeInv'
  BY <1>1, <1>c, <1>d, <1>e, <1>26 DEF Next
<1> QED BY <1>b, <1>f DEF IInv

-----------------------------------------------------------------------------
(* The safety theorems.                                                    *)

LEMMA IInvAlways == Spec => []IInv
BY IInvInit, IInvStep, PTL DEF Spec

(* The write locks held are those of the request in progress, on every     *)
(* path through in_request and in_commit: no error return of in_request    *)
(* that keeps the lock (media_pool.c:359-370) is ever taken.               *)
THEOREM WriteLocksOwned == Spec => []WriteLockOwned
<1>1. IInv => WriteLockOwned
  BY DEF IInv, SafeInv
<1> QED BY IInvAlways, <1>1, PTL

(* The frame being filled survives every emptying and every scan.          *)
THEOREM FillBufferSafe == Spec => []FillBufferLive
<1>1. IInv => FillBufferLive
  BY DEF IInv, SafeInv
<1> QED BY IInvAlways, <1>1, PTL

(* A user that reads the entry it locked never reads freed or half-written *)
(* data (MEDIAPOOL_out_lock to MEDIAPOOL_out_unlock).                      *)
THEOREM LockedFrameSafe == Spec => []LockedFrameLive
<1>1. IInv => LockedFrameLive
  BY DEF IInv, SafeInv
<1> QED BY IInvAlways, <1>1, PTL

(* in_request refuses a frame only at the key frame an exhausted pool      *)
(* restarts at, or after a failed calloc.                                  *)
THEOREM RefusalHasCause == Spec => []RefusalCause
<1>1. IInv => RefusalCause
  BY DEF IInv, SafeInv, RefusalCause, Accepts, EncoderState, FillBufferLive
<1> QED BY IInvAlways, <1>1, PTL
=============================================================================
