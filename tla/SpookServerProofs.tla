------------------------- MODULE SpookServerProofs -------------------------
(***************************************************************************)
(* What holds of the session server for every size of its tables, every    *)
(* set of descriptors and of protocols: types, the ownership of the open   *)
(* descriptors, that no assertion ends the process, and, whatever the      *)
(* owner calls and whenever clients connect, when alone a session can call *)
(* a function that is not there or enter another task's loop than its own. *)
(***************************************************************************)
EXTENDS SpookServer, FiniteSetTheorems, TLAPS

-----------------------------------------------------------------------------
(* Types.  An entry is being added only below the table's end, and a       *)
(* session moves on only from an entry of the table.                       *)

Bounds ==
  /\ cpc \in {"loop", "count"} => n_entry < NumEntry
  /\ \A s \in Slots : pc[s] = "next" => session_detect[s] \in Indexes

TypeInv == TypeOK /\ Bounds

(* Subtracting keeps an unsigned number below the modulus.                 *)
LEMMA MinusIsUnsigned ==
  ASSUME NEW n \in 0 .. Modulus-1, NEW d \in 1 .. NumEntry
  PROVE  Minus(n, d) \in 0 .. Modulus-1
BY SpookAssumption DEF Minus

(* The server starts with its variables in their types.                    *)
LEMMA TypeInvInit == Init => TypeInv
<1> SUFFICES ASSUME Init PROVE TypeInv
  OBVIOUS
<1> USE SpookAssumption DEF Init, Slots, Indexes
<1>0. OwnerTypes
  <2>1. up \in BOOLEAN /\ server_trigger \in BOOLEAN
    OBVIOUS
  <2>2. centry \in 0 .. NumEntry-1
    OBVIOUS
  <2> QED
    BY <2>1, <2>2 DEF OwnerTypes
<1>1. EntryTypes
  BY DEF EntryTypes
<1>2. SlotTypes
  BY DEF SlotTypes
<1>3. ProbeTypes
  BY DEF ProbeTypes
<1>4. ServerTypes /\ FdTypes
  BY DEF ServerTypes, FdTypes
<1>5. PastTypes
  BY DEF PastTypes
<1> QED
  BY <1>0, <1>1, <1>2, <1>3, <1>4, <1>5 DEF TypeInv, TypeOK, Bounds

(* A step that leaves a group of variables alone keeps its types.          *)
LEMMA TypesFrame ==
  ASSUME TypeOK
  PROVE  /\ UNCHANGED ownerVars => OwnerTypes'
         /\ UNCHANGED entryVars => EntryTypes'
         /\ UNCHANGED slotVars => SlotTypes'
         /\ UNCHANGED probeVars => ProbeTypes'
         /\ UNCHANGED serverVars => ServerTypes'
         /\ UNCHANGED fdVars => FdTypes'
         /\ UNCHANGED pastVars => PastTypes'
<1>1. UNCHANGED ownerVars => OwnerTypes'
  BY DEF TypeOK, OwnerTypes, ownerVars, Indexes
<1>2. UNCHANGED entryVars => EntryTypes'
  BY DEF TypeOK, EntryTypes, entryVars, Indexes
<1>3. UNCHANGED slotVars => SlotTypes'
  BY DEF TypeOK, SlotTypes, slotVars, Slots
<1>4. UNCHANGED probeVars => ProbeTypes'
  BY DEF TypeOK, ProbeTypes, probeVars, Slots
<1>5. UNCHANGED serverVars => ServerTypes'
  BY DEF TypeOK, ServerTypes, serverVars
<1>6. UNCHANGED fdVars => FdTypes'
  BY DEF TypeOK, FdTypes, fdVars
<1>7. UNCHANGED pastVars => PastTypes'
  BY DEF TypeOK, PastTypes, pastVars, Slots
<1> QED
  BY <1>1, <1>2, <1>3, <1>4, <1>5, <1>6, <1>7

(* Losing the process keeps them all, and so does closing a descriptor     *)
(* those of the descriptors.                                               *)
LEMMA LoseKeepsTypes == ASSUME TypeInv, NEW how \in {"abort", "null", "name", "freed"}, Lose(how)
                        PROVE  TypeInv'
<1>1. /\ UNCHANGED ownerVars /\ UNCHANGED entryVars /\ UNCHANGED slotVars /\ UNCHANGED probeVars
      /\ UNCHANGED serverVars /\ UNCHANGED fdVars /\ UNCHANGED pastVars
  BY DEF Lose
<1>2. TypeOK'
  BY <1>1, TypesFrame DEF Lose, TypeInv, TypeOK
<1>3. Bounds'
  BY <1>1 DEF TypeInv, Bounds, ownerVars, entryVars, slotVars, probeVars
<1> QED
  BY <1>2, <1>3 DEF TypeInv

LEMMA CloseFdTypes == ASSUME FdTypes, NEW f, CloseFd(f) PROVE FdTypes'
BY DEF FdTypes, CloseFd

(* The server thread keeps the types.                                      *)
LEMMA TypeInvServer == TypeInv /\ ServerStep => TypeInv'
<1> SUFFICES ASSUME TypeInv, ServerStep PROVE TypeInv'
  OBVIOUS
<1> USE SpookAssumption DEF TypeInv, TypeOK, OwnerTypes, EntryTypes, SlotTypes,
        ProbeTypes, ServerTypes, FdTypes, PastTypes, Bounds, Slots, Indexes, ownerVars, entryVars,
        slotVars, probeVars, serverVars, fdVars, pastVars, CloseFd, Lose
<1>1. CASE Bind
  <2>1. CASE Lose("abort")
    BY <2>1, LoseKeepsTypes
  <2>2. CASE ~Lose("abort")
    <3>1. PICK f \in Fds \ open : listening' = f /\ open' = open \cup {f}
      BY <1>1, <2>2 DEF Bind
    <3>2. /\ spc' = "poll"
          /\ UNCHANGED <<ownerVars, entryVars, slotVars, probeVars, conn, slot, kind, stray, lost, pastVars>>
      BY <1>1, <2>2 DEF Bind
    <3>3. FdTypes' /\ ServerTypes'
      BY <3>1, <3>2
    <3> QED
      BY <3>2, <3>3, TypesFrame
  <2> QED
    BY <2>1, <2>2
<1>2. CASE Poll
  <2>1. ServerTypes'
    BY <1>2 DEF Poll
  <2>2. FdTypes'
    BY <1>2, CloseFdTypes DEF Poll
  <2> QED
    BY <1>2, <2>1, <2>2, TypesFrame DEF Poll
<1>3. CASE Timeout
  BY <1>3 DEF Timeout
<1>4. CASE Accept
  <2>1. CASE Lose("abort")
    BY <2>1, LoseKeepsTypes
  <2>2. CASE ~Lose("abort")
    <3>1. PICK f \in Fds \ open, k \in Protocols \cup {Null} :
            /\ conn' = f /\ open' = open \cup {f}
            /\ kind' = [kind EXCEPT ![f] = k]
            /\ spc' = "check"
            /\ UNCHANGED <<ownerVars, entryVars, slotVars, probeVars, listening, slot, stray, lost, pastVars>>
      BY <1>4, <2>2 DEF Accept
    <3>2. FdTypes'
      BY <3>1
    <3>3. ServerTypes'
      BY <3>1
    <3> QED
      BY <3>1, <3>2, <3>3, TypesFrame
  <2> QED
    BY <2>1, <2>2
<1>5. CASE Refuse
  <2>1. FdTypes'
    BY <1>5, CloseFdTypes DEF Refuse
  <2>2. ServerTypes'
    BY <1>5 DEF Refuse
  <2> QED
    BY <1>5, <2>1, <2>2, TypesFrame DEF Refuse
<1>6. CASE Admit
  BY <1>6 DEF Admit
<1>7. CASE SlotTaken
  BY <1>7 DEF SlotTaken
<1>8. CASE SetupSession
  BY <1>8 DEF SetupSession
<1>9. CASE SetupFails
  <2>1. FdTypes'
    BY <1>9, CloseFdTypes DEF SetupFails
  <2> QED
    BY <1>9, <2>1, TypesFrame DEF SetupFails
<1> QED
  BY <1>1, <1>2, <1>3, <1>4, <1>5, <1>6, <1>7, <1>8, <1>9 DEF ServerStep

(* A session keeps the types.                                              *)
LEMMA TypeInvSession ==
  ASSUME TypeInv, NEW s \in Slots, SessionStep(s) \/ TaskReturns(s)
  PROVE  TypeInv'
<1> USE SpookAssumption DEF TypeInv, TypeOK, OwnerTypes, EntryTypes, SlotTypes,
        ProbeTypes, ServerTypes, FdTypes, PastTypes, Bounds, Slots, Indexes, ownerVars, entryVars,
        slotVars, probeVars, serverVars, fdVars, pastVars, CloseFd, Lose, CanCall
<1>1. CASE Peek(s)
  <2>1. SlotTypes'
    BY <1>1 DEF Peek
  <2>2. ProbeTypes'
    <3>1. (\E b \in BOOLEAN : full' = [full EXCEPT ![s] = b]) \/ full' = full
      BY <1>1, Zenon DEF Peek
    <3>2. full \in [Slots -> BOOLEAN]
      OBVIOUS
    <3>3. full' \in [Slots -> BOOLEAN]
      BY <3>1, <3>2, Zenon
    <3>4. UNCHANGED <<session_detect, match_retry>>
      BY <1>1 DEF Peek
    <3> QED
      BY <3>3, <3>4
  <2>3. Bounds'
    BY <1>1 DEF Peek
  <2> QED
    BY <1>1, <2>1, <2>2, <2>3, TypesFrame DEF Peek
<1>2. CASE ProbeNull(s)
  BY <1>2, LoseKeepsTypes DEF ProbeNull
<1>3. CASE ProbeMatch(s)
  BY <1>3 DEF ProbeMatch
<1>4. CASE ProbeMismatch(s)
  BY <1>4 DEF ProbeMismatch
<1>5. CASE ProbeRetry(s)
  BY <1>5 DEF ProbeRetry, Undetermined
<1>6. CASE ProbeGiveUp(s)
  BY <1>6 DEF ProbeGiveUp, Undetermined
<1>7. CASE NextEntry(s)
  <2>1. SlotTypes'
    BY <1>7 DEF NextEntry
  <2>2. ProbeTypes'
    <3>1. session_detect[s] + 1 \in 0 .. NumEntry
      BY <1>7 DEF NextEntry
    <3>2. CASE session_detect' = [session_detect EXCEPT ![s] = @ + 1] /\ match_retry' = [match_retry EXCEPT ![s] = 0]
      BY <1>7, <3>1, <3>2 DEF NextEntry
    <3> QED
      BY <1>7, <3>2 DEF NextEntry
  <2>3. cpc' = cpc /\ n_entry' = n_entry
    BY <1>7 DEF NextEntry
  <2>4. pc'[s] # "next" /\ \A t \in Slots \ {s} : pc'[t] = pc[t] /\ session_detect'[t] = session_detect[t]
    BY <1>7 DEF NextEntry
  <2>5. Bounds'
    BY <2>3, <2>4
  <2> QED
    BY <1>7, <2>1, <2>2, <2>5, TypesFrame DEF NextEntry
<1>8. CASE EnterTask(s)
  <2>1. CASE Lose("null")
    BY <2>1, LoseKeepsTypes
  <2>2. CASE ~Lose("null")
    <3>1. /\ pc' = [pc EXCEPT ![s] = "loop"]
          /\ gone' = [gone EXCEPT ![s] = FALSE]
          /\ UNCHANGED <<ownerVars, entryVars, session_trigger, sock, ending, probeVars, serverVars, fdVars,
                         stray, lost, removed, early>>
      BY <1>8, <2>2, Zenon DEF EnterTask
    <3> QED
      BY <3>1
  <2> QED
    BY <2>1, <2>2
<1>9. CASE Close(s)
  <2>1. FdTypes'
    BY <1>9, CloseFdTypes DEF Close
  <2>2. SlotTypes'
    BY <1>9 DEF Close
  <2>3. ProbeTypes'
    BY <1>9 DEF Close
  <2>4. Bounds'
    BY <1>9 DEF Close
  <2> QED
    BY <1>9, <2>1, <2>2, <2>3, <2>4, TypesFrame DEF Close
<1>10. CASE Clear(s)
  BY <1>10 DEF Clear
<1>11. CASE Release(s)
  BY <1>11 DEF Release
<1>12. CASE TaskReturns(s)
  BY <1>12 DEF TaskReturns
<1> QED
  BY <1>1, <1>2, <1>3, <1>4, <1>5, <1>6, <1>7, <1>8, <1>9, <1>10, <1>11, <1>12 DEF SessionStep

(* The owner keeps the types.                                              *)
LEMMA TypeInvOwner == TypeInv /\ OwnerStep => TypeInv'
<1> SUFFICES ASSUME TypeInv, OwnerStep PROVE TypeInv'
  OBVIOUS
<1>a. Minus(n_entry, 1) \in 0 .. Modulus-1 /\ Minus(n_entry, NumEntry) \in 0 .. Modulus-1
  BY MinusIsUnsigned, SpookAssumption DEF TypeInv, TypeOK, EntryTypes
<1> USE SpookAssumption DEF TypeInv, TypeOK, OwnerTypes, EntryTypes, SlotTypes,
        ProbeTypes, ServerTypes, FdTypes, PastTypes, Bounds, Slots, Indexes, ownerVars, entryVars,
        slotVars, probeVars, serverVars, fdVars, pastVars, Lose
<1>1. CASE SPOOK_init
  BY <1>1 DEF SPOOK_init
<1>2. ASSUME NEW p \in Protocols, AddProbe(p) PROVE TypeInv'
  BY <1>2 DEF AddProbe
<1>3. ASSUME NEW p \in Protocols, RemoveUnnamed(p) PROVE TypeInv'
  BY <1>3, LoseKeepsTypes DEF RemoveUnnamed
<1>4. ASSUME NEW p \in Protocols, RemoveProbe(p) PROVE TypeInv'
  BY <1>4 DEF RemoveProbe
<1>5. CASE AddLoop
  BY <1>5 DEF AddLoop
<1>6. CASE AddCount
  BY <1>6 DEF AddCount
<1>7. CASE RemoveLoop
  BY <1>7 DEF RemoveLoop
<1>8. CASE RemoveCount
  BY <1>8, <1>a DEF RemoveCount
<1>9. ASSUME NEW c \in {"reload", "destroy"}, Stop(c, c) PROVE TypeInv'
  BY <1>9 DEF Stop
<1>10. CASE Join
  BY <1>10 DEF Join
<1>11. CASE ClearEntries
  BY <1>11, <1>a DEF ClearEntries
<1>12. CASE Free
  <2>1. SlotTypes'
    BY <1>12 DEF Free
  <2>2. ProbeTypes'
    BY <1>12 DEF Free
  <2>3. EntryTypes'
    BY <1>12 DEF Free
  <2>6. OwnerTypes'
    BY <1>12 DEF Free
  <2>4. stray' \in BOOLEAN
    BY <1>12 DEF Free
  <2>5. Bounds'
    BY <1>12 DEF Free
  <2> QED
    BY <1>12, <2>1, <2>2, <2>3, <2>4, <2>5, <2>6, TypesFrame DEF Free
<1> QED
  BY <1>1, <1>2, <1>3, <1>4, <1>5, <1>6, <1>7, <1>8, <1>9, <1>10, <1>11, <1>12
     DEF OwnerStep, OwnerWaits

(* Every step keeps the types.                                             *)
LEMMA TypeInvStep == TypeInv /\ [Next]_vars => TypeInv'
<1> SUFFICES ASSUME TypeInv, [Next]_vars PROVE TypeInv'
  OBVIOUS
<1>1. CASE StrayRuns
  BY <1>1 DEF StrayRuns, Lose, TypeInv, TypeOK, OwnerTypes,
              EntryTypes, SlotTypes, ProbeTypes, ServerTypes, FdTypes, PastTypes, Bounds, ownerVars, entryVars, slotVars,
              probeVars, serverVars, fdVars, pastVars
<1>2. CASE UNCHANGED vars
  BY <1>2 DEF vars, TypeInv, TypeOK, OwnerTypes,
              EntryTypes, SlotTypes, ProbeTypes, ServerTypes, FdTypes, PastTypes, Bounds, ownerVars, entryVars, slotVars,
              probeVars, serverVars, fdVars, pastVars
<1> QED
  BY <1>1, <1>2, TypeInvServer, TypeInvSession, TypeInvOwner DEF Next

(* The server's variables keep their types (app/spook/spook.c:14-50).      *)
THEOREM TypesKept == Spec => []TypeOK
<1>1. Init => TypeInv
  BY TypeInvInit
<1>2. TypeInv /\ [Next]_vars => TypeInv'
  BY TypeInvStep
<1>3. TypeInv => TypeOK
  BY DEF TypeInv
<1> QED
  BY <1>1, <1>2, <1>3, PTL DEF Spec

-----------------------------------------------------------------------------
(* The ownership of descriptors.  It rests on the life of a session (a live *)
(* one has its slot, which it gives back last of all) and on the phases of *)
(* the server thread (it has a listening socket from bind to the end and a *)
(* connection in hand from accept to setup; the server is freed only after *)
(* the thread is joined).                                                  *)

SessionLife ==
  \A s \in Slots :
    /\ pc[s] # "none" => session_trigger[s] /\ ending[s] = "no"
    /\ ending[s] # "no" => session_trigger[s]

ServerPhase ==
  /\ spc \in {"none", "bind"} <=> listening = Null
  /\ spc \in {"check", "setup"} <=> conn # Null
  /\ ~up => spc = "none" /\ cpc = "idle"
  /\ cpc = "free" => spc = "none"
  /\ stray => ~up

Ownership == SocketsAreOwn /\ NoDescriptorLeaks

IInv == TypeInv /\ SessionLife /\ ServerPhase /\ Ownership

(* At the start there is nothing to own.                                   *)
LEMMA IInvInit == Init => IInv
<1> SUFFICES ASSUME Init PROVE IInv
  OBVIOUS
<1>1. TypeInv
  BY TypeInvInit
<1>2. SessionLife /\ ServerPhase
  BY DEF Init, SessionLife, ServerPhase
<1>3. Ownership
  BY DEF Init, Ownership, SocketsAreOwn, NoDescriptorLeaks, Held
<1> QED
  BY <1>1, <1>2, <1>3 DEF IInv

(* The life of the sessions goes its way.                                  *)
LEMMA SessionLifeStep == TypeInv /\ SessionLife /\ [Next]_vars => SessionLife'
<1> SUFFICES ASSUME TypeInv, SessionLife, [Next]_vars PROVE SessionLife'
  OBVIOUS
<1> USE DEF SessionLife
<1>t. /\ session_trigger \in [Slots -> BOOLEAN] /\ DOMAIN pc = Slots /\ DOMAIN ending = Slots
      /\ slot \in 0 .. NumSession
  BY DEF TypeInv, TypeOK, SlotTypes, ServerTypes
<1>1. CASE UNCHANGED slotVars
  BY <1>1 DEF slotVars
<1>2. CASE SetupSession
  <2>1. slot \in Slots /\ ~session_trigger[slot]
    BY <1>2, <1>t, SpookAssumption DEF SetupSession, Slots
  <2>2. ending[slot] = "no"
    BY <2>1
  <2> QED
    BY <1>2, <1>t, <2>1, <2>2 DEF SetupSession
<1>3. ASSUME NEW s \in Slots, SessionStep(s) \/ TaskReturns(s) PROVE SessionLife'
  <2>1. CASE Peek(s) \/ ProbeMatch(s) \/ ProbeMismatch(s) \/ TaskReturns(s)
    BY <1>t, <2>1 DEF Peek, ProbeMatch, ProbeMismatch, TaskReturns
  <2>2. CASE ProbeRetry(s) \/ ProbeGiveUp(s)
    BY <1>t, <2>2 DEF ProbeRetry, ProbeGiveUp, Undetermined
  <2>3. CASE NextEntry(s)
    BY <1>t, <2>3 DEF NextEntry
  <2>4. CASE EnterTask(s)
    BY <1>1, <1>t, <2>4 DEF EnterTask, Lose
  <2>5. CASE Close(s)
    BY <1>t, <2>5 DEF Close
  <2>6. CASE Clear(s)
    BY <1>t, <2>6 DEF Clear
  <2>7. CASE Release(s)
    BY <1>t, <2>7 DEF Release
  <2>8. CASE ProbeNull(s)
    BY <1>1, <2>8 DEF ProbeNull, Lose
  <2> QED
    BY <1>3, <2>1, <2>2, <2>3, <2>4, <2>5, <2>6, <2>7, <2>8 DEF SessionStep
<1>4. CASE Free
  BY <1>4 DEF Free
<1>5. CASE ServerStep /\ ~SetupSession
  BY <1>1, <1>5 DEF ServerStep, Bind, Poll, Timeout, Accept, Refuse, Admit, SlotTaken, SetupFails, Lose
<1>6. CASE OwnerStep /\ ~Free
  BY <1>1, <1>6 DEF OwnerStep, OwnerWaits, SPOOK_init, AddProbe, RemoveUnnamed, RemoveProbe, AddLoop,
     AddCount, RemoveLoop, RemoveCount, Stop, Join, ClearEntries, Lose
<1>7. CASE StrayRuns \/ UNCHANGED vars
  BY <1>1, <1>7 DEF StrayRuns, Lose, vars
<1> QED
  BY <1>2, <1>3, <1>4, <1>5, <1>6, <1>7 DEF Next

(* The server thread goes through its phases.                              *)
LEMMA ServerPhaseStep == TypeInv /\ ServerPhase /\ [Next]_vars => ServerPhase'
<1> SUFFICES ASSUME TypeInv, ServerPhase, [Next]_vars PROVE ServerPhase'
  OBVIOUS
<1> USE DEF ServerPhase
<1>t. /\ listening \in Fds \cup {Null} /\ conn \in Fds \cup {Null} /\ Null \notin Fds
  BY SpookAssumption DEF TypeInv, TypeOK, ServerTypes
<1>1. CASE UNCHANGED <<ownerVars, serverVars, stray>>
  BY <1>1 DEF ownerVars, serverVars
<1>2. CASE ServerStep
  <2>1. CASE Bind
    BY <1>1, <1>t, <2>1 DEF Bind, Lose, ownerVars
  <2>2. CASE Poll
    BY <1>t, <2>2 DEF Poll, ownerVars
  <2>3. CASE Timeout
    BY <2>3 DEF Timeout, ownerVars
  <2>4. CASE Accept
    BY <1>1, <1>t, <2>4 DEF Accept, Lose, ownerVars
  <2>5. CASE Refuse \/ Admit
    BY <1>t, <2>5 DEF Refuse, Admit, ownerVars
  <2>6. CASE SlotTaken \/ SetupSession \/ SetupFails
    BY <1>t, <2>6 DEF SlotTaken, SetupSession, SetupFails, ownerVars
  <2> QED
    BY <1>2, <2>1, <2>2, <2>3, <2>4, <2>5, <2>6 DEF ServerStep
<1>3. ASSUME NEW s \in Slots, SessionStep(s) \/ TaskReturns(s) PROVE ServerPhase'
  BY <1>1, <1>3 DEF SessionStep, Peek, ProbeNull, ProbeMatch, ProbeMismatch, ProbeRetry, ProbeGiveUp,
     NextEntry, EnterTask, TaskReturns, Close, Clear, Release, Lose
<1>4. CASE OwnerStep
  <2>1. CASE SPOOK_init
    BY <2>1 DEF SPOOK_init
  <2>2. ASSUME NEW p \in Protocols, AddProbe(p) \/ RemoveUnnamed(p) \/ RemoveProbe(p)
        PROVE  ServerPhase'
    BY <1>1, <2>2 DEF AddProbe, RemoveUnnamed, RemoveProbe, Lose, serverVars
  <2>3. CASE AddLoop \/ AddCount \/ RemoveLoop \/ RemoveCount
    BY <2>3 DEF AddLoop, AddCount, RemoveLoop, RemoveCount, serverVars
  <2>4. CASE Stop("reload", "reload") \/ Stop("destroy", "destroy")
    BY <2>4 DEF Stop, serverVars
  <2>5. CASE Join
    BY <2>5 DEF Join
  <2>6. CASE ClearEntries
    BY <2>6 DEF ClearEntries, serverVars
  <2>7. CASE Free
    BY <2>7 DEF Free, serverVars
  <2> QED
    BY <1>4, <2>1, <2>2, <2>3, <2>4, <2>5, <2>6, <2>7 DEF OwnerStep, OwnerWaits
<1>5. CASE StrayRuns \/ UNCHANGED vars
  BY <1>1, <1>5 DEF StrayRuns, Lose, vars
<1> QED
  BY <1>2, <1>3, <1>4, <1>5 DEF Next

(* Steps that neither open nor close nor pass on a descriptor.             *)
LEMMA OwnershipFrame ==
  ASSUME Ownership, \A s \in Slots : pc'[s] = "none" <=> pc[s] = "none",
         UNCHANGED <<sock, listening, conn, open, stray>>
  PROVE  Ownership'
BY DEF Ownership, SocketsAreOwn, NoDescriptorLeaks, Held

(* The server thread opens, closes and hands over its own descriptors.     *)
LEMMA OwnershipServer == IInv /\ ServerStep => Ownership'
<1> SUFFICES ASSUME IInv, ServerStep PROVE Ownership'
  OBVIOUS
<1>t. /\ Null \notin Fds /\ open \subseteq Fds /\ DOMAIN pc = Slots /\ DOMAIN sock = Slots
      /\ slot \in 0 .. NumSession
  BY SpookAssumption DEF IInv, TypeInv, TypeOK, ServerTypes, FdTypes, SlotTypes
<1>o. Ownership /\ ServerPhase
  BY DEF IInv
<1> USE DEF Ownership, SocketsAreOwn, NoDescriptorLeaks, Held
<1>1. CASE Bind
  <2>1. CASE Lose("abort")
    BY <1>o, <2>1, OwnershipFrame DEF Lose, slotVars, serverVars, fdVars
  <2>2. CASE ~Lose("abort")
    <3>1. PICK f \in Fds \ open : listening' = f /\ open' = open \cup {f}
      BY <1>1, <2>2, Zenon DEF Bind
    <3>2. UNCHANGED <<pc, sock, conn, stray>> /\ listening = Null /\ conn = Null
      BY <1>1, <1>o, <2>2 DEF Bind, slotVars, ServerPhase
    <3> QED
      BY <1>o, <1>t, <3>1, <3>2
  <2> QED
    BY <2>1, <2>2
<1>2. CASE Poll
  <2>1. UNCHANGED <<pc, sock, conn, stray>> /\ conn = Null
    BY <1>2, <1>o DEF Poll, slotVars, ServerPhase
  <2>2. CASE UNCHANGED <<listening, open>>
    BY <1>o, <2>1, <2>2, OwnershipFrame
  <2>3. CASE listening' = Null /\ CloseFd(listening)
    BY <1>o, <1>t, <2>1, <2>3 DEF CloseFd
  <2> QED
    BY <1>2, <2>2, <2>3 DEF Poll
<1>3. CASE Timeout \/ Admit \/ SlotTaken
  BY <1>o, <1>3, OwnershipFrame DEF Timeout, Admit, SlotTaken, slotVars, fdVars
<1>4. CASE Accept
  <2>1. CASE Lose("abort")
    BY <1>o, <2>1, OwnershipFrame DEF Lose, slotVars, serverVars, fdVars
  <2>2. CASE ~Lose("abort")
    <3>1. PICK f \in Fds \ open : conn' = f /\ open' = open \cup {f}
      BY <1>4, <2>2, Zenon DEF Accept
    <3>2. UNCHANGED <<pc, sock, listening, stray>> /\ conn = Null
      BY <1>4, <1>o, <2>2 DEF Accept, slotVars, ServerPhase
    <3> QED
      BY <1>o, <1>t, <3>1, <3>2
  <2> QED
    BY <2>1, <2>2
<1>5. CASE Refuse \/ SetupFails
  <2>1. conn' = Null /\ open' = open \ {conn} /\ UNCHANGED <<pc, sock, listening, stray>>
    BY <1>5 DEF Refuse, SetupFails, CloseFd, slotVars
  <2> QED
    BY <1>o, <1>t, <2>1
<1>6. CASE SetupSession
  <2>1. /\ slot \in Slots /\ pc[slot] = "none" /\ conn # Null
        /\ conn' = Null /\ UNCHANGED <<listening, open, stray>>
        /\ pc' = [pc EXCEPT ![slot] = "peek"] /\ sock' = [sock EXCEPT ![slot] = conn]
    BY <1>6, <1>t, SpookAssumption DEF SetupSession, Slots, IInv, SessionLife, ServerPhase, fdVars
  <2>2. \A s \in Slots : s # slot => pc'[s] = pc[s] /\ sock'[s] = sock[s]
    BY <1>t, <2>1
  <2>3. pc'[slot] = "peek" /\ sock'[slot] = conn /\ conn \in open /\ conn # listening
    BY <1>o, <1>t, <2>1
  <2>4. SocketsAreOwn'
    BY <1>o, <1>t, <2>1, <2>2, <2>3
  <2>5. NoDescriptorLeaks'
    BY <1>o, <1>t, <2>1, <2>2, <2>3
  <2> QED
    BY <2>4, <2>5
<1> QED
  BY <1>1, <1>2, <1>3, <1>4, <1>5, <1>6 DEF ServerStep

(* A session closes its own descriptor, once, and forgets it after that.   *)
LEMMA OwnershipSession ==
  ASSUME IInv, NEW s \in Slots, SessionStep(s) \/ TaskReturns(s)
  PROVE  Ownership'
<1>t. DOMAIN pc = Slots /\ DOMAIN sock = Slots
  BY DEF IInv, TypeInv, TypeOK, SlotTypes
<1>o. Ownership
  BY DEF IInv
<1>1. CASE /\ UNCHANGED <<sock, listening, conn, open, stray>>
           /\ pc[s] # "none" /\ \E w \in {"peek", "probe", "next", "hit", "loop", "close"} : pc' = [pc EXCEPT ![s] = w]
  BY <1>o, <1>t, <1>1, OwnershipFrame
<1>2. CASE UNCHANGED <<pc, sock, listening, conn, open, stray>>
  BY <1>o, <1>2, OwnershipFrame
<1>3. CASE Peek(s) \/ ProbeMatch(s) \/ ProbeMismatch(s) \/ TaskReturns(s)
  BY <1>1, <1>3 DEF Peek, ProbeMatch, ProbeMismatch, TaskReturns, serverVars, fdVars
<1>4. CASE ProbeRetry(s) \/ ProbeGiveUp(s) \/ NextEntry(s)
  BY <1>1, <1>4 DEF ProbeRetry, ProbeGiveUp, Undetermined, NextEntry, serverVars, fdVars
<1>5. CASE EnterTask(s)
  BY <1>1, <1>2, <1>5 DEF EnterTask, Lose, slotVars, serverVars, fdVars
<1>6. CASE ProbeNull(s) \/ Release(s)
  BY <1>2, <1>6 DEF ProbeNull, Release, Lose, slotVars, serverVars, fdVars
<1>7. CASE Close(s)
  <2>1. /\ UNCHANGED <<sock, listening, conn, stray>> /\ pc[s] # "none"
        /\ pc' = [pc EXCEPT ![s] = "none"] /\ open' = open \ {sock[s]}
    BY <1>7 DEF Close, CloseFd, serverVars
  <2>2. \A t \in Slots : pc'[t] # "none" => t # s /\ pc[t] # "none"
    BY <1>t, <2>1
  <2>3. sock[s] \notin {listening, conn}
    BY <1>o, <2>1 DEF Ownership, SocketsAreOwn
  <2>4. SocketsAreOwn'
    BY <1>o, <1>t, <2>1, <2>2, <2>3 DEF Ownership, SocketsAreOwn
  <2>5. \A t \in Slots : t # s => pc'[t] = pc[t]
    BY <1>t, <2>1
  <2>6. NoDescriptorLeaks'
    BY <1>o, <2>1, <2>5 DEF Ownership, NoDescriptorLeaks, Held
  <2> QED
    BY <2>4, <2>6 DEF Ownership
<1>8. CASE Clear(s)
  <2>1. /\ UNCHANGED <<pc, listening, conn, open, stray>>
        /\ pc[s] = "none" /\ sock' = [sock EXCEPT ![s] = Null]
    BY <1>8 DEF Clear, IInv, SessionLife, serverVars, fdVars
  <2>2. \A t \in Slots : pc[t] # "none" => sock'[t] = sock[t]
    BY <1>t, <2>1
  <2> QED
    BY <1>o, <2>1, <2>2 DEF Ownership, SocketsAreOwn, NoDescriptorLeaks, Held
<1> QED
  BY <1>3, <1>4, <1>5, <1>6, <1>7, <1>8 DEF SessionStep

(* The owner leaves descriptors alone; freeing the server under its        *)
(* sessions makes them stray.                                              *)
LEMMA OwnershipOwner == IInv /\ OwnerStep => Ownership'
<1> SUFFICES ASSUME IInv, OwnerStep PROVE Ownership'
  OBVIOUS
<1>1. CASE UNCHANGED <<pc, sock, listening, conn, open, stray>>
  BY <1>1, OwnershipFrame DEF IInv
<1>2. CASE OwnerStep /\ ~Free
  BY <1>1, <1>2 DEF OwnerStep, OwnerWaits, SPOOK_init, AddProbe, RemoveUnnamed, RemoveProbe, AddLoop,
     AddCount, RemoveLoop, RemoveCount, Stop, Join, ClearEntries, Lose, slotVars, serverVars, fdVars
<1>3. CASE Free
  <2>1. /\ listening' = Null /\ conn' = Null /\ open' = open
        /\ pc' = [s \in Slots |-> "none"] /\ stray' = \E s \in Slots : session_trigger[s]
    BY <1>3 DEF Free, IInv, ServerPhase, serverVars, fdVars
  <2>2. SocketsAreOwn'
    BY <2>1 DEF SocketsAreOwn
  <2>3. ASSUME ~stray' PROVE open = {}
    <3>1. \A s \in Slots : pc[s] = "none"
      BY <2>1, <2>3 DEF IInv, SessionLife
    <3>2. listening = Null /\ conn = Null /\ ~stray
      BY <1>3 DEF Free, IInv, ServerPhase
    <3> QED
      BY <3>1, <3>2, SpookAssumption
         DEF IInv, Ownership, NoDescriptorLeaks, Held, TypeInv, TypeOK, FdTypes
  <2>4. NoDescriptorLeaks'
    BY <2>1, <2>3 DEF NoDescriptorLeaks
  <2> QED
    BY <2>2, <2>4 DEF Ownership
<1> QED
  BY <1>2, <1>3

(* The inductive invariant is one.                                         *)
LEMMA IInvStep == IInv /\ [Next]_vars => IInv'
<1> SUFFICES ASSUME IInv, [Next]_vars PROVE IInv'
  OBVIOUS
<1>1. TypeInv' /\ SessionLife' /\ ServerPhase'
  BY TypeInvStep, SessionLifeStep, ServerPhaseStep DEF IInv
<1>2. Ownership'
  <2>1. CASE StrayRuns \/ UNCHANGED vars
    BY <2>1, OwnershipFrame DEF StrayRuns, Lose, vars, IInv, slotVars, serverVars, fdVars
  <2> QED
    BY <2>1, OwnershipServer, OwnershipSession, OwnershipOwner DEF Next
<1> QED
  BY <1>1, <1>2 DEF IInv

LEMMA IInvAlways == Spec => []IInv
BY IInvInit, IInvStep, PTL DEF Spec

(* Every open descriptor has its owner: refusals, full tables and sessions *)
(* that fail leave none behind (app/spook/spook.c:263, 326, 335, 351).     *)
THEOREM DescriptorsOwned == Spec => []NoDescriptorLeaks
<1>1. IInv => NoDescriptorLeaks
  BY DEF IInv, Ownership
<1> QED
  BY <1>1, IInvAlways, PTL

(* No two parts of the server use one descriptor, and none a closed one    *)
(* (the order of app/spook/spook.c:263-265).                               *)
THEOREM SocketsNotShared == Spec => []SocketsAreOwn
<1>1. IInv => SocketsAreOwn
  BY DEF IInv, Ownership
<1> QED
  BY <1>1, IInvAlways, PTL

-----------------------------------------------------------------------------
(* The table of descriptors is large enough: ownership bounds what is open. *)

(* No more descriptors are held than there are sessions.                   *)
LEMMA HeldIsSmall ==
  ASSUME IInv
  PROVE  IsFiniteSet(Held) /\ Cardinality(Held) \in 0 .. NumSession
<1> DEFINE T == {s \in Slots : pc[s] # "none"}
           h == [s \in T |-> sock[s]]
<1>1. IsFiniteSet(Slots) /\ Cardinality(Slots) = NumSession
  BY FS_Interval, SpookAssumption DEF Slots
<1>2. IsFiniteSet(T) /\ Cardinality(T) <= NumSession
  BY <1>1, FS_Subset
<1>3. h \in Surjection(T, Held)
  BY DEF Surjection, Held
<1>4. IsFiniteSet(Held) /\ Cardinality(Held) <= Cardinality(T)
  <2> HIDE DEF T, h
  <2> QED
    BY <1>2, <1>3, FS_Surjection
<1>5. Cardinality(Held) \in Nat /\ Cardinality(T) \in Nat
  BY <1>2, <1>4, FS_CardinalityType
<1> QED
  BY <1>2, <1>4, <1>5, SpookAssumption

(* Whenever the server thread wants a descriptor, there is one.            *)
LEMMA DescriptorLeft ==
  ASSUME IInv, spc \in {"bind", "select"}, Cardinality(Fds) >= NumSession + 2
  PROVE  ~(Fds \subseteq open)
<1>1. conn = Null /\ ~stray
  BY DEF IInv, ServerPhase
<1>2. open \subseteq {listening} \cup Held
  BY <1>1, SpookAssumption DEF IInv, Ownership, NoDescriptorLeaks, TypeInv, TypeOK, FdTypes
<1>3. IsFiniteSet(Held \cup {listening}) /\ Cardinality(Held \cup {listening}) <= NumSession + 1
  <2>1. IsFiniteSet(Held) /\ Cardinality(Held) \in Nat /\ Cardinality(Held) <= NumSession
    BY HeldIsSmall, SpookAssumption
  <2>2. /\ IsFiniteSet(Held \cup {listening})
        /\ \/ Cardinality(Held \cup {listening}) = Cardinality(Held)
           \/ Cardinality(Held \cup {listening}) = Cardinality(Held) + 1
    BY <2>1, FS_AddElement
  <2> QED
    BY <2>1, <2>2, SpookAssumption
<1>4. SUFFICES ASSUME Fds \subseteq open PROVE FALSE
  OBVIOUS
<1>5. Fds \in SUBSET (Held \cup {listening})
  BY <1>2, <1>4
<1>6. Cardinality(Fds) <= Cardinality(Held \cup {listening})
  BY <1>3, <1>5, FS_Subset
<1>7. Cardinality(Fds) \in Nat /\ Cardinality(Held \cup {listening}) \in Nat
  BY <1>3, FS_CardinalityType, SpookAssumption
<1> QED
  BY <1>3, <1>6, <1>7, SpookAssumption

(* With a descriptor for every slot, one to listen and one in hand, no     *)
(* assertion ends the process (app/spook/spook.c:73, 85, 313).             *)
THEOREM AssertionsHold == Spec => []NeverAborts
<1>1. Init => NeverAborts
  BY DEF Init, NeverAborts
<1>2. IInv /\ NeverAborts /\ [Next]_vars => NeverAborts'
  <2> SUFFICES ASSUME IInv, NeverAborts, [Next]_vars, Cardinality(Fds) >= NumSession + 2
               PROVE  lost' # "abort"
    BY DEF NeverAborts
  <2>o. lost # "abort"
    BY DEF NeverAborts
  <2>1. CASE ServerStep
    <3>1. ASSUME Bind PROVE lost' # "abort"
      <4>1. listening = Null /\ ~(Fds \subseteq open)
        BY <3>1, DescriptorLeft DEF Bind, IInv, ServerPhase
      <4> QED
        BY <2>o, <3>1, <4>1 DEF Bind
    <3>2. ASSUME Accept PROVE lost' # "abort"
      BY <2>o, <3>2, DescriptorLeft DEF Accept
    <3> QED
      BY <2>o, <2>1, <3>1, <3>2 DEF ServerStep, Poll, Timeout, Refuse, Admit, SlotTaken, SetupSession,
         SetupFails
  <2>2. ASSUME NEW s \in Slots, SessionStep(s) \/ TaskReturns(s) PROVE lost' # "abort"
    BY <2>o, <2>2 DEF SessionStep, Peek, ProbeNull, ProbeMatch, ProbeMismatch, ProbeRetry, ProbeGiveUp,
       NextEntry, EnterTask, TaskReturns, Close, Clear, Release, Lose
  <2>3. CASE OwnerStep
    BY <2>o, <2>3 DEF OwnerStep, OwnerWaits, SPOOK_init, AddProbe, RemoveUnnamed, RemoveProbe, AddLoop,
       AddCount, RemoveLoop, RemoveCount, Stop, Join, ClearEntries, Free, Lose
  <2>4. CASE StrayRuns \/ UNCHANGED vars
    BY <2>o, <2>4 DEF StrayRuns, Lose, vars
  <2> QED
    BY <2>1, <2>2, <2>3, <2>4 DEF Next
<1> QED
  BY <1>1, <1>2, IInvAlways, PTL DEF Spec

-----------------------------------------------------------------------------
(* The registration of tasks, as long as none is removed.                  *)

(* The entries below n_entry are complete, the one being added is the next *)
(* and the others are empty.                                               *)
Registered ==
  /\ cpc \in {"idle", "loop", "count", "reload", "destroy"}
  /\ n_entry <= NumEntry
  /\ \A i \in Indexes : i < n_entry => do_probe[i] # Null /\ do_loop[i] # Null
  /\ \A i \in Indexes : i > n_entry => do_probe[i] = Null
  /\ cpc \notin {"loop", "count"} => \A i \in Indexes : i = n_entry => do_probe[i] = Null
  /\ cpc \in {"loop", "count"} => centry = n_entry /\ do_probe[centry] # Null
  /\ cpc = "count" => do_loop[centry] # Null

(* A session that was not early looks at an entry below n_entry.           *)
Probing ==
  \A s \in Slots : pc[s] # "none" /\ ~early[s] => session_detect[s] < n_entry

(* A table that is given up is empty, a session begins with its first entry. *)
Blank ==
  /\ cpc = "free" => \A i \in Indexes : do_probe[i] = Null
  /\ \A s \in Slots : pc[s] = "none" => session_detect[s] = 0

TableInv == Blank /\ (~removed => Registered /\ Probing)

(* Only freeing the server forgets that a task was removed.                *)
LEMMA RemovedStays == [Next]_vars /\ ~Free /\ removed => removed'
<1> SUFFICES ASSUME [Next]_vars, ~Free, removed PROVE removed'
  OBVIOUS
<1>1. CASE ServerStep
  BY <1>1 DEF ServerStep, Bind, Poll, Timeout, Accept, Refuse, Admit, SlotTaken, SetupSession,
     SetupFails, Lose, pastVars
<1>2. ASSUME NEW s \in Slots, SessionStep(s) \/ TaskReturns(s) PROVE removed'
  BY <1>2 DEF SessionStep, Peek, ProbeNull, ProbeMatch, ProbeMismatch, ProbeRetry, ProbeGiveUp,
     NextEntry, EnterTask, TaskReturns, Close, Clear, Release, Lose, pastVars
<1>3. CASE OwnerStep
  BY <1>3 DEF OwnerStep, OwnerWaits, SPOOK_init, AddProbe, RemoveUnnamed, RemoveProbe, AddLoop,
     AddCount, RemoveLoop, RemoveCount, Stop, Join, ClearEntries, Lose, pastVars
<1>4. CASE StrayRuns \/ UNCHANGED vars
  BY <1>4 DEF StrayRuns, Lose, vars, pastVars
<1> QED
  BY <1>1, <1>2, <1>3, <1>4 DEF Next

(* Entries are emptied before the table is freed.                          *)
LEMMA BlankStep == TypeInv /\ SessionLife /\ Blank /\ [Next]_vars => Blank'
<1> SUFFICES ASSUME TypeInv, SessionLife, Blank, [Next]_vars PROVE Blank'
  OBVIOUS
<1> USE DEF Blank
<1>t. /\ DOMAIN pc = Slots /\ DOMAIN session_detect = Slots /\ slot \in 0 .. NumSession
  BY DEF TypeInv, TypeOK, SlotTypes, ProbeTypes, ServerTypes
<1>1. CASE UNCHANGED <<pc, session_detect, cpc, do_probe>>
  BY <1>1
<1>2. CASE SetupSession
  <2>1. slot \in Slots /\ pc' = [pc EXCEPT ![slot] = "peek"] /\ UNCHANGED <<session_detect, cpc, do_probe>>
    BY <1>2, <1>t, SpookAssumption DEF SetupSession, Slots, ownerVars, entryVars, probeVars
  <2> QED
    BY <1>t, <2>1
<1>3. CASE ServerStep /\ ~SetupSession
  BY <1>1, <1>3 DEF ServerStep, Bind, Poll, Timeout, Accept, Refuse, Admit, SlotTaken, SetupFails, Lose,
     ownerVars, entryVars, slotVars, probeVars
<1>4. ASSUME NEW s \in Slots, SessionStep(s) \/ TaskReturns(s) PROVE Blank'
  <2>1. CASE /\ UNCHANGED <<session_detect, cpc, do_probe>> /\ pc[s] # "none"
             /\ \E w \in {"peek", "probe", "next", "hit", "loop", "close"} : pc' = [pc EXCEPT ![s] = w]
    BY <1>t, <2>1
  <2>2. CASE Peek(s) \/ ProbeMatch(s) \/ ProbeMismatch(s) \/ TaskReturns(s) \/ ProbeRetry(s) \/ ProbeGiveUp(s)
    BY <2>1, <2>2 DEF Peek, ProbeMatch, ProbeMismatch, TaskReturns, ProbeRetry, ProbeGiveUp, Undetermined,
       ownerVars, entryVars, probeVars
  <2>3. CASE EnterTask(s)
    BY <1>1, <2>1, <2>3 DEF EnterTask, Lose, ownerVars, entryVars, slotVars, probeVars
  <2>4. CASE ProbeNull(s) \/ Clear(s) \/ Release(s)
    BY <1>1, <2>4 DEF ProbeNull, Clear, Release, Lose, ownerVars, entryVars, slotVars, probeVars
  <2>5. CASE NextEntry(s)
    <3>1. /\ pc[s] = "next" /\ pc'[s] # "none" /\ UNCHANGED <<cpc, do_probe>>
          /\ \A t \in Slots : t # s => pc'[t] = pc[t] /\ session_detect'[t] = session_detect[t]
      BY <1>t, <2>5 DEF NextEntry, ownerVars, entryVars
    <3> QED
      BY <3>1
  <2>6. CASE Close(s)
    <3>1. /\ pc' = [pc EXCEPT ![s] = "none"] /\ session_detect' = [session_detect EXCEPT ![s] = 0]
          /\ UNCHANGED <<cpc, do_probe>>
      BY <2>6 DEF Close, ownerVars, entryVars
    <3> QED
      BY <1>t, <3>1
  <2> QED
    BY <1>4, <2>2, <2>3, <2>4, <2>5, <2>6 DEF SessionStep
<1>5. CASE ClearEntries
  BY <1>5 DEF ClearEntries, slotVars, probeVars
<1>6. CASE Free
  BY <1>6 DEF Free
<1>7. CASE OwnerStep /\ ~ClearEntries /\ ~Free
  BY <1>1, <1>7 DEF OwnerStep, OwnerWaits, SPOOK_init, AddProbe, RemoveUnnamed, RemoveProbe, AddLoop,
     AddCount, RemoveLoop, RemoveCount, Stop, Join, Lose, ownerVars, entryVars, slotVars, probeVars
<1>8. CASE StrayRuns \/ UNCHANGED vars
  BY <1>1, <1>8 DEF StrayRuns, Lose, vars, ownerVars, entryVars, slotVars, probeVars
<1> QED
  BY <1>2, <1>3, <1>4, <1>5, <1>6, <1>7, <1>8 DEF Next

(* Entries are completed before they are counted.                          *)
LEMMA RegisteredStep ==
  ASSUME TypeInv, TableInv, [Next]_vars, ~removed'
  PROVE  Registered'
<1>t. /\ n_entry \in Nat /\ DOMAIN do_probe = Indexes /\ DOMAIN do_loop = Indexes
      /\ centry \in Indexes /\ NumEntry \in Nat /\ Null \notin Protocols
  BY SpookAssumption DEF TypeInv, TypeOK, OwnerTypes, EntryTypes
<1>f. CASE Free
  BY <1>f, <1>t DEF Free, TableInv, Blank, Registered, Indexes
<1>n. CASE ~Free
  <2>r. Registered
    BY <1>n, RemovedStays DEF TableInv
  <2>1. CASE UNCHANGED <<cpc, centry, n_entry, do_probe, do_loop>>
    BY <2>r, <2>1 DEF Registered
  <2>2. ASSUME NEW p \in Protocols, AddProbe(p) PROVE Registered'
    <3>1. PICK i \in Indexes :
            /\ do_probe[i] = Null /\ \A j \in 0 .. i-1 : do_probe[j] # Null
            /\ do_probe' = [do_probe EXCEPT ![i] = p]
            /\ centry' = i
      BY <2>2 DEF AddProbe
    <3>2. n_entry < NumEntry /\ cpc = "idle" /\ cpc' = "loop" /\ UNCHANGED <<n_entry, do_loop>>
      BY <2>2 DEF AddProbe
    <3>3. n_entry \in Indexes /\ do_probe[n_entry] = Null
      BY <2>r, <1>t, <3>2 DEF Registered, Indexes
    <3>4. i = n_entry
      <4>1. ~(i < n_entry)
        BY <2>r, <3>1 DEF Registered
      <4>2. ~(n_entry \in 0 .. i-1)
        BY <3>1, <3>3
      <4> QED
        BY <1>t, <4>1, <4>2 DEF Indexes
    <3> QED
      BY <2>r, <1>t, <3>1, <3>2, <3>4 DEF Registered, Indexes
  <2>3. CASE AddLoop
    BY <2>r, <1>t, <2>3 DEF AddLoop, Registered, Indexes
  <2>4. CASE AddCount
    <3>1. /\ n_entry' = n_entry + 1 /\ cpc' = "idle" /\ UNCHANGED <<do_probe, do_loop>>
          /\ cpc = "count" /\ n_entry < NumEntry
      BY <2>4 DEF AddCount, TypeInv, Bounds
    <3>2. \A i \in Indexes : i < n_entry + 1 => i < n_entry \/ i = n_entry
      BY <1>t DEF Indexes
    <3> QED
      BY <2>r, <1>t, <3>1, <3>2 DEF Registered, Indexes
  <2>5. CASE Stop("reload", "reload") \/ Stop("destroy", "destroy") \/ Join
    BY <2>r, <2>5 DEF Stop, Join, Registered, entryVars
  <2>6. ASSUME NEW s \in Slots, SessionStep(s) \/ TaskReturns(s) PROVE Registered'
    BY <2>1, <2>6 DEF SessionStep, Peek, ProbeNull, ProbeMatch, ProbeMismatch, ProbeRetry, ProbeGiveUp,
       NextEntry, EnterTask, TaskReturns, Close, Clear, Release, Lose, ownerVars, entryVars
  <2>7. CASE ServerStep
    BY <2>1, <2>7 DEF ServerStep, Bind, Poll, Timeout, Accept, Refuse, Admit, SlotTaken, SetupSession,
       SetupFails, Lose, ownerVars, entryVars
  <2>8. CASE SPOOK_init
    BY <2>1, <2>8 DEF SPOOK_init, entryVars
  <2>9. ASSUME NEW p \in Protocols, RemoveUnnamed(p) PROVE Registered'
    BY <2>1, <2>9 DEF RemoveUnnamed, Lose, ownerVars, entryVars
  <2>10. (\A p \in Protocols : ~RemoveProbe(p)) /\ ~ClearEntries
    BY DEF RemoveProbe, ClearEntries
  <2>11. ~RemoveLoop /\ ~RemoveCount
    BY <2>r DEF RemoveLoop, RemoveCount, Registered
  <2>12. CASE StrayRuns \/ UNCHANGED vars
    BY <2>1, <2>12 DEF StrayRuns, Lose, vars, ownerVars, entryVars
  <2> QED
    BY <1>n, <2>2, <2>3, <2>4, <2>5, <2>6, <2>7, <2>8, <2>9, <2>10, <2>11, <2>12
       DEF Next, OwnerStep, OwnerWaits
<1> QED
  BY <1>f, <1>n

(* A session goes from entry to entry, as far as they were counted when it *)
(* looked, and the first one was counted before it began.                  *)
LEMMA ProbingStep ==
  ASSUME TypeInv, SessionLife, TableInv, [Next]_vars, ~removed'
  PROVE  Probing'
<1>t. /\ n_entry \in Nat /\ DOMAIN pc = Slots /\ DOMAIN session_detect = Slots /\ DOMAIN early = Slots
      /\ session_detect \in [Slots -> Nat] /\ slot \in 0 .. NumSession
  BY SpookAssumption DEF TypeInv, TypeOK, EntryTypes, SlotTypes, ProbeTypes, ServerTypes, PastTypes
<1>f. CASE Free
  BY <1>f DEF Free, Probing
<1>n. CASE ~Free
  <2>r. Registered /\ Probing /\ ~removed
    BY <1>n, RemovedStays DEF TableInv
  <2> USE DEF Probing
  <2>1. CASE UNCHANGED <<pc, session_detect, n_entry, early>>
    BY <2>r, <2>1
  <2>2. CASE SetupSession
    <3>1. /\ slot \in Slots /\ pc[slot] = "none" /\ pc' = [pc EXCEPT ![slot] = "peek"]
          /\ early' = [early EXCEPT ![slot] = (n_entry = 0 /\ ~removed)]
          /\ UNCHANGED <<n_entry, session_detect>>
      BY <2>2, <1>t, SpookAssumption DEF SetupSession, Slots, SessionLife, entryVars, probeVars
    <3>2. session_detect[slot] = 0
      BY <3>1 DEF TableInv, Blank
    <3>3. early'[slot] = (n_entry = 0 /\ ~removed)
      BY <1>t, <3>1, Zenon
    <3>4. ~early'[slot] => n_entry > 0
      <4>1. ~early'[slot] => n_entry # 0
        BY <2>r, <3>3, Zenon
      <4> QED
        BY <1>t, <4>1
    <3> QED
      BY <2>r, <1>t, <3>1, <3>2, <3>4
  <2>3. CASE ServerStep /\ ~SetupSession
    BY <2>1, <2>3 DEF ServerStep, Bind, Poll, Timeout, Accept, Refuse, Admit, SlotTaken, SetupFails, Lose,
       entryVars, slotVars, probeVars, pastVars
  <2>4. ASSUME NEW s \in Slots, SessionStep(s) \/ TaskReturns(s) PROVE Probing'
    <3>1. CASE /\ UNCHANGED <<session_detect, n_entry, early>>
               /\ pc[s] # "none"
               /\ \E w \in {"peek", "probe", "next", "hit", "loop", "close"} : pc' = [pc EXCEPT ![s] = w]
      BY <2>r, <1>t, <3>1
    <3>2. CASE Peek(s) \/ ProbeMatch(s) \/ ProbeMismatch(s) \/ TaskReturns(s) \/ ProbeRetry(s) \/ ProbeGiveUp(s)
      BY <3>1, <3>2 DEF Peek, ProbeMatch, ProbeMismatch, TaskReturns, ProbeRetry, ProbeGiveUp, Undetermined,
         entryVars, probeVars, pastVars
    <3>3. CASE EnterTask(s)
      BY <2>1, <3>1, <3>3 DEF EnterTask, Lose, entryVars, slotVars, probeVars, pastVars
    <3>4. CASE ProbeNull(s) \/ Clear(s) \/ Release(s)
      BY <2>1, <3>4 DEF ProbeNull, Clear, Release, Lose, entryVars, slotVars, probeVars, pastVars
    <3>5. CASE NextEntry(s)
      <4>1. /\ UNCHANGED <<n_entry, early>> /\ pc[s] = "next"
            /\ \A u \in Slots : u # s => pc'[u] = pc[u] /\ session_detect'[u] = session_detect[u]
        BY <1>t, <3>5 DEF NextEntry, entryVars, pastVars
      <4>2. CASE early[s]
        BY <2>r, <4>1, <4>2
      <4>3. CASE ~early[s]
        <5>1. session_detect[s] < n_entry /\ Minus(n_entry, 1) = n_entry - 1
          BY <2>r, <1>t, <4>1, <4>3 DEF Minus
        <5>2. session_detect'[s] < n_entry
          BY <1>t, <3>5, <5>1 DEF NextEntry
        <5> QED
          BY <2>r, <4>1, <5>2
      <4> QED
        BY <4>2, <4>3
    <3>6. CASE Close(s)
      <4>1. /\ pc' = [pc EXCEPT ![s] = "none"] /\ session_detect' = [session_detect EXCEPT ![s] = 0]
            /\ early' = [early EXCEPT ![s] = FALSE] /\ UNCHANGED n_entry
        BY <3>6 DEF Close, entryVars
      <4> QED
        BY <2>r, <1>t, <4>1
    <3> QED
      BY <2>4, <3>2, <3>3, <3>4, <3>5, <3>6 DEF SessionStep
  <2>5. CASE AddCount
    <3>1. n_entry' = n_entry + 1 /\ UNCHANGED <<pc, session_detect, early>>
      BY <2>5 DEF AddCount, slotVars, probeVars, pastVars
    <3> QED
      BY <2>r, <1>t, <3>1
  <2>6. (\A p \in Protocols : ~RemoveProbe(p)) /\ ~ClearEntries /\ ~RemoveLoop /\ ~RemoveCount
    BY <2>r DEF RemoveProbe, ClearEntries, RemoveLoop, RemoveCount, Registered
  <2>7. CASE OwnerStep /\ ~AddCount
    BY <1>n, <2>1, <2>6, <2>7 DEF OwnerStep, OwnerWaits, SPOOK_init, AddProbe, RemoveUnnamed, AddLoop,
       Stop, Join, Lose, entryVars, slotVars, probeVars, pastVars
  <2>8. CASE StrayRuns \/ UNCHANGED vars
    BY <2>1, <2>8 DEF StrayRuns, Lose, vars, entryVars, slotVars, probeVars, pastVars
  <2> QED
    BY <2>2, <2>3, <2>4, <2>5, <2>7, <2>8 DEF Next
<1> QED
  BY <1>f, <1>n

LEMMA TableInvAlways == Spec => []TableInv
<1>1. Init => TableInv
  BY SpookAssumption DEF Init, TableInv, Blank, Registered, Probing, Slots, Indexes
<1>2. IInv /\ TableInv /\ [Next]_vars => TableInv'
  BY BlankStep, RegisteredStep, ProbingStep DEF IInv, TableInv
<1> QED
  BY <1>1, <1>2, IInvAlways, PTL DEF Spec

(* Whatever the owner calls and whenever clients connect: as long as no    *)
(* task is removed, a session calls a function that is not there only if   *)
(* it was set up before the first task was counted, although entries are   *)
(* filled in and counted while sessions probe (app/spook/spook.c:220, 258, *)
(* 395-398).                                                               *)
THEOREM NoNullCalls == Spec => []NoNullCall
<1>1. IInv /\ TableInv => NoNullCall
  <2> SUFFICES ASSUME IInv, TableInv, NEW s \in Slots, CallsNull(s), ~removed, ~early[s]
               PROVE  FALSE
    BY DEF NoNullCall
  <2>1. pc[s] # "none"
    BY DEF CallsNull
  <2>2. session_detect[s] \in Nat /\ session_detect[s] < n_entry /\ n_entry <= NumEntry /\ n_entry \in Nat
    BY <2>1, SpookAssumption
       DEF TableInv, Probing, Registered, IInv, TypeInv, TypeOK, ProbeTypes, EntryTypes
  <2>3. session_detect[s] \in Indexes
    BY <2>2, SpookAssumption DEF Indexes
  <2>4. CanCall(do_probe, s) /\ CanCall(do_loop, s)
    BY <2>2, <2>3 DEF TableInv, Registered, CanCall
  <2> QED
    BY <2>4 DEF CallsNull
<1> QED
  BY <1>1, IInvAlways, TableInvAlways, PTL

-----------------------------------------------------------------------------
(* The task that is hit, with removals.                                    *)

(* An entry's loop is its probe's, or not there; where a removal has taken *)
(* the probe away only, the loop is the one it takes away next.            *)
Paired ==
  /\ \A i \in Indexes : \/ do_loop[i] \in {Null, do_probe[i]}
                        \/ cpc = "unloop" /\ centry = i
  /\ cpc = "unloop" => do_probe[centry] = Null

(* The entry that matched has not changed, unless its task was removed,    *)
(* nor has the connection.                                                 *)
Known ==
  \A s \in Slots : pc[s] = "hit" /\ ~gone[s] =>
    /\ session_detect[s] \in Indexes
    /\ do_probe[session_detect[s]] = kind[sock[s]] /\ do_probe[session_detect[s]] # Null

LEMMA PairedStep == TypeInv /\ Paired /\ [Next]_vars => Paired'
<1> SUFFICES ASSUME TypeInv, Paired, [Next]_vars PROVE Paired'
  OBVIOUS
<1>t. DOMAIN do_probe = Indexes /\ DOMAIN do_loop = Indexes /\ centry \in Indexes
  BY DEF TypeInv, TypeOK, OwnerTypes, EntryTypes
<1>1. CASE UNCHANGED <<cpc, centry, do_probe, do_loop>>
  BY <1>1 DEF Paired
<1>2. ASSUME NEW p \in Protocols, AddProbe(p) PROVE Paired'
  <2>1. PICK i \in Indexes : do_probe[i] = Null /\ do_probe' = [do_probe EXCEPT ![i] = p]
    BY <1>2 DEF AddProbe
  <2>2. cpc = "idle" /\ cpc' = "loop" /\ UNCHANGED do_loop
    BY <1>2 DEF AddProbe
  <2> QED
    BY <1>t, <2>1, <2>2 DEF Paired
<1>3. ASSUME NEW p \in Protocols, RemoveProbe(p) PROVE Paired'
  <2>1. PICK i \in Indexes : do_probe' = [do_probe EXCEPT ![i] = Null] /\ centry' = i
    BY <1>3 DEF RemoveProbe
  <2>2. cpc = "idle" /\ cpc' = "unloop" /\ UNCHANGED do_loop
    BY <1>3 DEF RemoveProbe
  <2> QED
    BY <1>t, <2>1, <2>2 DEF Paired
<1>4. CASE AddLoop
  <2>1. /\ cpc = "loop" /\ cpc' = "count" /\ UNCHANGED <<centry, do_probe>>
        /\ do_loop' = [do_loop EXCEPT ![centry] = do_probe[centry]]
    BY <1>4 DEF AddLoop
  <2> QED
    BY <1>t, <2>1 DEF Paired
<1>5. CASE RemoveLoop
  <2>1. /\ cpc = "unloop" /\ cpc' = "uncount" /\ UNCHANGED <<centry, do_probe>>
        /\ do_loop' = [do_loop EXCEPT ![centry] = Null]
    BY <1>5 DEF RemoveLoop
  <2> QED
    BY <1>t, <2>1 DEF Paired
<1>6. CASE AddCount \/ RemoveCount \/ Free \/ Join \/ Stop("reload", "reload") \/ Stop("destroy", "destroy")
  BY <1>6 DEF AddCount, RemoveCount, Free, Join, Stop, Paired, entryVars
<1>7. CASE ClearEntries
  BY <1>7 DEF ClearEntries, Paired
<1>8. CASE ServerStep
  BY <1>1, <1>8 DEF ServerStep, Bind, Poll, Timeout, Accept, Refuse, Admit, SlotTaken, SetupSession,
     SetupFails, Lose, ownerVars, entryVars
<1>9. ASSUME NEW s \in Slots, SessionStep(s) \/ TaskReturns(s) PROVE Paired'
  BY <1>1, <1>9 DEF SessionStep, Peek, ProbeNull, ProbeMatch, ProbeMismatch, ProbeRetry, ProbeGiveUp,
     NextEntry, EnterTask, TaskReturns, Close, Clear, Release, Lose, ownerVars, entryVars
<1>10. CASE SPOOK_init \/ \E p \in Protocols : RemoveUnnamed(p)
  BY <1>1, <1>10 DEF SPOOK_init, RemoveUnnamed, Lose, ownerVars, entryVars
<1>11. CASE StrayRuns \/ UNCHANGED vars
  BY <1>1, <1>11 DEF StrayRuns, Lose, vars, ownerVars, entryVars
<1> QED
  BY <1>2, <1>3, <1>4, <1>5, <1>6, <1>7, <1>8, <1>9, <1>10, <1>11 DEF Next, OwnerStep, OwnerWaits

(* A descriptor that a live session uses is neither given out nor closed   *)
(* by anyone else, and an entry is filled only when it is empty.           *)
LEMMA KnownStep == IInv /\ Known /\ [Next]_vars => Known'
<1> SUFFICES ASSUME IInv, Known, [Next]_vars PROVE Known'
  OBVIOUS
<1>t. /\ DOMAIN pc = Slots /\ DOMAIN sock = Slots /\ DOMAIN session_detect = Slots
      /\ DOMAIN gone = Slots /\ DOMAIN kind = Fds /\ slot \in 0 .. NumSession
      /\ DOMAIN do_probe = Indexes
  BY DEF IInv, TypeInv, TypeOK, SlotTypes, ProbeTypes, EntryTypes, FdTypes, ServerTypes, PastTypes
<1>o. SocketsAreOwn
  BY DEF IInv, Ownership
<1>1. CASE /\ UNCHANGED <<sock, kind, session_detect, do_probe>>
           /\ \A s \in Slots : pc'[s] = "hit" /\ ~gone'[s] => pc[s] = "hit" /\ ~gone[s]
  BY <1>1 DEF Known
<1>2. CASE Accept
  <2>1. CASE UNCHANGED <<pc, sock, kind, session_detect, do_probe, gone>>
    BY <1>1, <2>1
  <2>2. ASSUME NEW f \in Fds \ open, NEW k, kind' = [kind EXCEPT ![f] = k],
               UNCHANGED <<pc, sock, session_detect, do_probe, gone>>
        PROVE  Known'
    <3>1. ASSUME NEW s \in Slots, pc[s] = "hit" PROVE kind'[sock[s]] = kind[sock[s]]
      <4>1. sock[s] \in open
        BY <1>o, <3>1 DEF SocketsAreOwn
      <4> QED BY <2>2, <4>1
    <3> QED BY <2>2, <3>1 DEF Known
  <2> QED BY <1>2, <2>1, <2>2 DEF Accept, Lose, entryVars, slotVars, probeVars, fdVars, pastVars
<1>3. ASSUME NEW f, CloseFd(f), f \in {listening, conn},
             UNCHANGED <<pc, sock, session_detect, do_probe, gone>>
      PROVE  Known'
  <2>1. ASSUME NEW s \in Slots, pc[s] = "hit" PROVE kind'[sock[s]] = kind[sock[s]]
    <3>1. sock[s] # f
      BY <1>o, <1>3, <2>1 DEF SocketsAreOwn
    <3> QED BY <1>3, <3>1 DEF CloseFd
  <2> QED BY <1>3, <2>1 DEF Known
<1>4. CASE Poll \/ Refuse \/ SetupFails
  BY <1>1, <1>3, <1>4 DEF Poll, Refuse, SetupFails, entryVars, slotVars, probeVars, pastVars
<1>5. CASE SetupSession
  <2>1. /\ slot \in Slots /\ pc[slot] = "none" /\ pc' = [pc EXCEPT ![slot] = "peek"]
        /\ sock' = [sock EXCEPT ![slot] = conn] /\ UNCHANGED <<kind, session_detect, do_probe, gone>>
    BY <1>5, <1>t, SpookAssumption
       DEF SetupSession, Slots, IInv, SessionLife, entryVars, probeVars, fdVars
  <2> QED BY <1>t, <2>1 DEF Known
<1>6. CASE Bind \/ Timeout \/ Admit \/ SlotTaken
  BY <1>1, <1>6 DEF Bind, Timeout, Admit, SlotTaken, Lose, entryVars, slotVars, probeVars, fdVars, pastVars
<1>7. ASSUME NEW s \in Slots, ProbeMatch(s) PROVE Known'
  <2>1. /\ pc' = [pc EXCEPT ![s] = "hit"] /\ do_probe[session_detect[s]] = kind[sock[s]]
        /\ session_detect[s] \in Indexes /\ do_probe[session_detect[s]] # Null
        /\ UNCHANGED <<sock, kind, session_detect, do_probe, gone>>
    BY <1>7 DEF ProbeMatch, CanCall, entryVars, probeVars, fdVars, pastVars
  <2> QED BY <1>t, <2>1 DEF Known
<1>8. ASSUME NEW s \in Slots, Close(s) PROVE Known'
  <2>1. /\ pc' = [pc EXCEPT ![s] = "none"] /\ pc[s] = "close" /\ kind' = [kind EXCEPT ![sock[s]] = Null]
        /\ session_detect' = [session_detect EXCEPT ![s] = 0] /\ UNCHANGED <<sock, do_probe, gone>>
    BY <1>8 DEF Close, CloseFd, entryVars
  <2>2. ASSUME NEW t \in Slots, pc'[t] = "hit"
        PROVE  /\ pc[t] = "hit" /\ session_detect'[t] = session_detect[t]
               /\ kind'[sock[t]] = kind[sock[t]]
    <3>1. t # s /\ pc[t] = "hit" /\ session_detect'[t] = session_detect[t]
      BY <1>t, <2>1, <2>2
    <3>2. sock[t] # sock[s]
      BY <1>o, <2>1, <3>1 DEF SocketsAreOwn
    <3> QED BY <2>1, <3>1, <3>2
  <2> QED BY <2>1, <2>2 DEF Known
<1>9. ASSUME NEW s \in Slots, Clear(s) PROVE Known'
  <2>1. /\ pc[s] = "none" /\ sock' = [sock EXCEPT ![s] = Null]
        /\ UNCHANGED <<pc, kind, session_detect, do_probe, gone>>
    BY <1>9 DEF Clear, IInv, SessionLife, entryVars, probeVars, fdVars, pastVars
  <2> QED BY <1>t, <2>1 DEF Known
<1>10. ASSUME NEW s \in Slots, NextEntry(s) PROVE Known'
  <2>1. /\ pc[s] = "next" /\ pc'[s] # "hit" /\ UNCHANGED <<sock, kind, do_probe, gone>>
        /\ \A t \in Slots : t # s => pc'[t] = pc[t] /\ session_detect'[t] = session_detect[t]
    BY <1>10, <1>t DEF NextEntry, entryVars, fdVars, pastVars
  <2> QED BY <2>1 DEF Known
<1>11. ASSUME NEW s \in Slots, EnterTask(s) PROVE Known'
  <2>1. CASE Lose("null")
    BY <1>1, <2>1 DEF Lose, entryVars, slotVars, probeVars, fdVars, pastVars
  <2>2. CASE ~Lose("null")
    <3>1. /\ pc' = [pc EXCEPT ![s] = "loop"] /\ gone' = [gone EXCEPT ![s] = FALSE]
          /\ UNCHANGED <<sock, kind, session_detect, do_probe>>
      BY <1>11, <2>2 DEF EnterTask, entryVars, probeVars, fdVars
    <3> QED
      BY <1>1, <1>t, <3>1
  <2> QED
    BY <2>1, <2>2
<1>12. ASSUME NEW s \in Slots,
              Peek(s) \/ ProbeNull(s) \/ ProbeMismatch(s) \/ ProbeRetry(s) \/ ProbeGiveUp(s)
                \/ Release(s) \/ TaskReturns(s)
       PROVE  Known'
  BY <1>1, <1>t, <1>12 DEF Peek, ProbeNull, ProbeMismatch, ProbeRetry, ProbeGiveUp, Undetermined,
     Release, TaskReturns, Lose, entryVars, slotVars, probeVars, fdVars, pastVars
<1>13. ASSUME NEW p \in Protocols, AddProbe(p) PROVE Known'
  <2>1. PICK i \in Indexes : do_probe[i] = Null /\ do_probe' = [do_probe EXCEPT ![i] = p]
    BY <1>13 DEF AddProbe
  <2>2. UNCHANGED <<pc, sock, kind, session_detect, gone>>
    BY <1>13 DEF AddProbe, slotVars, probeVars, fdVars, pastVars
  <2> QED BY <1>t, <2>1, <2>2 DEF Known
<1>14. ASSUME NEW p \in Protocols, RemoveProbe(p) PROVE Known'
  <2>1. PICK i \in Indexes :
          /\ do_probe' = [do_probe EXCEPT ![i] = Null]
          /\ gone' = [s \in Slots |-> gone[s] \/ (pc[s] = "hit" /\ session_detect[s] = i)]
    BY <1>14 DEF RemoveProbe
  <2>2. UNCHANGED <<pc, sock, kind, session_detect>>
    BY <1>14 DEF RemoveProbe, slotVars, probeVars, fdVars
  <2> QED BY <1>t, <2>1, <2>2 DEF Known
<1>15. CASE ClearEntries
  <2>1. UNCHANGED pc /\ \A s \in Slots : gone'[s] = (pc[s] = "hit")
    BY <1>15 DEF ClearEntries, slotVars
  <2> QED BY <2>1 DEF Known
<1>16. CASE Free
  BY <1>16 DEF Free, Known
<1>17. CASE OwnerStep /\ ~ClearEntries /\ ~Free /\ \A p \in Protocols : ~AddProbe(p) /\ ~RemoveProbe(p)
  BY <1>1, <1>17 DEF OwnerStep, OwnerWaits, RemoveUnnamed, AddLoop, AddCount, RemoveLoop, RemoveCount,
     SPOOK_init, Join, Stop, Lose, entryVars, slotVars, probeVars, fdVars, pastVars
<1>18. CASE StrayRuns \/ UNCHANGED vars
  BY <1>1, <1>18 DEF StrayRuns, Lose, vars, entryVars, slotVars, probeVars, fdVars, pastVars
<1> QED
  BY <1>2, <1>4, <1>5, <1>6, <1>7, <1>8, <1>9, <1>10, <1>11, <1>12, <1>13, <1>14, <1>15, <1>16, <1>17, <1>18
     DEF Next, ServerStep, SessionStep, OwnerStep

(* A session enters a loop that is there.                                  *)
LEMMA EntersByCall ==
  ASSUME TypeInv, [Next]_vars, NEW s \in Slots, pc[s] = "hit", pc'[s] = "loop"
  PROVE  CanCall(do_loop, s)
<1>t. DOMAIN pc = Slots /\ slot \in 0 .. NumSession
  BY DEF TypeInv, TypeOK, SlotTypes, ServerTypes
<1>1. ~UNCHANGED pc
  OBVIOUS
<1>2. ~ServerStep
  BY <1>1, <1>t DEF ServerStep, Bind, Poll, Timeout, Accept, Refuse, Admit, SlotTaken, SetupSession,
     SetupFails, Lose, slotVars
<1>3. ASSUME NEW u \in Slots, SessionStep(u) \/ TaskReturns(u) PROVE CanCall(do_loop, s)
  <2>1. u = s
    BY <1>1, <1>3, <1>t DEF SessionStep, Peek, ProbeNull, ProbeMatch, ProbeMismatch, ProbeRetry,
       ProbeGiveUp, Undetermined, NextEntry, EnterTask, TaskReturns, Close, Clear, Release, Lose, slotVars
  <2>2. ~Lose("null")
    BY <1>1 DEF Lose, slotVars
  <2>3. EnterTask(s)
    BY <1>3, <2>1, <2>2 DEF SessionStep, Peek, ProbeNull, ProbeMatch, ProbeMismatch, ProbeRetry,
       ProbeGiveUp, Undetermined, NextEntry, TaskReturns, Close, Clear, Release, Lose, slotVars
  <2> QED
    BY <2>2, <2>3 DEF EnterTask
<1>4. ~OwnerStep
  BY <1>1 DEF OwnerStep, OwnerWaits, SPOOK_init, AddProbe, RemoveUnnamed, RemoveProbe, AddLoop, AddCount,
     RemoveLoop, RemoveCount, Stop, Join, ClearEntries, Free, Lose, slotVars
<1>5. ~StrayRuns /\ ~UNCHANGED vars
  BY <1>1 DEF StrayRuns, Lose, vars, slotVars
<1> QED
  BY <1>2, <1>3, <1>4, <1>5 DEF Next

(* Whatever the owner adds, removes, reloads and destroys: a connection    *)
(* goes to the loop of the task whose probe knew it, unless that very task *)
(* is removed between the answer and the call (app/spook/spook.c:234, 258, *)
(* 406-408).                                                               *)
THEOREM TasksAreHit == Spec => TaskIsHit
<1> DEFINE J == Paired /\ Known
           A == \A s \in Slots : pc[s] = "hit" /\ pc'[s] = "loop"
                  => gone[s] \/ do_loop[session_detect[s]] = kind[sock[s]]
<1>1. Init => J
  BY DEF Init, Paired, Known
<1>2. IInv /\ J /\ [Next]_vars => J'
  BY PairedStep, KnownStep DEF IInv
<1>3. IInv /\ J /\ [Next]_vars => A
  <2> SUFFICES ASSUME IInv, J, [Next]_vars, NEW s \in Slots, pc[s] = "hit", pc'[s] = "loop", ~gone[s]
               PROVE  do_loop[session_detect[s]] = kind[sock[s]]
    OBVIOUS
  <2>1. session_detect[s] \in Indexes /\ do_loop[session_detect[s]] # Null
    BY EntersByCall DEF IInv, CanCall
  <2>2. do_probe[session_detect[s]] = kind[sock[s]] /\ do_probe[session_detect[s]] # Null
    BY DEF Known
  <2> QED
    BY <2>1, <2>2 DEF Paired
<1> HIDE DEF J, A
<1>4. Spec => [](IInv /\ J)
  BY <1>1, <1>2, IInvAlways, PTL DEF Spec
<1>5. Spec => [][A]_vars
  BY <1>3, <1>4, PTL DEF Spec
<1> QED BY <1>5 DEF A, TaskIsHit

=============================================================================
