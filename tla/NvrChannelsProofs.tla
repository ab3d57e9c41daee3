------------------------- MODULE NvrChannelsProofs -------------------------
(***************************************************************************)
(* Proofs about NvrChannels, for any number of channels, any cameras, nets *)
(* and hosts, and any calls: the type invariant, that threads are joined   *)
(* once, that whoever runs on after NVRPC_destory was started late, that   *)
(* one search of the LAN at most begins under NVRPC_Search, and that the   *)
(* addresses of the channels differ.                                       *)
(***************************************************************************)
EXTENDS NvrChannels, TLAPS

(* The DNVR thread works on a channel of the table.                        *)
AtChannel == pc \in {"stop", "join", "start_nvr", "start_dnvr"} => at \in Chans

TypeInv == TypeOK /\ AtChannel

(* lock_thread_restart has a holder exactly while channels are joined, for *)
(* good when such a join does not return.                                  *)
LockHolder == (lock = "dnvr" <=> pc \in {"join", "stuck"}) /\ (lock = "rpc" <=> rpc = "join")

Destroyed == rpc \in {"flag", "wait", "done"}

(* A channel in use has a thread, which nobody has joined before           *)
(* NVRPC_destory comes to it.                                              *)
Joins ==
  \A c \in Chans :
    /\ using[c] <=> thr[c] # "none"
    /\ thr[c] = "joined" => Destroyed \/ (rpc = "join" /\ c < ri)

(* The channels NVRPC_destory has passed have no thread that runs, but for *)
(* those that are started once the lock is free.                           *)
Leftover ==
  \A c \in Chans : thr[c] = "run" =>
    (rpc = "join" => ri <= c) /\ (Destroyed => c \in late)

TableInv == LockHolder /\ Joins /\ Leftover /\ JoinedOnce

(* NVRPC_Search has wan_searching set; a round it saw begin is past.       *)
SearchInv ==
  /\ wan_searching <=> spc # "idle"
  /\ ~wan_searching => rounds = 0
  /\ wan_searching /\ rounds # 0 => rounds = 1 /\ pc # "begin"

(* From the answer of a camera to the restart of its channel.              *)
Modifying == pc = "start_dnvr" \/ (pc \in {"stop", "join"} /\ purpose = "modify")

(* The address the channel will have is still no other camera's.           *)
Chosen ==
  Modifying =>
    \A b \in Chans \ {at} : using[b] /\ ip[b] = par.ip => dev[b] = par.id

-----------------------------------------------------------------------------
(* Facts about the constants.                                              *)
LEMMA Constants ==
  /\ MaxCam \in Nat \ {0} /\ Chans = 0 .. MaxCam - 1 /\ Chans \subseteq 0 .. MaxCam
  /\ 0 \in 0 .. MaxCam /\ NoPar \in [id : Devices \cup {NoDev}, ip : Addr \cup {NoAddr}]
  /\ EnvAddr \in [Chans -> Addr \cup {NoAddr}] /\ NoAddr \notin Addr /\ NoDev \notin Devices
BY NvrAssumption DEF Chans, NoPar

(* A camera answers with an address, be it one of the table.               *)
LEMMA AnswersAddr ==
  ASSUME NEW addr \in CamAddr \cup {ip[c] : c \in Chans}, addr # NoAddr,
         ip \in [Chans -> Addr \cup {NoAddr}]
  PROVE  addr \in Addr
BY NvrAssumption

LEMMA StartTypes ==
  ASSUME TypeOK, NEW c \in Chans, NEW addr \in Addr \cup {NoAddr},
         NEW id \in Devices \cup {NoDev}, Start(c, addr, id)
  PROVE  /\ using' \in [Chans -> BOOLEAN] /\ running' \in [Chans -> BOOLEAN]
         /\ thr' \in [Chans -> {"none", "run", "over", "joined"}] /\ late' \subseteq Chans
         /\ ip' \in [Chans -> Addr \cup {NoAddr}] /\ dev' \in [Chans -> Devices \cup {NoDev}]
BY DEF TypeOK, Start

LEMMA TypeInvInit == Init => TypeInv
<1> SUFFICES ASSUME Init PROVE TypeInv
  OBVIOUS
<1>1. /\ lan_status \in BOOLEAN /\ lan_searching \in BOOLEAN /\ wan_searching \in BOOLEAN
      /\ dnvr_running \in BOOLEAN /\ misjoin \in BOOLEAN
  BY Zenon DEF Init
<1>2. /\ using \in [Chans -> BOOLEAN] /\ running \in [Chans -> BOOLEAN]
      /\ thr \in [Chans -> {"none", "run", "over", "joined"}]
      /\ ip \in [Chans -> Addr \cup {NoAddr}] /\ dev \in [Chans -> Devices \cup {NoDev}]
  BY Constants DEF Init
<1> QED BY Constants, <1>1, <1>2 DEF Init, TypeInv, TypeOK, AtChannel, Pcs

LEMMA TypeInvStep == TypeInv /\ [Next]_vars => TypeInv'
<1> SUFFICES ASSUME TypeInv, [Next]_vars PROVE TypeInv'
  OBVIOUS
<1> USE DEF TypeInv, TypeOK, AtChannel, Pcs, table, lanVars, searchVars, linkVars, threadVars,
    endVars, Goto, Forget
<1>a. /\ MaxCam \in Nat \ {0} /\ Chans = 0 .. MaxCam - 1 /\ 0 \in 0 .. MaxCam
      /\ NoPar \in [id : Devices \cup {NoDev}, ip : Addr \cup {NoAddr}]
      /\ EnvAddr \in [Chans -> Addr \cup {NoAddr}]
  BY Constants
<1>1. ASSUME StopLock PROVE TypeInv'
  BY <1>1, <1>a DEF StopLock
<1>2. ASSUME StopJoin PROVE TypeInv'
  <2>1. at \in Chans
    BY <1>2, <1>a DEF StopJoin
  <2>2. misjoin' \in BOOLEAN
    BY <1>2, Zenon DEF StopJoin
  <2>3. /\ using' \in [Chans -> BOOLEAN] /\ running' \in [Chans -> BOOLEAN]
        /\ thr' \in [Chans -> {"none", "run", "over", "joined"}]
        /\ ip' \in [Chans -> Addr \cup {NoAddr}] /\ dev' \in [Chans -> Devices \cup {NoDev}]
        /\ arp' \subseteq Addr \cup {NoAddr}
    <3>1. CASE using[at]
      <4>1. using' \in [Chans -> BOOLEAN] /\ running' \in [Chans -> BOOLEAN]
        BY <1>2, <3>1 DEF StopJoin
      <4>2. thr' \in [Chans -> {"none", "run", "over", "joined"}]
        BY <1>2, <3>1 DEF StopJoin
      <4>3. ip' \in [Chans -> Addr \cup {NoAddr}] /\ dev' \in [Chans -> Devices \cup {NoDev}]
        BY <1>2, <3>1 DEF StopJoin
      <4>4. arp' \subseteq Addr \cup {NoAddr}
        BY <1>2, <3>1 DEF StopJoin
      <4> QED BY <4>1, <4>2, <4>3, <4>4
    <3>2. CASE ~using[at]
      BY <1>2, <3>2 DEF StopJoin
    <3> QED BY <3>1, <3>2
  <2>4. pc' \in {"start_nvr", "start_dnvr", "all"} /\ UNCHANGED <<at, purpose, par>>
    BY <1>2, <1>a DEF StopJoin, AfterStop
  <2>5. /\ lock' = "free" /\ at \in Chans
        /\ UNCHANGED <<lanVars, searchVars, linkVars, dnvr_running, rpc, ri, late>>
    BY <1>2, <1>a DEF StopJoin
  <2> QED BY <1>a, <2>1, <2>2, <2>3, <2>4, <2>5
<1>33. ASSUME StopStuck PROVE TypeInv'
  <2>1. misjoin' \in BOOLEAN
    BY <1>33, Zenon DEF StopStuck
  <2> QED BY <1>33, <1>a, <2>1 DEF StopStuck
<1>3. ASSUME StartNvr PROVE TypeInv'
  <2>1. /\ at \in Chans /\ at' \in 0 .. MaxCam /\ pc' = "link"
        /\ UNCHANGED <<purpose, par, lock, arp, lanVars, searchVars, linkVars,
                       dnvr_running, rpc, ri, misjoin>>
    BY <1>3, <1>a DEF StartNvr
  <2>2. /\ using' \in [Chans -> BOOLEAN] /\ running' \in [Chans -> BOOLEAN]
        /\ thr' \in [Chans -> {"none", "run", "over", "joined"}] /\ late' \subseteq Chans
        /\ ip' \in [Chans -> Addr \cup {NoAddr}] /\ dev' \in [Chans -> Devices \cup {NoDev}]
    <3>1. CASE at \in Enabled
      <4>1. Start(at, EnvAddr[at], NoDev) /\ EnvAddr[at] \in Addr \cup {NoAddr}
        BY <1>3, <1>a, <2>1, <3>1 DEF StartNvr
      <4> QED BY <2>1, <4>1, StartTypes
    <3>2. CASE at \notin Enabled
      BY <1>3, <3>2 DEF StartNvr
    <3> QED BY <3>1, <3>2
  <2>3. arp \subseteq Addr \cup {NoAddr} /\ dnvr_running \in BOOLEAN /\ misjoin \in BOOLEAN
    OBVIOUS
  <2> QED BY <1>a, <2>1, <2>2, <2>3
<1>4. ASSUME StartDnvr PROVE TypeInv'
  BY <1>4, <1>a, StartTypes DEF StartDnvr
<1>5. ASSUME LockRelation PROVE TypeInv'
  BY <1>5, <1>a DEF LockRelation
<1>6. ASSUME Exit PROVE TypeInv'
  BY <1>6, <1>a DEF Exit
<1>7. ASSUME NEW links \in SUBSET Chans, Look(links) PROVE TypeInv'
  <2>1. now' \subseteq Chans /\ at' \in 0 .. MaxCam /\ UNCHANGED <<purpose, par>>
    BY <1>7, <1>a DEF Look
  <2>2. pc' \in {"lan", "link"}
    BY <1>7 DEF Look
  <2>3. /\ arp \subseteq Addr \cup {NoAddr} /\ filter \subseteq Addr /\ last \subseteq Chans
        /\ late \subseteq Chans
    OBVIOUS
  <2>4. UNCHANGED <<table, lock, arp, lanVars, searchVars, last, endVars>>
    BY <1>7 DEF Look
  <2> QED BY <2>1, <2>2, <2>3, <2>4
<1>8. ASSUME LinkStep PROVE TypeInv'
  BY <1>8, <1>a DEF LinkStep
<1>9. ASSUME LinkDone PROVE TypeInv'
  BY <1>9, <1>a DEF LinkDone
<1>10. ASSUME NEW net \in Nets, LanMoves(net) PROVE TypeInv'
  <2>1. lan_status' \in BOOLEAN
    BY <1>10, Zenon DEF LanMoves
  <2> QED BY <1>10, <1>a, <2>1 DEF LanMoves
<1>11. ASSUME NEW net \in Nets, WindowOpen(net) PROVE TypeInv'
  <2>1. lan_status' \in BOOLEAN
    BY <1>11, Zenon DEF WindowOpen
  <2> QED BY <1>11, <1>a, <2>1 DEF WindowOpen
<1>12. ASSUME LanStays PROVE TypeInv'
  BY <1>12, <1>a DEF LanStays
<1>13. ASSUME AllStep PROVE TypeInv'
  BY <1>13, <1>a DEF AllStep
<1>14. ASSUME WindowOver PROVE TypeInv'
  <2>1. lan_searching' \in BOOLEAN
    BY <1>14, Zenon DEF WindowOver
  <2> QED BY <1>14, <1>a, <2>1 DEF WindowOver
<1>15. ASSUME GiveWay PROVE TypeInv'
  <2>1. lan_searching' \in BOOLEAN
    BY <1>15, Zenon DEF GiveWay
  <2> QED BY <1>15, <1>a, <2>1 DEF GiveWay
<1>16. ASSUME NoWan PROVE TypeInv'
  BY <1>16, <1>a DEF NoWan
<1>17. ASSUME Begin PROVE TypeInv'
  BY <1>17, <1>a DEF Begin
<1>18. ASSUME Silence PROVE TypeInv'
  BY <1>18, <1>a DEF Silence
<1>19. ASSUME NEW id \in Devices, NEW addr \in Addr, AnswerWan(id, addr) PROVE TypeInv'
  BY <1>19, <1>a DEF AnswerWan
<1>20. ASSUME NEW id \in Devices, NEW addr \in Addr, NEW c \in Chans, AnswerLan(id, addr,
    c) PROVE TypeInv'
  <2>1. ip' \in [Chans -> Addr \cup {NoAddr}]
        /\ par' \in [id : Devices \cup {NoDev}, ip : Addr \cup {NoAddr}]
    BY <1>20, <1>a DEF AnswerLan, Addr
  <2> QED BY <1>20, <1>a, <2>1 DEF AnswerLan
<1>21. ASSUME NEW c \in Chans, ThreadEnds(c) PROVE TypeInv'
  BY <1>21, <1>a DEF ThreadEnds
<1>22. ASSUME Destroy PROVE TypeInv'
  BY <1>22, <1>a DEF Destroy
<1>23. ASSUME DestroyJoin PROVE TypeInv'
  BY <1>23, <1>a DEF DestroyJoin
<1>24. ASSUME DestroyUnlock PROVE TypeInv'
  BY <1>24, <1>a DEF DestroyUnlock
<1>25. ASSUME DestroyFlag PROVE TypeInv'
  <2>1. dnvr_running' \in BOOLEAN
    BY <1>25, Zenon DEF DestroyFlag
  <2> QED BY <1>25, <1>a, <2>1 DEF DestroyFlag
<1>26. ASSUME DestroyDone PROVE TypeInv'
  BY <1>26, <1>a DEF DestroyDone
<1>27. ASSUME SearchCall PROVE TypeInv'
  BY <1>27, <1>a DEF SearchCall
<1>28. ASSUME SearchStart PROVE TypeInv'
  BY <1>28, <1>a DEF SearchStart
<1>29. ASSUME SearchTimeout PROVE TypeInv'
  BY <1>29, <1>a DEF SearchTimeout
<1>30. ASSUME SearchEnd PROVE TypeInv'
  <2>1. wan_searching' \in BOOLEAN
    BY <1>30, Zenon DEF SearchEnd
  <2> QED BY <1>30, <1>a, <2>1 DEF SearchEnd
<1>31. ASSUME SetIp PROVE TypeInv'
  BY <1>31, <1>a DEF SetIp
<1>32. ASSUME UNCHANGED vars PROVE TypeInv'
  BY <1>32 DEF vars
<1>b. ip \in [Chans -> Addr \cup {NoAddr}]
  OBVIOUS
<1> HIDE DEF TypeInv, TypeOK, AtChannel, Pcs, table, lanVars, searchVars, linkVars,
    threadVars, endVars, Goto, Forget
<1>d. ASSUME Dnvr PROVE TypeInv'
  BY <1>d, <1>1, <1>2, <1>3, <1>4, <1>5, <1>6, <1>7, <1>8, <1>9, <1>10, <1>11, <1>12, <1>13,
     <1>14, <1>15, <1>16, <1>17, <1>18, <1>33 DEF Dnvr
<1>e. ASSUME Answers PROVE TypeInv'
  BY <1>b, <1>e, <1>19, <1>20, AnswersAddr DEF Answers
<1>f. ASSUME DestroySteps \/ Called PROVE TypeInv'
  BY <1>f, <1>22, <1>23, <1>24, <1>25, <1>26, <1>27, <1>29, <1>31 DEF DestroySteps, Called
<1> QED BY <1>d, <1>e, <1>f, <1>21, <1>28, <1>30, <1>32 DEF Next

(* Every variable keeps its type: the loops over the channels and the stop *)
(* of a channel stay inside the table of MAX_CAM_CH entries.               *)
THEOREM TypesKept == Spec => []TypeOK
<1>1. TypeInv => TypeOK
  BY DEF TypeInv
<1> QED BY TypeInvInit, TypeInvStep, <1>1, PTL DEF Spec

-----------------------------------------------------------------------------
(* Stops, starts and joins of the channels' threads.                       *)

LEMMA TableInvInit == Init => TableInv
<1> SUFFICES ASSUME Init PROVE TableInv
  OBVIOUS
<1>1. ~misjoin /\ lock = "free" /\ pc = "top" /\ rpc = "idle"
  BY DEF Init
<1>2. ASSUME NEW c \in Chans PROVE thr[c] = IF c \in Enabled THEN "run" ELSE "none"
  BY DEF Init
<1>3. ASSUME NEW c \in Chans PROVE using[c] <=> c \in Enabled
  BY DEF Init
<1> QED
  BY <1>1, <1>2, <1>3 DEF TableInv, LockHolder, Joins, Leftover, JoinedOnce, Destroyed

LEMMA TableInvStep == TypeInv /\ TableInv /\ [Next]_vars => TableInv'
<1> SUFFICES ASSUME TypeInv /\ TableInv, [Next]_vars PROVE TableInv'
  OBVIOUS
<1> USE DEF TableInv, LockHolder, Joins, Leftover, JoinedOnce, Destroyed, table, lanVars,
    searchVars, linkVars, threadVars, endVars, Goto, Forget
<1>a. /\ MaxCam \in Nat \ {0} /\ Chans = 0 .. MaxCam - 1
      /\ rpc \in {"idle", "join", "flag", "wait", "done"} /\ ri \in 0 .. MaxCam
      /\ lock \in {"free", "dnvr", "rpc"} /\ using \in [Chans -> BOOLEAN]
      /\ thr \in [Chans -> {"none", "run", "over", "joined"}] /\ late \subseteq Chans
      /\ (pc \in {"stop", "join", "start_nvr", "start_dnvr"} => at \in Chans)
      /\ ip \in [Chans -> Addr \cup {NoAddr}]
  BY Constants DEF TypeInv, TypeOK, AtChannel
<1>1. ASSUME StopLock PROVE TableInv'
  BY <1>1, <1>a DEF StopLock
<1>2. ASSUME StopJoin PROVE TableInv'
  <2>1. /\ at \in Chans /\ lock' = "free" /\ pc' \in {"start_nvr", "start_dnvr", "all"}
        /\ UNCHANGED <<rpc, ri, late>> /\ rpc # "join" /\ lock = "dnvr"
    BY <1>2, <1>a DEF StopJoin, AfterStop, TypeInv, TypeOK
  <2>2. CASE using[at]
    <3>1. /\ misjoin' => misjoin \/ thr[at] # "over"
          /\ thr[at] # "run"
      BY <1>2, <2>2, Zenon DEF StopJoin
    <3>2. using' = [using EXCEPT ![at] = FALSE] /\ thr' = [thr EXCEPT ![at] = "none"]
      BY <1>2, <2>2 DEF StopJoin
    <3>3. thr[at] = "over" \/ Destroyed
      BY <1>a, <2>1, <2>2, <3>1
    <3>4. LockHolder' /\ Joins' /\ Leftover'
      BY <1>a, <2>1, <3>2
    <3> QED BY <2>1, <3>1, <3>3, <3>4
  <2>3. CASE ~using[at]
    BY <1>2, <1>a, <2>1, <2>3 DEF StopJoin
  <2> QED BY <2>2, <2>3
<1>33. ASSUME StopStuck PROVE TableInv'
  BY <1>33, <1>a DEF StopStuck
<1>3. ASSUME StartNvr PROVE TableInv'
  BY <1>3, <1>a DEF StartNvr, Start
<1>4. ASSUME StartDnvr PROVE TableInv'
  BY <1>4, <1>a DEF StartDnvr, Start
<1>5. ASSUME LockRelation PROVE TableInv'
  BY <1>5, <1>a DEF LockRelation
<1>6. ASSUME Exit PROVE TableInv'
  BY <1>6, <1>a DEF Exit
<1>7. ASSUME NEW links \in SUBSET Chans, Look(links) PROVE TableInv'
  BY <1>7, <1>a DEF Look
<1>8. ASSUME LinkStep PROVE TableInv'
  BY <1>8, <1>a DEF LinkStep
<1>9. ASSUME LinkDone PROVE TableInv'
  BY <1>9, <1>a DEF LinkDone
<1>10. ASSUME NEW net \in Nets, LanMoves(net) PROVE TableInv'
  BY <1>10, <1>a DEF LanMoves
<1>11. ASSUME NEW net \in Nets, WindowOpen(net) PROVE TableInv'
  BY <1>11, <1>a DEF WindowOpen
<1>12. ASSUME LanStays PROVE TableInv'
  BY <1>12, <1>a DEF LanStays
<1>13. ASSUME AllStep PROVE TableInv'
  BY <1>13, <1>a DEF AllStep
<1>14. ASSUME WindowOver PROVE TableInv'
  BY <1>14, <1>a DEF WindowOver
<1>15. ASSUME GiveWay PROVE TableInv'
  BY <1>15, <1>a DEF GiveWay
<1>16. ASSUME NoWan PROVE TableInv'
  BY <1>16, <1>a DEF NoWan
<1>17. ASSUME Begin PROVE TableInv'
  BY <1>17, <1>a DEF Begin
<1>18. ASSUME Silence PROVE TableInv'
  BY <1>18, <1>a DEF Silence
<1>19. ASSUME NEW id \in Devices, NEW addr \in Addr, AnswerWan(id, addr) PROVE TableInv'
  BY <1>19, <1>a DEF AnswerWan
<1>20. ASSUME NEW id \in Devices, NEW addr \in Addr, NEW c \in Chans, AnswerLan(id, addr,
    c) PROVE TableInv'
  BY <1>20, <1>a DEF AnswerLan
<1>21. ASSUME NEW c \in Chans, ThreadEnds(c) PROVE TableInv'
  BY <1>21, <1>a DEF ThreadEnds
<1>22. ASSUME Destroy PROVE TableInv'
  BY <1>22, <1>a DEF Destroy
<1>23. ASSUME DestroyJoin PROVE TableInv'
  <2>1. /\ rpc = "join" /\ ri \in Chans /\ ri' = ri + 1
        /\ UNCHANGED <<lock, pc, rpc, late, using>>
        /\ using[ri] => thr[ri] # "run"
    BY <1>23, <1>a DEF DestroyJoin
  <2>2. CASE using[ri]
    <3>1. misjoin' => misjoin \/ thr[ri] # "over"
      BY <1>23, <2>2, Zenon DEF DestroyJoin
    <3>2. thr' = [thr EXCEPT ![ri] = "joined"]
      BY <1>23, <2>2 DEF DestroyJoin
    <3>3. thr[ri] = "over"
      BY <1>a, <2>1, <2>2
    <3>4. LockHolder' /\ Joins' /\ Leftover'
      BY <1>a, <2>1, <2>2, <3>2
    <3> QED BY <2>1, <3>1, <3>3, <3>4
  <2>3. CASE ~using[ri]
    BY <1>23, <1>a, <2>1, <2>3 DEF DestroyJoin
  <2> QED BY <2>2, <2>3
<1>24. ASSUME DestroyUnlock PROVE TableInv'
  BY <1>24, <1>a DEF DestroyUnlock
<1>25. ASSUME DestroyFlag PROVE TableInv'
  BY <1>25, <1>a DEF DestroyFlag
<1>26. ASSUME DestroyDone PROVE TableInv'
  BY <1>26, <1>a DEF DestroyDone
<1>27. ASSUME SearchCall PROVE TableInv'
  BY <1>27, <1>a DEF SearchCall
<1>28. ASSUME SearchStart PROVE TableInv'
  BY <1>28, <1>a DEF SearchStart
<1>29. ASSUME SearchTimeout PROVE TableInv'
  BY <1>29, <1>a DEF SearchTimeout
<1>30. ASSUME SearchEnd PROVE TableInv'
  BY <1>30, <1>a DEF SearchEnd
<1>31. ASSUME SetIp PROVE TableInv'
  BY <1>31, <1>a DEF SetIp
<1>32. ASSUME UNCHANGED vars PROVE TableInv'
  BY <1>32 DEF vars
<1> HIDE DEF TableInv, LockHolder, Joins, Leftover, JoinedOnce, Destroyed, table, lanVars,
    searchVars, linkVars, threadVars, endVars, Goto, Forget
<1>d. ASSUME Dnvr PROVE TableInv'
  BY <1>d, <1>1, <1>2, <1>3, <1>4, <1>5, <1>6, <1>7, <1>8, <1>9, <1>10, <1>11, <1>12, <1>13,
     <1>14, <1>15, <1>16, <1>17, <1>18, <1>33 DEF Dnvr
<1>e. ASSUME Answers PROVE TableInv'
  BY <1>a, <1>e, <1>19, <1>20, AnswersAddr DEF Answers
<1>f. ASSUME DestroySteps \/ Called PROVE TableInv'
  BY <1>f, <1>22, <1>23, <1>24, <1>25, <1>26, <1>27, <1>29, <1>31 DEF DestroySteps, Called
<1> QED BY <1>d, <1>e, <1>f, <1>21, <1>28, <1>30, <1>32 DEF Next

LEMMA TableAlways == Spec => [](TypeInv /\ TableInv)
BY TypeInvInit, TypeInvStep, TableInvInit, TableInvStep, PTL DEF Spec

(* NVRPC_destory and the stops of the DNVR thread join no thread twice,    *)
(* up to the unlock: each holds the lock from the look at using_flag to    *)
(* the end of the join.                                                    *)
THEOREM JoinsAreSingle == Spec => []JoinedOnce
<1>1. TableInv => JoinedOnce
  BY DEF TableInv
<1> QED BY TableAlways, <1>1, PTL

(* Whatever still runs when NVRPC_destory returns was started after its    *)
(* unlock.                                                                 *)
THEOREM LeftoversAreLate == Spec => []LeftoverIsLate
<1>1. TableInv => LeftoverIsLate
  BY DEF TableInv, Leftover, Destroyed, LeftoverIsLate
<1> QED BY TableAlways, <1>1, PTL

-----------------------------------------------------------------------------
(* The two searches.                                                       *)

LEMMA SearchInvInit == Init => SearchInv
<1> SUFFICES ASSUME Init PROVE SearchInv
  OBVIOUS
<1>1. ~wan_searching /\ spc = "idle" /\ rounds = 0
  BY DEF Init
<1> QED BY <1>1 DEF SearchInv

LEMMA SearchInvStep == TypeInv /\ SearchInv /\ [Next]_vars => SearchInv'
<1> SUFFICES ASSUME TypeInv /\ SearchInv, [Next]_vars PROVE SearchInv'
  OBVIOUS
<1> USE DEF SearchInv, table, lanVars, searchVars, linkVars, threadVars, endVars, Goto, Forget
<1>a. spc \in {"idle", "wait", "file"} /\ rounds \in 0 .. 2
  BY DEF TypeInv, TypeOK
<1>1. ASSUME StopLock PROVE SearchInv'
  BY <1>1, <1>a DEF StopLock
<1>2. ASSUME StopJoin PROVE SearchInv'
  BY <1>2, <1>a DEF StopJoin, AfterStop, TypeInv, TypeOK
<1>33. ASSUME StopStuck PROVE SearchInv'
  BY <1>33, <1>a DEF StopStuck
<1>3. ASSUME StartNvr PROVE SearchInv'
  BY <1>3, <1>a DEF StartNvr, Start
<1>4. ASSUME StartDnvr PROVE SearchInv'
  BY <1>4, <1>a DEF StartDnvr, Start
<1>5. ASSUME LockRelation PROVE SearchInv'
  BY <1>5, <1>a DEF LockRelation
<1>6. ASSUME Exit PROVE SearchInv'
  BY <1>6, <1>a DEF Exit
<1>7. ASSUME NEW links \in SUBSET Chans, Look(links) PROVE SearchInv'
  BY <1>7, <1>a DEF Look
<1>8. ASSUME LinkStep PROVE SearchInv'
  BY <1>8, <1>a DEF LinkStep
<1>9. ASSUME LinkDone PROVE SearchInv'
  BY <1>9, <1>a DEF LinkDone
<1>10. ASSUME NEW net \in Nets, LanMoves(net) PROVE SearchInv'
  BY <1>10, <1>a DEF LanMoves
<1>11. ASSUME NEW net \in Nets, WindowOpen(net) PROVE SearchInv'
  BY <1>11, <1>a DEF WindowOpen
<1>12. ASSUME LanStays PROVE SearchInv'
  BY <1>12, <1>a DEF LanStays
<1>13. ASSUME AllStep PROVE SearchInv'
  BY <1>13, <1>a DEF AllStep
<1>14. ASSUME WindowOver PROVE SearchInv'
  BY <1>14, <1>a DEF WindowOver
<1>15. ASSUME GiveWay PROVE SearchInv'
  BY <1>15, <1>a DEF GiveWay
<1>16. ASSUME NoWan PROVE SearchInv'
  BY <1>16, <1>a DEF NoWan
<1>17. ASSUME Begin PROVE SearchInv'
  BY <1>17, <1>a DEF Begin
<1>18. ASSUME Silence PROVE SearchInv'
  BY <1>18, <1>a DEF Silence
<1>19. ASSUME NEW id \in Devices, NEW addr \in Addr, AnswerWan(id, addr) PROVE SearchInv'
  BY <1>19, <1>a DEF AnswerWan
<1>20. ASSUME NEW id \in Devices, NEW addr \in Addr, NEW c \in Chans, AnswerLan(id, addr,
    c) PROVE SearchInv'
  BY <1>20, <1>a DEF AnswerLan
<1>21. ASSUME NEW c \in Chans, ThreadEnds(c) PROVE SearchInv'
  BY <1>21, <1>a DEF ThreadEnds
<1>22. ASSUME Destroy PROVE SearchInv'
  BY <1>22, <1>a DEF Destroy
<1>23. ASSUME DestroyJoin PROVE SearchInv'
  BY <1>23, <1>a DEF DestroyJoin
<1>24. ASSUME DestroyUnlock PROVE SearchInv'
  BY <1>24, <1>a DEF DestroyUnlock
<1>25. ASSUME DestroyFlag PROVE SearchInv'
  BY <1>25, <1>a DEF DestroyFlag
<1>26. ASSUME DestroyDone PROVE SearchInv'
  BY <1>26, <1>a DEF DestroyDone
<1>27. ASSUME SearchCall PROVE SearchInv'
  BY <1>27, <1>a DEF SearchCall
<1>28. ASSUME SearchStart PROVE SearchInv'
  BY <1>28, <1>a DEF SearchStart
<1>29. ASSUME SearchTimeout PROVE SearchInv'
  BY <1>29, <1>a DEF SearchTimeout
<1>30. ASSUME SearchEnd PROVE SearchInv'
  BY <1>30, <1>a DEF SearchEnd
<1>31. ASSUME SetIp PROVE SearchInv'
  BY <1>31, <1>a DEF SetIp
<1>32. ASSUME UNCHANGED vars PROVE SearchInv'
  BY <1>32 DEF vars
<1>b. ip \in [Chans -> Addr \cup {NoAddr}]
  BY DEF TypeInv, TypeOK
<1> HIDE DEF SearchInv, table, lanVars, searchVars, linkVars, threadVars, endVars, Goto, Forget
<1>d. ASSUME Dnvr PROVE SearchInv'
  BY <1>d, <1>1, <1>2, <1>3, <1>4, <1>5, <1>6, <1>7, <1>8, <1>9, <1>10, <1>11, <1>12, <1>13,
     <1>14, <1>15, <1>16, <1>17, <1>18, <1>33 DEF Dnvr
<1>e. ASSUME Answers PROVE SearchInv'
  BY <1>b, <1>e, <1>19, <1>20, AnswersAddr DEF Answers
<1>f. ASSUME DestroySteps \/ Called PROVE SearchInv'
  BY <1>f, <1>22, <1>23, <1>24, <1>25, <1>26, <1>27, <1>29, <1>31 DEF DestroySteps, Called
<1> QED BY <1>d, <1>e, <1>f, <1>21, <1>28, <1>30, <1>32 DEF Next

(* At most one search of the LAN begins while NVRPC_Search is at work, for *)
(* any interleaving of its flag with the DNVR thread's.                    *)
THEOREM SearchesTakeTurns == Spec => []OneRoundUnderSearch
<1>1. TypeInv /\ SearchInv => OneRoundUnderSearch
  BY DEF TypeInv, TypeOK, SearchInv, OneRoundUnderSearch
<1> QED BY TypeInvInit, TypeInvStep, SearchInvInit, SearchInvStep, <1>1, PTL DEF Spec

-----------------------------------------------------------------------------
(* The addresses.                                                          *)

AddressInv == AddressesDiffer /\ Chosen

(* The host that is looked for is no channel's.                            *)
LEMMA FoundIsNew ==
  ASSUME NEW h \in Hosts, FoundHost(h), lan \in Nets, NEW c \in Chans
  PROVE  ip[c] # <<lan, h>>
<1>1. h \in FreeHosts
  BY DEF FoundHost
<1>2. <<lan, h>> \in Addr /\ <<lan, h>> # NoAddr
  BY Constants DEF Addr
<1> QED BY <1>1, <1>2 DEF FreeHosts

LEMMA AddressInvInit == Init => AddressInv
<1> SUFFICES ASSUME Init PROVE AddressInv
  OBVIOUS
<1>1. pc = "top" /\ \A c \in Chans : dev[c] = NoDev
  BY DEF Init
<1> QED BY <1>1 DEF AddressInv, AddressesDiffer, Chosen, Modifying

LEMMA AddressInvStep == TypeInv /\ AddressInv /\ [Next]_vars => AddressInv'
<1> SUFFICES ASSUME TypeInv /\ AddressInv, [Next]_vars PROVE AddressInv'
  OBVIOUS
<1> USE DEF AddressInv, AddressesDiffer, Chosen, Modifying, table, lanVars, searchVars,
    linkVars, threadVars, endVars, Goto, Forget
<1>a. /\ using \in [Chans -> BOOLEAN] /\ purpose \in {"link", "all", "modify"}
      /\ ip \in [Chans -> Addr \cup {NoAddr}] /\ dev \in [Chans -> Devices \cup {NoDev}]
      /\ (pc \in {"stop", "join", "start_nvr", "start_dnvr"} => at \in Chans) /\ lan \in Nets
      /\ par \in [id : Devices \cup {NoDev}, ip : Addr \cup {NoAddr}]
  BY DEF TypeInv, TypeOK, AtChannel
<1>1. ASSUME StopLock PROVE AddressInv'
  BY <1>1, <1>a DEF StopLock
<1>2. ASSUME StopJoin PROVE AddressInv'
  <2>1. pc = "join" /\ at \in Chans /\ UNCHANGED <<at, purpose, par>>
    BY <1>2, <1>a DEF StopJoin
  <2>2. Modifying' => Modifying
    BY <1>2, <1>a DEF StopJoin, AfterStop
  <2>3. CASE using[at]
    BY <1>2, <1>a, <2>1, <2>2, <2>3 DEF StopJoin
  <2>4. CASE ~using[at]
    BY <1>2, <2>1, <2>2, <2>4 DEF StopJoin
  <2> QED BY <2>3, <2>4
<1>33. ASSUME StopStuck PROVE AddressInv'
  BY <1>33, <1>a DEF StopStuck
<1>3. ASSUME StartNvr PROVE AddressInv'
  <2>1. pc' = "link" /\ at \in Chans
    BY <1>3, <1>a DEF StartNvr
  <2>2. CASE at \in Enabled
    BY <1>3, <1>a, <2>1, <2>2 DEF StartNvr, Start
  <2>3. CASE at \notin Enabled
    BY <1>3, <2>1, <2>3 DEF StartNvr
  <2> QED BY <2>2, <2>3
<1>4. ASSUME StartDnvr PROVE AddressInv'
  BY <1>4, <1>a DEF StartDnvr, Start
<1>5. ASSUME LockRelation PROVE AddressInv'
  BY <1>5, <1>a DEF LockRelation
<1>6. ASSUME Exit PROVE AddressInv'
  BY <1>6, <1>a DEF Exit
<1>7. ASSUME NEW links \in SUBSET Chans, Look(links) PROVE AddressInv'
  BY <1>7, <1>a DEF Look
<1>8. ASSUME LinkStep PROVE AddressInv'
  BY <1>8, <1>a DEF LinkStep
<1>9. ASSUME LinkDone PROVE AddressInv'
  BY <1>9, <1>a DEF LinkDone
<1>10. ASSUME NEW net \in Nets, LanMoves(net) PROVE AddressInv'
  BY <1>10, <1>a DEF LanMoves
<1>11. ASSUME NEW net \in Nets, WindowOpen(net) PROVE AddressInv'
  BY <1>11, <1>a DEF WindowOpen
<1>12. ASSUME LanStays PROVE AddressInv'
  BY <1>12, <1>a DEF LanStays
<1>13. ASSUME AllStep PROVE AddressInv'
  BY <1>13, <1>a DEF AllStep
<1>14. ASSUME WindowOver PROVE AddressInv'
  BY <1>14, <1>a DEF WindowOver
<1>15. ASSUME GiveWay PROVE AddressInv'
  BY <1>15, <1>a DEF GiveWay
<1>16. ASSUME NoWan PROVE AddressInv'
  BY <1>16, <1>a DEF NoWan
<1>17. ASSUME Begin PROVE AddressInv'
  BY <1>17, <1>a DEF Begin
<1>18. ASSUME Silence PROVE AddressInv'
  BY <1>18, <1>a DEF Silence
<1>19. ASSUME NEW id \in Devices, NEW addr \in Addr, AnswerWan(id, addr) PROVE AddressInv'
  BY <1>19, <1>a DEF AnswerWan
<1>20. ASSUME NEW id \in Devices, NEW addr \in Addr, NEW c \in Chans, AnswerLan(id, addr,
    c) PROVE AddressInv'
  <2>1. CASE OldRunning(id, addr) = {c}
    BY <1>20, <2>1 DEF AnswerLan
  <2>2. CASE OldRunning(id, addr) # {c}
    <3>1. /\ pc' = "stop" /\ at' = c /\ purpose' = "modify" /\ UNCHANGED <<using, dev>>
      BY <1>20, <2>2 DEF AnswerLan
    <3>2. CASE MustChange(id, addr)
      <4>1. PICK h \in Hosts : /\ FoundHost(h) /\ par' = [id |-> id, ip |-> <<lan, h>>]
                               /\ ip' = [ip EXCEPT ![c] = <<lan, h>>]
        BY <1>20, <2>2, <3>2 DEF AnswerLan
      <4>2. \A b \in Chans : ip[b] # <<lan, h>>
        BY <1>a, <4>1, FoundIsNew
      <4> QED BY <1>a, <3>1, <4>1, <4>2
    <3>3. CASE ~MustChange(id, addr)
      <4>1. par' = [id |-> id, ip |-> addr] /\ UNCHANGED ip
        BY <1>20, <2>2, <3>3 DEF AnswerLan
      <4>2. \A b \in Chans : using[b] /\ ip[b] = addr => dev[b] = id
        BY <3>3 DEF MustChange
      <4> QED BY <3>1, <4>1, <4>2
    <3> QED BY <3>2, <3>3
  <2> QED BY <2>1, <2>2
<1>21. ASSUME NEW c \in Chans, ThreadEnds(c) PROVE AddressInv'
  BY <1>21, <1>a DEF ThreadEnds
<1>22. ASSUME Destroy PROVE AddressInv'
  BY <1>22, <1>a DEF Destroy
<1>23. ASSUME DestroyJoin PROVE AddressInv'
  BY <1>23, <1>a DEF DestroyJoin
<1>24. ASSUME DestroyUnlock PROVE AddressInv'
  BY <1>24, <1>a DEF DestroyUnlock
<1>25. ASSUME DestroyFlag PROVE AddressInv'
  BY <1>25, <1>a DEF DestroyFlag
<1>26. ASSUME DestroyDone PROVE AddressInv'
  BY <1>26, <1>a DEF DestroyDone
<1>27. ASSUME SearchCall PROVE AddressInv'
  BY <1>27, <1>a DEF SearchCall
<1>28. ASSUME SearchStart PROVE AddressInv'
  BY <1>28, <1>a DEF SearchStart
<1>29. ASSUME SearchTimeout PROVE AddressInv'
  BY <1>29, <1>a DEF SearchTimeout
<1>30. ASSUME SearchEnd PROVE AddressInv'
  BY <1>30, <1>a DEF SearchEnd
<1>31. ASSUME SetIp PROVE AddressInv'
  BY <1>31, <1>a DEF SetIp
<1>32. ASSUME UNCHANGED vars PROVE AddressInv'
  BY <1>32 DEF vars
<1> HIDE DEF AddressInv, AddressesDiffer, Chosen, Modifying, table, lanVars, searchVars,
    linkVars, threadVars, endVars, Goto, Forget
<1>d. ASSUME Dnvr PROVE AddressInv'
  BY <1>d, <1>1, <1>2, <1>3, <1>4, <1>5, <1>6, <1>7, <1>8, <1>9, <1>10, <1>11, <1>12, <1>13,
     <1>14, <1>15, <1>16, <1>17, <1>18, <1>33 DEF Dnvr
<1>e. ASSUME Answers PROVE AddressInv'
  BY <1>a, <1>e, <1>19, <1>20, AnswersAddr DEF Answers
<1>f. ASSUME DestroySteps \/ Called PROVE AddressInv'
  BY <1>f, <1>22, <1>23, <1>24, <1>25, <1>26, <1>27, <1>29, <1>31 DEF DestroySteps, Called
<1> QED BY <1>d, <1>e, <1>f, <1>21, <1>28, <1>30, <1>32 DEF Next

(* The addresses of two cameras differ: between the search for a free one  *)
(* and the restart of the channel nobody else changes the table.           *)
THEOREM AddressesAreOwn == Spec => []AddressesDiffer
<1>1. AddressInv => AddressesDiffer
  BY DEF AddressInv
<1> QED BY TypeInvInit, TypeInvStep, AddressInvInit, AddressInvStep, <1>1, PTL DEF Spec
=============================================================================
