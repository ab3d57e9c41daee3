--------------------------- MODULE TimeTickProofs ---------------------------
(***************************************************************************)
(* What holds of the periodic tasks for every size of the table, every set *)
(* of tasks and every interval: after a destroy the daemon is gone, and,   *)
(* as long as one thread makes the calls, the count is the number of tasks *)
(* and the assertion that checks it holds.                                 *)
(***************************************************************************)
EXTENDS TimeTick, FiniteSetTheorems, TLAPS

(* A daemon thread belongs to a table that knows it.                       *)
DaemonKnown == tDaemon \in BOOLEAN /\ (dpc # "none" => tDaemon)

(* After TIMETICK_Destroy has returned no task runs or is about to: only   *)
(* the owner starts a daemon, and it forgets one only when it has ended.   *)
THEOREM DestroyedIsAtRest == Spec => []DestroyedRests
<1>1. Init => DaemonKnown
  BY DEF Init, DaemonKnown
<1>2. DaemonKnown /\ [Next]_vars => DaemonKnown'
  <2> SUFFICES ASSUME DaemonKnown, [Next]_vars PROVE DaemonKnown'
    OBVIOUS
  <2>1. CASE DaemonStep
    BY <2>1 DEF DaemonKnown, DaemonStep, DaemonBegin, DaemonScan, DaemonLoad, DaemonStore,
                DaemonRan, DaemonRearm
  <2>2. CASE InitOrDestroy
    BY <2>2 DEF DaemonKnown, InitOrDestroy, daemonVars
  <2>3. ASSUME NEW c \in Callers, CallStep(c) PROVE DaemonKnown'
    BY <2>3 DEF DaemonKnown, CallStep, AddArm, AddTooLate, AddFunc, RemoveFunc, Count, AllStep,
                AllCounted, AllDone, DaemonRefused, DaemonStart, DaemonStarted, DaemonStop,
                DaemonJoin, daemonVars
  <2>4. ASSUME NEW c \in Callers, NEW t \in Tasks, AddCheck(c, t) PROVE DaemonKnown'
    BY <2>4 DEF DaemonKnown, AddCheck, daemonVars
  <2>5. ASSUME NEW c \in Callers, NEW t \in Tasks \cup {NoTask}, RemoveDisarm(c, t)
        PROVE DaemonKnown'
    BY <2>5 DEF DaemonKnown, RemoveDisarm, daemonVars
  <2>6. CASE UNCHANGED vars
    BY <2>6 DEF DaemonKnown, vars, daemonVars
  <2> QED
    BY <2>1, <2>2, <2>3, <2>4, <2>5, <2>6 DEF Next
<1>3. DaemonKnown => DestroyedRests
  BY DEF DaemonKnown, DestroyedRests
<1> QED
  BY <1>1, <1>2, <1>3, PTL DEF Spec

-----------------------------------------------------------------------------
(* One thread makes the calls.                                             *)
OneCaller == Callers = {Owner}

Used == {i \in Slots : funcTask[i] # NoTask}
at == cpc[Owner]
mine == call[Owner].slot

(* The daemon's variables and the counters.                                *)
TickTypes ==
  /\ nTaskTick \in [Slots -> -1 .. MaxTick] /\ nTaskInterval \in [Slots -> 0 .. MaxTick]
  /\ bDaemon \in BOOLEAN /\ tDaemon \in BOOLEAN
  /\ dpc \in {"none", "begin", "scan", "load", "store", "run", "rearm"}
  /\ di \in 0 .. MaxTask /\ CurrentTask \in Tasks \cup {NoTask} /\ dval \in -1 .. MaxTick
  /\ dpc \in {"load", "store", "run", "rearm"} => di \in Slots
  /\ armed \in [Slots -> BOOLEAN]

(* The table and the call.                                                 *)
CallTypes ==
  /\ funcTask \in [Slots -> Tasks \cup {NoTask}]
  /\ cpc \in [Callers -> {"idle", "find", "func", "count", "unfunc", "uncount",
                          "all", "all_disarm", "daemon", "sleep", "join"}]
  /\ call \in [Callers -> [task : Tasks \cup {NoTask}, slot : 0 .. MaxTask]]

(* What the slot of the call is when the call is about to change it.       *)
CallSlot ==
  /\ at \in {"func", "unfunc", "all_disarm"} => mine \in Slots
  /\ at \in {"idle", "daemon", "sleep", "join"} => mine = 0
  /\ at = "find" => call[Owner].task \in Tasks
  /\ at = "func" => funcTask[mine] = NoTask /\ call[Owner].task \in Tasks
  /\ at = "unfunc" => funcTask[mine] # NoTask
  /\ at = "all" => \A i \in Slots : i < mine => funcTask[i] = NoTask
  /\ at = "all_disarm" => \A i \in Slots : i <= mine => funcTask[i] = NoTask

(* The count differs from the number of tasks by the one being counted.    *)
Counting ==
  /\ nTaskCnt \in 0 .. MaxTask
  /\ at = "count" => Cardinality(Used) = nTaskCnt + 1
  /\ at \in {"uncount", "all_disarm"} => Cardinality(Used) + 1 = nTaskCnt
  /\ at \notin {"count", "uncount", "all_disarm"} => Cardinality(Used) = nTaskCnt

CountInv == CallTypes /\ CallSlot /\ Counting /\ aborted = FALSE

(* The tasks in the table are finitely many.                               *)
LEMMA UsedIsFinite == IsFiniteSet(Used) /\ Cardinality(Used) \in 0 .. MaxTask
<1>1. IsFiniteSet(Slots) /\ Cardinality(Slots) = MaxTask
  BY FS_Interval, TimeTickAssumption DEF Slots
<1>2. Used \in SUBSET Slots
  BY DEF Used
<1> QED
  BY <1>1, <1>2, FS_Subset, FS_CardinalityType, TimeTickAssumption

(* Filling a free slot adds one task, emptying a used one takes one away.  *)
LEMMA UsedChanges ==
  ASSUME CallTypes, NEW i \in Slots, NEW t \in Tasks \cup {NoTask},
         funcTask' = [funcTask EXCEPT ![i] = t]
  PROVE  /\ funcTask[i] = NoTask /\ t # NoTask => Cardinality(Used') = Cardinality(Used) + 1
         /\ funcTask[i] # NoTask /\ t = NoTask => Cardinality(Used') = Cardinality(Used) - 1
<1>1. funcTask[i] = NoTask /\ t # NoTask => Used' = Used \cup {i} /\ i \notin Used
  BY DEF Used, CallTypes
<1>2. funcTask[i] # NoTask /\ t = NoTask => Used' = Used \ {i} /\ i \in Used
  BY DEF Used, CallTypes
<1>3. IsFiniteSet(Used)
  BY UsedIsFinite
<1> QED
  BY <1>1, <1>2, <1>3, FS_AddElement, FS_RemoveElement

(* An empty table has no tasks.                                            *)
LEMMA EmptyTable == (\A i \in Slots : funcTask[i] = NoTask) => Cardinality(Used) = 0
<1>1. (\A i \in Slots : funcTask[i] = NoTask) => Used = {}
  BY DEF Used
<1> QED
  BY <1>1, FS_EmptySet

(* Nothing is counted at first.                                            *)
LEMMA CountInvInit == OneCaller /\ Init => CountInv
<1> SUFFICES ASSUME OneCaller, Init PROVE CountInv
  OBVIOUS
<1> USE TimeTickAssumption DEF Init, OneCaller
<1>1. CallTypes
  BY DEF CallTypes, NoCall
<1>2. CallSlot
  BY DEF CallSlot, at, mine, NoCall
<1>3. Counting
  <2>1. Cardinality(Used) = 0
    BY EmptyTable
  <2> QED
    BY <2>1 DEF Counting, at
<1> QED
  BY <1>1, <1>2, <1>3 DEF CountInv

(* The daemon does not touch the table, nor does a call elsewhere.         *)
LEMMA CountInvFrame ==
  CountInv /\ UNCHANGED <<funcTask, nTaskCnt, cpc, call, aborted>> => CountInv'
BY DEF CountInv, CallTypes, CallSlot, Counting, Used, at, mine


-----------------------------------------------------------------------------
(* The caller's steps keep the count.  The table changes in three of them. *)

LEMMA AddFuncKeeps ==
  ASSUME OneCaller, CountInv, ~aborted, AddFunc(Owner)
  PROVE  CountInv'
<1> USE TimeTickAssumption DEF OneCaller
<1> DEFINE i == call[Owner].slot
           t == call[Owner].task
<1>1. /\ at = "func" /\ i \in Slots /\ t \in Tasks /\ t # NoTask /\ funcTask[i] = NoTask
      /\ funcTask' = [funcTask EXCEPT ![i] = t]
      /\ cpc' = [cpc EXCEPT ![Owner] = "count"]
      /\ UNCHANGED <<nTaskCnt, call, aborted>>
  BY DEF CountInv, CallSlot, AddFunc, Goto, at, mine
<1>2. at' = "count"
  BY <1>1 DEF CountInv, CallTypes, at
<1>3. CallTypes'
  BY <1>1 DEF CountInv, CallTypes
<1>4. CallSlot'
  BY <1>2 DEF CallSlot
<1>5. Cardinality(Used') = Cardinality(Used) + 1
  BY <1>1, UsedChanges DEF CountInv
<1>6. Counting'
  BY <1>1, <1>2, <1>5 DEF CountInv, Counting
<1> QED
  BY <1>1, <1>3, <1>4, <1>6 DEF CountInv

LEMMA RemoveFuncKeeps ==
  ASSUME OneCaller, CountInv, ~aborted, RemoveFunc(Owner)
  PROVE  CountInv'
<1> USE TimeTickAssumption DEF OneCaller
<1> DEFINE i == call[Owner].slot
<1>1. /\ at = "unfunc" /\ i \in Slots /\ funcTask[i] # NoTask
      /\ funcTask' = [funcTask EXCEPT ![i] = NoTask]
      /\ cpc' = [cpc EXCEPT ![Owner] = "uncount"]
      /\ UNCHANGED <<nTaskCnt, call, aborted>>
  BY DEF CountInv, CallSlot, RemoveFunc, Goto, at, mine
<1>2. at' = "uncount"
  BY <1>1 DEF CountInv, CallTypes, at
<1>3. CallTypes'
  BY <1>1 DEF CountInv, CallTypes
<1>4. CallSlot'
  BY <1>2 DEF CallSlot
<1>5. Cardinality(Used') = Cardinality(Used) - 1
  BY <1>1, UsedChanges DEF CountInv
<1>6. Counting'
  BY <1>1, <1>2, <1>5, UsedIsFinite DEF CountInv, Counting
<1> QED
  BY <1>1, <1>3, <1>4, <1>6 DEF CountInv

LEMMA AllStepKeeps ==
  ASSUME OneCaller, CountInv, ~aborted, AllStep
  PROVE  CountInv'
<1> USE TimeTickAssumption DEF OneCaller
<1> DEFINE i == call[Owner].slot
<1>1. /\ at = "all" /\ i \in Slots /\ UNCHANGED <<nTaskCnt, aborted>>
      /\ \A j \in Slots : j < i => funcTask[j] = NoTask
  BY DEF CountInv, CallTypes, CallSlot, AllStep, Slots, at, mine
<1>2. CASE funcTask[i] = NoTask
  <2>1. call' = [call EXCEPT ![Owner].slot = i + 1] /\ UNCHANGED <<funcTask, cpc>>
    BY <1>2 DEF AllStep
  <2>2. CallTypes' /\ mine' = i + 1 /\ at' = "all"
    BY <1>1, <2>1 DEF CountInv, CallTypes, Slots, at, mine
  <2>3. \A j \in Slots : j < i + 1 => funcTask[j] = NoTask
    BY <1>1, <1>2 DEF Slots
  <2>4. CallSlot'
    BY <2>1, <2>2, <2>3 DEF CallSlot
  <2>5. Counting'
    BY <1>1, <2>1 DEF CountInv, Counting, Used, at
  <2> QED
    BY <1>1, <2>2, <2>4, <2>5 DEF CountInv
<1>3. CASE funcTask[i] # NoTask
  <2>1. /\ funcTask' = [funcTask EXCEPT ![i] = NoTask]
        /\ cpc' = [cpc EXCEPT ![Owner] = "all_disarm"] /\ UNCHANGED call
    BY <1>3 DEF AllStep, Goto
  <2>2. CallTypes' /\ at' = "all_disarm" /\ mine' = i
    BY <1>1, <2>1 DEF CountInv, CallTypes, at, mine
  <2>3. \A j \in Slots : j <= i => funcTask'[j] = NoTask
    BY <1>1, <2>1 DEF CountInv, CallTypes, Slots
  <2>4. CallSlot'
    BY <1>1, <2>2, <2>3 DEF CallSlot
  <2>5. Cardinality(Used') = Cardinality(Used) - 1
    BY <1>1, <1>3, <2>1, UsedChanges DEF CountInv
  <2>6. Counting'
    BY <1>1, <2>2, <2>5, UsedIsFinite DEF CountInv, Counting
  <2> QED
    BY <1>1, <2>2, <2>4, <2>6 DEF CountInv
<1> QED
  BY <1>2, <1>3

(* Steps that leave the table alone and move the caller or the count.      *)
LEMMA CallMoves ==
  ASSUME OneCaller, CountInv, ~aborted,
         UNCHANGED <<funcTask, aborted>>, CallTypes', CallSlot', Counting'
  PROVE  CountInv'
BY DEF CountInv

LEMMA AddKeeps ==
  ASSUME OneCaller, CountInv, ~aborted, NEW t \in Tasks, AddCheck(Owner, t)
  PROVE  CountInv'
<1> USE TimeTickAssumption DEF OneCaller
<1>1. UNCHANGED <<funcTask, nTaskCnt, aborted>> /\ Used' = Used
  BY DEF AddCheck, Used, taskVars
<1>2. at = "idle" /\ at' = "find" /\ CallTypes' /\ call'[Owner].task = t
  BY <1>1 DEF CountInv, CallTypes, AddCheck, Goto, at
<1> QED
  BY <1>1, <1>2, CallMoves DEF CountInv, CallSlot, Counting

LEMMA ArmKeeps ==
  ASSUME OneCaller, CountInv, ~aborted, AddArm(Owner) \/ AddTooLate(Owner)
  PROVE  CountInv'
<1> USE TimeTickAssumption DEF OneCaller
<1>0. UNCHANGED <<funcTask, nTaskCnt, aborted>> /\ Used' = Used
  BY DEF AddArm, AddTooLate, Used, taskVars
<1>1. CASE AddArm(Owner)
  <2>1. PICK i \in Slots : /\ funcTask[i] = NoTask
                           /\ call' = [call EXCEPT ![Owner].slot = i]
    BY <1>1 DEF AddArm, First
  <2>4. cpc[Owner] = "find" /\ cpc' = [cpc EXCEPT ![Owner] = "func"] /\ i \in 0 .. MaxTask
    BY <1>1 DEF AddArm, Goto, Slots
  <2>5. CallTypes'
    BY <1>0, <2>1, <2>4 DEF CountInv, CallTypes
  <2>2. /\ at = "find" /\ at' = "func" /\ CallTypes' /\ mine' = i
        /\ call'[Owner].task = call[Owner].task
    BY <2>1, <2>4, <2>5 DEF CountInv, CallTypes, at, mine
  <2>3. CallSlot'
    BY <1>0, <2>1, <2>2 DEF CountInv, CallSlot
  <2> QED
    BY <1>0, <2>2, <2>3, CallMoves DEF CountInv, Counting
<1>2. CASE AddTooLate(Owner)
  <2>1. at = "find" /\ at' = "idle" /\ CallTypes' /\ mine' = 0
    BY <1>0, <1>2 DEF CountInv, CallTypes, AddTooLate, Goto, NoCall, at, mine
  <2> QED
    BY <1>0, <2>1, CallMoves DEF CountInv, CallSlot, Counting
<1> QED
  BY <1>1, <1>2

LEMMA RemoveDisarmKeeps ==
  ASSUME OneCaller, CountInv, ~aborted, NEW t \in Tasks \cup {NoTask}, RemoveDisarm(Owner, t)
  PROVE  CountInv'
<1> USE TimeTickAssumption DEF OneCaller
<1>1. UNCHANGED <<funcTask, nTaskCnt, aborted>> /\ Used' = Used
  BY DEF RemoveDisarm, Used
<1>2. PICK i \in Slots : /\ funcTask[i] # NoTask
                         /\ call' = [call EXCEPT ![Owner] = [task |-> t, slot |-> i]]
  BY DEF RemoveDisarm, First, Last
<1>3. at = "idle" /\ at' = "unfunc" /\ CallTypes' /\ mine' = i
  BY <1>1, <1>2 DEF CountInv, CallTypes, RemoveDisarm, Goto, Slots, at, mine
<1>4. CallSlot'
  BY <1>1, <1>2, <1>3 DEF CallSlot
<1> QED
  BY <1>1, <1>3, <1>4, CallMoves DEF CountInv, Counting

LEMMA CountKeeps ==
  ASSUME OneCaller, CountInv, ~aborted, Count(Owner)
  PROVE  CountInv'
<1> USE TimeTickAssumption DEF OneCaller
<1>1. UNCHANGED <<funcTask, aborted>> /\ Used' = Used
  BY DEF Count, Used, taskVars
<1>2. at' = "idle" /\ CallTypes' /\ mine' = 0
  BY <1>1 DEF CountInv, CallTypes, Count, Goto, NoCall, at, mine
<1>3. CallSlot'
  BY <1>2 DEF CallSlot
<1>4. Counting'
  BY <1>1, <1>2, UsedIsFinite DEF CountInv, Counting, Count, at
<1> QED
  BY <1>1, <1>2, <1>3, <1>4, CallMoves

LEMMA AllCountedKeeps ==
  ASSUME OneCaller, CountInv, ~aborted, AllCounted
  PROVE  CountInv'
<1> USE TimeTickAssumption DEF OneCaller
<1> DEFINE i == call[Owner].slot
<1>1. /\ UNCHANGED <<funcTask, aborted>> /\ Used' = Used
      /\ at = "all_disarm" /\ i \in Slots /\ nTaskCnt' = nTaskCnt - 1
  BY DEF CountInv, CallSlot, AllCounted, Used, at, mine
<1>2. at' = "all" /\ CallTypes' /\ mine' = i + 1
  BY <1>1 DEF CountInv, CallTypes, AllCounted, Goto, Slots, at, mine
<1>3. \A j \in Slots : j < i + 1 => funcTask[j] = NoTask
  BY <1>1 DEF CountInv, CallSlot, Slots, mine
<1>4. CallSlot'
  BY <1>1, <1>2, <1>3 DEF CallSlot
<1>5. Counting'
  BY <1>1, <1>2, UsedIsFinite DEF CountInv, Counting
<1> QED
  BY <1>1, <1>2, <1>4, <1>5, CallMoves

(* After the last slot the table is empty, and so the count is zero.       *)
LEMMA AllDoneKeeps ==
  ASSUME OneCaller, CountInv, ~aborted, AllDone
  PROVE  CountInv'
<1> USE TimeTickAssumption DEF OneCaller
<1>1. at = "all" /\ mine = MaxTask /\ UNCHANGED <<funcTask, nTaskCnt>> /\ Used' = Used
  BY DEF AllDone, Used, at, mine, taskVars
<1>2. \A i \in Slots : funcTask[i] = NoTask
  BY <1>1 DEF CountInv, CallSlot, Slots
<1>3. nTaskCnt = 0
  BY <1>1, <1>2, EmptyTable DEF CountInv, Counting
<1>4. aborted' = FALSE
  BY <1>3 DEF AllDone
<1>5. at' = "daemon" /\ mine' = 0 /\ CallTypes'
  BY <1>1 DEF CountInv, CallTypes, AllDone, Goto, NoCall, at, mine
<1>6. CallSlot' /\ Counting'
  BY <1>1, <1>5 DEF CountInv, CallSlot, Counting
<1> QED
  BY <1>4, <1>5, <1>6 DEF CountInv

(* Starting and stopping the daemon leave the table and the count alone.   *)
LEMMA StartStopKeeps ==
  ASSUME OneCaller, CountInv, ~aborted,
         InitOrDestroy \/ DaemonRefused \/ DaemonStart \/ DaemonStarted \/ DaemonStop \/ DaemonJoin
  PROVE  CountInv'
<1> USE TimeTickAssumption DEF OneCaller
<1>1. UNCHANGED <<funcTask, nTaskCnt, call, aborted>> /\ Used' = Used
  BY DEF InitOrDestroy, DaemonRefused, DaemonStart, DaemonStarted, DaemonStop, DaemonJoin, Used,
         taskVars
<1>2. PICK where \in {"idle", "all", "daemon", "sleep", "join"} :
        cpc' = [cpc EXCEPT ![Owner] = where]
  BY DEF InitOrDestroy, DaemonRefused, DaemonStart, DaemonStarted, DaemonStop, DaemonJoin, Goto
<1>3. CallTypes' /\ at' = where
  BY <1>1, <1>2 DEF CountInv, CallTypes, at
<1>4. at \in {"idle", "daemon", "sleep", "join"}
  BY DEF InitOrDestroy, DaemonRefused, DaemonStart, DaemonStarted, DaemonStop, DaemonJoin, at
<1>5. mine' = 0
  BY <1>1, <1>4 DEF CountInv, CallSlot, mine
<1>6. CallSlot'
  BY <1>3, <1>5 DEF CallSlot, Slots
<1>7. Counting'
  BY <1>1, <1>3, <1>4 DEF CountInv, Counting
<1> QED
  BY <1>1, <1>3, <1>6, <1>7 DEF CountInv

LEMMA CountInvStep == OneCaller /\ CountInv /\ [Next]_vars => CountInv'
<1> SUFFICES ASSUME OneCaller, CountInv, [Next]_vars PROVE CountInv'
  OBVIOUS
<1>1. CASE DaemonStep
  BY <1>1, CountInvFrame DEF DaemonStep, DaemonBegin, DaemonScan, DaemonLoad, DaemonStore,
                             DaemonRan, DaemonRearm, taskVars, callVars
<1>2. CASE UNCHANGED vars
  BY <1>2, CountInvFrame DEF vars, taskVars, callVars
<1>3. CASE ~aborted /\ InitOrDestroy
  BY <1>3, StartStopKeeps
<1>4. ASSUME ~aborted, NEW t \in Tasks, AddCheck(Owner, t) PROVE CountInv'
  BY <1>4, AddKeeps
<1>5. ASSUME ~aborted, NEW t \in Tasks \cup {NoTask}, RemoveDisarm(Owner, t) PROVE CountInv'
  BY <1>5, RemoveDisarmKeeps
<1>6. ASSUME ~aborted, CallStep(Owner) PROVE CountInv'
  <2>1. CASE AddArm(Owner) \/ AddTooLate(Owner)
    BY <1>6, <2>1, ArmKeeps
  <2>2. CASE AddFunc(Owner) \/ RemoveFunc(Owner) \/ Count(Owner)
    BY <1>6, <2>2, AddFuncKeeps, RemoveFuncKeeps, CountKeeps
  <2>3. CASE AllStep \/ AllCounted \/ AllDone
    BY <1>6, <2>3, AllStepKeeps, AllCountedKeeps, AllDoneKeeps
  <2>4. CASE DaemonRefused \/ DaemonStart \/ DaemonStarted \/ DaemonStop \/ DaemonJoin
    BY <1>6, <2>4, StartStopKeeps
  <2> QED
    BY <1>6, <2>1, <2>2, <2>3, <2>4 DEF CallStep
<1> QED
  BY <1>1, <1>2, <1>3, <1>4, <1>5, <1>6 DEF Next, OneCaller

(* The count by which calls are refused is the number of tasks in the      *)
(* table, and the assertion of TIMETICK_RemoveAllTask never fails, however *)
(* the calls of one thread and the daemon's rounds follow one another.     *)
THEOREM CountExact == ASSUME OneCaller PROVE Spec => []CountIsTasks
<1>1. CountInv => CountIsTasks
  BY DEF CountInv, Counting, CountIsTasks, NoCalls, Used, OneCaller, at
<1> QED
  BY OneCaller, <1>1, CountInvInit, CountInvStep, PTL DEF Spec

-----------------------------------------------------------------------------
(* The counters and the daemon's variables keep their types.               *)

LEMMA TickTypesInit == Init => TickTypes
<1> SUFFICES ASSUME Init PROVE TickTypes
  OBVIOUS
<1> USE TimeTickAssumption DEF Init
<1>1. nTaskTick \in [Slots -> -1 .. MaxTick] /\ nTaskInterval \in [Slots -> 0 .. MaxTick]
  OBVIOUS
<1>2. di \in 0 .. MaxTask /\ dval \in -1 .. MaxTick
  OBVIOUS
<1>3. dpc = "none" /\ CurrentTask = NoTask /\ bDaemon = FALSE /\ tDaemon = FALSE
  OBVIOUS
<1> QED
  BY <1>1, <1>2, <1>3 DEF TickTypes

LEMMA DaemonKeepsTypes ==
  ASSUME CountInv, TickTypes, DaemonStep
  PROVE  TickTypes'
<1> USE TimeTickAssumption DEF TickTypes
<1>1. CASE DaemonBegin
  BY <1>1 DEF DaemonBegin, taskVars
<1>2. CASE DaemonScan
  <2>1. CASE bDaemon /\ di # MaxTask
    <3>1. di \in Slots /\ funcTask[di] \in Tasks \cup {NoTask} /\ di + 1 \in 0 .. MaxTask
      BY <2>1 DEF CountInv, CallTypes, Slots
    <3> QED
      BY <1>2, <2>1, <3>1 DEF DaemonScan, taskVars
  <2>2. CASE ~bDaemon \/ di = MaxTask
    BY <1>2, <2>2 DEF DaemonScan, taskVars
  <2> QED
    BY <2>1, <2>2
<1>3. CASE DaemonLoad
  <2>1. Down(nTaskTick[di]) \in -1 .. MaxTick
    BY <1>3 DEF DaemonLoad, Down
  <2> QED
    BY <1>3, <2>1 DEF DaemonLoad, taskVars
<1>4. CASE DaemonStore
  <2>1. nTaskTick' \in [Slots -> -1 .. MaxTick]
    BY <1>4 DEF DaemonStore
  <2>2. di \in Slots /\ di + 1 \in 0 .. MaxTask
    BY <1>4 DEF DaemonStore, Slots
  <2>3. CASE dval = 0
    BY <1>4, <2>1, <2>2, <2>3 DEF DaemonStore
  <2>4. CASE dval # 0
    BY <1>4, <2>1, <2>2, <2>4 DEF DaemonStore
  <2> QED
    BY <2>3, <2>4
<1>5. CASE DaemonRan
  BY <1>5 DEF DaemonRan, taskVars
<1>6. CASE DaemonRearm
  BY <1>6 DEF DaemonRearm, Slots
<1> QED
  BY <1>1, <1>2, <1>3, <1>4, <1>5, <1>6 DEF DaemonStep

LEMMA CallKeepsTypes ==
  ASSUME OneCaller, CountInv, TickTypes, [Next]_vars, ~DaemonStep
  PROVE  TickTypes'
<1> USE TimeTickAssumption DEF TickTypes, OneCaller
<1>1. CASE UNCHANGED vars
  BY <1>1 DEF vars, taskVars, daemonVars
<1>2. CASE InitOrDestroy
  BY <1>2 DEF InitOrDestroy, taskVars, daemonVars
<1>3. ASSUME NEW t \in Tasks, AddCheck(Owner, t) PROVE TickTypes'
  BY <1>3 DEF AddCheck, taskVars, daemonVars
<1>4. CASE AddArm(Owner)
  BY <1>4 DEF AddArm, daemonVars
<1>5. CASE AddTooLate(Owner) \/ AddFunc(Owner) \/ RemoveFunc(Owner) \/ Count(Owner)
  BY <1>5 DEF AddTooLate, AddFunc, RemoveFunc, Count, taskVars, daemonVars
<1>6. CASE AllStep \/ AllDone
  BY <1>6 DEF AllStep, AllDone, taskVars, daemonVars
<1>9. CASE AllCounted
  <2>0. 0 \in 0 .. MaxTick /\ 0 \in -1 .. MaxTick
    OBVIOUS
  <2>1. /\ nTaskTick' = [nTaskTick EXCEPT ![call[Owner].slot] = 0]
        /\ nTaskInterval' = [nTaskInterval EXCEPT ![call[Owner].slot] = 0]
    BY <1>9 DEF AllCounted
  <2>3. nTaskTick' \in [Slots -> -1 .. MaxTick]
    BY <2>0, <2>1
  <2>4. nTaskInterval' \in [Slots -> 0 .. MaxTick]
    BY <2>0, <2>1
  <2>2. armed' \in [Slots -> BOOLEAN]
    BY <1>9 DEF AllCounted
  <2> QED
    BY <1>9, <2>2, <2>3, <2>4 DEF AllCounted, daemonVars
<1>7. CASE DaemonRefused \/ DaemonStart \/ DaemonStarted \/ DaemonStop \/ DaemonJoin
  BY <1>7 DEF DaemonRefused, DaemonStart, DaemonStarted, DaemonStop, DaemonJoin, taskVars, daemonVars
<1>8. ASSUME NEW t \in Tasks \cup {NoTask}, RemoveDisarm(Owner, t) PROVE TickTypes'
  BY <1>8 DEF RemoveDisarm, taskVars, daemonVars
<1> QED
  BY <1>1, <1>2, <1>3, <1>4, <1>5, <1>6, <1>7, <1>8, <1>9 DEF Next, CallStep

(* The periodic tasks' variables keep their types: the daemon looks at     *)
(* slots of the table only, and the unsigned count does not wrap round.    *)
THEOREM TypesKept == ASSUME OneCaller PROVE Spec => []TypeOK
<1>1. CountInv /\ TickTypes => TypeOK
  BY DEF CountInv, CallTypes, Counting, TickTypes, TypeOK
<1>2. CountInv /\ TickTypes /\ [Next]_vars => TickTypes'
  BY OneCaller, DaemonKeepsTypes, CallKeepsTypes
<1> QED
  BY OneCaller, <1>1, <1>2, TickTypesInit, CountInvInit, CountInvStep, PTL DEF Spec

=============================================================================
