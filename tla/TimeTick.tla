------------------------------ MODULE TimeTick ------------------------------
(***************************************************************************)
(* The periodic tasks (app/timetick.c): a table of functions that a daemon *)
(* thread calls every so many seconds, such as the clock of the overlay    *)
(* (app/app_overlay.c, added and removed by app/dvr.c) and the automatic   *)
(* switch of the picture division (app/video.c).                           *)
(*                                                                         *)
(* The daemon goes through the table once a second.  Other threads add and *)
(* remove tasks, its owner starts and stops it.  There is no lock: a step  *)
(* is an access to state another thread uses, except that a search of the  *)
(* table and a change of the count are one step each.  A round of the      *)
(* daemon in which the second has not changed does nothing and is left out, *)
(* and so is the clock the daemon writes each round, which nobody reads.   *)
(***************************************************************************)
EXTENDS Integers, FiniteSets

CONSTANTS
  MaxTask,       (* TIMETICK_MAX_TASK: slots of the table, 16 in the code  *)
  Tasks,         (* the functions that can be tasks                        *)
  NoTask,        (* a NULL function                                        *)
  MaxTick,       (* the longest interval asked for, in seconds             *)
  Callers,       (* threads that add and remove tasks                      *)
  Owner,         (* the one that also calls Init and Destroy               *)
  Calls,         (* which calls are made; "early": tasks are also added    *)
                 (* while there is no daemon, see DVR_Init in app/dvr.c    *)
  MaxMiscount    (* bound: no call begins while the count, which several   *)
                 (* callers can get wrong, is further off the table's size *)

ASSUME TimeTickAssumption ==
  /\ MaxTask \in Nat \ {0} /\ MaxTick \in Nat \ {0}
  /\ NoTask \notin Tasks /\ Owner \in Callers
  /\ Calls \subseteq {"add", "remove", "destroy", "early"}
  /\ MaxMiscount \in Nat

VARIABLES
  funcTask, nTaskTick, nTaskInterval, nTaskCnt,
  bDaemon, tDaemon,
  dpc,           (* where the daemon thread is                             *)
  di,            (* the slot it looks at                                   *)
  CurrentTask,   (* the function it found there                            *)
  dval,          (* a value it has read and not yet written back           *)
  cpc,           (* per caller: where it is in its call                    *)
  call,          (* per caller: the task and the slot its call is about    *)
  aborted,       (* an assertion has failed                                *)
  armed          (* history, on which no step depends: the slot's counter  *)
                 (* was last set by an addition, and not while the daemon  *)
                 (* was about to write it                                  *)

taskVars == <<funcTask, nTaskTick, nTaskInterval>>
daemonVars == <<dpc, di, CurrentTask, dval>>
callVars == <<cpc, call>>
vars == <<taskVars, nTaskCnt, bDaemon, tDaemon, daemonVars, callVars, aborted, armed>>

Slots == 0 .. MaxTask-1
NoCall == [task |-> NoTask, slot |-> 0]

(* A counter below zero reaches zero again after 2^32 seconds only: it is  *)
(* kept at -1.                                                             *)
Down(v) == IF v > 0 THEN v - 1 ELSE -1

(* A search finds the first slot that has the function, or is free.        *)
First(i, t) == funcTask[i] = t /\ \A j \in 0 .. i-1 : funcTask[j] # t

Init ==
  /\ funcTask = [i \in Slots |-> NoTask]
  /\ nTaskTick = [i \in Slots |-> 0] /\ nTaskInterval = [i \in Slots |-> 0]
  /\ nTaskCnt = 0
  /\ bDaemon = FALSE /\ tDaemon = FALSE
  /\ dpc = "none" /\ di = 0 /\ CurrentTask = NoTask /\ dval = 0
  /\ cpc = [c \in Callers |-> "idle"]
  /\ call = [c \in Callers |-> NoCall]
  /\ aborted = FALSE
  /\ armed = [i \in Slots |-> FALSE]

-----------------------------------------------------------------------------
(* The daemon thread.                                                      *)

(* Its first statement sets the flag that keeps it going.                  *)
DaemonBegin ==
  /\ dpc = "begin"
  /\ bDaemon' = TRUE
  /\ dpc' = "scan" /\ di' = 0
  /\ UNCHANGED <<taskVars, nTaskCnt, tDaemon, CurrentTask, dval, callVars, aborted, armed>>

(* The next slot of the round, the next round, or the end of the thread.   *)
DaemonScan ==
  /\ dpc = "scan"
  /\ IF ~bDaemon
     THEN dpc' = "none" /\ di' = 0 /\ UNCHANGED CurrentTask
     ELSE IF di = MaxTask
     THEN di' = 0 /\ UNCHANGED <<dpc, CurrentTask>>
     ELSE /\ CurrentTask' = funcTask[di]
          /\ IF funcTask[di] = NoTask THEN di' = di + 1 /\ UNCHANGED dpc
                                      ELSE dpc' = "load" /\ UNCHANGED di
  /\ UNCHANGED <<taskVars, nTaskCnt, bDaemon, tDaemon, dval, callVars, aborted, armed>>

(* --nTaskTick is a read and a write.                                      *)
DaemonLoad ==
  /\ dpc = "load"
  /\ dval' = Down(nTaskTick[di])
  /\ dpc' = "store"
  /\ UNCHANGED <<taskVars, nTaskCnt, bDaemon, tDaemon, di, CurrentTask, callVars, aborted, armed>>

DaemonStore ==
  /\ dpc = "store"
  /\ nTaskTick' = [nTaskTick EXCEPT ![di] = dval]
  /\ dval' = 0
  /\ IF dval = 0 THEN dpc' = "run" /\ UNCHANGED di
                 ELSE dpc' = "scan" /\ di' = di + 1
  /\ UNCHANGED <<funcTask, nTaskInterval, nTaskCnt, bDaemon, tDaemon, CurrentTask, callVars, aborted, armed>>

(* CurrentTask() returns; the interval is read to arm the slot again.      *)
DaemonRan ==
  /\ dpc = "run"
  /\ dval' = nTaskInterval[di]
  /\ dpc' = "rearm"
  /\ UNCHANGED <<taskVars, nTaskCnt, bDaemon, tDaemon, di, CurrentTask, callVars, aborted, armed>>

(* Mutant of DaemonRearm: the slot is not armed again.                     *)
DaemonRanOnce ==
  /\ dpc = "rearm"
  /\ dval' = 0 /\ dpc' = "scan" /\ di' = di + 1
  /\ UNCHANGED <<taskVars, nTaskCnt, bDaemon, tDaemon, CurrentTask, callVars, aborted, armed>>

DaemonRearm ==
  /\ dpc = "rearm"
  /\ nTaskTick' = [nTaskTick EXCEPT ![di] = dval]
  /\ dval' = 0 /\ dpc' = "scan" /\ di' = di + 1
  /\ UNCHANGED <<funcTask, nTaskInterval, nTaskCnt, bDaemon, tDaemon, CurrentTask, callVars, aborted, armed>>

DaemonStep == DaemonBegin \/ DaemonScan \/ DaemonLoad \/ DaemonStore \/ DaemonRan \/ DaemonRearm

-----------------------------------------------------------------------------
(* TIMETICK_AddTask: a full table and a task that is there already are     *)
(* refused; the first free slot is filled and armed before its function is *)
(* set, and counted last.                                                  *)

(* The bound on the count.                                                 *)
Countable == nTaskCnt \in -MaxMiscount .. MaxTask + MaxMiscount

Goto(c, where) == cpc' = [cpc EXCEPT ![c] = where]

AddCheck(c, t) ==
  /\ cpc[c] = "idle" /\ "add" \in Calls /\ (tDaemon \/ "early" \in Calls)
  /\ nTaskCnt # MaxTask /\ Countable
  /\ \A i \in Slots : funcTask[i] # t
  /\ call' = [call EXCEPT ![c].task = t]
  /\ Goto(c, "find")
  /\ UNCHANGED <<taskVars, nTaskCnt, bDaemon, tDaemon, daemonVars, aborted, armed>>

AddArm(c) ==
  /\ cpc[c] = "find"
  /\ \E i \in Slots, n \in 1 .. MaxTick :
       /\ First(i, NoTask)
       /\ nTaskInterval' = [nTaskInterval EXCEPT ![i] = n]
       /\ nTaskTick' = [nTaskTick EXCEPT ![i] = n]
       /\ armed' = [armed EXCEPT ![i] = ~(dpc \in {"store", "rearm"} /\ di = i)]
       /\ call' = [call EXCEPT ![c].slot = i]
  /\ Goto(c, "func")
  /\ UNCHANGED <<funcTask, nTaskCnt, bDaemon, tDaemon, daemonVars, aborted>>

(* No slot is free any more: others have filled them since the check.      *)
AddTooLate(c) ==
  /\ cpc[c] = "find" /\ \A i \in Slots : funcTask[i] # NoTask
  /\ call' = [call EXCEPT ![c] = NoCall]
  /\ Goto(c, "idle")
  /\ UNCHANGED <<taskVars, nTaskCnt, bDaemon, tDaemon, daemonVars, aborted, armed>>

AddFunc(c) ==
  /\ cpc[c] = "func"
  /\ funcTask' = [funcTask EXCEPT ![call[c].slot] = call[c].task]
  /\ Goto(c, "count")
  /\ UNCHANGED <<nTaskTick, nTaskInterval, nTaskCnt, bDaemon, tDaemon, daemonVars, call, aborted, armed>>

(* The call returns with the task counted in, or counted out.              *)
Count(c) ==
  /\ \/ cpc[c] = "count" /\ nTaskCnt' = nTaskCnt + 1
     \/ cpc[c] = "uncount" /\ nTaskCnt' = nTaskCnt - 1
  /\ call' = [call EXCEPT ![c] = NoCall]
  /\ Goto(c, "idle")
  /\ UNCHANGED <<taskVars, bDaemon, tDaemon, daemonVars, aborted, armed>>

-----------------------------------------------------------------------------
(* TIMETICK_RemoveTask of a function or of NULL, which stands for the last *)
(* task of the table.                                                      *)

Last(i) == funcTask[i] # NoTask /\ \A j \in i+1 .. MaxTask-1 : funcTask[j] = NoTask

RemoveDisarm(c, t) ==
  /\ cpc[c] = "idle" /\ "remove" \in Calls
  /\ nTaskCnt # 0 /\ Countable
  /\ \E i \in Slots :
       /\ IF t = NoTask THEN Last(i) ELSE First(i, t)
       /\ nTaskTick' = [nTaskTick EXCEPT ![i] = 0]
       /\ nTaskInterval' = [nTaskInterval EXCEPT ![i] = 0]
       /\ armed' = [armed EXCEPT ![i] = FALSE]
       /\ call' = [call EXCEPT ![c] = [task |-> t, slot |-> i]]
  /\ Goto(c, "unfunc")
  /\ UNCHANGED <<funcTask, nTaskCnt, bDaemon, tDaemon, daemonVars, aborted>>

(* Mutant of RemoveFunc: the function stays in the table.                  *)
RemoveFuncStays(c) ==
  /\ cpc[c] = "unfunc"
  /\ Goto(c, "uncount")
  /\ UNCHANGED <<taskVars, nTaskCnt, bDaemon, tDaemon, daemonVars, call, aborted, armed>>

RemoveFunc(c) ==
  /\ cpc[c] = "unfunc"
  /\ funcTask' = [funcTask EXCEPT ![call[c].slot] = NoTask]
  /\ Goto(c, "uncount")
  /\ UNCHANGED <<nTaskTick, nTaskInterval, nTaskCnt, bDaemon, tDaemon, daemonVars, call, aborted, armed>>

-----------------------------------------------------------------------------
(* TIMETICK_Init and TIMETICK_Destroy begin with TIMETICK_RemoveAllTask,   *)
(* which returns at once when the count is zero.  The owner is the caller; *)
(* it leaves a running daemon alone unless "destroy" is among the calls.   *)

InitOrDestroy ==
  /\ cpc[Owner] = "idle" /\ (tDaemon => "destroy" \in Calls)
  /\ Goto(Owner, IF nTaskCnt = 0 THEN "daemon" ELSE "all")
  /\ UNCHANGED <<taskVars, nTaskCnt, bDaemon, tDaemon, daemonVars, call, aborted, armed>>

(* The slot at hand is emptied if it is used.                              *)
AllStep ==
  LET i == call[Owner].slot IN
  /\ cpc[Owner] = "all" /\ i < MaxTask
  /\ IF funcTask[i] = NoTask
     THEN /\ call' = [call EXCEPT ![Owner].slot = i + 1]
          /\ UNCHANGED <<funcTask, cpc>>
     ELSE /\ funcTask' = [funcTask EXCEPT ![i] = NoTask]
          /\ Goto(Owner, "all_disarm")
          /\ UNCHANGED call
  /\ UNCHANGED <<nTaskTick, nTaskInterval, nTaskCnt, bDaemon, tDaemon, daemonVars, aborted, armed>>

(* Mutant of AllCounted: the count stays as it was.                        *)
AllUncounted ==
  LET i == call[Owner].slot IN
  /\ cpc[Owner] = "all_disarm"
  /\ nTaskTick' = [nTaskTick EXCEPT ![i] = 0]
  /\ nTaskInterval' = [nTaskInterval EXCEPT ![i] = 0]
  /\ armed' = [armed EXCEPT ![i] = FALSE]
  /\ call' = [call EXCEPT ![Owner].slot = i + 1]
  /\ Goto(Owner, "all")
  /\ UNCHANGED <<funcTask, nTaskCnt, bDaemon, tDaemon, daemonVars, aborted>>

(* It is disarmed and counted out.                                         *)
AllCounted ==
  LET i == call[Owner].slot IN
  /\ cpc[Owner] = "all_disarm"
  /\ nTaskTick' = [nTaskTick EXCEPT ![i] = 0]
  /\ nTaskInterval' = [nTaskInterval EXCEPT ![i] = 0]
  /\ armed' = [armed EXCEPT ![i] = FALSE]
  /\ nTaskCnt' = nTaskCnt - 1
  /\ call' = [call EXCEPT ![Owner].slot = i + 1]
  /\ Goto(Owner, "all")
  /\ UNCHANGED <<funcTask, bDaemon, tDaemon, daemonVars, aborted>>

(* assert(0 == nTaskCnt) after the last slot.                              *)
AllDone ==
  /\ cpc[Owner] = "all" /\ call[Owner].slot = MaxTask
  /\ aborted' = (nTaskCnt # 0)
  /\ call' = [call EXCEPT ![Owner] = NoCall]
  /\ Goto(Owner, "daemon")
  /\ UNCHANGED <<taskVars, nTaskCnt, bDaemon, tDaemon, daemonVars, armed>>

(* Init while a daemon runs, and Destroy while none does, end here.        *)
DaemonRefused ==
  /\ cpc[Owner] = "daemon"
  /\ Goto(Owner, "idle")
  /\ UNCHANGED <<taskVars, nTaskCnt, bDaemon, tDaemon, daemonVars, call, aborted, armed>>

(* timetick_DaemonStart sleeps 5 ms, taken to be long enough for the thread *)
(* to have begun.                                                          *)
DaemonStart ==
  /\ cpc[Owner] = "daemon" /\ ~tDaemon
  /\ tDaemon' = TRUE
  /\ dpc' = "begin"
  /\ Goto(Owner, "sleep")
  /\ UNCHANGED <<taskVars, nTaskCnt, bDaemon, di, CurrentTask, dval, call, aborted, armed>>

DaemonStarted ==
  /\ cpc[Owner] = "sleep" /\ dpc # "begin"
  /\ Goto(Owner, "idle")
  /\ UNCHANGED <<taskVars, nTaskCnt, bDaemon, tDaemon, daemonVars, call, aborted, armed>>

(* Mutant of DaemonStop: the flag that keeps the daemon going stays set.   *)
DaemonStopUnsaid ==
  /\ cpc[Owner] = "daemon" /\ tDaemon
  /\ Goto(Owner, "join")
  /\ UNCHANGED <<taskVars, nTaskCnt, bDaemon, tDaemon, daemonVars, call, aborted, armed>>

DaemonStop ==
  /\ cpc[Owner] = "daemon" /\ tDaemon
  /\ bDaemon' = FALSE
  /\ Goto(Owner, "join")
  /\ UNCHANGED <<taskVars, nTaskCnt, tDaemon, daemonVars, call, aborted, armed>>

(* Mutant of DaemonJoin: the daemon is not waited for.                     *)
DaemonLeft ==
  /\ cpc[Owner] = "join"
  /\ tDaemon' = FALSE
  /\ Goto(Owner, "idle")
  /\ UNCHANGED <<taskVars, nTaskCnt, bDaemon, daemonVars, call, aborted, armed>>

DaemonJoin ==
  /\ cpc[Owner] = "join" /\ dpc = "none"
  /\ tDaemon' = FALSE
  /\ Goto(Owner, "idle")
  /\ UNCHANGED <<taskVars, nTaskCnt, bDaemon, daemonVars, call, aborted, armed>>

-----------------------------------------------------------------------------
(* What a caller does once it has made its call.                           *)
CallStep(c) ==
  \/ AddArm(c) \/ AddTooLate(c) \/ AddFunc(c) \/ RemoveFunc(c) \/ Count(c)
  \/ /\ c = Owner
     /\ \/ AllStep \/ AllCounted \/ AllDone
        \/ DaemonRefused \/ DaemonStart \/ DaemonStarted \/ DaemonStop \/ DaemonJoin

Next ==
  /\ ~aborted
  /\ \/ DaemonStep
     \/ InitOrDestroy
     \/ \E c \in Callers : CallStep(c)
     \/ \E c \in Callers, t \in Tasks : AddCheck(c, t)
     \/ \E c \in Callers, t \in Tasks \cup {NoTask} : RemoveDisarm(c, t)

Spec == Init /\ [][Next]_vars

(* Threads that can run do; tasks return.  Nothing makes anyone call.      *)
FairSpec ==
  /\ Spec
  /\ WF_vars(~aborted /\ DaemonStep)
  /\ \A c \in Callers : WF_vars(~aborted /\ CallStep(c))

-----------------------------------------------------------------------------
(* Properties.                                                             *)

TypeOK ==
  /\ funcTask \in [Slots -> Tasks \cup {NoTask}]
  /\ nTaskTick \in [Slots -> -1 .. MaxTick] /\ nTaskInterval \in [Slots -> 0 .. MaxTick]
  /\ nTaskCnt \in 0 .. MaxTask
  /\ bDaemon \in BOOLEAN /\ tDaemon \in BOOLEAN /\ aborted \in BOOLEAN
  /\ dpc \in {"none", "begin", "scan", "load", "store", "run", "rearm"}
  /\ di \in 0 .. MaxTask /\ CurrentTask \in Tasks \cup {NoTask} /\ dval \in -1 .. MaxTick
  /\ cpc \in [Callers -> {"idle", "find", "func", "count", "unfunc", "uncount",
                          "all", "all_disarm", "daemon", "sleep", "join"}]
  /\ call \in [Callers -> [task : Tasks \cup {NoTask}, slot : 0 .. MaxTask]]
  /\ armed \in [Slots -> BOOLEAN]

NoCalls == \A c \in Callers : cpc[c] = "idle"

(* The count by which calls are refused is the number of tasks in the      *)
(* table, and the assertion of TIMETICK_RemoveAllTask holds, as long as    *)
(* one thread makes the calls.                                             *)
CountIsTasks ==
  /\ ~aborted
  /\ NoCalls => nTaskCnt = Cardinality({i \in Slots : funcTask[i] # NoTask})

(* After TIMETICK_Destroy no task runs or is about to, the one that was    *)
(* running when it was called included.                                    *)
DestroyedRests == ~tDaemon => dpc = "none"

(* A task that stays in the table of a running daemon is called again and  *)
(* again, however the daemon's accesses to the counters and those of the   *)
(* callers that add and remove follow one another, unless the slot's       *)
(* counter was spoilt when the task got it: set while the daemon was about *)
(* to write back what it had read before, or cleared since by a removal    *)
(* that meant another task.                                                *)
TaskRuns ==
  \A t \in Tasks :
    <>[](bDaemon /\ \E i \in Slots : funcTask[i] = t /\ armed[i])
      => []<>(dpc = "run" /\ CurrentTask = t)

(* TIMETICK_Destroy returns, whatever the daemon is doing when it is called. *)
DestroyReturns == cpc[Owner] = "join" ~> cpc[Owner] = "idle"

=============================================================================
