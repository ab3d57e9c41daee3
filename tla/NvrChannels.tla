---------------------------- MODULE NvrChannels ----------------------------
(***************************************************************************)
(* The network channels of the NVR (src/app/nvrpc_function.c): the table   *)
(* of channels, each with the thread that talks to its camera, the DNVR    *)
(* thread that follows the switch's links and searches the LAN for cameras *)
(* (dnvr_thread_func), and the calls of the rest of the program:           *)
(* NVRPC_destory and NVRPC_Search.  A channel's thread (NVRPC_hg_run) only *)
(* shows here as something that ends some time after running is cleared.   *)
(*                                                                         *)
(* An address is a pair <<net, host>>: the LAN's own address always has    *)
(* host 10 (generate_lan_ipaddr), so that the net is all that changes.     *)
(***************************************************************************)
EXTENDS Integers, FiniteSets

CONSTANTS MaxCam,      \* MAX_CAM_CH
          Nets,        \* the nets generate_lan_ipaddr chooses from
          Hosts,       \* the hosts a camera may have, 11..254 in the code
          Devices,     \* the cameras, by their device id
          NoDev,       \* the empty dev_id of a channel of the configuration
          NoAddr,      \* the empty ip of a channel that was stopped
          Enabled,     \* channels the environment enables (IsEnableIPCChannel)
          EnvAddr,     \* GetIPCamAddr of each channel
          CamAddr,     \* addresses a camera may come with
          WanMax,      \* IPC_WAN_MAX_NUM
          Calls        \* the calls the rest of the program makes

Chans == 0 .. MaxCam - 1
Addr == Nets \X Hosts

ASSUME NvrAssumption ==
  /\ MaxCam \in Nat \ {0} /\ WanMax \in Nat
  /\ Hosts \subseteq Nat /\ IsFiniteSet(Hosts) /\ Cardinality(Hosts) > MaxCam + WanMax
  /\ NoDev \notin Devices /\ NoAddr \notin Addr /\ CamAddr \subseteq Addr
  /\ Calls \subseteq {"destroy", "search", "set_ip"}
  /\ Enabled \subseteq Chans /\ EnvAddr \in [Chans -> Addr \cup {NoAddr}]

VARIABLES
  using,            \* args[c].using_flag
  ip,               \* args[c].ip
  dev,              \* args[c].dev_id
  running,          \* args[c].running
  thr,              \* the thread args[c].running_id names
  lock,             \* holder of lock_thread_restart
  arp,              \* addresses bound to a MAC (arp -s)
  lan, eth,         \* net of g_prc.lan_ip, and of the LAN device itself
  lan_status,       \* get_lan_ip_status
  filter,           \* dnvr_search.ip_filter_list
  lan_searching, wan_searching,
  dnvr_running,     \* g_prc.dnvr_thread_running
  pc, at, purpose,  \* the DNVR thread, the channel it works on and why
  par,              \* search_ctx.params: device and address
  now, last,        \* links: tmp_loss and last_loss
  rpc, ri,          \* NVRPC_destory and its loop variable
  spc,              \* NVRPC_Search
  misjoin,          \* some thread was joined that was joined before
  late,             \* channels started after NVRPC_destory has let the lock go
  rounds            \* LAN searches begun during the current NVRPC_Search

table == <<using, ip, dev, running, thr>>
lanVars == <<lan, eth, lan_status>>
searchVars == <<filter, lan_searching, wan_searching, spc, rounds>>
linkVars == <<now, last>>
threadVars == <<pc, at, purpose, par>>
endVars == <<dnvr_running, rpc, ri, misjoin, late>>
vars == <<table, lock, arp, lanVars, searchVars, linkVars, threadVars, endVars>>

Pcs == {"top", "link", "lan", "all", "window", "wan", "begin", "recv",
        "stop", "join", "stuck", "start_nvr", "start_dnvr", "arp", "over"}

TypeOK ==
  /\ using \in [Chans -> BOOLEAN] /\ running \in [Chans -> BOOLEAN]
  /\ ip \in [Chans -> Addr \cup {NoAddr}] /\ dev \in [Chans -> Devices \cup {NoDev}]
  /\ thr \in [Chans -> {"none", "run", "over", "joined"}]
  /\ lock \in {"free", "dnvr", "rpc"} /\ arp \subseteq Addr \cup {NoAddr}
  /\ lan \in Nets /\ eth \in Nets /\ lan_status \in BOOLEAN
  /\ filter \subseteq Addr
  /\ lan_searching \in BOOLEAN /\ wan_searching \in BOOLEAN /\ dnvr_running \in BOOLEAN
  /\ pc \in Pcs /\ at \in 0 .. MaxCam /\ purpose \in {"link", "all", "modify"}
  /\ par \in [id : Devices \cup {NoDev}, ip : Addr \cup {NoAddr}]
  /\ now \subseteq Chans /\ last \subseteq Chans
  /\ rpc \in {"idle", "join", "flag", "wait", "done"} /\ ri \in 0 .. MaxCam
  /\ spc \in {"idle", "wait", "file"}
  /\ misjoin \in BOOLEAN /\ late \subseteq Chans /\ rounds \in 0 .. 2

NoPar == [id |-> NoDev, ip |-> NoAddr]

(* NVRPC_init: the enabled channels get a thread, then the DNVR thread runs. *)
Init ==
  /\ using = [c \in Chans |-> c \in Enabled] /\ running = using
  /\ ip = EnvAddr /\ dev = [c \in Chans |-> NoDev]
  /\ thr = [c \in Chans |-> IF c \in Enabled THEN "run" ELSE "none"]
  /\ lock = "free" /\ arp = {} /\ lan \in Nets /\ eth = lan /\ lan_status = FALSE
  /\ filter = {} /\ lan_searching = FALSE /\ wan_searching = FALSE /\ dnvr_running = TRUE
  /\ pc = "top" /\ at = 0 /\ purpose = "link" /\ par = NoPar
  /\ now = {} /\ last = {}
  /\ rpc = "idle" /\ ri = 0 /\ spc = "idle"
  /\ misjoin = FALSE /\ late = {} /\ rounds = 0

Goto(label) == pc' = label /\ UNCHANGED <<at, purpose, par>>

(* Done with the channel: what the thread knows of it is not used again.   *)
Forget(label) == pc' = label /\ at' = 0 /\ purpose' = "link" /\ par' = NoPar

-----------------------------------------------------------------------------
(* The table: starting and stopping a channel.                             *)

(* The body of _start_nvr_channel and _start_dnvr_channel under the lock.  *)
Start(c, addr, id) ==
  /\ using' = [using EXCEPT ![c] = TRUE] /\ running' = [running EXCEPT ![c] = TRUE]
  /\ ip' = [ip EXCEPT ![c] = addr] /\ dev' = [dev EXCEPT ![c] = id]
  /\ thr' = [thr EXCEPT ![c] = "run"]
  /\ late' = IF rpc \in {"flag", "wait", "done"} THEN late \cup {c} ELSE late

(* Mutant of StopLock: the lock of the table is not waited for.            *)
StopUnlocked ==
  /\ pc = "stop" /\ lock' = "dnvr"
  /\ running' = IF using[at] THEN [running EXCEPT ![at] = FALSE] ELSE running
  /\ Goto("join")
  /\ UNCHANGED <<using, ip, dev, thr, arp, lanVars, searchVars, linkVars, endVars>>

(* _stop_channel up to the join, which is made with the lock held.         *)
StopLock ==
  /\ pc = "stop" /\ lock = "free" /\ lock' = "dnvr"
  /\ running' = IF using[at] THEN [running EXCEPT ![at] = FALSE] ELSE running
  /\ Goto("join")
  /\ UNCHANGED <<using, ip, dev, thr, arp, lanVars, searchVars, linkVars, endVars>>

AfterStop ==
  CASE purpose = "link" -> "start_nvr"
    [] purpose = "modify" -> "start_dnvr"
    [] purpose = "all" -> "all"

(* The join, the end of the address binding and the memset of the entry.   *)
(* The thread may be one that NVRPC_destory has joined: C does not say     *)
(* what the second join does, so it returns here, or never does in         *)
(* StopStuck.                                                              *)
StopJoin ==
  /\ pc = "join" /\ (using[at] => thr[at] # "run")
  /\ lock' = "free" /\ Goto(AfterStop)
  /\ IF using[at]
     THEN /\ misjoin' = (misjoin \/ thr[at] # "over")
          /\ arp' = arp \ {ip[at]}
          /\ using' = [using EXCEPT ![at] = FALSE] /\ running' = [running EXCEPT ![at] = FALSE]
          /\ ip' = [ip EXCEPT ![at] = NoAddr] /\ dev' = [dev EXCEPT ![at] = NoDev]
          /\ thr' = [thr EXCEPT ![at] = "none"]
     ELSE UNCHANGED <<table, arp, misjoin>>
  /\ UNCHANGED <<lanVars, searchVars, linkVars, dnvr_running, rpc, ri, late>>

(* A join of a joined thread that does not return, or ends the process;    *)
(* the lock stays held.                                                    *)
StopStuck ==
  /\ pc = "join" /\ using[at] /\ thr[at] = "joined"
  /\ misjoin' = TRUE /\ Goto("stuck")
  /\ UNCHANGED <<table, lock, arp, lanVars, searchVars, linkVars, dnvr_running, rpc, ri, late>>

(* _start_nvr_channel, after the link of a channel has gone.               *)
StartNvr ==
  /\ pc = "start_nvr" /\ lock = "free"
  /\ IF at \in Enabled THEN Start(at, EnvAddr[at], NoDev) ELSE UNCHANGED <<table, late>>
  /\ pc' = "link" /\ at' = at + 1
  /\ UNCHANGED <<purpose, par, lock, arp, lanVars, searchVars, linkVars,
                 dnvr_running, rpc, ri, misjoin>>

(* The second half of _modify_channel.                                     *)
StartDnvr ==
  /\ pc = "start_dnvr" /\ lock = "free"
  /\ Start(at, par.ip, par.id)
  /\ Goto("arp")
  /\ UNCHANGED <<lock, arp, lanVars, searchVars, linkVars, dnvr_running, rpc, ri, misjoin>>

LockRelation ==
  /\ pc = "arp" /\ arp' = arp \cup {par.ip}
  /\ Forget("recv")
  /\ UNCHANGED <<table, lock, lanVars, searchVars, linkVars, endVars>>

(* A channel's thread sees running cleared and returns.                    *)
ThreadEnds(c) ==
  /\ thr[c] = "run" /\ ~running[c]
  /\ thr' = [thr EXCEPT ![c] = "over"]
  /\ UNCHANGED <<using, ip, dev, running, lock, arp, lanVars, searchVars, linkVars,
                 threadVars, endVars>>

-----------------------------------------------------------------------------
(* The DNVR thread: links of the switch and the address of the LAN.        *)

Exit ==
  /\ pc = "top" /\ ~dnvr_running /\ Goto("over")
  /\ UNCHANGED <<table, lock, arp, lanVars, searchVars, linkVars, endVars>>

(* A look at the switch.  A change has to be seen three times, with the    *)
(* two looks before it only counted: those leave all of this as it is.     *)
Look(links) ==
  /\ pc = "top" /\ dnvr_running
  /\ \/ links = last /\ Goto("lan") /\ UNCHANGED now
     \/ links # last /\ now' = links /\ pc' = "link" /\ at' = 0 /\ UNCHANGED <<purpose, par>>
  /\ UNCHANGED <<table, lock, arp, lanVars, searchVars, last, endVars>>

(* Mutant of LinkStep: one channel too many is looked at.                  *)
LinkStepPast ==
  /\ pc = "link"
  /\ IF at \in last \ now /\ using[at]
     THEN pc' = "stop" /\ purpose' = "link" /\ UNCHANGED at
     ELSE at' = at + 1 /\ UNCHANGED <<pc, purpose>>
  /\ UNCHANGED <<par, table, lock, arp, lanVars, searchVars, linkVars, endVars>>

(* _check_switch_link: the channels whose link has gone are restarted with *)
(* the address of the configuration.                                       *)
LinkStep ==
  /\ pc = "link" /\ at < MaxCam
  /\ IF at \in last \ now /\ using[at]
     THEN pc' = "stop" /\ purpose' = "link" /\ UNCHANGED at
     ELSE at' = at + 1 /\ UNCHANGED <<pc, purpose>>
  /\ UNCHANGED <<par, table, lock, arp, lanVars, searchVars, linkVars, endVars>>

LinkDone ==
  /\ pc = "link" /\ at = MaxCam
  /\ last' = now /\ now' = {} /\ Forget("lan")
  /\ UNCHANGED <<table, lock, arp, lanVars, searchVars, endVars>>

(* _update_lan_ipaddr(0x2), later than 30 s after the last change: with    *)
(* DHCP the LAN moves to a net that differs from the WAN's, and when that  *)
(* is not the net the device has, or get_ipaddr cannot tell, every channel *)
(* is stopped.                                                             *)
LanMoves(net) ==
  /\ pc = "lan" /\ lan_status
  /\ lan' = net /\ eth' = net /\ lan_status' = FALSE
  /\ \/ eth = net /\ Goto("window")
     \/ pc' = "all" /\ at' = 0 /\ UNCHANGED <<purpose, par>>
  /\ UNCHANGED <<table, lock, arp, searchVars, linkVars, endVars>>

(* No change of the address is pending, or a static one that is not        *)
(* handled here.                                                           *)
LanStays ==
  /\ pc = "lan" /\ Goto("window")
  /\ UNCHANGED <<table, lock, arp, lanVars, searchVars, linkVars, endVars>>

(* _stop_all_channel.                                                      *)
AllStep ==
  /\ pc = "all"
  /\ IF at = MaxCam THEN Forget("window")
     ELSE IF using[at] THEN pc' = "stop" /\ purpose' = "all" /\ UNCHANGED <<at, par>>
     ELSE at' = at + 1 /\ UNCHANGED <<pc, purpose, par>>
  /\ UNCHANGED <<table, lock, arp, lanVars, searchVars, linkVars, endVars>>

(* The search goes on for search_time after the last change of the links;  *)
(* the clock is left out, so the window may be over at any look at it.     *)
WindowOver ==
  /\ pc = "window" /\ Goto("top")
  /\ lan_searching' = FALSE
  /\ filter' = IF lan_searching THEN {} ELSE filter
  /\ UNCHANGED <<table, lock, arp, lanVars, wan_searching, spc, rounds, linkVars, endVars>>

(* _update_lan_ipaddr(0x1) inside the window: a static address moves the   *)
(* LAN's net without a stop of the channels; DHCP is left pending.         *)
WindowOpen(net) ==
  /\ pc = "window" /\ Goto("wan")
  /\ \/ /\ lan_status /\ lan' = net /\ lan_status' = FALSE /\ UNCHANGED eth
     \/ /\ net = lan /\ UNCHANGED lanVars
  /\ UNCHANGED <<table, lock, arp, searchVars, linkVars, endVars>>

-----------------------------------------------------------------------------
(* The DNVR thread: the search for cameras.                                *)

(* Mutant of GiveWay: the flag that NVRPC_Search waits for stays set.      *)
GiveWayUnsaid ==
  /\ pc = "wan" /\ wan_searching /\ Goto("top")
  /\ UNCHANGED <<table, lock, arp, lanVars, searchVars, linkVars, endVars>>

GiveWay ==
  /\ pc = "wan" /\ wan_searching
  /\ lan_searching' = FALSE /\ Goto("top")
  /\ UNCHANGED <<table, lock, arp, lanVars, filter, wan_searching, spc, rounds,
                 linkVars, endVars>>

(* Mutant of NoWan: wan_searching is not looked at.                        *)
AnyWan ==
  /\ pc = "wan" /\ Goto("begin")
  /\ UNCHANGED <<table, lock, arp, lanVars, searchVars, linkVars, endVars>>

NoWan ==
  /\ pc = "wan" /\ ~wan_searching /\ Goto("begin")
  /\ UNCHANGED <<table, lock, arp, lanVars, searchVars, linkVars, endVars>>

(* _init_search_request: bind or sendto may fail.                          *)
Begin ==
  /\ pc = "begin" /\ lan_searching' = TRUE
  /\ pc' \in {"recv", "top"} /\ UNCHANGED <<at, purpose, par>>
  /\ rounds' = IF wan_searching /\ rounds < 2 THEN rounds + 1 ELSE rounds
  /\ UNCHANGED <<table, lock, arp, lanVars, filter, wan_searching, spc, linkVars, endVars>>

(* _check_param: the last channel in use that already has this camera.     *)
OldRunning(id, addr) ==
  LET same == {c \in Chans : using[c] /\ ip[c] = addr /\ dev[c] = id}
  IN {c \in same : \A o \in same : o <= c}

(* Mutant of MustChange: another camera's address is not noticed.          *)
MustChangeNet(id, addr) == addr[1] # lan \/ addr \in filter

(* _check_ipc_ip: outside the LAN's net, another camera's, or filtered.    *)
MustChange(id, addr) ==
  \/ addr[1] # lan
  \/ \E c \in Chans : using[c] /\ ip[c] = addr /\ dev[c] # id
  \/ addr \in filter

(* _found_ipc_ip: the first host of the LAN no entry of the table and no   *)
(* filter has.  Hosts are compared, whatever the net.  While the first     *)
(* entry is empty its address is read into a variable that was never set,  *)
(* which may rule one more host out.                                       *)
FreeHosts ==
  {h \in Hosts : /\ \A c \in Chans : ip[c] # NoAddr => ip[c][2] # h
                 /\ <<lan, h>> \notin filter}

FoundHost(h) ==
  \E unset \in Hosts \cup {0} :
    LET free == IF ip[0] = NoAddr THEN FreeHosts \ {unset} ELSE FreeHosts
    IN h \in free /\ \A o \in free : h <= o

(* A camera answers from a port of the LAN.  One that is new there gets    *)
(* its channel restarted, after another address is written to the entry    *)
(* and sent to it when its own is taken.                                   *)
AnswerLan(id, addr, c) ==
  /\ pc = "recv"
  /\ IF OldRunning(id, addr) = {c} THEN UNCHANGED <<threadVars, ip>>
     ELSE /\ \/ MustChange(id, addr) /\ \E h \in Hosts :
                   /\ FoundHost(h)
                   /\ par' = [id |-> id, ip |-> <<lan, h>>]
                   /\ ip' = [ip EXCEPT ![c] = <<lan, h>>]
             \/ ~MustChange(id, addr) /\ par' = [id |-> id, ip |-> addr] /\ UNCHANGED ip
          /\ pc' = "stop" /\ at' = c /\ purpose' = "modify"
  /\ UNCHANGED <<using, dev, running, thr, lock, arp, lanVars, filter, lan_searching,
                 wan_searching, spc, rounds, linkVars, endVars>>

(* One answers from the WAN port: its address is put on the filter, as     *)
(* long as there is room (_check_and_update_wan_ipc_ip_filter).            *)
AnswerWan(id, addr) ==
  /\ pc = "recv"
  /\ filter' = IF addr[1] = lan /\ Cardinality(filter) < WanMax
               THEN filter \cup {addr} ELSE filter
  /\ UNCHANGED <<table, lock, arp, lanVars, lan_searching, wan_searching, spc, rounds,
                 linkVars, threadVars, endVars>>

(* select times out or fails, or an answer cannot be parsed.               *)
Silence ==
  /\ pc = "recv" /\ Goto("top")
  /\ UNCHANGED <<table, lock, arp, lanVars, filter, lan_searching, wan_searching, spc, rounds,
                 linkVars, endVars>>

-----------------------------------------------------------------------------
(* The calls of the rest of the program.                                   *)

(* Mutant of Destroy: the threads are not told to end.                     *)
DestroyUntold ==
  /\ rpc = "idle" /\ lock = "free" /\ lock' = "rpc"
  /\ rpc' = "join" /\ ri' = 0
  /\ UNCHANGED <<table, arp, lanVars, searchVars, linkVars, threadVars,
                 dnvr_running, misjoin, late>>

Destroy ==
  /\ rpc = "idle" /\ lock = "free" /\ lock' = "rpc"
  /\ running' = [c \in Chans |-> running[c] /\ ~using[c]]
  /\ rpc' = "join" /\ ri' = 0
  /\ UNCHANGED <<using, ip, dev, thr, arp, lanVars, searchVars, linkVars, threadVars,
                 dnvr_running, misjoin, late>>

(* Mutant of DestroyJoin: the threads are not waited for.                  *)
DestroyDetach ==
  /\ rpc = "join" /\ ri < MaxCam /\ ri' = ri + 1
  /\ UNCHANGED <<table, lock, arp, lanVars, searchVars, linkVars, threadVars,
                 dnvr_running, rpc, misjoin, late>>

DestroyJoin ==
  /\ rpc = "join" /\ ri < MaxCam /\ (using[ri] => thr[ri] # "run")
  /\ ri' = ri + 1
  /\ IF using[ri] THEN /\ misjoin' = (misjoin \/ thr[ri] # "over")
                       /\ thr' = [thr EXCEPT ![ri] = "joined"] /\ arp' = arp \ {ip[ri]}
     ELSE UNCHANGED <<thr, arp, misjoin>>
  /\ UNCHANGED <<using, ip, dev, running, lock, lanVars, searchVars, linkVars, threadVars,
                 dnvr_running, rpc, late>>

DestroyUnlock ==
  /\ rpc = "join" /\ ri = MaxCam /\ lock' = "free" /\ rpc' = "flag" /\ ri' = 0
  /\ UNCHANGED <<table, arp, lanVars, searchVars, linkVars, threadVars,
                 dnvr_running, misjoin, late>>

DestroyFlag ==
  /\ rpc = "flag" /\ dnvr_running' = FALSE /\ rpc' = "wait"
  /\ UNCHANGED <<table, lock, arp, lanVars, searchVars, linkVars, threadVars, ri, misjoin, late>>

DestroyDone ==
  /\ rpc = "wait" /\ pc = "over" /\ rpc' = "done"
  /\ UNCHANGED <<table, lock, arp, lanVars, searchVars, linkVars, threadVars,
                 dnvr_running, ri, misjoin, late>>

SearchCall ==
  /\ spc = "idle" /\ spc' = "wait" /\ wan_searching' = TRUE
  /\ UNCHANGED <<table, lock, arp, lanVars, filter, lan_searching, rounds, linkVars,
                 threadVars, endVars>>

(* The LAN's search has given way; or IPC_SEARCH_TIME is over.             *)
SearchStart ==
  /\ spc = "wait" /\ ~lan_searching /\ spc' = "file"
  /\ UNCHANGED <<table, lock, arp, lanVars, filter, lan_searching, wan_searching,
                 rounds, linkVars, threadVars, endVars>>

SearchTimeout ==
  /\ spc = "wait" /\ spc' = "file"
  /\ UNCHANGED <<table, lock, arp, lanVars, filter, lan_searching, wan_searching,
                 rounds, linkVars, threadVars, endVars>>

SearchEnd ==
  /\ spc = "file" /\ spc' = "idle" /\ wan_searching' = FALSE /\ rounds' = 0
  /\ UNCHANGED <<table, lock, arp, lanVars, filter, lan_searching, linkVars,
                 threadVars, endVars>>

(* XENVACT_set_ip tells of a new address of the WAN.                       *)
SetIp ==
  /\ ~lan_status /\ lan_status' = TRUE
  /\ UNCHANGED <<table, lock, arp, lan, eth, searchVars, linkVars, threadVars, endVars>>

Dnvr ==
  \/ StopLock \/ StopJoin \/ StopStuck \/ StartNvr \/ StartDnvr \/ LockRelation
  \/ Exit \/ (\E links \in SUBSET Chans : Look(links)) \/ LinkStep \/ LinkDone
  \/ (\E net \in Nets : LanMoves(net) \/ WindowOpen(net)) \/ LanStays \/ AllStep
  \/ WindowOver \/ GiveWay \/ NoWan \/ Begin \/ Silence

Answers ==
  \E id \in Devices, addr \in CamAddr \cup {ip[c] : c \in Chans} :
    /\ addr # NoAddr
    /\ AnswerWan(id, addr) \/ \E c \in Chans : AnswerLan(id, addr, c)

DestroySteps == DestroyJoin \/ DestroyUnlock \/ DestroyFlag \/ DestroyDone

Called ==
  \/ "destroy" \in Calls /\ Destroy
  \/ "search" \in Calls /\ (SearchCall \/ SearchTimeout)
  \/ "set_ip" \in Calls /\ SetIp

Next == Dnvr \/ Answers \/ (\E c \in Chans : ThreadEnds(c)) \/ DestroySteps
        \/ SearchStart \/ SearchEnd \/ Called

Spec == Init /\ [][Next]_vars

(* The threads go on, a camera's thread looks at running now and then (see *)
(* StopEnds of HgSession: a camera that sends a short header is not here), *)
(* and the answers to one request of the search come to an end.            *)
FairSpec == Spec /\ WF_vars(Dnvr) /\ WF_vars(DestroySteps) /\ SF_vars(Silence)
                 /\ WF_vars(SearchStart) /\ WF_vars(SearchEnd)
                 /\ \A c \in Chans : WF_vars(ThreadEnds(c))

-----------------------------------------------------------------------------
(* Two channels in use never share an address, but for one camera that is  *)
(* known from two ports, and a channel the configuration has started again *)
(* with its own address: the search looks the table up, gives a new        *)
(* address and only then stops and restarts the channel.                   *)
AddressesDiffer ==
  \A a, b \in Chans :
    a # b /\ using[a] /\ using[b] /\ ip[a] = ip[b] /\ ip[a] # NoAddr =>
      dev[a] = dev[b] \/ NoDev \in {dev[a], dev[b]}

(* No thread is joined twice, by NVRPC_destory and by a stop of the DNVR   *)
(* thread, as long as the first of them holds the lock.  Afterwards it may *)
(* be: the entries stay in use.                                            *)
JoinedOnce == misjoin => rpc \in {"flag", "wait", "done"}

(* When NVRPC_destory returns, every thread that still runs was started by *)
(* the DNVR thread between the unlock and the end of that thread.          *)
LeftoverIsLate == rpc = "done" => {c \in Chans : thr[c] = "run"} \subseteq late

(* The DNVR thread looks at wan_searching before it sets lan_searching,    *)
(* and NVRPC_Search does it the other way round: at most one search of the *)
(* LAN begins while NVRPC_Search is at work.                               *)
OneRoundUnderSearch == rounds <= 1

(* Not just by its time-out does NVRPC_Search get to search: the LAN's     *)
(* search gives way, however many cameras are being set up, while there is *)
(* a DNVR thread, which is neither over nor stuck in a second join.        *)
LanGivesWay ==
  (spc = "wait") ~> (spc # "wait" \/ ~lan_searching \/ pc \in {"over", "stuck"})

(* NVRPC_destory, which joins the cameras' threads with the lock held, and *)
(* then the thread that may want that lock, returns; unless that thread    *)
(* has joined a thread again that NVRPC_destory had joined (see            *)
(* JoinedOnce), after which nothing is promised.                           *)
DestroyReturns == (rpc = "join") ~> (rpc = "done" \/ misjoin)
=============================================================================
