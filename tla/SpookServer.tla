---------------------------- MODULE SpookServer ----------------------------
(***************************************************************************)
(* The session server (app/spook/spook.c): one port on which every network *)
(* protocol of the recorder is served.                                     *)
(*                                                                         *)
(*   - The server thread binds the port, polls it every two seconds,       *)
(*     accepts a connection, checks its address and gives it to a session. *)
(*   - Each session has a slot and a thread, which peeks at the first      *)
(*     bytes, asks one registered task after the other whether they are of *)
(*     its protocol, runs the loop of the task that says so, and leaves.   *)
(*   - The program that owns the server registers and removes tasks,       *)
(*     reloads the server on another port and destroys it.                 *)
(*                                                                         *)
(* No lock guards any of it.  A step is what happens between two accesses  *)
(* to state that another thread uses; flags and counters are read and      *)
(* written whole.  The tasks are external: their probes and loops are      *)
(* modelled from what the server does with their answers.                  *)
(***************************************************************************)
EXTENDS Naturals, FiniteSets

CONSTANTS
  NumSession,    (* slots of the session table, 256 in the code            *)
  NumEntry,      (* slots of the entry table, 256 in the code              *)
  MaxRetry,      (* undetermined answers a session puts up with, 5         *)
  Modulus,       (* n_entry is an unsigned number below it                 *)
  Protocols,     (* the protocols that tasks are registered for            *)
  Fds,           (* file descriptors the process may have open             *)
  Null,          (* no descriptor, no function, no protocol                *)
  Calls,         (* what the owner does besides init and add_session       *)
  EarlyClients   (* whether clients connect before a task is registered    *)

ASSUME SpookAssumption ==
  /\ NumSession \in Nat \ {0} /\ NumEntry \in Nat \ {0} /\ MaxRetry \in Nat
  /\ Modulus \in Nat /\ Modulus > NumEntry
  /\ IsFiniteSet(Fds) /\ Null \notin Fds /\ Null \notin Protocols
  /\ Calls \subseteq {"reload", "remove", "destroy"}
  /\ EarlyClients \in BOOLEAN

VARIABLES
  up,              (* _spook_server is not NULL                            *)
  server_trigger,
  n_entry, do_probe, do_loop,
  session_trigger, sock,
  spc,             (* where the server thread is                           *)
  listening,       (* its listening socket                                 *)
  conn, slot,      (* the connection in its hands and the slot it looks at *)
  pc,              (* per session: where its thread is                     *)
  ending,          (* per session: what a thread past close has left to do *)
  session_detect, match_retry,
  full,            (* per session: peek_buf_seen has reached the buffer    *)
  cpc, centry,     (* where the owner is, the entry it changes             *)
  open, kind,      (* descriptors open, and the protocol each one speaks   *)
  stray,           (* sessions are left that use the freed server          *)
  lost,            (* how the process was lost, or "no"                    *)
  (* What the properties remember of the past; no step depends on it.      *)
  removed,         (* a task has been removed from this server             *)
  early,           (* per session: set up while no task was counted and    *)
                   (* none had been removed                                *)
  gone             (* per session: the task it hit has been removed since  *)

ownerVars == <<up, server_trigger, cpc, centry>>
entryVars == <<n_entry, do_probe, do_loop>>
slotVars == <<session_trigger, sock, pc, ending>>
probeVars == <<session_detect, match_retry, full>>
serverVars == <<spc, listening, conn, slot>>
fdVars == <<open, kind>>
pastVars == <<removed, early, gone>>
vars == <<ownerVars, entryVars, slotVars, probeVars, serverVars, fdVars, stray, lost, pastVars>>

Slots == 0 .. NumSession-1
Indexes == 0 .. NumEntry-1

(* n - d for the uint32_t n_entry, which wraps round.                      *)
Minus(n, d) == IF n >= d THEN n - d ELSE n + Modulus - d

(* Undefined behaviour or an exit: nothing is said of the process after it. *)
Lose(how) ==
  /\ lost' = how
  /\ UNCHANGED <<ownerVars, entryVars, slotVars, probeVars, serverVars, fdVars, stray, pastVars>>

(* close(fd): the number may be given out again at once.                   *)
CloseFd(f) ==
  /\ open' = open \ {f}
  /\ kind' = [kind EXCEPT ![f] = Null]

-----------------------------------------------------------------------------
(* Before SPOOK_init and after SPOOK_destroy there is no server.           *)

Init ==
  /\ up = FALSE /\ server_trigger = FALSE
  /\ n_entry = 0
  /\ do_probe = [i \in Indexes |-> Null] /\ do_loop = [i \in Indexes |-> Null]
  /\ session_trigger = [s \in Slots |-> FALSE] /\ sock = [s \in Slots |-> Null]
  /\ spc = "none" /\ listening = Null /\ conn = Null /\ slot = 0
  /\ pc = [s \in Slots |-> "none"] /\ ending = [s \in Slots |-> "no"]
  /\ session_detect = [s \in Slots |-> 0] /\ match_retry = [s \in Slots |-> 0]
  /\ full = [s \in Slots |-> FALSE]
  /\ cpc = "idle" /\ centry = 0
  /\ open = {} /\ kind = [f \in Fds |-> Null]
  /\ stray = FALSE /\ lost = "no"
  /\ removed = FALSE /\ early = [s \in Slots |-> FALSE] /\ gone = [s \in Slots |-> FALSE]

-----------------------------------------------------------------------------
(* The server thread.                                                      *)

(* socket, bind, listen: SPOOK_ASSERT exits when there is no descriptor    *)
(* left or when the port is still bound.                                   *)
Bind ==
  /\ spc = "bind"
  /\ \/ /\ listening = Null
        /\ \E f \in Fds \ open : listening' = f /\ open' = open \cup {f}
        /\ spc' = "poll"
        /\ UNCHANGED <<ownerVars, entryVars, slotVars, probeVars, conn, slot, kind, stray, lost, pastVars>>
     \/ (listening # Null \/ Fds \subseteq open) /\ Lose("abort")

(* One turn of the poll loop begins, or the thread closes its socket and ends. *)
Poll ==
  /\ spc = "poll"
  /\ IF server_trigger
     THEN spc' = "select" /\ UNCHANGED <<listening, open, kind>>
     ELSE spc' = "none" /\ listening' = Null /\ CloseFd(listening)
  /\ UNCHANGED <<ownerVars, entryVars, slotVars, probeVars, conn, slot, stray, lost, pastVars>>

(* Mutant of Timeout: the loop goes on without its condition.              *)
TimeoutForEver ==
  /\ spc = "select"
  /\ UNCHANGED vars

(* select times out after two seconds.                                     *)
Timeout ==
  /\ spc = "select"
  /\ spc' = "poll"
  /\ UNCHANGED <<ownerVars, entryVars, slotVars, probeVars, listening, conn, slot, fdVars,
                 stray, lost, pastVars>>

(* A client has connected; accept fails when no descriptor is left.        *)
Accept ==
  /\ spc = "select" /\ (EarlyClients \/ n_entry > 0)
  /\ \/ \E f \in Fds \ open, k \in Protocols \cup {Null} :
          /\ conn' = f /\ open' = open \cup {f}
          /\ kind' = [kind EXCEPT ![f] = k]
          /\ spc' = "check"
          /\ UNCHANGED <<ownerVars, entryVars, slotVars, probeVars, listening, slot, stray, lost, pastVars>>
     \/ Fds \subseteq open /\ Lose("abort")

(* The address is on the black list, or not on the white list.             *)
Refuse ==
  /\ spc = "check"
  /\ CloseFd(conn) /\ conn' = Null
  /\ spc' = "poll"
  /\ UNCHANGED <<ownerVars, entryVars, slotVars, probeVars, listening, slot, stray, lost, pastVars>>

Admit ==
  /\ spc = "check"
  /\ spc' = "setup" /\ slot' = 0
  /\ UNCHANGED <<ownerVars, entryVars, slotVars, probeVars, listening, conn, fdVars, stray, lost, pastVars>>

(* The slot at hand is taken: try the next one.                            *)
SlotTaken ==
  /\ spc = "setup" /\ slot < NumSession /\ session_trigger[slot]
  /\ slot' = slot + 1
  /\ UNCHANGED <<ownerVars, entryVars, slotVars, probeVars, spc, listening, conn, fdVars,
                 stray, lost, pastVars>>

(* The slot at hand is free: a session thread starts in it.                *)
SetupSession ==
  /\ spc = "setup" /\ slot < NumSession /\ ~session_trigger[slot]
  /\ sock' = [sock EXCEPT ![slot] = conn]
  /\ session_trigger' = [session_trigger EXCEPT ![slot] = TRUE]
  /\ pc' = [pc EXCEPT ![slot] = "peek"]
  /\ conn' = Null /\ slot' = 0 /\ spc' = "poll"
  /\ early' = [early EXCEPT ![slot] = (n_entry = 0 /\ ~removed)]
  /\ UNCHANGED <<ownerVars, entryVars, ending, probeVars, listening, fdVars, stray, lost, removed, gone>>

(* Mutant of SetupFails: the caller's close is missing.                    *)
SetupFailsLeaks ==
  /\ spc = "setup" /\ slot = NumSession
  /\ conn' = Null /\ slot' = 0 /\ spc' = "poll"
  /\ UNCHANGED <<ownerVars, entryVars, slotVars, probeVars, listening, fdVars, stray, lost, pastVars>>

(* Every slot was taken when it was looked at.                             *)
SetupFails ==
  /\ spc = "setup" /\ slot = NumSession
  /\ CloseFd(conn) /\ conn' = Null
  /\ slot' = 0 /\ spc' = "poll"
  /\ UNCHANGED <<ownerVars, entryVars, slotVars, probeVars, listening, stray, lost, pastVars>>

ServerStep ==
  Bind \/ Poll \/ Timeout \/ Accept \/ Refuse \/ Admit \/ SlotTaken \/ SetupSession \/ SetupFails

-----------------------------------------------------------------------------
(* A session thread.  Nobody else clears its session_trigger.              *)

(* recv with MSG_PEEK: an error or the 10 s time-out ends the session, and *)
(* so does a buffer that was full already when the answer was undetermined. *)
Peek(s) ==
  /\ pc[s] = "peek"
  /\ \/ /\ ~full[s]
        /\ \E b \in BOOLEAN : full' = [full EXCEPT ![s] = b]
        /\ pc' = [pc EXCEPT ![s] = "probe"]
     \/ pc' = [pc EXCEPT ![s] = "close"] /\ UNCHANGED full
  /\ UNCHANGED <<ownerVars, entryVars, session_trigger, sock, ending, session_detect, match_retry,
                 serverVars, fdVars, stray, lost, pastVars>>

(* do_probe of the entry at hand is about to be called; NULL, or whatever  *)
(* lies behind the table, is not a function.                               *)
CanCall(table, s) == session_detect[s] \in Indexes /\ table[session_detect[s]] # Null

ProbeNull(s) == pc[s] = "probe" /\ ~CanCall(do_probe, s) /\ Lose("null")

(* MATCH: the task knows the protocol of its own kind only.                *)
ProbeMatch(s) ==
  /\ pc[s] = "probe" /\ CanCall(do_probe, s)
  /\ do_probe[session_detect[s]] = kind[sock[s]]
  /\ pc' = [pc EXCEPT ![s] = "hit"]
  /\ UNCHANGED <<ownerVars, entryVars, session_trigger, sock, ending, probeVars, serverVars, fdVars,
                 stray, lost, pastVars>>

ProbeMismatch(s) ==
  /\ pc[s] = "probe" /\ CanCall(do_probe, s)
  /\ do_probe[session_detect[s]] # kind[sock[s]]
  /\ pc' = [pc EXCEPT ![s] = "next"]
  /\ UNCHANGED <<ownerVars, entryVars, session_trigger, sock, ending, probeVars, serverVars, fdVars,
                 stray, lost, pastVars>>

Undetermined(s) == pc[s] = "probe" /\ CanCall(do_probe, s)

(* Mutants of ProbeRetry: one retry too many; retries that are not counted. *)
ProbeRetryOnceMore(s) ==
  /\ Undetermined(s) /\ match_retry[s] <= MaxRetry
  /\ match_retry' = [match_retry EXCEPT ![s] = @ + 1]
  /\ pc' = [pc EXCEPT ![s] = "peek"]
  /\ UNCHANGED <<ownerVars, entryVars, session_trigger, sock, ending, session_detect, full, serverVars, fdVars,
                 stray, lost, pastVars>>

ProbeRetryUncounted(s) ==
  /\ Undetermined(s) /\ match_retry[s] < MaxRetry
  /\ pc' = [pc EXCEPT ![s] = "peek"]
  /\ UNCHANGED <<ownerVars, entryVars, session_trigger, sock, ending, probeVars, serverVars, fdVars,
                 stray, lost, pastVars>>

(* UNDETERMIN: sleep a second and peek again, at most MaxRetry times per task. *)
ProbeRetry(s) ==
  /\ Undetermined(s) /\ match_retry[s] < MaxRetry
  /\ match_retry' = [match_retry EXCEPT ![s] = @ + 1]
  /\ pc' = [pc EXCEPT ![s] = "peek"]
  /\ UNCHANGED <<ownerVars, entryVars, session_trigger, sock, ending, session_detect, full, serverVars, fdVars,
                 stray, lost, pastVars>>

ProbeGiveUp(s) ==
  /\ Undetermined(s) /\ match_retry[s] = MaxRetry
  /\ pc' = [pc EXCEPT ![s] = "close"]
  /\ UNCHANGED <<ownerVars, entryVars, session_trigger, sock, ending, probeVars, serverVars, fdVars,
                 stray, lost, pastVars>>

(* Mutant of NextEntry: n_entry in place of n_entry - 1.                   *)
NextEntryPastEnd(s) ==
  /\ pc[s] = "next"
  /\ IF session_detect[s] < n_entry
     THEN /\ session_detect' = [session_detect EXCEPT ![s] = @ + 1]
          /\ match_retry' = [match_retry EXCEPT ![s] = 0]
          /\ pc' = [pc EXCEPT ![s] = "probe"]
     ELSE pc' = [pc EXCEPT ![s] = "close"] /\ UNCHANGED <<session_detect, match_retry>>
  /\ UNCHANGED <<ownerVars, entryVars, session_trigger, sock, ending, full, serverVars, fdVars,
                 stray, lost, pastVars>>

(* MISMATCH: the next task judges the bytes already peeked, or none is left. *)
NextEntry(s) ==
  /\ pc[s] = "next"
  /\ IF session_detect[s] < Minus(n_entry, 1)
     THEN /\ session_detect' = [session_detect EXCEPT ![s] = @ + 1]
          /\ match_retry' = [match_retry EXCEPT ![s] = 0]
          /\ pc' = [pc EXCEPT ![s] = "probe"]
     ELSE pc' = [pc EXCEPT ![s] = "close"] /\ UNCHANGED <<session_detect, match_retry>>
  /\ UNCHANGED <<ownerVars, entryVars, session_trigger, sock, ending, full, serverVars, fdVars,
                 stray, lost, pastVars>>

(* The entry is read again for its loop.                                   *)
EnterTask(s) ==
  /\ pc[s] = "hit"
  /\ \/ /\ CanCall(do_loop, s)
        /\ pc' = [pc EXCEPT ![s] = "loop"]
        /\ gone' = [gone EXCEPT ![s] = FALSE]
        /\ UNCHANGED <<ownerVars, entryVars, session_trigger, sock, ending, probeVars, serverVars, fdVars,
                       stray, lost, removed, early>>
     \/ ~CanCall(do_loop, s) /\ Lose("null")

(* The task's loop returns when it likes.                                  *)
TaskReturns(s) ==
  /\ pc[s] = "loop"
  /\ pc' = [pc EXCEPT ![s] = "close"]
  /\ UNCHANGED <<ownerVars, entryVars, session_trigger, sock, ending, probeVars, serverVars, fdVars,
                 stray, lost, pastVars>>

(* Mutant of Close: the slot is given back before sock is reset.           *)
CloseReleases(s) ==
  /\ pc[s] = "close"
  /\ CloseFd(sock[s])
  /\ pc' = [pc EXCEPT ![s] = "none"] /\ ending' = [ending EXCEPT ![s] = "clear"]
  /\ session_trigger' = [session_trigger EXCEPT ![s] = FALSE]
  /\ session_detect' = [session_detect EXCEPT ![s] = 0]
  /\ match_retry' = [match_retry EXCEPT ![s] = 0]
  /\ full' = [full EXCEPT ![s] = FALSE] /\ early' = [early EXCEPT ![s] = FALSE]
  /\ UNCHANGED <<ownerVars, entryVars, sock, serverVars, stray, lost, removed, gone>>

(* close(session->sock); the thread's locals are not used any more.        *)
Close(s) ==
  /\ pc[s] = "close"
  /\ CloseFd(sock[s])
  /\ pc' = [pc EXCEPT ![s] = "none"] /\ ending' = [ending EXCEPT ![s] = "clear"]
  /\ session_detect' = [session_detect EXCEPT ![s] = 0]
  /\ match_retry' = [match_retry EXCEPT ![s] = 0]
  /\ full' = [full EXCEPT ![s] = FALSE] /\ early' = [early EXCEPT ![s] = FALSE]
  /\ UNCHANGED <<ownerVars, entryVars, session_trigger, sock, serverVars, stray, lost, removed, gone>>

(* sock = -1, then session_trigger = false gives the slot back.            *)
Clear(s) ==
  /\ ending[s] = "clear"
  /\ sock' = [sock EXCEPT ![s] = Null]
  /\ ending' = [ending EXCEPT ![s] = "release"]
  /\ UNCHANGED <<ownerVars, entryVars, session_trigger, pc, probeVars, serverVars, fdVars,
                 stray, lost, pastVars>>

Release(s) ==
  /\ ending[s] = "release"
  /\ session_trigger' = [session_trigger EXCEPT ![s] = FALSE]
  /\ ending' = [ending EXCEPT ![s] = "no"]
  /\ UNCHANGED <<ownerVars, entryVars, sock, pc, probeVars, serverVars, fdVars, stray, lost, pastVars>>

(* What a session does of its own accord; its task's return is the task's. *)
SessionStep(s) ==
  \/ Peek(s) \/ ProbeNull(s) \/ ProbeMatch(s) \/ ProbeMismatch(s) \/ ProbeRetry(s) \/ ProbeGiveUp(s)
  \/ NextEntry(s) \/ EnterTask(s) \/ Close(s) \/ Clear(s) \/ Release(s)

-----------------------------------------------------------------------------
(* The owner: one thread makes the calls.  A server that is up has a thread *)
(* (server_tid is not 0).                                                  *)

SPOOK_init ==
  /\ cpc = "idle" /\ ~up /\ ~stray
  /\ up' = TRUE
  /\ server_trigger' = TRUE /\ spc' = "bind"
  /\ UNCHANGED <<cpc, centry, entryVars, slotVars, probeVars, listening, conn, slot, fdVars,
                 stray, lost, pastVars>>

(* add_session: the first entry without a name takes a name no entry has.  *)
AddProbe(p) ==
  /\ cpc = "idle" /\ up
  /\ n_entry < NumEntry
  /\ \A i \in Indexes : do_probe[i] # p
  /\ \E i \in Indexes :
       /\ do_probe[i] = Null /\ \A j \in 0 .. i-1 : do_probe[j] # Null
       /\ do_probe' = [do_probe EXCEPT ![i] = p]
       /\ centry' = i
  /\ cpc' = "loop"
  /\ UNCHANGED <<up, server_trigger, n_entry, do_loop, slotVars, probeVars, serverVars, fdVars,
                 stray, lost, pastVars>>

AddLoop ==
  /\ cpc = "loop"
  /\ do_loop' = [do_loop EXCEPT ![centry] = do_probe[centry]]
  /\ cpc' = "count"
  /\ UNCHANGED <<up, server_trigger, centry, n_entry, do_probe, slotVars, probeVars, serverVars, fdVars,
                 stray, lost, pastVars>>

AddCount ==
  /\ cpc = "count"
  /\ n_entry' = n_entry + 1
  /\ cpc' = "idle" /\ centry' = 0
  /\ UNCHANGED <<up, server_trigger, do_probe, do_loop, slotVars, probeVars, serverVars, fdVars,
                 stray, lost, pastVars>>

(* remove_session compares the names from the first entry on: an entry     *)
(* without a name before the one it looks for is strcmp(NULL).             *)
Named(i, p) == do_probe[i] = p /\ \A j \in 0 .. i-1 : do_probe[j] # Null

RemoveUnnamed(p) ==
  /\ cpc = "idle" /\ up /\ "remove" \in Calls
  /\ n_entry > 0
  /\ \A i \in Indexes : ~Named(i, p)
  /\ \E i \in Indexes : do_probe[i] = Null
  /\ Lose("name")

RemoveProbe(p) ==
  /\ cpc = "idle" /\ up /\ "remove" \in Calls
  /\ n_entry > 0
  /\ \E i \in Indexes :
       /\ Named(i, p)
       /\ do_probe' = [do_probe EXCEPT ![i] = Null]
       /\ centry' = i
       /\ gone' = [s \in Slots |-> gone[s] \/ (pc[s] = "hit" /\ session_detect[s] = i)]
  /\ cpc' = "unloop" /\ removed' = TRUE /\ early' = [s \in Slots |-> FALSE]
  /\ UNCHANGED <<up, server_trigger, n_entry, do_loop, slotVars, probeVars, serverVars, fdVars,
                 stray, lost>>

(* Mutant of RemoveLoop: the loop stays in the entry that is free now.     *)
RemoveLoopStays ==
  /\ cpc = "unloop"
  /\ cpc' = "uncount"
  /\ UNCHANGED <<up, server_trigger, centry, entryVars, slotVars, probeVars, serverVars, fdVars,
                 stray, lost, pastVars>>

RemoveLoop ==
  /\ cpc = "unloop"
  /\ do_loop' = [do_loop EXCEPT ![centry] = Null]
  /\ cpc' = "uncount"
  /\ UNCHANGED <<up, server_trigger, centry, n_entry, do_probe, slotVars, probeVars, serverVars, fdVars,
                 stray, lost, pastVars>>

RemoveCount ==
  /\ cpc = "uncount"
  /\ n_entry' = Minus(n_entry, 1)
  /\ cpc' = "idle" /\ centry' = 0
  /\ UNCHANGED <<up, server_trigger, do_probe, do_loop, slotVars, probeVars, serverVars, fdVars,
                 stray, lost, pastVars>>

(* server_stop asks the server thread to end and joins it.                 *)
Stop(call, then) ==
  /\ cpc = "idle" /\ up /\ call \in Calls
  /\ server_trigger' = FALSE
  /\ cpc' = then
  /\ UNCHANGED <<up, centry, entryVars, slotVars, probeVars, serverVars, fdVars, stray, lost, pastVars>>

(* Mutant of Join: the new thread starts without waiting for the old one.  *)
JoinDetached ==
  /\ cpc = "reload"
  /\ server_trigger' = TRUE /\ spc' = "bind" /\ cpc' = "idle"
  /\ UNCHANGED <<up, centry, entryVars, slotVars, probeVars, listening, conn, slot, fdVars,
                 stray, lost, pastVars>>

(* The join of SPOOK_server_reload returns and server_start follows.       *)
Join ==
  /\ cpc = "reload" /\ spc = "none"
  /\ server_trigger' = TRUE /\ spc' = "bind" /\ cpc' = "idle"
  /\ UNCHANGED <<up, centry, entryVars, slotVars, probeVars, listening, conn, slot, fdVars,
                 stray, lost, pastVars>>

(* SPOOK_destroy joins, removes every entry, used or not, and frees the server. *)
ClearEntries ==
  /\ cpc = "destroy" /\ spc = "none"
  /\ do_probe' = [i \in Indexes |-> Null] /\ do_loop' = [i \in Indexes |-> Null]
  /\ n_entry' = Minus(n_entry, NumEntry)
  /\ cpc' = "free"
  /\ removed' = TRUE /\ early' = [s \in Slots |-> FALSE] /\ gone' = [s \in Slots |-> pc[s] = "hit"]
  /\ UNCHANGED <<up, server_trigger, centry, slotVars, probeVars, serverVars, fdVars, stray, lost>>

(* The detached session threads go on with the memory freed.               *)
Free ==
  /\ cpc = "free"
  /\ up' = FALSE /\ cpc' = "idle"
  /\ stray' = \E s \in Slots : session_trigger[s]
  /\ n_entry' = 0
  /\ session_trigger' = [s \in Slots |-> FALSE] /\ sock' = [s \in Slots |-> Null]
  /\ pc' = [s \in Slots |-> "none"] /\ ending' = [s \in Slots |-> "no"]
  /\ session_detect' = [s \in Slots |-> 0] /\ match_retry' = [s \in Slots |-> 0]
  /\ full' = [s \in Slots |-> FALSE]
  /\ removed' = FALSE /\ early' = [s \in Slots |-> FALSE] /\ gone' = [s \in Slots |-> FALSE]
  /\ UNCHANGED <<server_trigger, centry, do_probe, do_loop, serverVars, fdVars, lost>>

(* One of them reads or writes its session, or an entry of no server.      *)
StrayRuns == stray /\ Lose("freed")

OwnerWaits == Join \/ ClearEntries

OwnerStep ==
  \/ SPOOK_init
  \/ \E p \in Protocols : AddProbe(p) \/ RemoveUnnamed(p) \/ RemoveProbe(p)
  \/ AddLoop \/ AddCount \/ RemoveLoop \/ RemoveCount
  \/ Stop("reload", "reload") \/ Stop("destroy", "destroy")
  \/ OwnerWaits \/ Free

Next ==
  /\ lost = "no"
  /\ \/ ServerStep
     \/ \E s \in Slots : SessionStep(s) \/ TaskReturns(s)
     \/ OwnerStep
     \/ StrayRuns

Spec == Init /\ [][Next]_vars

(* A thread that can run does: select and recv have time-outs, join returns *)
(* when the thread joined has ended.  Nothing makes clients connect, tasks  *)
(* return or the owner call.                                               *)
FairSpec ==
  /\ Spec
  /\ WF_vars(lost = "no" /\ ServerStep)
  /\ \A s \in Slots : WF_vars(lost = "no" /\ SessionStep(s))
  /\ WF_vars(lost = "no" /\ OwnerWaits)

-----------------------------------------------------------------------------
(* Properties.                                                             *)

OwnerTypes ==
  /\ up \in BOOLEAN /\ server_trigger \in BOOLEAN
  /\ cpc \in {"idle", "loop", "count", "unloop", "uncount", "reload", "destroy", "free"}
  /\ centry \in Indexes

EntryTypes ==
  /\ n_entry \in 0 .. Modulus-1
  /\ do_probe \in [Indexes -> Protocols \cup {Null}]
  /\ do_loop \in [Indexes -> Protocols \cup {Null}]

SlotTypes ==
  /\ session_trigger \in [Slots -> BOOLEAN]
  /\ sock \in [Slots -> Fds \cup {Null}]
  /\ pc \in [Slots -> {"none", "peek", "probe", "next", "hit", "loop", "close"}]
  /\ ending \in [Slots -> {"no", "clear", "release"}]

ProbeTypes ==
  /\ session_detect \in [Slots -> 0 .. NumEntry]
  /\ match_retry \in [Slots -> 0 .. MaxRetry]
  /\ full \in [Slots -> BOOLEAN]

ServerTypes ==
  /\ spc \in {"none", "bind", "poll", "select", "check", "setup"}
  /\ listening \in Fds \cup {Null} /\ conn \in Fds \cup {Null}
  /\ slot \in 0 .. NumSession

FdTypes ==
  /\ open \in SUBSET Fds
  /\ kind \in [Fds -> Protocols \cup {Null}]

PastTypes ==
  /\ removed \in BOOLEAN
  /\ early \in [Slots -> BOOLEAN] /\ gone \in [Slots -> BOOLEAN]

TypeOK ==
  /\ OwnerTypes /\ EntryTypes /\ SlotTypes /\ ProbeTypes /\ ServerTypes /\ FdTypes /\ PastTypes
  /\ stray \in BOOLEAN
  /\ lost \in {"no", "abort", "null", "name", "freed"}

(* What a live session uses: its thread has not closed its socket yet.     *)
Held == {sock[s] : s \in {t \in Slots : pc[t] # "none"}}

(* Every open descriptor is the listening socket, the connection in the    *)
(* server thread's hands or a live session's: refusals, full tables and    *)
(* sessions that end for whatever reason leave none behind.                *)
NoDescriptorLeaks == stray \/ open \subseteq {listening, conn} \cup Held

(* Live sessions, the server thread and the listening socket use open      *)
(* descriptors, each one its own, although numbers closed are given out    *)
(* again while the session that closed them is still leaving its slot.     *)
SocketsAreOwn ==
  /\ \A s \in Slots : pc[s] # "none" => sock[s] \in open \ {listening, conn}
  /\ \A s, t \in Slots : s # t /\ pc[s] # "none" /\ pc[t] # "none" => sock[s] # sock[t]
  /\ \A f \in {listening, conn} : f # Null => f \in open
  /\ conn # Null => conn # listening

(* One descriptor for each session slot, one to listen and one in hand are *)
(* enough: no assertion of the server (bind, accept) ends the process,     *)
(* however often it is reloaded.                                           *)
NeverAborts == Cardinality(Fds) >= NumSession + 2 => lost # "abort"

(* What a session does next is to call a function that is not there.       *)
CallsNull(s) ==
  \/ pc[s] = "probe" /\ ~CanCall(do_probe, s)
  \/ pc[s] = "hit" /\ ~CanCall(do_loop, s)

(* As long as no task is removed, a session never calls a function that    *)
(* the registration has not filled in, although entries are filled in and  *)
(* counted while it walks through them; only a session that was set up     *)
(* before the first task was counted may.                                  *)
NoNullCall == \A s \in Slots : CallsNull(s) => removed \/ early[s]

(* "enter relative protocal task": a connection is handed to the loop of   *)
(* the task whose probe knew it.  It may meet another one, to which the    *)
(* entry has been given, only when its own has been removed in between.    *)
TaskIsHit ==
  [][\A s \in Slots : pc[s] = "hit" /\ pc'[s] = "loop"
       => gone[s] \/ do_loop[session_detect[s]] = kind[sock[s]]]_vars

(* Every session's thread finds its task or gives its slot back, whatever  *)
(* the client sends and the probes answer.                                 *)
SessionDecides ==
  \A s \in Slots : pc[s] = "peek" ~> (pc[s] = "loop" \/ ~session_trigger[s])

(* A reload waits for the server thread and no longer.                     *)
ReloadReturns == cpc = "reload" ~> cpc = "idle"

=============================================================================
