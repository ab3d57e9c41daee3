----------------------------- MODULE HgSession -----------------------------
(***************************************************************************)
(* The thread of a network channel: the session with its camera            *)
(* (NVRPC_hg_run in src/app/nvrpc_protocol_hg.c).  It connects twice, for  *)
(* the main and for the sub stream, logs in, and takes the frames out of   *)
(* what arrives (_read_frame); whenever something fails it closes both     *)
(* connections and begins again, until arg->running is cleared.            *)
(*                                                                         *)
(* A camera sends packets, a header and a payload each; the packets of one *)
(* frame have one time stamp, and one of stamp 0 counts to the frame after *)
(* it: 0 is also "none yet" (line 703).  A header may be short, declaring  *)
(* a payload of less than the RTP header.  Bytes are only counted: a span  *)
(* <<a, b>> is the payload from byte a + 1 to byte b.  Clocks are left     *)
(* out: a time-out may strike whenever its stream is quiet.  So are the    *)
(* live view, which the frames are decoded for beside the pools, and the   *)
(* pool of the sub stream, whose commits take size and data from main_ctx. *)
(***************************************************************************)
EXTENDS Integers, Sequences, FiniteSets

CONSTANTS
  Scripts,   \* what a camera may send: for each stream a sequence of packets,
             \* each a time stamp, the position its payload ends at, and
             \* whether its header is short
  HdrLen     \* size of RTSP_ITLEAVED_HDR_S

Streams == {"main", "sub"}

(* Packet i of p is the last one of its frame.                             *)
EndsFrame(p, i) == i = Len(p) \/ (p[i].ts # 0 /\ p[i].ts # p[i + 1].ts)

(* Positions do not go back.                                               *)
ASSUME HgAssumption ==
  /\ HdrLen \in Nat \ {0}
  /\ Scripts \subseteq [Streams -> Seq([ts : Nat, to : Nat, short : BOOLEAN])]
  /\ \A sc \in Scripts, s \in Streams : \A j \in 1 .. Len(sc[s]) :
       \A i \in 1 .. j - 1 : sc[s][i].to <= sc[s][j].to

VARIABLES
  running,     \* arg->running
  pc,
  connected,   \* main_connected, sub_connected
  open,        \* descriptors of sockets that are open
  script,      \* packets the camera sends on the connection
  arrived,     \* bytes that have arrived
  closed,      \* the camera has closed its end
  cur, left,   \* stream being read, and total - checked of _read_frame
  ready,       \* FD_ISSET, of the streams still to be read after select
  ctx,         \* main_ctx and sub_ctx, with the packet they are at
  main_in      \* span last committed to the pool of the main stream

camera == <<script, arrived, closed>>
vars == <<running, pc, connected, open, camera, cur, left, ready, ctx, main_in>>

Ctx == [pk |-> 1, hlen |-> 0, ftmplen |-> 0, flen |-> 0, last_timestamp |-> 0, heard |-> FALSE]

Init ==
  /\ running = TRUE /\ pc = "begin" /\ open = 0
  /\ connected = [s \in Streams |-> FALSE]
  /\ script = [s \in Streams |-> <<>>] /\ arrived = [s \in Streams |-> 0]
  /\ closed = {} /\ cur = "main" /\ left = 0 /\ ready = {}
  /\ ctx = [s \in Streams |-> Ctx] /\ main_in = <<0, 0>>

Least(a, b) == IF a < b THEN a ELSE b

(* Where the payload of packet i begins.                                   *)
Before(s, i) == IF i = 1 THEN 0 ELSE script[s][i - 1].to

(* All that the camera sends.                                              *)
Sent(s) == Before(s, Len(script[s]) + 1) + HdrLen * Len(script[s])

(* Payload bytes read, and the span of them that is in fbuf.               *)
Payload(s) == Before(s, ctx[s].pk) + ctx[s].ftmplen
Buffer(s) == <<Payload(s) - ctx[s].flen, Payload(s)>>

(* What FIONREAD says.                                                     *)
Available(s) == arrived[s] - (Payload(s) + HdrLen * (ctx[s].pk - 1) + ctx[s].hlen)

-----------------------------------------------------------------------------
(* Connecting.                                                             *)

Idle == UNCHANGED <<running, camera, cur, left, ready, ctx, main_in>>

(* The macro CLEAR, and back to connect_begin.                             *)
Clear ==
  /\ pc' = "begin"
  /\ open' = open - Cardinality({s \in Streams : connected[s]})
  /\ connected' = [s \in Streams |-> FALSE]
  /\ script' = [s \in Streams |-> <<>>] /\ arrived' = [s \in Streams |-> 0] /\ closed' = {}
  /\ cur' = "main" /\ left' = 0 /\ ready' = {}
  /\ main_in' = <<0, 0>>
  /\ UNCHANGED <<running, ctx>>

Connect(s) ==
  /\ connected' = [connected EXCEPT ![s] = TRUE] /\ open' = open + 1

ConnectMain ==
  /\ pc = "begin" /\ running
  /\ Connect("main") /\ pc' = "connect_sub"
  /\ Idle

ConnectSub ==
  /\ pc = "connect_sub" /\ Connect("sub") /\ pc' = "login"
  /\ Idle

Login == pc = "login" /\ pc' = "setup" /\ Idle /\ UNCHANGED <<connected, open>>

(* Title and time have been sent, the loop begins.  What the camera has    *)
(* sent since the login arrives from here on.                              *)
Setup ==
  /\ pc = "setup" /\ pc' = "select"
  /\ ctx' = [s \in Streams |-> Ctx] /\ script' \in Scripts
  /\ UNCHANGED <<running, connected, open, arrived, closed, cur, left, ready, main_in>>

SetupFailsOpen ==
  /\ pc \in {"connect_sub", "login", "setup"} /\ pc' = "begin"
  /\ connected' = [s \in Streams |-> FALSE] /\ Idle /\ UNCHANGED open

SetupFails == pc \in {"connect_sub", "login", "setup"} /\ Clear

EndAtConnect ==
  /\ pc = "begin" /\ ~running /\ pc' = "over"
  /\ Idle /\ UNCHANGED <<connected, open>>

(* clear_all.                                                              *)
End ==
  /\ pc \in {"begin", "select"} /\ ~running
  /\ pc' = "over"
  /\ open' = open - Cardinality({s \in Streams : connected[s]})
  /\ connected' = [s \in Streams |-> FALSE]
  /\ Idle

-----------------------------------------------------------------------------
(* The loop.                                                               *)

(* A stream is ready when something has arrived or its end is closed.      *)
IsReady(s) == Available(s) > 0 \/ s \in closed

Select ==
  /\ pc = "select" /\ running
  /\ \E s \in Streams :
       /\ IsReady(s) /\ (s = "sub" => ~IsReady("main"))
       /\ cur' = s /\ ready' = {t \in Streams \ {s} : IsReady(t)}
  /\ pc' = "read"
  /\ UNCHANGED <<running, connected, open, camera, left, ctx, main_in>>

(* A stream has been quiet for more than 5 s, or select fails.             *)
Silence == pc = "select" /\ running /\ (\E s \in Streams : ~IsReady(s)) /\ Clear
SelectFails == pc = "select" /\ running /\ Clear

ReadSilentInPacket ==
  pc = "read" /\ Available(cur) = 0 /\ ctx[cur].hlen > 0 /\ Clear

(* _read_frame: nothing is there for more than RW_TIMEOUT since the last   *)
(* byte read, which there must be one of.                                  *)
ReadSilent == pc = "read" /\ Available(cur) = 0 /\ ctx[cur].heard /\ Clear

ReadStart ==
  /\ pc = "read" /\ left' = Available(cur) /\ pc' = "loop"
  /\ UNCHANGED <<running, connected, open, camera, cur, ready, ctx, main_in>>

Packet == script[cur][ctx[cur].pk]

ReadHeaderWhole ==
  /\ pc = "loop" /\ left > 0 /\ ctx[cur].hlen < HdrLen
  /\ ctx' = [ctx EXCEPT ![cur].hlen = @ + left, ![cur].heard = TRUE] /\ left' = 0
  /\ UNCHANGED <<running, pc, connected, open, camera, cur, ready, main_in>>

ReadHeader ==
  /\ pc = "loop" /\ left > 0 /\ ctx[cur].hlen < HdrLen
  /\ LET n == Least(HdrLen - ctx[cur].hlen, left) IN
       /\ ctx' = [ctx EXCEPT ![cur].hlen = @ + n, ![cur].heard = TRUE]
       /\ left' = left - n
  /\ UNCHANGED <<running, pc, connected, open, camera, cur, ready, main_in>>

(* A frame ends when the header of the next one is there.                  *)
FrameEnds ==
  LET c == ctx[cur] IN
  c.hlen = HdrLen /\ c.last_timestamp # 0 /\ c.last_timestamp # Packet.ts

(* After a short header data_len is below zero, nothing is read, and the   *)
(* loop goes round for ever.                                               *)
Spinning ==
  pc = "loop" /\ left > 0 /\ ctx[cur].hlen = HdrLen /\ ~FrameEnds /\ Packet.short

ReadSpins ==
  /\ Spinning /\ ctx' = [ctx EXCEPT ![cur].last_timestamp = Packet.ts]
  /\ UNCHANGED <<running, pc, connected, open, camera, cur, left, ready, main_in>>

ReadBody ==
  /\ pc = "loop" /\ left > 0 /\ ctx[cur].hlen = HdrLen /\ ~FrameEnds /\ ~Packet.short
  /\ LET c == ctx[cur]
         len == Packet.to - Before(cur, c.pk)
         n == Least(len - c.ftmplen, left)
         over == c.ftmplen + n = len
     IN /\ ctx' = [ctx EXCEPT ![cur] =
              [pk |-> IF over THEN c.pk + 1 ELSE c.pk,
               hlen |-> IF over THEN 0 ELSE HdrLen,
               ftmplen |-> IF over THEN 0 ELSE c.ftmplen + n,
               flen |-> c.flen + n, last_timestamp |-> Packet.ts, heard |-> TRUE]]
        /\ left' = left - n
  /\ UNCHANGED <<running, pc, connected, open, camera, cur, ready, main_in>>

CommitTaken ==
  /\ pc = "loop" /\ left > 0 /\ FrameEnds /\ pc' = "read" /\ left' = 0
  /\ \/ cur = "main" /\ main_in' = Buffer("main") /\ ctx' =
             [ctx EXCEPT ![cur].flen = 0, ![cur].last_timestamp = Packet.ts]
     \/ UNCHANGED main_in /\ ctx' = [ctx EXCEPT ![cur].last_timestamp = Packet.ts]
  /\ UNCHANGED <<running, connected, open, camera, cur, ready>>

(* The frame is committed, unless its pool refuses it, and the next one is *)
(* asked for.                                                              *)
Commit ==
  /\ pc = "loop" /\ left > 0 /\ FrameEnds /\ pc' = "read" /\ left' = 0
  /\ \/ cur = "main" /\ main_in' = Buffer("main")
     \/ UNCHANGED main_in
  /\ ctx' = [ctx EXCEPT ![cur].flen = 0, ![cur].last_timestamp = Packet.ts]
  /\ UNCHANGED <<running, connected, open, camera, cur, ready>>

ReadFails ==
  pc = "loop" /\ left > 0 /\ ~FrameEnds /\ ~Spinning /\ cur \in closed /\ Clear

(* No frame is complete: on to the other stream, or to select.             *)
ReadOver ==
  /\ pc = "loop" /\ left = 0 /\ ready' = {}
  /\ \/ "sub" \in ready /\ cur' = "sub" /\ pc' = "read"
     \/ "sub" \notin ready /\ cur' = "main" /\ pc' = "select"
  /\ UNCHANGED <<running, connected, open, camera, left, ctx, main_in>>

-----------------------------------------------------------------------------
(* The camera and the DNVR thread.                                         *)

Arrive(s) ==
  /\ s \notin closed /\ arrived[s] < Sent(s)
  /\ arrived' = [arrived EXCEPT ![s] = @ + 1]
  /\ UNCHANGED <<running, pc, connected, open, script, closed, cur, left, ready, ctx, main_in>>

CameraCloses(s) ==
  /\ script[s] # <<>> /\ s \notin closed /\ closed' = closed \cup {s}
  /\ UNCHANGED <<running, pc, connected, open, script, arrived, cur, left, ready, ctx, main_in>>

Stop ==
  /\ running /\ running' = FALSE
  /\ UNCHANGED <<pc, connected, open, camera, cur, left, ready, ctx, main_in>>

Thread ==
  \/ ConnectSub \/ Login \/ Setup \/ SetupFails \/ End
  \/ Select \/ Silence \/ SelectFails \/ ReadSilent \/ ReadStart
  \/ ReadHeader \/ ReadSpins \/ ReadBody \/ Commit \/ ReadFails \/ ReadOver

Next == ConnectMain \/ Thread \/ Stop \/ \E s \in Streams : Arrive(s) \/ CameraCloses(s)

Spec == Init /\ [][Next]_vars

(* The thread goes on, once a camera answers.  What a camera sends is      *)
(* finite here, so a stream that is quiet at select again and again is     *)
(* quiet for good, and time runs out.                                      *)
FairSpec == Spec /\ WF_vars(Thread) /\ SF_vars(Silence) /\ SF_vars(ReadSilent)

-----------------------------------------------------------------------------
TypeOK ==
  /\ running \in BOOLEAN /\ connected \in [Streams -> BOOLEAN] /\ open \in 0 .. 2
  /\ pc \in {"begin", "connect_sub", "login", "setup", "select", "read", "loop", "over"}
  /\ script \in Scripts \cup {[s \in Streams |-> <<>>]}
  /\ arrived \in [Streams -> Nat] /\ closed \subseteq Streams
  /\ cur \in Streams /\ left \in Nat /\ ready \subseteq Streams
  /\ ctx \in [Streams -> [pk : Nat \ {0}, hlen : 0 .. HdrLen, ftmplen : Nat, flen : Nat,
                          last_timestamp : Nat, heard : BOOLEAN]]
  /\ main_in \in Nat \X Nat

(* No way through connecting, failing and connecting again leaves a socket *)
(* open that the thread no longer knows of: CLEAR closes what is connected *)
(* and nothing else.                                                       *)
SocketsKept ==
  /\ open = Cardinality({s \in Streams : connected[s]})
  /\ pc \in {"begin", "over"} => open = 0

(* Positions at which the frames of the main stream end.                   *)
FrameEnd ==
  LET p == script["main"] IN {p[i].to : i \in {j \in 1 .. Len(p) : EndsFrame(p, j)}}

Log == INSTANCE CameraLog WITH ends <- FrameEnd, got <- main_in

(* However the bytes of the packets come in, and however often the session *)
(* is begun anew, the main stream's pool gets whole frames of the camera,  *)
(* in their order and none twice.                                          *)
MainIsCameraLog == Log!LogSpec

(* The thread ends when it is told to, wherever it is and whatever comes   *)
(* in, unless a short header has caught it: this is what NVRPC_destory and *)
(* _stop_channel wait for.                                                 *)
StopEnds == ~running ~> (pc = "over" \/ Spinning)

(* A connection the camera closes is noticed and both are made anew, when  *)
(* something had been read from it and no short header catches the thread. *)
ClosedIsNoticed ==
  \A s \in Streams :
    (s \in closed /\ ctx[s].heard /\ pc = "select") ~> (pc \in {"begin", "over"} \/ Spinning)

(* The same when nothing has come: the message "total==0 continue %d secs" *)
(* (nvrpc_protocol_hg.c:667) says that silence ends the reading.           *)
SilenceEnds ==
  (closed = Streams /\ pc = "select" /\ \A s \in Streams : arrived[s] = 0)
    ~> pc \in {"begin", "over"}
=============================================================================
