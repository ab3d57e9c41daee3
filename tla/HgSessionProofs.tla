-------------------------- MODULE HgSessionProofs --------------------------
(***************************************************************************)
(* Proofs about HgSession, for every length of the headers and whatever    *)
(* cameras send: the type invariant, that no socket is lost, and that the  *)
(* session implements CameraLog.                                           *)
(***************************************************************************)
EXTENDS HgSession, FiniteSetTheorems, TLAPS

Connecting == pc \in {"begin", "connect_sub", "login", "setup"}
Reading == pc \in {"select", "read", "loop"}

(* Which connections there are follows from where the thread is.           *)
Sockets ==
  /\ connected["main"] <=> pc \notin {"begin", "over"}
  /\ connected["sub"] <=> pc \notin {"begin", "over", "connect_sub"}
  /\ open = Cardinality({s \in Streams : connected[s]})

(* Nothing of the connection before is left when the next one is made.     *)
Fresh ==
  Connecting => /\ script = [s \in Streams |-> <<>>] /\ arrived = [s \in Streams |-> 0]
                /\ main_in = <<0, 0>>

(* What is read of a stream has arrived, and all of it is of its packets.  *)
InPackets(s) ==
  LET c == ctx[s] IN
  /\ c.pk <= Len(script[s]) + 1
  /\ c.pk = Len(script[s]) + 1 => c.hlen = 0 /\ c.ftmplen = 0
  /\ c.pk <= Len(script[s]) => c.ftmplen <= script[s][c.pk].to - Before(s, c.pk)
  /\ c.hlen < HdrLen => c.ftmplen = 0
  /\ 0 <= Available(s)

Bytes ==
  /\ \A s \in Streams : arrived[s] <= Sent(s)
  /\ Reading => \A s \in Streams : InPackets(s)
  /\ pc = "loop" => left <= Available(cur)

(* The packets of the main stream up to k are whole frames.                *)
WholeUpTo(k) == k > 0 => EndsFrame(script["main"], k)

(* fbuf holds what has come of the packets after i, which are of one frame *)
(* but for the last of them, that may have ended it.  No time stamp yet,   *)
(* or one of 0, goes with any next packet.                                 *)
Gathering(i) ==
  LET c == ctx["main"]  p == script["main"] IN
  /\ i < c.pk /\ WholeUpTo(i)
  /\ Payload("main") - c.flen = Before("main", i + 1)
  /\ main_in[2] <= Before("main", i + 1)
  /\ \/ /\ c.last_timestamp = 0 \/ (c.pk <= Len(p) /\ c.last_timestamp = p[c.pk].ts)
        /\ \A k \in i + 1 .. c.pk - 1 : ~EndsFrame(p, k)
     \/ /\ c.ftmplen = 0 /\ i < c.pk - 1 /\ c.last_timestamp = p[c.pk - 1].ts
        /\ \A k \in i + 1 .. c.pk - 2 : ~EndsFrame(p, k)

Frames == Reading => \E i \in Nat : Gathering(i)

TypeInv == TypeOK /\ Sockets /\ Fresh /\ Bytes
IInv == TypeInv /\ Frames

-----------------------------------------------------------------------------
(* What a camera sends.                                                    *)

Packets == [ts : Nat, to : Nat, short : BOOLEAN]

LEMMA ScriptOf ==
  ASSUME NEW sc \in Scripts \cup {[t \in Streams |-> <<>>]}, NEW s \in Streams
  PROVE  /\ sc[s] \in Seq(Packets) /\ Len(sc[s]) \in Nat
         /\ \A j \in 1 .. Len(sc[s]) :
              /\ sc[s][j] \in Packets
              /\ sc[s][j].to \in Nat /\ sc[s][j].ts \in Nat
              /\ \A i \in 1 .. j - 1 : sc[s][i].to <= sc[s][j].to
<1>1. CASE sc \in Scripts
  <2>1. sc[s] \in Seq(Packets)
    BY <1>1, HgAssumption DEF Packets
  <2>2. \A j \in 1 .. Len(sc[s]) : sc[s][j] \in Packets
    BY <2>1
  <2>3. \A j \in 1 .. Len(sc[s]) :
          sc[s][j].to \in Nat /\ sc[s][j].ts \in Nat
    BY <2>2 DEF Packets
  <2>4. Len(sc[s]) \in Nat
    BY <2>1
  <2> QED BY <1>1, <2>1, <2>2, <2>3, <2>4, HgAssumption
<1>2. CASE sc = [t \in Streams |-> <<>>]
  <2>1. sc[s] = <<>>
    BY <1>2
  <2> QED BY <2>1
<1> QED BY <1>1, <1>2

LEMMA ScriptFacts ==
  ASSUME TypeOK, NEW s \in Streams
  PROVE  /\ script[s] \in Seq(Packets) /\ Len(script[s]) \in Nat
         /\ \A j \in 1 .. Len(script[s]) :
              /\ script[s][j] \in Packets
              /\ script[s][j].to \in Nat /\ script[s][j].ts \in Nat
              /\ \A i \in 1 .. j - 1 : script[s][i].to <= script[s][j].to
<1>1. script \in Scripts \cup {[t \in Streams |-> <<>>]}
  BY DEF TypeOK
<1> QED BY <1>1, ScriptOf

LEMMA BeforeFacts ==
  ASSUME TypeOK, NEW s \in Streams
  PROVE  /\ \A i \in 1 .. Len(script[s]) + 1 : Before(s, i) \in Nat
         /\ \A j \in 1 .. Len(script[s]) + 1 : \A i \in 1 .. j : Before(s, i) <= Before(s, j)
         /\ \A i \in 1 .. Len(script[s]) : Before(s, i + 1) = script[s][i].to
         /\ Before(s, 1) = 0
<1>1. \A i \in 1 .. Len(script[s]) : Before(s, i + 1) = script[s][i].to
  BY ScriptFacts DEF Before
<1>2. \A i \in 1 .. Len(script[s]) + 1 : i # 1 => i - 1 \in 1 .. Len(script[s])
  BY ScriptFacts
<1>3. \A i \in 1 .. Len(script[s]) + 1 : Before(s, i) \in Nat
  BY <1>2, ScriptFacts DEF Before
<1>4. ASSUME NEW j \in 1 .. Len(script[s]) + 1, NEW i \in 1 .. j
      PROVE  Before(s, i) <= Before(s, j)
  <2>1. CASE i = 1
    BY <1>3, <2>1 DEF Before
  <2>2. CASE i = j
    BY <1>3, <2>2, ScriptFacts
  <2>3. CASE i # 1 /\ i # j
    <3>1. j - 1 \in 1 .. Len(script[s]) /\ i - 1 \in 1 .. (j - 1) - 1
      BY <2>3, ScriptFacts
    <3> QED BY <2>3, <3>1, ScriptFacts DEF Before
  <2> QED BY <2>1, <2>2, <2>3
<1> QED BY <1>1, <1>3, <1>4 DEF Before

(* One header more.                                                        *)
LEMMA HeaderFacts ==
  ASSUME NEW k \in Nat \ {0}
  PROVE  HdrLen * (k - 1) \in Nat /\ HdrLen * ((k + 1) - 1) = HdrLen * (k - 1) + HdrLen
BY HgAssumption

LEMMA NoPackets ==
  ASSUME NEW s \in Streams, script = [t \in Streams |-> <<>>] PROVE Sent(s) = 0
BY HgAssumption DEF Sent, Before

LEMMA Counted ==
  ASSUME NEW f \in [Streams -> BOOLEAN]
  PROVE  Cardinality({s \in Streams : f[s]}) =
           (IF f["main"] THEN 1 ELSE 0) + (IF f["sub"] THEN 1 ELSE 0)
<1> DEFINE S == {s \in Streams : f[s]}
<1>1. CASE ~f["main"] /\ ~f["sub"]
  <2>1. S = {}
    BY <1>1 DEF Streams
  <2> QED BY <1>1, <2>1, FS_EmptySet
<1>2. CASE f["main"] /\ ~f["sub"]
  <2>1. S = {"main"}
    BY <1>2 DEF Streams
  <2> QED BY <1>2, <2>1, FS_Singleton
<1>3. CASE ~f["main"] /\ f["sub"]
  <2>1. S = {"sub"}
    BY <1>3 DEF Streams
  <2>2. Cardinality({"sub"}) = 1
    BY FS_Singleton
  <2> QED BY <1>3, <2>1, <2>2
<1>4. CASE f["main"] /\ f["sub"]
  <2>1. S = {"main"} \cup {"sub"} /\ "sub" \notin {"main"}
    BY <1>4 DEF Streams
  <2>2. IsFiniteSet({"main"}) /\ Cardinality({"main"}) = 1
    BY FS_Singleton
  <2>3. Cardinality(S) = 2
    BY <2>1, <2>2, FS_AddElement
  <2> QED BY <1>4, <2>3
<1> QED BY <1>1, <1>2, <1>3, <1>4

-----------------------------------------------------------------------------
(* The type invariant.                                                     *)

LEMMA CtxType ==
  Ctx \in [pk : Nat \ {0}, hlen : 0 .. HdrLen, ftmplen : Nat, flen : Nat,
           last_timestamp : Nat, heard : BOOLEAN]
<1>1. 0 \in 0 .. HdrLen /\ 1 \in Nat \ {0} /\ FALSE \in BOOLEAN
  BY HgAssumption
<1> QED BY <1>1, Zenon DEF Ctx

LEMMA TypeInvInit == Init => TypeInv
<1> SUFFICES ASSUME Init PROVE TypeInv
  OBVIOUS
<1>1. /\ connected = [s \in Streams |-> FALSE] /\ connected \in [Streams -> BOOLEAN]
      /\ running \in BOOLEAN
  BY Zenon DEF Init
<1>2. Sockets
  <2>1. {s \in Streams : connected[s]} = {} /\ ~connected["main"] /\ ~connected["sub"]
    BY <1>1 DEF Streams
  <2> QED BY <2>1, FS_EmptySet DEF Init, Sockets
<1>3. TypeOK
  BY <1>1, CtxType DEF Init, TypeOK, Streams
<1>4. Fresh /\ Bytes
  BY NoPackets DEF Init, Fresh, Bytes, Reading
<1> QED BY <1>2, <1>3, <1>4 DEF TypeInv

(* The whole of CLEAR.                                                     *)
LEMMA ClearKeeps == TypeInv /\ Clear => TypeInv'
<1> SUFFICES ASSUME TypeInv, Clear PROVE TypeInv'
  OBVIOUS
<1>1. /\ connected' = [s \in Streams |-> FALSE] /\ connected' \in [Streams -> BOOLEAN]
      /\ UNCHANGED running
  BY Zenon DEF Clear
<1>2. open' = 0
  BY DEF Clear, TypeInv, TypeOK, Sockets
<1>3. Sockets'
  <2>1. /\ {s \in Streams : connected'[s]} = {}
        /\ ~connected'["main"] /\ ~connected'["sub"]
    BY <1>1 DEF Streams
  <2> QED BY <1>2, <2>1, FS_EmptySet DEF Clear, Sockets
<1>4. TypeOK'
  BY <1>1, <1>2 DEF Clear, TypeInv, TypeOK, Streams
<1>5. (script = [t \in Streams |-> <<>>])' => \A s \in Streams : Sent(s)' = 0
  BY HgAssumption DEF Sent, Before
<1>6. Fresh' /\ Bytes'
  BY <1>5 DEF Clear, Fresh, Bytes, Reading
<1> QED BY <1>3, <1>4, <1>6 DEF TypeInv

(* A step that leaves what is sent, what has arrived and what is read.     *)
LEMMA QuietBytes ==
  ASSUME Bytes, UNCHANGED <<script, arrived, ctx>>, Reading' => Reading,
         pc' = "loop" => pc = "loop" /\ UNCHANGED <<left, cur>>
  PROVE  Bytes'
BY DEF Bytes, Reading, InPackets, Available, Sent, Payload, Before

(* Bytes there are to be read belong to a packet.                          *)
LEMMA AtPacket ==
  ASSUME TypeInv, pc = "loop", left > 0
  PROVE  /\ cur \in Streams /\ ctx[cur].pk \in 1 .. Len(script[cur])
         /\ InPackets(cur) /\ left <= Available(cur) /\ left \in Nat
         /\ Packet = script[cur][ctx[cur].pk]
<1>1. /\ cur \in Streams /\ left \in Nat /\ ctx[cur].pk \in Nat \ {0}
      /\ arrived[cur] \in Nat
  BY DEF TypeInv, TypeOK
<1>2. InPackets(cur) /\ left <= Available(cur) /\ arrived[cur] <= Sent(cur)
  BY <1>1 DEF TypeInv, Bytes, Reading
<1>3. Len(script[cur]) \in Nat
  BY <1>1, ScriptFacts DEF TypeInv
<1>4. ASSUME ctx[cur].pk = Len(script[cur]) + 1 PROVE FALSE
  <2> DEFINE l == Len(script[cur])
  <2>1. ctx[cur].hlen = 0 /\ ctx[cur].ftmplen = 0
    BY <1>2, <1>4 DEF InPackets
  <2>2. (l + 1) - 1 = l /\ HdrLen * l \in Nat /\ Before(cur, l + 1) \in Nat
    <3>1. (l + 1) - 1 = l /\ l \in Nat /\ HdrLen \in Nat /\ l + 1 \in 1 .. l + 1
      BY <1>3, HgAssumption
    <3>2. Before(cur, l + 1) \in Nat
      BY <1>1, <3>1, BeforeFacts DEF TypeInv
    <3>3. HdrLen * l \in Nat
      <4> HIDE DEF l
      <4> QED BY <3>1
    <3> QED BY <3>1, <3>2, <3>3
  <2>3. Available(cur) = arrived[cur] - (Before(cur, l + 1) + 0 + HdrLen * l + 0)
    BY <1>4, <2>1, <2>2 DEF Available, Payload
  <2>4. Sent(cur) = Before(cur, l + 1) + HdrLen * l
    BY DEF Sent
  <2> QED BY <1>1, <1>2, <2>2, <2>3, <2>4
<1> QED BY <1>1, <1>2, <1>3, <1>4 DEF InPackets, Packet

CtxSet == [pk : Nat \ {0}, hlen : 0 .. HdrLen, ftmplen : Nat, flen : Nat,
           last_timestamp : Nat, heard : BOOLEAN]

LEMMA Numbers ==
  ASSUME TypeInv, NEW s \in Streams, ctx[s].pk <= Len(script[s]) + 1
  PROVE  /\ ctx[s] \in CtxSet /\ ctx[s].pk \in Nat \ {0} /\ ctx[s].hlen \in 0 .. HdrLen
         /\ ctx[s].ftmplen \in Nat /\ ctx[s].flen \in Nat
         /\ HdrLen \in Nat /\ HdrLen * (ctx[s].pk - 1) \in Nat
         /\ Before(s, ctx[s].pk) \in Nat /\ arrived[s] \in Nat /\ Len(script[s]) \in Nat
         /\ Available(s) = arrived[s] - (Before(s, ctx[s].pk) + ctx[s].ftmplen
                                           + HdrLen * (ctx[s].pk - 1) + ctx[s].hlen)
         /\ Available(s) \in Int
<1>1. ctx[s] \in CtxSet /\ arrived[s] \in Nat /\ TypeOK
  BY DEF TypeInv, TypeOK, CtxSet
<1>2. /\ ctx[s].pk \in Nat \ {0} /\ ctx[s].hlen \in 0 .. HdrLen /\ ctx[s].ftmplen \in Nat
      /\ ctx[s].flen \in Nat
  BY <1>1 DEF CtxSet
<1>3. Len(script[s]) \in Nat
  BY <1>1, ScriptFacts
<1>4. Before(s, ctx[s].pk) \in Nat
  BY <1>1, <1>2, <1>3, BeforeFacts
<1>5. HdrLen * (ctx[s].pk - 1) \in Nat /\ HdrLen \in Nat
  BY <1>2, HeaderFacts, HgAssumption
<1>6. Available(s) = arrived[s] - (Before(s, ctx[s].pk) + ctx[s].ftmplen
                                    + HdrLen * (ctx[s].pk - 1) + ctx[s].hlen)
  BY DEF Available, Payload
<1>7. Available(s) \in Int
  <2> DEFINE b == Before(s, ctx[s].pk)
             m == HdrLen * (ctx[s].pk - 1)
             a == arrived[s]
             h == ctx[s].hlen
             f == ctx[s].ftmplen
  <2>1. b \in Nat /\ m \in Nat /\ a \in Nat /\ h \in Nat /\ f \in Nat
    BY <1>1, <1>2, <1>4, <1>5
  <2>2. Available(s) = a - (b + f + m + h)
    BY <1>6
  <2> HIDE DEF a, b, m, h, f
  <2> QED BY <2>1, <2>2
<1> QED BY <1>1, <1>2, <1>3, <1>4, <1>5, <1>6, <1>7

(* n of the bytes that are there are read, and the stream is at new then.  *)
LEMMA ReadingKeeps ==
  ASSUME TypeInv, pc = "loop", left > 0, NEW n \in Nat, n <= left, NEW new \in CtxSet,
         ctx' = [ctx EXCEPT ![cur] = new], left' = left - n,
         UNCHANGED <<running, pc, connected, open, camera, cur, ready, main_in>>,
         new.pk <= Len(script[cur]) + 1,
         new.pk = Len(script[cur]) + 1 => new.hlen = 0 /\ new.ftmplen = 0,
         new.pk <= Len(script[cur]) => new.ftmplen <= script[cur][new.pk].to - Before(cur, new.pk),
         new.hlen < HdrLen => new.ftmplen = 0,
         Before(cur, new.pk) + new.ftmplen + HdrLen * (new.pk - 1) + new.hlen =
           Before(cur, ctx[cur].pk) + ctx[cur].ftmplen + HdrLen * (ctx[cur].pk - 1)
             + ctx[cur].hlen + n
  PROVE  TypeInv'
<1>1. /\ cur \in Streams /\ ctx[cur].pk \in 1 .. Len(script[cur]) /\ left \in Nat
      /\ InPackets(cur) /\ left <= Available(cur)
  BY AtPacket
<1>2. /\ ctx'[cur] = new /\ \A t \in Streams \ {cur} : ctx'[t] = ctx[t]
      /\ ctx' \in [Streams -> CtxSet]
  BY <1>1 DEF TypeInv, TypeOK, CtxSet
<1>3. TypeOK'
  <2>1. left' \in Nat
    BY <1>1
  <2> QED BY <1>2, <2>1 DEF TypeInv, TypeOK, camera, CtxSet
<1>4. Available(cur)' = Available(cur) - n
  <2>1. ctx[cur].pk <= Len(script[cur]) + 1 /\ Len(script[cur]) \in Nat
    BY <1>1, ScriptFacts DEF TypeInv
  <2>2. Available(cur)' = arrived[cur] - (Before(cur, new.pk) + new.ftmplen
                                           + HdrLen * (new.pk - 1) + new.hlen)
    BY <1>2 DEF Available, Payload, Before, camera
  <2> DEFINE m == Before(cur, ctx[cur].pk) + ctx[cur].ftmplen + HdrLen * (ctx[cur].pk - 1)
                    + ctx[cur].hlen
  <2>3. m \in Int /\ arrived[cur] \in Int /\ Available(cur) = arrived[cur] - m
    <3>1. /\ Before(cur, ctx[cur].pk) \in Nat /\ ctx[cur].ftmplen \in Nat
          /\ HdrLen * (ctx[cur].pk - 1) \in Nat /\ ctx[cur].hlen \in Nat
          /\ arrived[cur] \in Nat
      BY <1>1, <2>1, Numbers
    <3>2. Available(cur) = arrived[cur] - m
      BY <1>1, <2>1, Numbers, Zenon
    <3> QED BY <3>1, <3>2
  <2>4. Available(cur)' = arrived[cur] - (m + n)
    BY <2>2
  <2> HIDE DEF m
  <2> QED BY <2>3, <2>4
<1>5. InPackets(cur)' /\ left' <= Available(cur)'
  <2>1. Available(cur) \in Int
    BY <1>1, Numbers DEF InPackets
  <2>2. 0 <= Available(cur)' /\ left' <= Available(cur)'
    BY <1>1, <1>4, <2>1
  <2>3. Before(cur, new.pk)' = Before(cur, new.pk)
    BY DEF Before, camera
  <2>4. (ctx[cur])' = new /\ UNCHANGED <<cur, script>>
    BY <1>2 DEF camera
  <2> QED BY <2>2, <2>3, <2>4 DEF InPackets
<1>6. ASSUME NEW t \in Streams \ {cur} PROVE InPackets(t)'
  BY <1>2 DEF TypeInv, Bytes, Reading, InPackets, Available, Payload, Before, camera
<1>7. Bytes'
  BY <1>5, <1>6 DEF TypeInv, Bytes, Reading, Sent, Before, camera
<1>8. Sockets' /\ Fresh'
  BY DEF TypeInv, Sockets, Fresh, Connecting, camera
<1> QED BY <1>3, <1>7, <1>8 DEF TypeInv

LEMMA HeaderKeeps == TypeInv /\ ReadHeader => TypeInv'
<1> SUFFICES ASSUME TypeInv, ReadHeader PROVE TypeInv'
  OBVIOUS
<1> DEFINE c == ctx[cur]
           n == Least(HdrLen - c.hlen, left)
           new == [c EXCEPT !.hlen = c.hlen + n, !.heard = TRUE]
<1>1. /\ pc = "loop" /\ left > 0 /\ c.hlen < HdrLen /\ left' = left - n
      /\ ctx' = [ctx EXCEPT ![cur] = new]
      /\ UNCHANGED <<running, pc, connected, open, camera, cur, ready, main_in>>
  BY DEF ReadHeader
<1>2. /\ cur \in Streams /\ c.pk \in 1 .. Len(script[cur]) /\ left \in Nat /\ InPackets(cur)
  BY <1>1, AtPacket
<1>3. /\ c \in CtxSet /\ c.hlen \in 0 .. HdrLen /\ HdrLen \in Nat /\ Len(script[cur]) \in Nat
      /\ c.pk <= Len(script[cur]) + 1 /\ c.pk # Len(script[cur]) + 1 /\ c.ftmplen = 0
      /\ Before(cur, c.pk) \in Nat /\ HdrLen * (c.pk - 1) \in Nat
  BY <1>1, <1>2, Numbers DEF InPackets
<1>4. n \in Nat /\ n <= left /\ c.hlen + n \in 0 .. HdrLen
  BY <1>1, <1>2, <1>3 DEF Least
<1>5. new \in CtxSet /\ new.pk = c.pk /\ new.hlen = c.hlen + n /\ new.ftmplen = 0
  BY <1>3, <1>4 DEF CtxSet
<1>6. 0 <= script[cur][c.pk].to - Before(cur, c.pk)
  BY <1>2, <1>3 DEF InPackets
<1>7. Before(cur, new.pk) + new.ftmplen + HdrLen * (new.pk - 1) + new.hlen =
        Before(cur, c.pk) + c.ftmplen + HdrLen * (c.pk - 1) + c.hlen + n
  <2> DEFINE b == Before(cur, c.pk)
             m == HdrLen * (c.pk - 1)
  <2>1. b \in Nat /\ m \in Nat /\ c.hlen \in Nat /\ c.ftmplen = 0 /\ n \in Nat
    BY <1>3, <1>4
  <2>2. /\ Before(cur, new.pk) = b /\ HdrLen * (new.pk - 1) = m
        /\ new.ftmplen = 0 /\ new.hlen = c.hlen + n
    BY <1>5
  <2> HIDE DEF new, n, b, m, c
  <2>3. b + 0 + m + (c.hlen + n) = b + 0 + m + c.hlen + n
    BY <2>1
  <2> QED BY <2>1, <2>2, <2>3, Zenon DEF b, m
<1> HIDE DEF new, n
<1> QED BY <1>1, <1>3, <1>4, <1>5, <1>6, <1>7, ReadingKeeps

LEMMA BodyKeeps == TypeInv /\ ReadBody => TypeInv'
<1> SUFFICES ASSUME TypeInv, ReadBody PROVE TypeInv'
  OBVIOUS
<1> DEFINE c == ctx[cur]
           len == Packet.to - Before(cur, c.pk)
           n == Least(len - c.ftmplen, left)
           over == c.ftmplen + n = len
           new == [pk |-> IF over THEN c.pk + 1 ELSE c.pk,
                   hlen |-> IF over THEN 0 ELSE HdrLen,
                   ftmplen |-> IF over THEN 0 ELSE c.ftmplen + n,
                   flen |-> c.flen + n, last_timestamp |-> Packet.ts, heard |-> TRUE]
<1>1. /\ pc = "loop" /\ left > 0 /\ c.hlen = HdrLen /\ left' = left - n
      /\ ctx' = [ctx EXCEPT ![cur] = new]
      /\ UNCHANGED <<running, pc, connected, open, camera, cur, ready, main_in>>
  BY DEF ReadBody
<1>2. /\ cur \in Streams /\ c.pk \in 1 .. Len(script[cur]) /\ left \in Nat /\ InPackets(cur)
      /\ Packet = script[cur][c.pk]
  BY <1>1, AtPacket
<1>3. /\ c \in CtxSet /\ HdrLen \in Nat \ {0} /\ Len(script[cur]) \in Nat /\ c.pk \in Nat \ {0}
      /\ c.pk <= Len(script[cur]) + 1 /\ c.pk # Len(script[cur]) + 1
      /\ c.ftmplen \in Nat /\ c.flen \in Nat
      /\ Before(cur, c.pk) \in Nat /\ HdrLen * (c.pk - 1) \in Nat
  BY <1>2, Numbers, HgAssumption DEF InPackets
<1>4. /\ Packet.to \in Nat /\ Packet.ts \in Nat /\ len \in Int /\ c.ftmplen <= len
      /\ Before(cur, c.pk + 1) = Packet.to
  <2>1. TypeOK /\ c.pk \in 1 .. Len(script[cur])
    BY <1>2 DEF TypeInv
  <2>2. script[cur][c.pk].to \in Nat /\ script[cur][c.pk].ts \in Nat
    BY <1>2, <2>1, ScriptFacts
  <2>3. Before(cur, c.pk + 1) = script[cur][c.pk].to
    BY <1>2, <2>1, BeforeFacts
  <2>4. c.ftmplen <= script[cur][c.pk].to - Before(cur, c.pk)
    BY <1>2, <1>3 DEF InPackets
  <2>5. /\ Packet.to \in Nat /\ Packet.ts \in Nat /\ len = Packet.to - Before(cur, c.pk)
        /\ Before(cur, c.pk + 1) = Packet.to /\ c.ftmplen <= Packet.to - Before(cur, c.pk)
    BY <1>2, <2>2, <2>3, <2>4, Zenon
  <2>6. Before(cur, c.pk) \in Nat
    BY <1>3
  <2> HIDE DEF len
  <2> QED BY <2>5, <2>6
<1>5. n \in Nat /\ n <= left /\ c.ftmplen + n <= len
  <2>1. len - c.ftmplen \in Nat /\ left \in Nat
    <3>1. len \in Int /\ c.ftmplen \in Nat /\ c.ftmplen <= len
      BY <1>3, <1>4
    <3> HIDE DEF len, c
    <3> QED BY <1>2, <3>1
  <2>2. n = len - c.ftmplen \/ (n = left /\ left <= len - c.ftmplen)
    BY <2>1 DEF Least
  <2>3. n <= left
    BY <2>1 DEF Least
  <2> HIDE DEF n, len
  <2> QED BY <1>3, <1>4, <2>1, <2>2, <2>3
<1>6. new \in CtxSet
  <2>1. /\ (IF over THEN c.pk + 1 ELSE c.pk) \in Nat \ {0}
        /\ (IF over THEN 0 ELSE HdrLen) \in 0 .. HdrLen
        /\ (IF over THEN 0 ELSE c.ftmplen + n) \in Nat /\ c.flen + n \in Nat
    <3>1. /\ c.pk + 1 \in Nat \ {0} /\ c.pk \in Nat \ {0}
          /\ 0 \in 0 .. HdrLen /\ HdrLen \in 0 .. HdrLen
      BY <1>3
    <3>2. c.ftmplen + n \in Nat /\ c.flen + n \in Nat /\ 0 \in Nat
      <4>1. c.ftmplen \in Nat /\ c.flen \in Nat
        BY <1>3
      <4> HIDE DEF n, c
      <4> QED BY <1>5, <4>1
    <3> HIDE DEF over, n
    <3> QED BY <3>1, <3>2
  <2> HIDE DEF over, n
  <2> QED BY <1>4, <2>1 DEF CtxSet
<1> HIDE DEF n, len
<1>7. CASE over
  <2>1. new.pk = c.pk + 1 /\ new.hlen = 0 /\ new.ftmplen = 0 /\ c.ftmplen + n = len
    BY <1>7
  <2>2. HdrLen * (new.pk - 1) = HdrLen * (c.pk - 1) + HdrLen
    BY <1>3, <2>1, HeaderFacts
  <2>3. Before(cur, new.pk) = Before(cur, c.pk) + c.ftmplen + n
    <3>1. len = Packet.to - Before(cur, c.pk)
      BY DEF len
    <3>2. Before(cur, new.pk) = Packet.to
      BY <1>4, <2>1
    <3>3. Before(cur, c.pk) \in Nat /\ c.ftmplen \in Nat
      BY <1>3
    <3> HIDE DEF new, over
    <3> QED BY <1>4, <1>5, <2>1, <3>1, <3>2, <3>3
  <2>4. Before(cur, new.pk) + new.ftmplen + HdrLen * (new.pk - 1) + new.hlen =
          Before(cur, c.pk) + c.ftmplen + HdrLen * (c.pk - 1) + c.hlen + n
    <3> DEFINE b == Before(cur, c.pk)
               m == HdrLen * (c.pk - 1)
    <3>1. b \in Nat /\ m \in Nat /\ HdrLen \in Nat /\ c.ftmplen \in Nat
      BY <1>3
    <3>2. /\ Before(cur, new.pk) = b + c.ftmplen + n /\ HdrLen * (new.pk - 1) = m + HdrLen
          /\ new.ftmplen = 0 /\ new.hlen = 0 /\ c.hlen = HdrLen
      BY <1>1, <2>1, <2>2, <2>3
    <3> HIDE DEF new, b, m, c
    <3>3. (b + c.ftmplen + n) + 0 + (m + HdrLen) + 0 = b + c.ftmplen + m + HdrLen + n
      BY <1>5, <3>1
    <3> QED BY <3>2, <3>3, Zenon DEF b, m
  <2>5. new.pk <= Len(script[cur]) + 1
    BY <1>2, <1>3, <2>1
  <2>6. new.pk <= Len(script[cur]) =>
          new.ftmplen <= script[cur][new.pk].to - Before(cur, new.pk)
    <3> SUFFICES ASSUME new.pk <= Len(script[cur])
                 PROVE  0 <= script[cur][new.pk].to - Before(cur, new.pk)
      BY <2>1
    <3>1. c.pk + 1 \in 1 .. Len(script[cur]) /\ c.pk \in 1 .. (c.pk + 1) - 1
      BY <1>3, <2>1
    <3>2. script[cur][c.pk].to <= script[cur][c.pk + 1].to /\ script[cur][c.pk + 1].to \in Nat
      BY <1>2, <3>1, ScriptFacts DEF TypeInv
    <3> QED BY <1>2, <1>4, <2>1, <3>2
  <2> HIDE DEF new
  <2> QED BY <1>1, <1>5, <1>6, <2>1, <2>4, <2>5, <2>6, ReadingKeeps
<1>8. CASE ~over
  <2>1. new.pk = c.pk /\ new.hlen = HdrLen /\ new.ftmplen = c.ftmplen + n
    BY <1>8
  <2>2. Before(cur, new.pk) + new.ftmplen + HdrLen * (new.pk - 1) + new.hlen =
          Before(cur, c.pk) + c.ftmplen + HdrLen * (c.pk - 1) + c.hlen + n
    <3> DEFINE b == Before(cur, c.pk)
               m == HdrLen * (c.pk - 1)
    <3>1. b \in Nat /\ m \in Nat /\ HdrLen \in Nat /\ c.ftmplen \in Nat
      BY <1>3
    <3>2. /\ Before(cur, new.pk) = b /\ HdrLen * (new.pk - 1) = m
          /\ new.ftmplen = c.ftmplen + n /\ new.hlen = HdrLen /\ c.hlen = HdrLen
      BY <1>1, <2>1
    <3> HIDE DEF new, b, m, c
    <3>3. b + (c.ftmplen + n) + m + HdrLen = b + c.ftmplen + m + HdrLen + n
      BY <1>5, <3>1
    <3> QED BY <3>2, <3>3, Zenon DEF b, m
  <2>3. new.ftmplen <= script[cur][new.pk].to - Before(cur, new.pk)
    BY <1>2, <1>5, <2>1 DEF len
  <2>4. new.pk <= Len(script[cur]) + 1 /\ new.pk # Len(script[cur]) + 1
        /\ ~(new.hlen < HdrLen)
    BY <1>3, <2>1
  <2> HIDE DEF new
  <2> QED BY <1>1, <1>5, <1>6, <2>2, <2>3, <2>4, ReadingKeeps
<1> QED BY <1>7, <1>8

(* A frame is taken out: where the stream is at stays as it is.            *)
LEMMA CommitBytes ==
  ASSUME TypeInv, Commit
  PROVE  Bytes' /\ ctx' \in [Streams -> CtxSet] /\ ctx[cur].pk \in 1 .. Len(script[cur])
<1>1. /\ pc = "loop" /\ left > 0 /\ pc' = "read" /\ UNCHANGED <<script, arrived, cur>>
      /\ ctx' = [ctx EXCEPT ![cur].flen = 0, ![cur].last_timestamp = Packet.ts]
  BY DEF Commit, camera
<1>2. /\ cur \in Streams /\ ctx[cur].pk \in 1 .. Len(script[cur])
      /\ Packet = script[cur][ctx[cur].pk]
  BY <1>1, AtPacket
<1>3. Packet.ts \in Nat /\ ctx \in [Streams -> CtxSet]
  BY <1>2, ScriptFacts DEF TypeInv, TypeOK, CtxSet
<1>4. ctx[cur] \in CtxSet
  BY <1>2, <1>3
<1>5. ctx'[cur] = [ctx[cur] EXCEPT !.flen = 0, !.last_timestamp = Packet.ts]
  BY <1>1, <1>2, <1>3
<1>6. [ctx[cur] EXCEPT !.flen = 0, !.last_timestamp = Packet.ts] \in CtxSet
  BY <1>3, <1>4 DEF CtxSet
<1>7. ctx' \in [Streams -> CtxSet]
  <2>1. ctx' = [t \in Streams |-> IF t = cur THEN ctx'[cur] ELSE ctx[t]]
    BY <1>1, <1>2, <1>3
  <2> QED BY <1>3, <1>5, <1>6, <2>1
<1>8. \A t \in Streams : /\ ctx'[t].pk = ctx[t].pk /\ ctx'[t].hlen = ctx[t].hlen
                         /\ ctx'[t].ftmplen = ctx[t].ftmplen
  BY <1>1, <1>2, <1>3, <1>4 DEF CtxSet
<1>9. \A t \in Streams : InPackets(t)'
  BY <1>1, <1>8 DEF TypeInv, Bytes, Reading, InPackets, Available, Payload, Before
<1>10. Bytes'
  BY <1>1, <1>9 DEF TypeInv, Bytes, Sent, Before
<1> QED BY <1>2, <1>7, <1>10

(* fbuf begins at a byte of the connection.                                *)
LEMMA BufferStart ==
  ASSUME TypeInv, Reading, NEW i \in Nat, Gathering(i)
  PROVE  /\ Buffer("main") = <<Before("main", i + 1), Payload("main")>>
         /\ Before("main", i + 1) \in Nat /\ Payload("main") \in Nat
         /\ i + 1 \in 1 .. Len(script["main"]) + 1
<1>1. "main" \in Streams /\ TypeOK /\ ctx["main"].pk <= Len(script["main"]) + 1
  BY DEF Streams, TypeInv, Bytes, InPackets
<1>2. /\ ctx["main"].pk \in Nat /\ Before("main", ctx["main"].pk) \in Nat
      /\ ctx["main"].ftmplen \in Nat /\ Len(script["main"]) \in Nat
  BY <1>1, Numbers
<1>3. i + 1 \in 1 .. Len(script["main"]) + 1
  BY <1>1, <1>2 DEF Gathering
<1> QED BY <1>1, <1>2, <1>3, BeforeFacts DEF Gathering, Buffer, Payload

LEMMA CommitKeeps == IInv /\ Commit => TypeInv'
<1> SUFFICES ASSUME IInv, Commit PROVE TypeInv'
  OBVIOUS
<1>1. /\ pc = "loop" /\ pc' = "read" /\ left' = 0 /\ TypeInv /\ Reading
      /\ UNCHANGED <<running, connected, open, camera, cur, ready>>
  BY DEF IInv, Commit, Reading
<1>2. main_in' \in Nat \X Nat
  <2>1. PICK i \in Nat : Gathering(i)
    BY <1>1 DEF IInv, Frames
  <2>2. Buffer("main") \in Nat \X Nat
    BY <1>1, <2>1, BufferStart
  <2> QED BY <1>1, <2>2 DEF Commit, TypeInv, TypeOK
<1>3. TypeOK'
  BY <1>1, <1>2, CommitBytes DEF TypeInv, TypeOK, CtxSet, camera
<1>4. Sockets' /\ Fresh'
  BY <1>1 DEF TypeInv, Sockets, Fresh, Connecting
<1> QED BY <1>1, <1>3, <1>4, CommitBytes DEF TypeInv

(* The loop spins, and the stream is where it was.                         *)
LEMMA SpinsKeeps == TypeInv /\ ReadSpins => TypeInv'
<1> SUFFICES ASSUME TypeInv, ReadSpins PROVE TypeInv'
  OBVIOUS
<1>1. /\ pc = "loop" /\ left > 0 /\ ctx' = [ctx EXCEPT ![cur].last_timestamp = Packet.ts]
      /\ UNCHANGED <<running, pc, connected, open, camera, cur, left, ready, main_in>>
  BY DEF ReadSpins, Spinning
<1>2. /\ cur \in Streams /\ ctx[cur].pk \in 1 .. Len(script[cur])
      /\ Packet = script[cur][ctx[cur].pk]
  BY <1>1, AtPacket
<1>3. Packet.ts \in Nat /\ ctx \in [Streams -> CtxSet]
  BY <1>2, ScriptFacts DEF TypeInv, TypeOK, CtxSet
<1>4. /\ ctx[cur] \in CtxSet /\ ctx'[cur] = [ctx[cur] EXCEPT !.last_timestamp = Packet.ts]
      /\ \A t \in Streams \ {cur} : ctx'[t] = ctx[t]
  BY <1>1, <1>2, <1>3
<1>5. [ctx[cur] EXCEPT !.last_timestamp = Packet.ts] \in CtxSet
  BY <1>3, <1>4 DEF CtxSet
<1>6. ctx' \in [Streams -> CtxSet]
  <2>1. ctx' = [t \in Streams |-> IF t = cur THEN ctx'[cur] ELSE ctx[t]]
    BY <1>1, <1>2, <1>3
  <2> QED BY <1>3, <1>4, <1>5, <2>1
<1>7. \A t \in Streams : /\ ctx'[t].pk = ctx[t].pk /\ ctx'[t].hlen = ctx[t].hlen
                         /\ ctx'[t].ftmplen = ctx[t].ftmplen
  BY <1>1, <1>2, <1>3, <1>4 DEF CtxSet
<1>8. /\ \A t \in Streams : InPackets(t)' /\ Available(t)' = Available(t)
      /\ UNCHANGED <<cur, left, pc, arrived, script>>
  BY <1>1, <1>7 DEF TypeInv, Bytes, Reading, InPackets, Available, Payload, Before, camera
<1>9. Bytes'
  BY <1>2, <1>8 DEF TypeInv, Bytes, Sent, Before
<1>10. TypeOK' /\ Sockets' /\ Fresh'
  BY <1>1, <1>6 DEF TypeInv, TypeOK, Sockets, Fresh, Connecting, camera, CtxSet
<1> QED BY <1>9, <1>10 DEF TypeInv

LEMMA TypeInvStep == IInv /\ [Next]_vars => TypeInv'
<1> SUFFICES ASSUME IInv, [Next]_vars PROVE TypeInv'
  OBVIOUS
<1>a. TypeInv /\ TypeOK /\ Sockets /\ Fresh /\ Bytes
  BY DEF IInv, TypeInv
<1>b. /\ connected \in [Streams -> BOOLEAN] /\ "main" \in Streams /\ "sub" \in Streams
      /\ running \in BOOLEAN
  BY <1>a DEF TypeOK, Streams
<1>1. ASSUME ConnectMain PROVE TypeInv'
  <2>1. /\ connected' = [connected EXCEPT !["main"] = TRUE] /\ open' = open + 1
        /\ pc = "begin" /\ pc' = "connect_sub"
        /\ UNCHANGED <<running, camera, cur, left, ready, ctx, main_in>>
    BY <1>1 DEF ConnectMain, Connect, Idle
  <2>2. connected'["main"] /\ ~connected'["sub"] /\ connected' \in [Streams -> BOOLEAN]
    BY <1>a, <1>b, <2>1 DEF Sockets
  <2>3. Sockets' /\ open' = 1
    <3>1. Cardinality({s \in Streams : connected'[s]}) = 1
      BY <2>2, Counted
    <3>2. open = 0
      BY <1>a, <1>b, <2>1, Counted DEF Sockets
    <3> QED BY <2>1, <2>2, <3>1, <3>2 DEF Sockets
  <2>4. TypeOK'
    <3>1. open' \in 0 .. 2
      BY <2>3
    <3> QED BY <1>a, <2>1, <2>2, <3>1 DEF TypeOK, camera
  <2>5. Fresh' /\ Bytes'
    BY <1>a, <2>1, QuietBytes DEF Fresh, Connecting, Reading, camera
  <2> QED BY <2>3, <2>4, <2>5 DEF TypeInv
<1>2. ASSUME ConnectSub PROVE TypeInv'
  <2>1. /\ connected' = [connected EXCEPT !["sub"] = TRUE] /\ open' = open + 1
        /\ pc = "connect_sub" /\ pc' = "login"
        /\ UNCHANGED <<running, camera, cur, left, ready, ctx, main_in>>
    BY <1>2 DEF ConnectSub, Connect, Idle
  <2>2. connected'["main"] /\ connected'["sub"] /\ connected' \in [Streams -> BOOLEAN]
    BY <1>a, <1>b, <2>1 DEF Sockets
  <2>3. Sockets' /\ open' = 2
    <3>1. Cardinality({s \in Streams : connected'[s]}) = 2
      BY <2>2, Counted
    <3>2. open = 1
      BY <1>a, <1>b, <2>1, Counted DEF Sockets
    <3> QED BY <2>1, <2>2, <3>1, <3>2 DEF Sockets
  <2>4. TypeOK'
    <3>1. open' \in 0 .. 2
      BY <2>3
    <3> QED BY <1>a, <2>1, <2>2, <3>1 DEF TypeOK, camera
  <2>5. Fresh' /\ Bytes'
    BY <1>a, <2>1, QuietBytes DEF Fresh, Connecting, Reading, camera
  <2> QED BY <2>3, <2>4, <2>5 DEF TypeInv
<1>3. ASSUME Login PROVE TypeInv'
  BY <1>3, <1>a, QuietBytes
     DEF Login, Idle, TypeInv, TypeOK, Sockets, Fresh, Connecting, Reading, camera
<1>4. ASSUME Setup PROVE TypeInv'
  <2>1. /\ pc = "setup" /\ pc' = "select" /\ ctx' = [s \in Streams |-> Ctx]
        /\ script' \in Scripts /\ arrived = [s \in Streams |-> 0]
        /\ UNCHANGED <<running, connected, open, arrived, closed, cur, left, ready, main_in>>
    BY <1>4, <1>a DEF Setup, Fresh, Connecting
  <2>2. TypeOK'
    BY <1>a, <2>1, CtxType DEF TypeOK
  <2>3. ASSUME NEW s \in Streams PROVE 0 <= Sent(s)' /\ InPackets(s)'
    <3>1. ctx'[s].pk = 1 /\ ctx'[s].hlen = 0 /\ ctx'[s].ftmplen = 0 /\ arrived'[s] = 0
      BY <2>1 DEF Ctx
    <3>2. Len(script'[s]) \in Nat /\ Before(s, 1)' = 0 /\ Before(s, Len(script[s]) + 1)' \in Nat
          /\ \A j \in 1 .. Len(script'[s]) : script'[s][j].to \in Nat
      <4>1. script' \in Scripts \cup {[t \in Streams |-> <<>>]}
        BY <2>1
      <4>2. /\ Len(script'[s]) \in Nat
            /\ \A j \in 1 .. Len(script'[s]) : script'[s][j].to \in Nat
        BY <4>1, ScriptOf
      <4> QED BY <4>2 DEF Before
    <3>3. HdrLen * Len(script'[s]) \in Nat /\ HdrLen * (1 - 1) = 0
      BY <3>2, HgAssumption
    <3>4. Available(s)' = 0
      BY <3>1, <3>2, <3>3 DEF Available, Payload
    <3>5. InPackets(s)'
      BY <3>1, <3>2, <3>4 DEF InPackets
    <3> QED BY <3>2, <3>3, <3>5 DEF Sent
  <2>4. Bytes'
    BY <2>1, <2>3 DEF Bytes
  <2>5. Sockets' /\ Fresh'
    BY <1>a, <2>1 DEF Sockets, Fresh, Connecting
  <2> QED BY <2>2, <2>4, <2>5 DEF TypeInv
<1>5. ASSUME SetupFails PROVE TypeInv'
  BY <1>5, <1>a, ClearKeeps DEF SetupFails
<1>6. ASSUME End PROVE TypeInv'
  <2>1. /\ pc \in {"begin", "select"} /\ pc' = "over" /\ connected' = [s \in Streams |-> FALSE]
        /\ open' = open - Cardinality({s \in Streams : connected[s]})
        /\ UNCHANGED <<running, camera, cur, left, ready, ctx, main_in>>
    BY <1>6 DEF End, Idle
  <2>2. open' = 0 /\ connected' \in [Streams -> BOOLEAN]
    <3>1. connected' \in [Streams -> BOOLEAN]
      BY <2>1, Zenon
    <3> QED BY <1>a, <2>1, <3>1 DEF Sockets, TypeOK
  <2>3. Sockets'
    <3>1. /\ {s \in Streams : connected'[s]} = {}
          /\ ~connected'["main"] /\ ~connected'["sub"]
      BY <2>1 DEF Streams
    <3> QED BY <2>1, <2>2, <3>1, FS_EmptySet DEF Sockets
  <2>4. TypeOK'
    BY <1>a, <2>1, <2>2 DEF TypeOK, camera
  <2>5. Fresh' /\ Bytes'
    BY <1>a, <2>1, QuietBytes DEF Fresh, Connecting, Reading, camera
  <2> QED BY <2>3, <2>4, <2>5 DEF TypeInv
<1>7. ASSUME Select PROVE TypeInv'
  BY <1>7, <1>a, QuietBytes DEF Select, TypeInv, TypeOK, Sockets, Fresh, Connecting, Reading, camera
<1>8. ASSUME Silence \/ SelectFails \/ ReadSilent \/ ReadFails PROVE TypeInv'
  BY <1>8, <1>a, ClearKeeps DEF Silence, SelectFails, ReadSilent, ReadFails
<1>9. ASSUME ReadStart PROVE TypeInv'
  <2>1. /\ pc = "read" /\ pc' = "loop" /\ left' = Available(cur) /\ cur \in Streams
        /\ UNCHANGED <<running, connected, open, camera, cur, ready, ctx, main_in>>
    BY <1>9, <1>a DEF ReadStart, TypeOK
  <2>2. InPackets(cur)
    BY <1>a, <2>1 DEF Bytes, Reading
  <2>3. Available(cur) \in Nat
    BY <1>a, <2>1, <2>2, Numbers DEF InPackets
  <2>4. TypeOK' /\ Sockets' /\ Fresh'
    BY <1>a, <2>1, <2>3 DEF TypeOK, Sockets, Fresh, Connecting, camera
  <2>5. Available(cur)' = Available(cur) /\ Available(cur) <= Available(cur)
    BY <2>1, <2>3 DEF Available, Payload, Before, camera
  <2>6. Bytes'
    BY <1>a, <2>1, <2>5
       DEF Bytes, Reading, InPackets, Available, Sent, Payload, Before, camera
  <2> QED BY <2>4, <2>6 DEF TypeInv
<1>10. ASSUME ReadOver PROVE TypeInv'
  BY <1>10, <1>a, QuietBytes
     DEF ReadOver, TypeInv, TypeOK, Sockets, Fresh, Connecting, Reading, Streams, camera
<1>11. ASSUME NEW s \in Streams, Arrive(s) PROVE TypeInv'
  <2>1. /\ arrived[s] < Sent(s) /\ arrived' = [arrived EXCEPT ![s] = @ + 1]
        /\ UNCHANGED <<running, pc, connected, open, script, closed, cur, left, ready, ctx,
                       main_in>>
    BY <1>11 DEF Arrive
  <2>2. TypeOK' /\ Sockets'
    <3>1. arrived' \in [Streams -> Nat]
      BY <1>a, <2>1 DEF TypeOK
    <3> QED BY <1>a, <2>1, <3>1 DEF TypeOK, Sockets
  <2>3. script # [t \in Streams |-> <<>>]
    BY <1>a, <2>1, NoPackets DEF TypeOK
  <2>4. Fresh'
    BY <1>a, <2>1, <2>3 DEF Fresh, Connecting
  <2>5. arrived'[s] = arrived[s] + 1 /\ arrived[s] \in Nat
        /\ \A t \in Streams \ {s} : arrived'[t] = arrived[t]
    BY <1>a, <2>1 DEF TypeOK
  <2>6. Sent(s) \in Int /\ \A t \in Streams : Sent(t)' = Sent(t)
    <3>1. Len(script[s]) \in Nat /\ Before(s, Len(script[s]) + 1) \in Nat /\ HdrLen \in Nat
      BY <1>a, ScriptFacts, BeforeFacts, HgAssumption
    <3>2. HdrLen * Len(script[s]) \in Nat
      BY <3>1
    <3> QED BY <2>1, <3>1, <3>2 DEF Sent, Before
  <2>7. ASSUME Reading, NEW t \in Streams
        PROVE  InPackets(t)' /\ Available(t) <= Available(t)' /\ Available(t) \in Int
               /\ Available(t)' \in Int
    <3>1. InPackets(t) /\ Available(t) \in Int /\ 0 <= Available(t)
      BY <1>a, <2>7, Numbers DEF Bytes, InPackets
    <3>2. Available(t)' \in {Available(t), Available(t) + 1}
      <4>1. Before(t, ctx[t].pk)' = Before(t, ctx[t].pk)
        BY <2>1 DEF Before
      <4> DEFINE m == Payload(t) + HdrLen * (ctx[t].pk - 1) + ctx[t].hlen
      <4>2. Available(t) = arrived[t] - m /\ Available(t)' = arrived'[t] - m
        BY <2>1, <4>1 DEF Available, Payload
      <4>3. m \in Int /\ arrived[t] \in Int
        <5>1. /\ Before(t, ctx[t].pk) \in Nat /\ ctx[t].ftmplen \in Nat
              /\ HdrLen * (ctx[t].pk - 1) \in Nat /\ ctx[t].hlen \in Nat /\ arrived[t] \in Nat
          BY <1>a, <3>1, Numbers DEF InPackets
        <5> QED BY <5>1 DEF Payload
      <4> HIDE DEF m
      <4> QED BY <2>5, <4>2, <4>3
    <3> QED BY <2>1, <3>1, <3>2 DEF InPackets, Before
  <2>8. Bytes'
    <3>1. \A t \in Streams : arrived'[t] <= Sent(t)'
      BY <1>a, <2>1, <2>5, <2>6 DEF Bytes
    <3>2. pc' = "loop" => left' <= Available(cur)'
      <4> SUFFICES ASSUME pc = "loop" PROVE left <= Available(cur)'
        BY <2>1
      <4>1. left <= Available(cur) /\ cur \in Streams /\ left \in Nat /\ Reading
        BY <1>a DEF Bytes, TypeOK, Reading
      <4> QED BY <2>1, <2>7, <4>1
    <3> QED BY <2>1, <2>7, <3>1, <3>2 DEF Bytes, Reading
  <2> QED BY <2>2, <2>4, <2>8 DEF TypeInv
<1>12. ASSUME (\E s \in Streams : CameraCloses(s)) \/ Stop PROVE TypeInv'
  <2>1. /\ running' \in BOOLEAN /\ closed' \subseteq Streams
        /\ UNCHANGED <<pc, connected, open, script, arrived, cur, left, ready, ctx, main_in>>
    <3>1. running' \in BOOLEAN
      BY <1>12, <1>b, Zenon DEF CameraCloses, Stop
    <3> QED BY <1>12, <1>a, <3>1 DEF CameraCloses, Stop, camera, TypeOK
  <2> QED BY <1>a, <2>1, QuietBytes
          DEF TypeInv, TypeOK, Sockets, Fresh, Connecting, Reading
<1>13. ASSUME UNCHANGED vars PROVE TypeInv'
  BY <1>13, <1>a, QuietBytes
     DEF vars, camera, TypeInv, TypeOK, Sockets, Fresh, Connecting, Reading
<1> QED
  BY <1>a, <1>1, <1>2, <1>3, <1>4, <1>5, <1>6, <1>7, <1>8, <1>9, <1>10, <1>11, <1>12, <1>13,
     HeaderKeeps, SpinsKeeps, BodyKeeps, CommitKeeps DEF Next, Thread

-----------------------------------------------------------------------------
(* The frames of the main stream.                                          *)

(* What can be said of the packets when the header of another frame is     *)
(* there: fbuf holds those from i + 1 to the last, and they are one frame. *)
LEMMA FrameIsOver ==
  ASSUME TypeInv, pc = "loop", left > 0, cur = "main", FrameEnds, NEW i \in Nat, Gathering(i)
  PROVE  LET c == ctx["main"]  p == script["main"] IN
         /\ c.pk \in 1 .. Len(p) /\ i < c.pk - 1 /\ c.ftmplen = 0
         /\ WholeUpTo(c.pk - 1) /\ c.pk - 1 \in 1 .. Len(p)
         /\ \A k \in i + 1 .. c.pk - 2 : ~EndsFrame(p, k)
<1> DEFINE c == ctx["main"]
           p == script["main"]
<1>1. c.pk \in 1 .. Len(p) /\ Packet = p[c.pk] /\ Len(p) \in Nat
  BY AtPacket, ScriptFacts DEF TypeInv
<1>2. c.last_timestamp # 0 /\ c.last_timestamp # p[c.pk].ts
  BY <1>1 DEF FrameEnds
<1>3. /\ c.ftmplen = 0 /\ i < c.pk - 1 /\ c.last_timestamp = p[c.pk - 1].ts
      /\ \A k \in i + 1 .. c.pk - 2 : ~EndsFrame(p, k)
  BY <1>1, <1>2 DEF Gathering
<1>4. EndsFrame(p, c.pk - 1)
  <2>1. (c.pk - 1) + 1 = c.pk
    BY <1>1
  <2> QED BY <1>2, <1>3, <2>1 DEF EndsFrame
<1>5. c.pk - 1 \in 1 .. Len(p)
  BY <1>1, <1>3
<1> QED BY <1>1, <1>3, <1>4, <1>5 DEF WholeUpTo

(* A frame that is handed on is the next whole one of the camera's.        *)
LEMMA Delivered ==
  ASSUME TypeInv, pc = "loop", left > 0, cur = "main", FrameEnds, UNCHANGED script,
         main_in' = Buffer("main"), NEW i \in Nat, Gathering(i)
  PROVE  Log!LogDeliver
<1> DEFINE c == ctx["main"]
           p == script["main"]
           a == Before("main", i + 1)
           e == p[c.pk - 1].to
<1>1. /\ c.pk \in 1 .. Len(p) /\ i < c.pk - 1 /\ c.ftmplen = 0 /\ WholeUpTo(i)
      /\ EndsFrame(p, c.pk - 1) /\ c.pk - 1 \in 1 .. Len(p)
      /\ \A k \in i + 1 .. c.pk - 2 : ~EndsFrame(p, k)
  <2>1. WholeUpTo(i)
    BY DEF Gathering
  <2>2. /\ c.pk \in 1 .. Len(p) /\ i < c.pk - 1 /\ c.ftmplen = 0
        /\ WholeUpTo(c.pk - 1) /\ c.pk - 1 \in 1 .. Len(p)
        /\ \A k \in i + 1 .. c.pk - 2 : ~EndsFrame(p, k)
    BY FrameIsOver
  <2>3. c.pk - 1 > 0
    BY <2>2
  <2>4. EndsFrame(p, c.pk - 1)
    BY <2>2, <2>3 DEF WholeUpTo
  <2> QED BY <2>1, <2>2, <2>4
<1>2. "main" \in Streams /\ TypeOK /\ Len(p) \in Nat
  BY ScriptFacts DEF Streams, TypeInv
<1>3. Payload("main") = e /\ e \in Nat
  <2>1. Before("main", c.pk) = e
    <3>1. (c.pk - 1) + 1 = c.pk
      BY <1>1
    <3> QED BY <1>1, <1>2, <3>1, BeforeFacts
  <2>2. e \in Nat
    BY <1>1, <1>2, ScriptFacts
  <2> QED BY <1>1, <2>1, <2>2 DEF Payload
<1>4. main_in' = <<a, e>>
  BY <1>3, BufferStart DEF Reading
<1>5. /\ i = 0 => a = 0
      /\ i # 0 => i \in 1 .. (c.pk - 1) - 1 /\ i \in 1 .. Len(p) /\ a = p[i].to /\ EndsFrame(p, i)
  BY <1>1, <1>2, BeforeFacts DEF WholeUpTo
<1>6. a \in {0} \cup FrameEnd /\ e \in FrameEnd
  BY <1>1, <1>5 DEF FrameEnd
<1>7. a <= e
  <2>1. CASE i = 0
    BY <1>1, <1>2, <1>5, <2>1, ScriptFacts
  <2>2. CASE i # 0
    BY <1>1, <1>2, <1>5, <2>2, ScriptFacts
  <2> QED BY <2>1, <2>2
<1>8. main_in[2] <= a
  BY DEF Gathering
<1>9. ASSUME NEW q \in FrameEnd PROVE q <= a \/ e <= q
  <2>1. PICK k \in 1 .. Len(p) : EndsFrame(p, k) /\ q = p[k].to
    BY DEF FrameEnd
  <2>2. k \notin i + 1 .. c.pk - 2
    BY <1>1, <2>1
  <2>3. p[k].to \in Nat
    BY <1>2, <2>1, ScriptFacts
  <2>4. CASE k < i
    <3>1. k \in 1 .. i - 1 /\ i # 0
      BY <2>4
    <3>2. p[k].to <= p[i].to
      BY <1>2, <1>5, <3>1, ScriptFacts
    <3> QED BY <1>5, <2>1, <3>1, <3>2
  <2>5. CASE k = i
    BY <1>5, <2>1, <2>3, <2>5
  <2>6. CASE k = c.pk - 1
    BY <2>1, <2>3, <2>6
  <2>7. CASE k > c.pk - 1
    <3>1. c.pk - 1 \in 1 .. k - 1
      BY <1>1, <2>7
    <3>2. p[c.pk - 1].to <= p[k].to
      BY <1>2, <2>1, <3>1, ScriptFacts
    <3> QED BY <2>1, <3>2
  <2> QED BY <1>1, <2>2, <2>4, <2>5, <2>6, <2>7
<1>10. FrameEnd' = FrameEnd
  BY DEF FrameEnd
<1> HIDE DEF a, e
<1> QED BY <1>4, <1>6, <1>7, <1>8, <1>9, <1>10 DEF Log!LogDeliver

LEMMA FramesInit == Init => Frames
BY DEF Init, Frames, Reading

(* What a stream is at does not concern fbuf of the main stream.           *)
LEMMA QuietFrames ==
  ASSUME Frames, UNCHANGED <<script, main_in>>, UNCHANGED ctx["main"], Reading' => Reading
  PROVE  Frames'
BY DEF Frames, Gathering, WholeUpTo, Payload, Before

(* When no frame ends with the header that is there, none has ended.       *)
LEMMA FrameGoesOn ==
  ASSUME TypeInv, pc = "loop", left > 0, cur = "main", ctx["main"].hlen = HdrLen, ~FrameEnds,
         NEW i \in Nat, Gathering(i)
  PROVE  \A k \in i + 1 .. ctx["main"].pk - 1 : ~EndsFrame(script["main"], k)
<1> DEFINE c == ctx["main"]
           p == script["main"]
<1>1. c.pk \in 1 .. Len(p) /\ Packet = p[c.pk] /\ Len(p) \in Nat /\ c.pk \in Nat \ {0}
  BY AtPacket, ScriptFacts DEF TypeInv
<1>2. c.last_timestamp = 0 \/ c.last_timestamp = p[c.pk].ts
  BY <1>1 DEF FrameEnds
<1>3. CASE \A k \in i + 1 .. c.pk - 1 : ~EndsFrame(p, k)
  BY <1>3
<1>4. CASE /\ c.last_timestamp = p[c.pk - 1].ts /\ i < c.pk - 1
           /\ \A k \in i + 1 .. c.pk - 2 : ~EndsFrame(p, k)
  <2>1. c.pk - 1 # Len(p) /\ (c.pk - 1) + 1 = c.pk
    BY <1>1
  <2>2. ~EndsFrame(p, c.pk - 1)
    BY <1>2, <1>4, <2>1 DEF EndsFrame
  <2> QED BY <1>1, <1>4, <2>2
<1> QED BY <1>3, <1>4 DEF Gathering

(* Whole packets, or parts of one, that are of the frame being gathered.   *)
LEMMA BodyFrames == TypeInv /\ Frames /\ ReadBody => Frames'
<1> SUFFICES ASSUME TypeInv, Frames, ReadBody PROVE Frames'
  OBVIOUS
<1>1. /\ pc = "loop" /\ pc' = "loop" /\ left > 0 /\ cur \in Streams /\ ctx \in [Streams -> CtxSet]
      /\ UNCHANGED <<script, main_in, cur>> /\ ~FrameEnds /\ ctx[cur].hlen = HdrLen
  BY DEF ReadBody, camera, TypeInv, TypeOK, CtxSet
<1>2. CASE cur # "main"
  <2>1. "main" \in Streams /\ "main" # cur
    BY <1>2 DEF Streams
  <2>2. ctx'["main"] = ctx["main"]
    BY <1>1, <2>1 DEF ReadBody
  <2> QED BY <1>1, <2>2, QuietFrames DEF Reading
<1>3. CASE cur = "main"
  <2> DEFINE c == ctx["main"]
             p == script["main"]
             len == Packet.to - Before("main", c.pk)
             n == Least(len - c.ftmplen, left)
             over == c.ftmplen + n = len
             new == [pk |-> IF over THEN c.pk + 1 ELSE c.pk,
                     hlen |-> IF over THEN 0 ELSE HdrLen,
                     ftmplen |-> IF over THEN 0 ELSE c.ftmplen + n,
                     flen |-> c.flen + n, last_timestamp |-> Packet.ts, heard |-> TRUE]
  <2>1. ctx'["main"] = new
    BY <1>1, <1>3 DEF ReadBody
  <2>2. /\ c.pk \in 1 .. Len(p) /\ Packet = p[c.pk] /\ left \in Nat /\ InPackets("main")
        /\ "main" \in Streams /\ TypeOK
    BY <1>1, <1>3, AtPacket DEF TypeInv
  <2>3. /\ c \in CtxSet /\ Len(p) \in Nat /\ c.pk \in Nat \ {0}
        /\ c.ftmplen \in Nat /\ c.flen \in Nat
        /\ Before("main", c.pk) \in Nat
    BY <2>2, Numbers DEF InPackets
  <2>4. /\ p[c.pk].to \in Nat /\ p[c.pk].ts \in Nat
        /\ Before("main", c.pk + 1) = p[c.pk].to
    BY <2>2, ScriptFacts, BeforeFacts
  <2>5. len \in Int /\ n \in Int
    <3>1. len \in Int
      <4>1. Packet.to \in Nat /\ Before("main", c.pk) \in Nat
        BY <2>2, <2>3, <2>4
      <4> QED BY <4>1
    <3>2. left \in Int /\ c.ftmplen \in Int
      BY <2>2, <2>3
    <3> HIDE DEF len, c
    <3> QED BY <3>1, <3>2 DEF Least
  <2>6. PICK i \in Nat : Gathering(i)
    BY <1>1 DEF Frames, Reading
  <2>8. \A k \in i + 1 .. c.pk - 1 : ~EndsFrame(p, k)
    BY <1>1, <1>3, <2>6, FrameGoesOn
  <2>9. Payload("main")' - ctx'["main"].flen = Payload("main") - c.flen
    <3>1. Payload("main")' = Payload("main") + n
      <4>1. CASE over
        <5>1. Payload("main")' = Before("main", c.pk + 1) + 0
          BY <1>1, <2>1, <4>1 DEF Payload, Before
        <5>2. Before("main", c.pk + 1) = Before("main", c.pk) + len
          <6> HIDE DEF n
          <6> QED BY <2>2, <2>3, <2>4
        <5>3. c.ftmplen + n = len
          BY <4>1
        <5> HIDE DEF len, n
        <5> QED BY <2>3, <2>5, <5>1, <5>2, <5>3 DEF Payload
      <4>2. CASE ~over
        <5>1. Payload("main")' = Before("main", c.pk) + (c.ftmplen + n)
          BY <1>1, <2>1, <4>2 DEF Payload, Before
        <5> HIDE DEF n
        <5> QED BY <2>3, <2>5, <5>1 DEF Payload
      <4> QED BY <4>1, <4>2
    <3>2. ctx'["main"].flen = c.flen + n
      BY <2>1
    <3>3. Payload("main") \in Int
      BY <2>3 DEF Payload
    <3> HIDE DEF n
    <3> QED BY <2>3, <2>5, <3>1, <3>2, <3>3
  <2>10. ctx'["main"].last_timestamp = p[c.pk].ts
    BY <2>1, <2>2
  <2>11. Before("main", i + 1)' = Before("main", i + 1) /\ (WholeUpTo(i))' /\ i < c.pk
    BY <1>1, <2>6 DEF Before, WholeUpTo, Gathering
  <2>12. CASE over
    <3>1. ctx'["main"].pk = c.pk + 1 /\ ctx'["main"].ftmplen = 0
      BY <2>1, <2>12
    <3>2. (c.pk + 1) - 1 = c.pk /\ (c.pk + 1) - 2 = c.pk - 1 /\ i < c.pk + 1
      BY <2>3, <2>11
    <3> HIDE DEF over, new
    <3>3. Gathering(i)'
      BY <1>1, <2>4, <2>6, <2>8, <2>9, <2>10, <2>11, <3>1, <3>2 DEF Gathering
    <3> QED BY <3>3 DEF Frames
  <2>13. CASE ~over
    <3>1. ctx'["main"].pk = c.pk
      BY <2>1, <2>13
    <3> HIDE DEF over, new
    <3>2. Gathering(i)'
      BY <1>1, <2>2, <2>4, <2>6, <2>8, <2>9, <2>10, <2>11, <3>1 DEF Gathering
    <3> QED BY <3>2 DEF Frames
  <2> QED BY <2>12, <2>13
<1> QED BY <1>2, <1>3

LEMMA HeaderFrames == TypeInv /\ Frames /\ ReadHeader => Frames'
<1> SUFFICES ASSUME TypeInv, Frames, ReadHeader PROVE Frames'
  OBVIOUS
<1>1. /\ pc = "loop" /\ pc' = "loop" /\ left > 0 /\ cur \in Streams /\ ctx \in [Streams -> CtxSet]
      /\ UNCHANGED <<script, main_in, cur>>
  BY DEF ReadHeader, camera, TypeInv, TypeOK, CtxSet
<1>2. /\ ctx'["main"].pk = ctx["main"].pk /\ ctx'["main"].ftmplen = ctx["main"].ftmplen
      /\ ctx'["main"].flen = ctx["main"].flen
      /\ ctx'["main"].last_timestamp = ctx["main"].last_timestamp
  BY <1>1 DEF ReadHeader, CtxSet, Streams
<1> QED BY <1>1, <1>2 DEF Frames, Reading, Gathering, WholeUpTo, Payload, Before

(* A loop that spins gathers nothing.                                      *)
LEMMA SpinsFrames == TypeInv /\ Frames /\ ReadSpins => Frames'
<1> SUFFICES ASSUME TypeInv, Frames, ReadSpins PROVE Frames'
  OBVIOUS
<1>1. /\ pc = "loop" /\ left > 0 /\ ctx[cur].hlen = HdrLen /\ ~FrameEnds /\ cur \in Streams
      /\ ctx' = [ctx EXCEPT ![cur].last_timestamp = Packet.ts] /\ ctx \in [Streams -> CtxSet]
      /\ UNCHANGED <<pc, script, main_in, cur>>
  BY DEF ReadSpins, Spinning, camera, TypeInv, TypeOK, CtxSet
<1>2. CASE cur # "main"
  <2>1. "main" \in Streams /\ "main" # cur
    BY <1>2 DEF Streams
  <2>2. ctx'["main"] = ctx["main"]
    BY <1>1, <2>1
  <2> QED BY <1>1, <2>2, QuietFrames DEF Reading
<1>3. CASE cur = "main"
  <2> DEFINE c == ctx["main"]
             p == script["main"]
  <2>1. PICK i \in Nat : Gathering(i)
    BY <1>1 DEF Frames, Reading
  <2>2. c.pk \in 1 .. Len(p) /\ Packet = p[c.pk] /\ Len(p) \in Nat
    BY <1>1, <1>3, AtPacket, ScriptFacts DEF TypeInv
  <2>3. \A k \in i + 1 .. c.pk - 1 : ~EndsFrame(p, k)
    BY <1>1, <1>3, <2>1, FrameGoesOn
  <2>4. /\ ctx'["main"].pk = c.pk /\ ctx'["main"].ftmplen = c.ftmplen
        /\ ctx'["main"].flen = c.flen /\ ctx'["main"].last_timestamp = p[c.pk].ts
    BY <1>1, <1>3, <2>2 DEF CtxSet
  <2>5. /\ i < c.pk /\ (WholeUpTo(i))'
        /\ Payload("main")' = Payload("main") /\ Before("main", i + 1)' = Before("main", i + 1)
    BY <1>1, <2>1, <2>4 DEF Gathering, WholeUpTo, Payload, Before
  <2>6. Gathering(i)'
    BY <1>1, <2>1, <2>2, <2>3, <2>4, <2>5 DEF Gathering
  <2> QED BY <2>6 DEF Frames
<1> QED BY <1>2, <1>3

(* The next frame is gathered where the one before it has ended, whether   *)
(* the pool has taken that one or not.                                     *)
LEMMA CommitFrames == TypeInv /\ Frames /\ Commit => Frames'
<1> SUFFICES ASSUME TypeInv, Frames, Commit PROVE Frames'
  OBVIOUS
<1>1. /\ pc = "loop" /\ pc' = "read" /\ left > 0 /\ FrameEnds /\ UNCHANGED <<script, cur>>
      /\ ctx' = [ctx EXCEPT ![cur].flen = 0, ![cur].last_timestamp = Packet.ts]
      /\ cur \in Streams /\ ctx \in [Streams -> CtxSet]
      /\ (cur = "main" /\ main_in' = Buffer("main")) \/ UNCHANGED main_in
  BY DEF Commit, camera, TypeInv, TypeOK, CtxSet
<1>2. PICK i \in Nat : Gathering(i)
  BY <1>1 DEF Frames, Reading
<1>3. CASE cur # "main"
  <2>1. "main" \in Streams
    BY DEF Streams
  <2>2. ctx'["main"] = ctx["main"] /\ UNCHANGED main_in
    BY <1>1, <1>3, <2>1
  <2> QED BY <1>1, <2>2, QuietFrames DEF Reading
<1>4. CASE cur = "main"
  <2> DEFINE c == ctx["main"]
             p == script["main"]
  <2>1. /\ c.pk \in 1 .. Len(p) /\ i < c.pk - 1 /\ c.ftmplen = 0 /\ WholeUpTo(c.pk - 1)
    BY <1>1, <1>2, <1>4, FrameIsOver
  <2>2. /\ c \in CtxSet /\ c.pk \in Nat \ {0} /\ Packet = p[c.pk] /\ Len(p) \in Nat
        /\ Before("main", c.pk) \in Nat /\ p[c.pk].ts \in Nat
    <3>1. "main" \in Streams /\ TypeOK /\ c.pk \in 1 .. Len(p) /\ Packet = p[c.pk]
      BY <1>1, <1>4, <2>1, AtPacket DEF TypeInv
    <3>2. Len(p) \in Nat /\ p[c.pk].ts \in Nat
      BY <3>1, ScriptFacts
    <3>3. c.pk <= Len(p) + 1
      BY <3>1, <3>2
    <3>4. c \in CtxSet /\ c.pk \in Nat \ {0} /\ Before("main", c.pk) \in Nat
      BY <3>1, <3>3, Numbers
    <3> QED BY <3>1, <3>2, <3>4
  <2>3. /\ ctx'["main"].pk = c.pk /\ ctx'["main"].ftmplen = 0 /\ ctx'["main"].flen = 0
        /\ ctx'["main"].last_timestamp = p[c.pk].ts
    BY <1>1, <1>4, <2>1, <2>2 DEF CtxSet
  <2>4. Payload("main") = Before("main", c.pk)
    BY <2>1, <2>2 DEF Payload
  <2>5. main_in'[2] <= Before("main", c.pk)
    <3>1. CASE main_in' = Buffer("main")
      BY <2>2, <2>4, <3>1 DEF Buffer
    <3>2. CASE UNCHANGED main_in
      <4>1. main_in[2] <= Before("main", i + 1)
        BY <1>2 DEF Gathering
      <4>2. i + 1 \in 1 .. c.pk /\ c.pk \in 1 .. Len(p) + 1
        BY <2>1, <2>2
      <4>3. Before("main", i + 1) <= Before("main", c.pk) /\ Before("main", i + 1) \in Nat
        BY <1>1, <1>4, <2>2, <4>2, BeforeFacts DEF TypeInv
      <4>4. main_in[2] \in Nat
        BY DEF TypeInv, TypeOK
      <4> QED BY <2>2, <3>2, <4>1, <4>3, <4>4
    <3> QED BY <1>1, <3>1, <3>2
  <2>6. PICK j \in Nat : j = c.pk - 1
    BY <2>2
  <2>7. Payload("main")' = Before("main", c.pk)
    <3>1. Before("main", ctx["main"].pk)' = Before("main", c.pk)
      BY <1>1, <2>3 DEF Before
    <3> QED BY <2>2, <2>3, <3>1 DEF Payload
  <2>8. /\ j + 1 = c.pk /\ j < c.pk /\ \A k \in j + 1 .. c.pk - 1 : FALSE
    BY <2>2, <2>6
  <2>9. WholeUpTo(j)' /\ Before("main", j + 1)' = Before("main", c.pk)
    BY <1>1, <2>1, <2>6, <2>8 DEF WholeUpTo, Before
  <2>10. Gathering(j)'
    <3>1. Payload("main")' - ctx'["main"].flen = Before("main", j + 1)'
      BY <2>2, <2>3, <2>7, <2>9
    <3>2. main_in'[2] <= Before("main", j + 1)' /\ j < ctx'["main"].pk
      BY <2>3, <2>5, <2>8, <2>9
    <3>3. script'["main"] = p
      BY <1>1, <2>2, <2>3
    <3>4. /\ ctx'["main"].pk <= Len(p) /\ ctx'["main"].last_timestamp = p[ctx'["main"].pk].ts
          /\ \A k \in j + 1 .. ctx'["main"].pk - 1 : ~EndsFrame(p, k)
      BY <2>1, <2>2, <2>3, <2>8
    <3> HIDE DEF c, p
    <3> QED BY <2>9, <3>1, <3>2, <3>3, <3>4 DEF Gathering
  <2> QED BY <2>10 DEF Frames
<1> QED BY <1>3, <1>4

LEMMA FramesStep == TypeInv /\ Frames /\ [Next]_vars => Frames'
<1> SUFFICES ASSUME TypeInv, Frames, [Next]_vars PROVE Frames'
  OBVIOUS
<1>1. ASSUME ConnectMain \/ ConnectSub \/ Login PROVE Frames'
  BY <1>1 DEF ConnectMain, ConnectSub, Login, Frames, Reading
<1>2. ASSUME Setup PROVE Frames'
  <2>1. /\ ctx' = [s \in Streams |-> Ctx] /\ main_in' = <<0, 0>>
    BY <1>2 DEF Setup, TypeInv, Fresh, Connecting
  <2>2. ctx'["main"] = Ctx
    BY <2>1 DEF Streams
  <2>3. Before("main", 1)' = 0 /\ Payload("main")' = 0
    BY <2>2 DEF Before, Payload, Ctx
  <2>4. /\ ctx'["main"].last_timestamp = 0 /\ ctx'["main"].pk = 1 /\ ctx'["main"].flen = 0
        /\ main_in'[2] = 0 /\ \A k \in 0 + 1 .. 1 - 1 : FALSE
    BY <2>1, <2>2 DEF Ctx
  <2>5. Gathering(0)'
    BY <2>3, <2>4 DEF Gathering, WholeUpTo
  <2> QED BY <2>5 DEF Frames
<1>3. ASSUME SetupFails \/ Silence \/ SelectFails \/ ReadSilent \/ ReadFails \/ End PROVE Frames'
  BY <1>3 DEF SetupFails, Silence, SelectFails, ReadSilent, ReadFails, Clear, End, Frames, Reading
<1>4. ASSUME Select \/ ReadStart \/ ReadOver \/ Stop PROVE Frames'
  BY <1>4, QuietFrames DEF Select, ReadStart, ReadOver, Stop, Reading, camera
<1>5. ASSUME NEW s \in Streams, Arrive(s) \/ CameraCloses(s) PROVE Frames'
  BY <1>5, QuietFrames DEF Arrive, CameraCloses, Reading
<1>6. ASSUME UNCHANGED vars PROVE Frames'
  BY <1>6, QuietFrames DEF vars, camera, Reading
<1> QED
  BY <1>1, <1>2, <1>3, <1>4, <1>5, <1>6, HeaderFrames, SpinsFrames, BodyFrames,
     CommitFrames DEF Next, Thread

-----------------------------------------------------------------------------
(* The theorems.                                                           *)

LEMMA IInvAlways == Spec => []IInv
<1>1. Init => IInv
  BY TypeInvInit, FramesInit DEF IInv
<1>2. IInv /\ [Next]_vars => IInv'
  BY TypeInvStep, FramesStep DEF IInv
<1> QED BY <1>1, <1>2, PTL DEF Spec

(* Counts, positions and spans keep their types: _read_frame never asks    *)
(* for fewer than no bytes, and fbuf never begins before the connection.   *)
THEOREM TypesKept == Spec => []TypeOK
<1>1. IInv => TypeOK
  BY DEF IInv, TypeInv
<1> QED BY IInvAlways, <1>1, PTL

(* No socket stays open that the thread does not know of, on any way       *)
(* through connecting, failing and connecting again.                       *)
THEOREM NoSocketLost == Spec => []SocketsKept
<1>1. IInv => SocketsKept
  <2> SUFFICES ASSUME IInv PROVE SocketsKept
    OBVIOUS
  <2>1. Sockets
    BY DEF IInv, TypeInv
  <2>2. ASSUME pc \in {"begin", "over"} PROVE open = 0
    <3>1. {s \in Streams : connected[s]} = {}
      BY <2>1, <2>2 DEF Sockets, Streams
    <3> QED BY <2>1, <3>1, FS_EmptySet DEF Sockets
  <2> QED BY <2>1, <2>2 DEF Sockets, SocketsKept
<1> QED BY IInvAlways, <1>1, PTL

LEMMA LogInitially == Init => Log!LogInit
<1> SUFFICES ASSUME Init PROVE Log!LogInit
  OBVIOUS
<1>1. script["main"] = <<>> /\ main_in = <<0, 0>>
  BY DEF Init, Streams
<1> QED BY <1>1 DEF Log!LogInit, FrameEnd

(* A new connection, whatever its camera will send.                        *)
LEMMA Reconnected ==
  ASSUME main_in' = <<0, 0>>, script' \in Scripts \cup {[t \in Streams |-> <<>>]}
  PROVE  Log!LogConnect
<1>1. /\ Len(script'["main"]) \in Nat
      /\ \A j \in 1 .. Len(script'["main"]) : script'["main"][j].to \in Nat
  BY ScriptOf DEF Streams
<1>2. FrameEnd' \subseteq Nat
  BY <1>1 DEF FrameEnd
<1> QED BY <1>2 DEF Log!LogConnect

LEMMA StepOfLog ==
  IInv /\ [Next]_vars => [Log!LogDeliver \/ Log!LogConnect]_<<FrameEnd, main_in>>
<1> SUFFICES ASSUME IInv, [Next]_vars
             PROVE  Log!LogDeliver \/ Log!LogConnect \/ UNCHANGED <<FrameEnd, main_in>>
  OBVIOUS
<1>1. CASE UNCHANGED <<script, main_in>>
  BY <1>1 DEF FrameEnd
<1>2. CASE Setup
  <2>1. script' \in Scripts /\ main_in' = <<0, 0>>
    BY <1>2 DEF Setup, IInv, TypeInv, Fresh, Connecting
  <2> QED BY <2>1, Reconnected
<1>3. CASE Clear
  <2>1. script' = [t \in Streams |-> <<>>] /\ main_in' = <<0, 0>>
    BY <1>3 DEF Clear
  <2> QED BY <2>1, Reconnected
<1>4. CASE Commit
  <2>1. CASE UNCHANGED main_in
    BY <1>1, <1>4, <2>1 DEF Commit, camera
  <2>2. CASE cur = "main" /\ main_in' = Buffer("main")
    <3>1. pc = "loop" /\ left > 0 /\ FrameEnds /\ UNCHANGED script /\ TypeInv
      BY <1>4 DEF Commit, camera, IInv
    <3>2. PICK i \in Nat : Gathering(i)
      BY <3>1 DEF IInv, Frames, Reading
    <3> QED BY <2>2, <3>1, <3>2, Delivered
  <2> QED BY <1>4, <2>1, <2>2 DEF Commit
<1>5. Clear \/ Setup \/ Commit \/ UNCHANGED <<script, main_in>>
  BY DEF Next, Thread, ConnectMain, ConnectSub, Login, Idle, SetupFails, End, Select, Silence,
         SelectFails, ReadSilent, ReadStart, ReadHeader, ReadSpins, ReadBody, ReadFails, ReadOver, Stop,
         Arrive, CameraCloses, camera, vars
<1> QED BY <1>1, <1>2, <1>3, <1>4, <1>5

(* The session implements CameraLog: however bytes come in and connections *)
(* break, the main stream's pool gets whole frames, in order, none twice.  *)
(* Frames are those of EndsFrame, which takes packets of time stamp 0 and  *)
(* the frame after them for one, as the code does.                         *)
THEOREM SessionIsCameraLog == Spec => MainIsCameraLog
<1>1. [Log!LogDeliver \/ Log!LogConnect]_<<FrameEnd, main_in>> =>
        [Log!LogDeliver \/ Log!LogConnect]_(Log!logVars)
  BY DEF Log!logVars
<1> QED BY IInvAlways, LogInitially, StepOfLog, <1>1, PTL DEF Spec, MainIsCameraLog, Log!LogSpec
=============================================================================
