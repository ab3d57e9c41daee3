----------------------- MODULE MediaPoolStreamProofs -----------------------
(***************************************************************************)
(* Proof that a frame pool that remembers two key frames or more is the    *)
(* log its users are promised (FrameLog), for every ring size, any number  *)
(* of users and frames, and every interleaving of the encoder thread, the  *)
(* users and the video-loss thread.                                        *)
(*                                                                         *)
(* The frames from the oldest remembered key frame on are kept: they lie   *)
(* in the ring behind entry_in in the order of their numbers, with nothing *)
(* but full entries between them, and each leads to the next.  A user that *)
(* had one of them goes on at the next one, or waits at entry_in.  One     *)
(* that fell behind goes on at a frame it has not had yet, or at an entry  *)
(* it finds empty and leaves for the oldest key frame.                     *)
(***************************************************************************)
EXTENDS MediaPoolStream, MediaPoolProofs

(* How many entries further on in the ring entry c is than entry a.        *)
Steps(a, c) == IF a <= c THEN c - a ELSE c - a + N

Oldest == key_history[K-1]

(* The frames the pool keeps: those since the oldest key frame.            *)
Kept(e) == number[e] > 0 /\ number[e] >= number[Oldest]

(* From in_commit's count of the frame to the search's end the next of the *)
(* new frame is not set.                                                   *)
Linking == wpc \in {"scan", "find"}

StreamTypes ==
  /\ published \in Nat /\ number \in [Entries -> Nat] /\ delivered \in [Users -> Nat]
  /\ emptied \in BOOLEAN
  /\ \A e \in Entries : number[e] <= published
  /\ \A u \in Users : delivered[u] <= published
  /\ wpc \in {"wrlock", "calloc", "append"} => published < MaxFrames

(* No emptying is under way.                                               *)
Calm == epc = "idle" /\ wpc # "exhausted"

(* The entry being filled has no number yet; the frame being linked has    *)
(* the last one, and nobody has got it.                                    *)
Numbers ==
  /\ wpc \in {"calloc", "append"} => number[entry_in] = 0
  /\ ~Linking => ~Kept(entry_in)
  /\ Linking => /\ published > 0 /\ number[entry_in] = published
                /\ \A u \in Users : delivered[u] < published
  /\ wpc = "scan" => key_history[0] = entry_in

(* Before the first frame all positions are the first entry.               *)
Begin == published = 0 => \A k \in 0 .. K-1 : key_history[k] = entry_in

(* The remembered key frames are frames, newest first.                     *)
Keys == published > 0 =>
  /\ number[Oldest] > 0
  /\ \A j, k \in 0 .. K-1 : j <= k => number[key_history[k]] <= number[key_history[j]]

(* The kept frames lie between the oldest key frame and entry_in, in the   *)
(* order of their numbers, and no entry among them is empty.               *)
Ring ==
  /\ \A e \in Entries : Kept(e) => Steps(e, entry_in) <= Steps(Oldest, entry_in)
  /\ \A e \in Entries \ {entry_in} : Steps(e, entry_in) <= Steps(Oldest, entry_in) => data[e]
  /\ \A e, f \in Entries :
       Kept(e) /\ Kept(f) /\ number[e] <= number[f] => Steps(f, entry_in) <= Steps(e, entry_in)

(* The scan has not reached the oldest key frame; the search has seen full *)
(* entries only.                                                           *)
Loops ==
  /\ wpc = "scan" => wi < (IF Oldest = entry_in THEN N ELSE Steps(entry_in, Oldest))
  /\ wpc = "find" => \A e \in Entries : Steps(entry_in, e) \in 1 .. wi => data[e]

(* Frame d is kept, and what comes after it too.                           *)
Current(d) == d # 0 /\ d >= number[Oldest]

(* Entry p is a place to go on at after frame d.                           *)
Follows(d, p) ==
  IF Current(d)
  THEN IF d = published THEN p = entry_in ELSE number[p] = d + 1
  ELSE p = entry_in \/ number[p] > d \/ (d < number[Oldest] /\ ~data_size[p])

Nexts ==
  \A e \in Entries :
    number[e] > 0 /\ ~(Linking /\ e = entry_in) => Follows(number[e], next[e])

(* A user that resyncs has fallen behind; it holds the empty entry it      *)
(* waited at, which the encoder comes to before the key frame the user has *)
(* been sent to.                                                           *)
Readers ==
  \A u \in Users :
    /\ upc[u] \in {"ready", "locked", "done"} => Follows(delivered[u], entry_rd[u])
    /\ upc[u] = "resync" =>
         /\ lock[u] \in Entries /\ Steps(entry_in, lock[u]) < Steps(entry_in, entry_rd[u])
         /\ number[entry_rd[u]] > delivered[u] /\ delivered[u] < number[Oldest]

(* The first frame is the only one that is linked while it is the oldest.  *)
First ==
  Linking /\ Oldest = entry_in =>
    \A u \in Users : upc[u] # "detached" => entry_rd[u] = entry_in

OrderInv == Calm /\ Numbers /\ Begin /\ Keys /\ Ring /\ Loops /\ Nexts /\ Readers /\ First

(* The order is promised until the pool is emptied.                        *)
StreamInv == IInv /\ StreamTypes /\ (emptied \/ OrderInv)

-----------------------------------------------------------------------------
(* Steps round the ring.                                                   *)

LEMMA StepsRange ==
  ASSUME NEW a \in Entries, NEW c \in Entries
  PROVE  /\ Steps(a, c) \in 0 .. N-1
         /\ Steps(a, c) = 0 <=> a = c
         /\ a # c => Steps(a, c) + Steps(c, a) = N
BY PoolAssumption DEF Entries, Steps

(* On the way from a to c, or round the ring once more.                    *)
LEMMA StepsAdd ==
  ASSUME NEW a \in Entries, NEW m \in Entries, NEW c \in Entries
  PROVE  \/ Steps(a, c) = Steps(a, m) + Steps(m, c)
         \/ Steps(a, c) = Steps(a, m) + Steps(m, c) - N
BY PoolAssumption DEF Entries, Steps

(* Where the scan and the search look in turn i.                           *)
LEMMA StepsWrap ==
  ASSUME NEW p \in Entries, NEW i \in Nat, i < N-1
  PROVE  Steps(p, Wrap(i + p + 1)) = i + 1
BY PoolAssumption DEF Entries, Steps, Wrap

(* The types the proofs below work with.                                   *)
LEMMA RingTypes ==
  ASSUME TypeOK, StreamTypes
  PROVE  /\ N \in Nat /\ N > 1 /\ K \in Nat /\ K-1 \in 0 .. K-1 /\ 0 \in 0 .. K-1
         /\ entry_in \in Entries /\ Oldest \in Entries
         /\ \A k \in 0 .. K-1 : key_history[k] \in Entries
         /\ published \in Nat /\ \A e \in Entries : number[e] \in Nat /\ number[e] <= published
         /\ \A u \in Users : delivered[u] \in Nat /\ delivered[u] <= published
         /\ \A u \in Users : entry_rd[u] \in Entries
         /\ \A e \in Entries : next[e] \in Entries
         /\ wi \in Nat
<1>1. N \in Nat /\ N > 1 /\ K \in Nat /\ K-1 \in 0 .. K-1 /\ 0 \in 0 .. K-1
  BY PoolAssumption
<1> QED BY <1>1 DEF TypeOK, StreamTypes, Oldest

(* The oldest key frame is kept, and so is every key frame remembered.     *)
LEMMA KeysKept ==
  ASSUME TypeOK, StreamTypes, OrderInv, published > 0, NEW k \in 0 .. K-1
  PROVE  Kept(key_history[k])
<1>1. /\ K-1 \in 0 .. K-1 /\ k <= K-1 /\ number[Oldest] \in Nat /\ number[key_history[k]] \in Nat
      /\ number[Oldest] > 0
  BY RingTypes DEF OrderInv, Keys
<1>2. number[Oldest] <= number[key_history[k]]
  BY <1>1 DEF OrderInv, Keys, Oldest
<1> QED BY <1>1, <1>2 DEF Kept

(* No two kept frames have one number.                                     *)
LEMMA KeptApart ==
  ASSUME TypeOK, StreamTypes, OrderInv, NEW e \in Entries, NEW f \in Entries,
         Kept(e), number[e] = number[f]
  PROVE  e = f
<1> USE DEF OrderInv, Ring
<1>1. Kept(f) /\ number[e] \in Nat /\ entry_in \in Entries
  BY RingTypes DEF Kept
<1>2. Steps(e, entry_in) <= Steps(f, entry_in) /\ Steps(f, entry_in) <= Steps(e, entry_in)
  BY <1>1
<1>3. Steps(e, entry_in) = Steps(f, entry_in)
  BY <1>1, <1>2, StepsRange
<1> QED BY <1>1, <1>3, PoolAssumption DEF Steps, Entries

(* Data come with a size.                                                  *)
LEMMA UnsizedEmpty ==
  ASSUME IInv, NEW e \in Entries, ~data_size[e] PROVE ~data[e]
BY DEF IInv, SafeInv, SizedEntries

(* An empty entry other than entry_in holds no kept frame and lies before  *)
(* the oldest key frame.                                                   *)
LEMMA NotKept ==
  ASSUME IInv, StreamTypes, OrderInv, NEW e \in Entries, e # entry_in, ~data[e]
  PROVE  ~Kept(e) /\ Steps(e, entry_in) > Steps(Oldest, entry_in)
<1>1. TypeOK
  BY DEF IInv, TypeInv
<1>2. /\ entry_in \in Entries /\ Oldest \in Entries
      /\ N \in Nat /\ Steps(e, entry_in) \in 0 .. N-1 /\ Steps(Oldest, entry_in) \in 0 .. N-1
  BY <1>1, RingTypes, StepsRange
<1> QED BY <1>2 DEF OrderInv, Ring

-----------------------------------------------------------------------------
(* Beside the numbers a step is one of the pool.                           *)

LEMMA StreamStepOfPool == [StreamNext]_<<vars, streamVars>> => [Next]_vars
BY DEF StreamNext, Fill, Publish, Emptying, Join, Deliver, Unobserved, Next, Encoder,
       VideoLoss, User, OutDone

LEMMA StreamInitTypes == StreamInit => StreamTypes
<1> SUFFICES ASSUME StreamInit PROVE StreamTypes
  OBVIOUS
<1>1. /\ published = 0 /\ number = [e \in Entries |-> 0] /\ delivered = [u \in Users |-> 0]
      /\ emptied = FALSE /\ wpc = "idle"
  BY DEF StreamInit, Init
<1>2. number \in [Entries -> Nat] /\ delivered \in [Users -> Nat] /\ emptied \in BOOLEAN
  BY <1>1
<1>3. \A e \in Entries : number[e] <= published
  BY <1>1
<1>4. \A u \in Users : delivered[u] <= published
  BY <1>1
<1> QED BY <1>1, <1>2, <1>3, <1>4 DEF StreamTypes

LEMMA TypesStep ==
  ASSUME IInv, StreamTypes, [StreamNext]_<<vars, streamVars>>
  PROVE  StreamTypes'
<1> USE DEF StreamTypes
<1>a. TypeOK /\ entry_in \in Entries
  BY RingTypes DEF IInv, TypeInv
<1>1. ASSUME Fill PROVE StreamTypes'
  <2>1. PICK key \in BOOLEAN : RequestLocked(key)
    BY <1>1 DEF Fill
  <2>2. wpc = "wrlock" /\ wpc' \in {"idle", "calloc"}
    BY <2>1 DEF RequestLocked
  <2> QED BY <1>1, <1>a, <2>2 DEF Fill
<1>2. ASSUME Publish PROVE StreamTypes'
  <2>1. wpc' \in {"scan", "find"}
    BY <1>2 DEF Publish, Commit
  <2> QED BY <1>2, <1>a, <2>1 DEF Publish
<1>3. ASSUME Emptying PROVE StreamTypes'
  <2>1. wpc' = wpc \/ wpc' = "exhausted"
    BY <1>3 DEF Emptying, FindNextFails, SignalLoss, inVars
  <2> QED BY <1>3, <2>1 DEF Emptying
<1>4. ASSUME Unobserved PROVE StreamTypes'
  <2>1. wpc' \in {"wrlock", "calloc", "append"} =>
          published < MaxFrames \/ wpc \in {"wrlock", "calloc", "append"}
    BY <1>4 DEF Unobserved, Request, RequestAlloc, RequestAllocFails, Append, ScanStep, ScanDone,
         FindNext, ExhaustedStep, ExhaustedDone, CommitUnlock, LossStep, LossDone, Detach, OutLock,
         OutNothing, OutResync, OutUnlock, inVars
  <2> QED BY <1>4, <2>1 DEF Unobserved, streamVars
<1>5. ASSUME NEW u \in Users, Join(u) PROVE StreamTypes'
  <2>1. wpc' = wpc
    BY <1>5 DEF Join, Attach, inVars
  <2> QED BY <1>5, <2>1 DEF Join
<1>6. ASSUME NEW u \in Users, Deliver(u) PROVE StreamTypes'
  <2>1. wpc' = wpc /\ out_ptr'[u] \in {entry_rd[u], None} /\ entry_rd[u] \in Entries
    BY <1>6, <1>a DEF Deliver, OutNext, OutKey, TakeOut, inVars, TypeOK
  <2> DEFINE n == IF out_ptr'[u] = None THEN delivered[u] ELSE number[out_ptr'[u]]
  <2>2. n \in Nat /\ n <= published
    BY <2>1
  <2>3. delivered' = [delivered EXCEPT ![u] = n] /\ UNCHANGED <<published, number, emptied>>
    BY <1>6 DEF Deliver
  <2> HIDE DEF n
  <2> QED BY <2>1, <2>2, <2>3
<1>7. ASSUME UNCHANGED <<vars, streamVars>> PROVE StreamTypes'
  BY <1>7 DEF vars, streamVars, inVars
<1> QED BY <1>1, <1>2, <1>3, <1>4, <1>5, <1>6, <1>7 DEF StreamNext

-----------------------------------------------------------------------------
(* The encoder thread.                                                     *)

(* Steps that move neither the ring nor the users: those of a request      *)
(* after its lock, and the end of a commit.                                *)
LEMMA QuietStep ==
  ASSUME IInv, StreamTypes, OrderInv, ~Linking, epc' = epc,
         UNCHANGED <<entry_in, key_history, data_size, next, userVars, streamVars>>,
         \A e \in Entries : data[e] => data'[e],
         wpc' \in {"idle", "wrlock", "calloc", "append"},
         wpc' \in {"calloc", "append"} => wpc \in {"calloc", "append"}
  PROVE  OrderInv'
<1> USE DEF OrderInv, streamVars, userVars
<1>1. Calm' /\ ~Linking'
  BY DEF Calm, Linking
<1>2. Numbers'
  BY <1>1 DEF Numbers, Kept, Oldest
<1>3. Begin' /\ Keys'
  BY DEF Begin, Keys, Oldest
<1>4. Ring'
  BY DEF Ring, Kept, Oldest
<1>5. Loops' /\ First'
  BY <1>1 DEF Loops, First, Linking
<1>6. Nexts'
  BY <1>1 DEF Nexts, Follows, Current, Oldest
<1>7. Readers'
  BY DEF Readers, Follows, Current, Oldest
<1> QED BY <1>1, <1>2, <1>3, <1>4, <1>5, <1>6, <1>7

(* The entry being filled is not the oldest key frame.                     *)
LEMMA FillOldest ==
  ASSUME IInv, StreamTypes, OrderInv, Fill
  PROVE  number'[key_history'[K-1]] = number[key_history[K-1]]
<1>1. PICK key \in BOOLEAN : RequestLocked(key)
  BY DEF Fill
<1>2. /\ wpc = "wrlock" /\ key_history' = key_history
      /\ number' = [number EXCEPT ![entry_in] = 0]
  BY <1>1 DEF RequestLocked, Fill, IInv, SafeInv, EncoderState, poolVars
<1>3. TypeOK /\ ~Linking
  BY <1>2 DEF IInv, TypeInv, Linking
<1>4. entry_in \in Entries /\ Oldest \in Entries /\ K-1 \in 0 .. K-1 /\ published \in Nat
  BY <1>3, RingTypes
<1>5. CASE published = 0
  <2>1. number[Oldest] = 0
    BY <1>3, <1>4, <1>5, RingTypes
  <2> QED BY <1>2, <1>4, <2>1 DEF StreamTypes, Oldest
<1>6. CASE published > 0
  <2>1. Oldest # entry_in
    BY <1>3, <1>4, <1>6, KeysKept DEF OrderInv, Numbers, Oldest
  <2> QED BY <1>2, <1>4, <2>1 DEF StreamTypes, Oldest
<1> QED BY <1>4, <1>5, <1>6

(* With a frame complete the oldest key frame is the same or a newer one.  *)
LEMMA PublishOldest ==
  ASSUME K >= 2, IInv, StreamTypes, OrderInv, Publish
  PROVE  number'[key_history'[K-1]] \in number[key_history[K-1]] .. published + 1
<1>1. /\ wpc = "append" /\ number' = [number EXCEPT ![entry_in] = published + 1]
      /\ key_history' = IF key_flag[entry_in]
                        THEN [k \in 0 .. K-1 |-> IF k = 0 THEN entry_in ELSE key_history[k-1]]
                        ELSE key_history
  BY DEF Publish, Commit
<1>2. TypeOK /\ ~Linking
  BY <1>1 DEF IInv, TypeInv, Linking
<1>3. /\ K \in Nat /\ K-1 \in 0 .. K-1 /\ K-2 \in 0 .. K-1 /\ entry_in \in Entries
      /\ \A k \in 0 .. K-1 : key_history[k] \in Entries
      /\ published \in Nat /\ \A e \in Entries : number[e] \in Nat /\ number[e] <= published
  BY <1>2, RingTypes
<1>4. PICK m \in 0 .. K-1 : key_history'[K-1] = key_history[m]
  BY <1>1, <1>3
<1>5. key_history[m] \in Entries /\ key_history[K-1] \in Entries
  BY <1>3
<1>6. number'[key_history[m]] = IF key_history[m] = entry_in THEN published + 1
                               ELSE number[key_history[m]]
  BY <1>1, <1>5 DEF StreamTypes
<1>7. CASE published = 0
  BY <1>3, <1>4, <1>5, <1>6, <1>7
<1>8. CASE published > 0
  <2>1. Kept(key_history[m])
    BY <1>2, <1>8, KeysKept
  <2> QED BY <1>3, <1>4, <1>5, <1>6, <2>1 DEF Kept, Oldest
<1> QED BY <1>3, <1>7, <1>8

(* in_request takes the lock: the entry's old number is forgotten, and no  *)
(* kept frame had it.                                                      *)
LEMMA FillStep ==
  ASSUME IInv, StreamTypes, OrderInv, Fill
  PROVE  OrderInv'
<1>1. PICK key \in BOOLEAN : RequestLocked(key)
  BY DEF Fill
<1>2. /\ wpc = "wrlock" /\ wpc' = "calloc" /\ ~data_size[entry_in] /\ epc' = epc
      /\ data_size' = [data_size EXCEPT ![entry_in] = TRUE]
      /\ UNCHANGED <<entry_in, key_history, data, next, userVars, published, delivered>>
      /\ number' = [number EXCEPT ![entry_in] = 0]
  BY <1>1 DEF RequestLocked, Fill, IInv, SafeInv, EncoderState, poolVars, lossVars
<1>3. TypeOK
  BY DEF IInv, TypeInv
<1>4. /\ N \in Nat /\ K-1 \in 0 .. K-1 /\ 0 \in 0 .. K-1 /\ entry_in \in Entries /\ Oldest \in Entries
      /\ \A k \in 0 .. K-1 : key_history[k] \in Entries
      /\ published \in Nat /\ \A e \in Entries : number[e] \in Nat /\ number[e] <= published
      /\ \A u \in Users : delivered[u] \in Nat /\ entry_rd[u] \in Entries
      /\ \A e \in Entries : next[e] \in Entries
  BY <1>3, RingTypes
<1>5. /\ \A e \in Entries \ {entry_in} : number'[e] = number[e] /\ data_size'[e] = data_size[e]
      /\ number'[entry_in] = 0 /\ Oldest' = Oldest
  BY <1>2, <1>3, <1>4 DEF TypeOK, StreamTypes, Oldest
<1>6. ~Linking /\ ~Linking'
  BY <1>2 DEF Linking
<1>7. published > 0 => \A k \in 0 .. K-1 : key_history[k] # entry_in
  BY <1>3, <1>6, KeysKept DEF OrderInv, Numbers
<1>8. number'[Oldest] = number[Oldest]
  BY <1>5, FillOldest DEF Oldest
<1>9. \A e \in Entries : Kept(e)' => e # entry_in /\ Kept(e)
  BY <1>5, <1>8 DEF Kept
<1>10. ASSUME NEW d \in Nat, NEW q \in Entries, Follows(d, q) PROVE Follows(d, q)'
  <2>1. Current(d) /\ number[q] = d + 1 => q # entry_in
    <3>1. ~Kept(entry_in)
      BY <1>6 DEF OrderInv, Numbers
    <3> QED BY <1>4, <3>1 DEF Current, Kept
  <2> QED BY <1>2, <1>5, <1>8, <1>10, <2>1 DEF Follows, Current
<1>a. Calm' /\ Numbers'
  BY <1>2, <1>4, <1>5, <1>6, <1>9 DEF OrderInv, Calm, Numbers
<1>b. Begin'
  BY <1>2 DEF OrderInv, Begin
<1>c. Keys'
  BY <1>2, <1>4, <1>5, <1>7, <1>8 DEF OrderInv, Keys
<1>d. Ring'
  <2>1. \A e \in Entries : Kept(e)' => number'[e] = number[e]
    BY <1>5, <1>9
  <2> QED BY <1>2, <1>5, <1>9, <2>1 DEF OrderInv, Ring
<1>e. Loops' /\ First'
  BY <1>2, <1>6 DEF Loops, First, Linking
<1>f. Nexts'
  <2> SUFFICES ASSUME NEW e \in Entries, number'[e] > 0 PROVE Follows(number[e], next[e])' /\ number'[e] = number[e]
    BY <1>2 DEF Nexts
  <2>1. e # entry_in /\ number'[e] = number[e]
    BY <1>5
  <2>2. Follows(number[e], next[e])
    BY <2>1, <1>6 DEF OrderInv, Nexts
  <2> QED BY <1>2, <1>4, <1>10, <2>1, <2>2
<1>g. Readers'
  <2> SUFFICES ASSUME NEW u \in Users
               PROVE  /\ upc[u] \in {"ready", "locked", "done"} => Follows(delivered[u], entry_rd[u])'
                      /\ upc[u] = "resync" =>
                           /\ lock[u] \in Entries /\ Steps(entry_in, lock[u]) < Steps(entry_in, entry_rd[u])
                           /\ number'[entry_rd[u]] > delivered[u] /\ delivered[u] < number'[Oldest]
    BY <1>2, <1>5 DEF Readers, userVars
  <2>1. ASSUME upc[u] = "resync" PROVE entry_rd[u] # entry_in
    BY <1>4, <2>1, StepsRange DEF OrderInv, Readers
  <2>2. delivered' = delivered /\ entry_rd' = entry_rd
    BY <1>2 DEF userVars
  <2>3. upc[u] \in {"ready", "locked", "done"} => Follows(delivered[u], entry_rd[u])'
    BY <1>4, <1>10, <2>2 DEF OrderInv, Readers
  <2>4. upc[u] = "resync" =>
          /\ lock[u] \in Entries /\ Steps(entry_in, lock[u]) < Steps(entry_in, entry_rd[u])
          /\ number'[entry_rd[u]] > delivered[u] /\ delivered[u] < number'[Oldest]
    BY <1>4, <1>5, <1>8, <2>1 DEF OrderInv, Readers
  <2> QED BY <2>3, <2>4
<1> QED BY <1>a, <1>b, <1>c, <1>d, <1>e, <1>f, <1>g DEF OrderInv

(* in_commit counts the frame.  A key frame moves the oldest one on to the *)
(* next that is remembered, which lies further on in the ring.             *)
LEMMA PublishStep ==
  ASSUME K >= 2, IInv, StreamTypes, OrderInv, Publish
  PROVE  OrderInv'
<1>1. /\ wpc = "append" /\ wpc' \in {"scan", "find"} /\ (wpc' = "scan" <=> key_flag[entry_in])
      /\ wi' = 0 /\ epc' = epc
      /\ UNCHANGED <<entry_in, data_size, data, next, userVars, delivered>>
      /\ published' = published + 1 /\ number' = [number EXCEPT ![entry_in] = published + 1]
      /\ key_history' = IF key_flag[entry_in]
                        THEN [k \in 0 .. K-1 |-> IF k = 0 THEN entry_in ELSE key_history[k-1]]
                        ELSE key_history
  BY DEF Publish, Commit, entryVars, lossVars
<1>2. TypeOK
  BY DEF IInv, TypeInv
<1>3. /\ N \in Nat /\ K \in Nat /\ K-1 \in 0 .. K-1 /\ K-2 \in 0 .. K-1 /\ 0 \in 0 .. K-1
      /\ entry_in \in Entries /\ Oldest \in Entries
      /\ \A k \in 0 .. K-1 : key_history[k] \in Entries
      /\ published \in Nat /\ \A e \in Entries : number[e] \in Nat /\ number[e] <= published
      /\ \A u \in Users : delivered[u] \in Nat /\ delivered[u] <= published
      /\ \A u \in Users : entry_rd[u] \in Entries
      /\ \A e \in Entries : next[e] \in Entries
  BY <1>2, RingTypes
<1>4. /\ \A e \in Entries \ {entry_in} : number'[e] = number[e]
      /\ number'[entry_in] = published + 1
  BY <1>1, <1>2, <1>3 DEF TypeOK, StreamTypes
<1>5. ~Linking /\ Linking' /\ number[entry_in] = 0
  BY <1>1 DEF Linking, OrderInv, Numbers
<1>6. published > 0 => \A k \in 0 .. K-1 : key_history[k] # entry_in
  BY <1>2, <1>5, KeysKept DEF OrderInv, Numbers
<1>7. PICK m \in 0 .. K-1 : Oldest' = key_history[m]
  <2>1. CASE key_flag[entry_in]
    <3>1. Oldest' = key_history[K-2]
      BY <1>1, <1>3, <2>1 DEF Oldest
    <3> QED BY <1>3, <3>1
  <2>2. CASE ~key_flag[entry_in]
    BY <1>1, <1>3, <2>2 DEF Oldest
  <2> QED BY <2>1, <2>2
(* The first frame of all.                                                 *)
<1>8. CASE published = 0
  <2>1. \A k \in 0 .. K-1 : key_history[k] = entry_in
    BY <1>8 DEF OrderInv, Begin
  <2>2. \A k \in 0 .. K-1 : key_history'[k] = entry_in
    <3>1. CASE key_flag[entry_in]
      BY <1>1, <1>3, <2>1, <3>1
    <3>2. CASE ~key_flag[entry_in]
      BY <1>1, <2>1, <3>2
    <3> QED BY <3>1, <3>2
  <2>3. Oldest' = entry_in /\ Oldest = entry_in /\ \A e \in Entries : number[e] = 0
    BY <1>3, <1>7, <1>8, <2>1 DEF Oldest
  <2>4. /\ number'[entry_in] = 1 /\ published' = 1
        /\ \A e \in Entries : number'[e] > 0 <=> e = entry_in
    BY <1>1, <1>3, <1>4, <1>8, <2>3
  <2>5. \A e \in Entries : Kept(e)' <=> e = entry_in
    BY <1>3, <2>3, <2>4 DEF Kept
  <2>6. \A u \in Users : upc[u] # "detached" => upc[u] # "resync" /\ entry_rd[u] = entry_in
    <3> SUFFICES ASSUME NEW u \in Users, upc[u] # "detached"
                 PROVE  upc[u] # "resync" /\ entry_rd[u] = entry_in
      OBVIOUS
    <3>1. upc[u] # "resync"
      BY <1>3, <2>3 DEF OrderInv, Readers
    <3>2. upc[u] \in {"ready", "locked", "done"}
      BY <1>2, <3>1 DEF TypeOK
    <3>3. number[entry_rd[u]] = 0 /\ number[Oldest] = 0 /\ delivered[u] \in Nat
      BY <1>3, <2>3
    <3> QED BY <3>1, <3>2, <3>3 DEF OrderInv, Readers, Follows
  <2>a. Calm' /\ Numbers'
    <3>1. \A u \in Users : delivered'[u] < published'
      BY <1>1, <1>3, <1>8, <2>4
    <3> QED BY <1>1, <1>3, <1>5, <2>2, <2>4, <3>1 DEF OrderInv, Calm, Numbers
  <2>b. Begin' /\ Keys'
    <3>1. \A k \in 0 .. K-1 : number'[key_history'[k]] = 1
      BY <2>2, <2>4
    <3> QED BY <2>3, <2>4, <3>1 DEF Begin, Keys
  <2>c. Ring'
    BY <1>1, <1>3, <2>3, <2>5, StepsRange DEF Ring
  <2>d. Loops' /\ First'
    <3>1. Loops'
      <4>1. N > 0 /\ \A e \in Entries : Steps(entry_in, e) \notin 1 .. 0
        BY <1>3, EntriesNotEmpty
      <4> QED BY <1>1, <2>3, <4>1 DEF Loops
    <3> QED BY <1>1, <2>6, <3>1 DEF First, userVars
  <2>e. Nexts'
    BY <1>1, <1>5, <2>4 DEF Nexts
  <2>f. Readers'
    <3>1. \A u \in Users : delivered'[u] = 0
      BY <1>1, <1>3, <1>8
    <3> QED BY <1>1, <2>6, <3>1 DEF Readers, Follows, Current, userVars
  <2> QED BY <2>a, <2>b, <2>c, <2>d, <2>e, <2>f DEF OrderInv
(* Any other.                                                              *)
<1>9. CASE published > 0
  <2>1. /\ Oldest # entry_in /\ Oldest' # entry_in /\ Kept(Oldest')
        /\ number'[Oldest'] = number[Oldest'] /\ number[Oldest] <= number[Oldest']
        /\ Oldest' \in Entries
    BY <1>2, <1>3, <1>4, <1>6, <1>7, <1>9, KeysKept DEF Kept, Oldest
  <2>2. \A e \in Entries \ {entry_in} : Kept(e)' => Kept(e) /\ number[Oldest'] <= number[e]
    BY <1>3, <1>4, <2>1 DEF Kept
  <2>3. Steps(Oldest', entry_in) <= Steps(Oldest, entry_in)
    BY <2>1 DEF OrderInv, Ring
  <2>4. Steps(entry_in, entry_in) = 0 /\ \A e \in Entries : Steps(e, entry_in) \in Nat
    BY <1>3, StepsRange
  <2>5. ASSUME NEW d \in Nat, d <= published, NEW q \in Entries, Follows(d, q)
        PROVE  Follows(d, q)'
    <3>1. Current(d)' => Current(d)
      BY <1>3, <2>1 DEF Current
    <3>2. CASE Current(d)'
      <4>1. CASE d = published
        <5>1. q = entry_in
          BY <2>5, <3>1, <3>2, <4>1 DEF Follows
        <5> QED BY <1>1, <1>3, <1>4, <3>2, <4>1, <5>1 DEF Follows
      <4>2. CASE d # published
        <5>1. number[q] = d + 1
          BY <2>5, <3>1, <3>2, <4>2 DEF Follows
        <5>2. number'[q] = d + 1
          BY <1>4, <1>5, <5>1
        <5> QED BY <1>1, <1>3, <2>5, <3>2, <4>2, <5>2 DEF Follows
      <4> QED BY <4>1, <4>2
    <3>3. CASE ~Current(d)' /\ q = entry_in
      BY <1>1, <3>3 DEF Follows
    <3>4. CASE ~Current(d)' /\ q # entry_in /\ Current(d)
      <4>1. number[q] > d
        BY <1>3, <2>5, <3>4 DEF Follows
      <4> QED BY <1>4, <3>4, <4>1 DEF Follows
    <3>5. CASE ~Current(d)' /\ q # entry_in /\ ~Current(d)
      BY <1>1, <1>3, <1>4, <2>1, <2>5, <3>5 DEF Follows
    <3> QED BY <3>2, <3>3, <3>4, <3>5
  <2>6. \A k \in 0 .. K-1 : number'[key_history[k]] = number[key_history[k]]
    BY <1>3, <1>4, <1>6, <1>9
  <2>a. Calm' /\ Numbers'
    <3>1. \A u \in Users : delivered'[u] < published'
      BY <1>1, <1>3
    <3>2. wpc' = "scan" => key_history'[0] = entry_in
      BY <1>1, <1>3
    <3> QED BY <1>1, <1>3, <1>4, <1>5, <3>1, <3>2 DEF OrderInv, Calm, Numbers
  <2>b. Begin' /\ Keys'
    <3>1. published' # 0
      BY <1>1, <1>3
    <3>2. number'[Oldest'] > 0
      BY <2>1 DEF Kept
    <3>3. ASSUME NEW j \in 0 .. K-1, NEW k \in 0 .. K-1, j <= k
          PROVE  number'[key_history'[k]] <= number'[key_history'[j]]
      <4>1. CASE ~key_flag[entry_in]
        BY <1>1, <1>9, <2>6, <3>3, <4>1 DEF OrderInv, Keys
      <4>2. CASE key_flag[entry_in] /\ j = 0
        <5>1. number'[key_history'[j]] = published + 1
          BY <1>1, <1>3, <1>4, <4>2
        <5>2. key_history'[k] \in Entries
          BY <1>1, <1>3, <4>2
        <5>3. number'[key_history'[k]] <= published + 1
          BY <1>3, <1>4, <5>2
        <5> QED BY <5>1, <5>3
      <4>3. CASE key_flag[entry_in] /\ j # 0
        <5>1. /\ j-1 \in 0 .. K-1 /\ k-1 \in 0 .. K-1 /\ j-1 <= k-1
              /\ key_history'[j] = key_history[j-1] /\ key_history'[k] = key_history[k-1]
          BY <1>1, <1>3, <3>3, <4>3
        <5>2. number[key_history[k-1]] <= number[key_history[j-1]]
          BY <1>9, <5>1 DEF OrderInv, Keys
        <5> QED BY <2>6, <5>1, <5>2
      <4> QED BY <4>1, <4>2, <4>3
    <3> QED BY <3>1, <3>2, <3>3 DEF Begin, Keys
  <2>c. Ring'
    <3>1. ASSUME NEW e \in Entries, Kept(e)' PROVE Steps(e, entry_in) <= Steps(Oldest', entry_in)
      BY <2>1, <2>2, <2>4, <3>1 DEF OrderInv, Ring
    <3>2. ASSUME NEW e \in Entries \ {entry_in}, Steps(e, entry_in) <= Steps(Oldest', entry_in)
          PROVE  data'[e]
      BY <1>1, <1>3, <2>1, <2>3, <2>4, <3>2 DEF OrderInv, Ring
    <3>3. ASSUME NEW e \in Entries, NEW f \in Entries, Kept(e)', Kept(f)', number'[e] <= number'[f]
          PROVE  Steps(f, entry_in) <= Steps(e, entry_in)
      <4>1. CASE f = entry_in
        BY <2>4, <4>1
      <4>2. CASE f # entry_in
        <5>1. number'[f] <= published /\ e # entry_in
          BY <1>3, <1>4, <3>3, <4>2
        <5> QED BY <1>4, <2>2, <3>3, <4>2, <5>1 DEF OrderInv, Ring
      <4> QED BY <4>1, <4>2
    <3> QED BY <1>1, <3>1, <3>2, <3>3 DEF Ring
  <2>d. Loops' /\ First'
    <3>1. Steps(entry_in, Oldest') \in Nat /\ Steps(entry_in, Oldest') # 0
      BY <1>3, <2>1, StepsRange
    <3>2. \A e \in Entries : Steps(entry_in, e) \notin 1 .. 0
      OBVIOUS
    <3> QED BY <1>1, <2>1, <3>1, <3>2 DEF Loops, First
  <2>e. Nexts'
    <3> SUFFICES ASSUME NEW e \in Entries \ {entry_in}, number'[e] > 0
                 PROVE  Follows(number[e], next[e])'
      BY <1>1, <1>5 DEF Nexts
    <3>1. number'[e] = number[e] /\ Follows(number[e], next[e])
      BY <1>4, <1>5 DEF OrderInv, Nexts
    <3> QED BY <1>1, <1>3, <2>5, <3>1
  <2>f. Readers'
    <3> SUFFICES ASSUME NEW u \in Users
                 PROVE  /\ upc[u] \in {"ready", "locked", "done"} => Follows(delivered[u], entry_rd[u])'
                        /\ upc[u] = "resync" =>
                             /\ lock[u] \in Entries
                             /\ Steps(entry_in, lock[u]) < Steps(entry_in, entry_rd[u])
                             /\ number'[entry_rd[u]] > delivered[u]
                             /\ delivered[u] < number'[Oldest']
      BY <1>1 DEF Readers, userVars
    <3>1. delivered' = delivered /\ entry_rd' = entry_rd
      BY <1>1 DEF userVars
    <3>2. upc[u] \in {"ready", "locked", "done"} => Follows(delivered[u], entry_rd[u])'
      BY <1>3, <2>5, <3>1 DEF OrderInv, Readers
    <3>3. number'[entry_rd[u]] >= number[entry_rd[u]]
      BY <1>3, <1>4, <1>5
    <3>4. upc[u] = "resync" =>
            /\ lock[u] \in Entries /\ Steps(entry_in, lock[u]) < Steps(entry_in, entry_rd[u])
            /\ number'[entry_rd[u]] > delivered[u] /\ delivered[u] < number'[Oldest']
      BY <1>3, <1>4, <1>5, <2>1, <3>3 DEF OrderInv, Readers
    <3> QED BY <3>2, <3>4
  <2> QED BY <2>a, <2>b, <2>c, <2>d, <2>e, <2>f DEF OrderInv
<1> QED BY <1>3, <1>8, <1>9

(* The scan comes to no kept frame: it clears older ones, and whoever goes *)
(* on at one finds it empty, or goes on from it at the new key frame.      *)
LEMMA ScanStepKeeps ==
  ASSUME IInv, StreamTypes, OrderInv, ScanStep, UNCHANGED streamVars
  PROVE  OrderInv'
<1> DEFINE s == ScanEntry
<1>1. /\ wpc = "scan" /\ wpc' = "scan" /\ wi' = wi + 1 /\ wi # N-1 /\ s # Oldest /\ epc' = epc
      /\ UNCHANGED <<entry_in, key_history, userVars, published, number, delivered>>
  BY DEF ScanStep, ScanOver, Oldest, poolVars, lossVars, streamVars
<1>2. TypeOK /\ wi <= N-1
  BY <1>1 DEF IInv, TypeInv, LoopBounds
<1>3. /\ N \in Nat /\ N > 1 /\ K-1 \in 0 .. K-1 /\ 0 \in 0 .. K-1 /\ wi \in Nat
      /\ entry_in \in Entries /\ Oldest \in Entries /\ key_history[0] \in Entries
      /\ \A e \in Entries : number[e] \in Nat
      /\ \A u \in Users : delivered[u] \in Nat /\ entry_rd[u] \in Entries
      /\ \A e \in Entries : next[e] \in Entries
  BY <1>2, RingTypes
<1>4. s \in Entries /\ s # entry_in /\ Steps(entry_in, s) = wi + 1
  BY <1>1, <1>2, <1>3, LaterEntries, StepsWrap DEF ScanEntry
<1>5. Linking /\ Linking' /\ key_history[0] = entry_in /\ Oldest' = Oldest
  BY <1>1 DEF Linking, OrderInv, Numbers, Oldest
<1>6. /\ \A e \in Entries \ {s} : data'[e] = data[e] /\ data_size'[e] = data_size[e] /\ next'[e] = next[e]
      /\ next'[s] \in {next[s], entry_in} /\ (data_size'[s] => data_size[s])
  BY <1>2, <1>4, <1>5 DEF ScanStep, Clear, TypeOK
<1>7. Steps(s, entry_in) > Steps(Oldest, entry_in) /\ ~Kept(s)
  <2>1. /\ Steps(entry_in, s) + Steps(s, entry_in) = N
        /\ Oldest = entry_in => Steps(Oldest, entry_in) = 0
        /\ Oldest # entry_in => Steps(entry_in, Oldest) + Steps(Oldest, entry_in) = N
        /\ Steps(s, entry_in) \in 0 .. N-1 /\ Steps(s, entry_in) # 0
        /\ Steps(Oldest, entry_in) \in 0 .. N-1 /\ Steps(entry_in, Oldest) \in 0 .. N-1
    BY <1>3, <1>4, StepsRange
  <2>2. Oldest # entry_in => wi + 1 <= Steps(entry_in, Oldest)
    BY <1>1, <1>3, <2>1 DEF OrderInv, Loops
  <2>3. Steps(entry_in, Oldest) # Steps(entry_in, s)
    BY <1>1, <1>3, <1>4 DEF Steps, Entries
  <2>4. Steps(s, entry_in) > Steps(Oldest, entry_in)
    BY <1>3, <1>4, <2>1, <2>2, <2>3
  <2> QED BY <1>4, <2>1, <2>4 DEF OrderInv, Ring
<1>8. ASSUME NEW d \in Nat, NEW q \in Entries, Follows(d, q) PROVE Follows(d, q)'
  <2>1. CASE Current(d)
    BY <1>1, <1>5, <1>8, <2>1 DEF Follows, Current
  <2>2. CASE ~Current(d) /\ q # s
    BY <1>1, <1>5, <1>6, <1>8, <2>2 DEF Follows, Current
  <2>3. CASE ~Current(d) /\ q = s
    BY <1>1, <1>4, <1>5, <1>6, <1>8, <2>3 DEF Follows, Current
  <2> QED BY <2>1, <2>2, <2>3
<1>a. Calm' /\ Numbers'
  BY <1>1, <1>5 DEF OrderInv, Calm, Numbers
<1>b. Begin' /\ Keys'
  BY <1>1, <1>5 DEF OrderInv, Begin, Keys
<1>c. Ring'
  <2>1. \A e \in Entries : Kept(e)' <=> Kept(e)
    BY <1>1, <1>5 DEF Kept
  <2>2. \A e \in Entries \ {entry_in} : Steps(e, entry_in) <= Steps(Oldest, entry_in) => data'[e]
    <3> SUFFICES ASSUME NEW e \in Entries \ {entry_in}, Steps(e, entry_in) <= Steps(Oldest, entry_in)
                 PROVE  data'[e]
      OBVIOUS
    <3>1. e # s
      BY <1>3, <1>4, <1>7, StepsRange
    <3> QED BY <1>6, <3>1 DEF OrderInv, Ring
  <2> QED BY <1>1, <1>5, <2>1, <2>2 DEF OrderInv, Ring
<1>d. Loops'
  <2>1. CASE Oldest = entry_in
    BY <1>1, <1>2, <1>3, <1>5, <2>1 DEF Loops
  <2>2. CASE Oldest # entry_in
    <3>1. Steps(entry_in, Oldest) \in Nat /\ wi < Steps(entry_in, Oldest)
      BY <1>1, <1>3, <2>2, StepsRange DEF OrderInv, Loops
    <3>2. Steps(entry_in, Oldest) # wi + 1
      BY <1>1, <1>3, <1>4 DEF Steps, Entries
    <3> QED BY <1>1, <1>3, <1>5, <2>2, <3>1, <3>2 DEF Loops
  <2> QED BY <2>1, <2>2
<1>e. First'
  BY <1>1, <1>5 DEF OrderInv, First, userVars
<1>f. Nexts'
  <2> SUFFICES ASSUME NEW e \in Entries, number[e] > 0, e # entry_in
               PROVE  Follows(number[e], next[e])'
    BY <1>1, <1>5 DEF Nexts
  <2>1. Follows(number[e], next[e])
    BY DEF OrderInv, Nexts
  <2>2. CASE next'[e] = next[e]
    BY <1>1, <1>3, <1>8, <2>1, <2>2
  <2>3. CASE next'[e] = entry_in /\ e = s
    <3>1. ~Current(number[e])
      BY <1>7, <2>3 DEF Current, Kept
    <3> QED BY <1>1, <1>5, <2>3, <3>1 DEF Follows, Current
  <2> QED BY <1>6, <2>2, <2>3
<1>g. Readers'
  <2> SUFFICES ASSUME NEW u \in Users
               PROVE  upc[u] \in {"ready", "locked", "done"} => Follows(delivered[u], entry_rd[u])'
    BY <1>1, <1>5 DEF OrderInv, Readers, userVars
  <2>1. delivered' = delivered /\ entry_rd' = entry_rd
    BY <1>1 DEF userVars
  <2> QED BY <1>3, <1>8, <2>1 DEF OrderInv, Readers
<1> QED BY <1>a, <1>b, <1>c, <1>d, <1>e, <1>f, <1>g DEF OrderInv

LEMMA ScanDoneKeeps ==
  ASSUME IInv, StreamTypes, OrderInv, ScanDone, UNCHANGED streamVars
  PROVE  OrderInv'
<1> USE DEF OrderInv, streamVars, userVars, poolVars, entryVars, lossVars
<1>1. /\ wpc = "scan" /\ wpc' = "find" /\ wi' = 0 /\ Linking /\ Linking'
      /\ UNCHANGED <<poolVars, entryVars, lossVars, userVars, streamVars>>
  BY DEF ScanDone, Linking
<1>2. Calm' /\ Numbers' /\ Begin' /\ Keys'
  BY <1>1 DEF Calm, Numbers, Begin, Keys, Oldest
<1>3. Ring'
  BY <1>1 DEF Ring, Kept, Oldest
<1>4. Loops'
  <2>1. \A e \in Entries : Steps(entry_in, e) \notin 1 .. 0
    OBVIOUS
  <2> QED BY <1>1, <2>1 DEF Loops
<1>5. First'
  BY <1>1 DEF First, Oldest
<1>6. Nexts'
  BY <1>1 DEF Nexts, Follows, Current, Oldest
<1>7. Readers'
  BY <1>1 DEF Readers, Follows, Current, Oldest
<1> QED BY <1>2, <1>3, <1>4, <1>5, <1>6, <1>7

(* The search moves entry_in on over full entries to the first empty one,  *)
(* which lies before the oldest key frame, and before the empty entry of   *)
(* every user that resyncs or at it.                                       *)
LEMMA FindNextKeeps ==
  ASSUME IInv, StreamTypes, OrderInv, FindNext, UNCHANGED streamVars
  PROVE  OrderInv'
<1> DEFINE s == Wrap(wi + entry_in + 1)
<1>1. /\ wpc = "find" /\ wi < N-1 /\ epc' = epc /\ wpc' \in {"find", "unlock"}
      /\ UNCHANGED <<key_history, data_size, data, userVars, published, number, delivered>>
  BY DEF FindNext, lossVars, streamVars
<1>2. TypeOK
  BY DEF IInv, TypeInv
<1>3. /\ N \in Nat /\ N > 1 /\ K-1 \in 0 .. K-1 /\ 0 \in 0 .. K-1 /\ wi \in Nat
      /\ entry_in \in Entries /\ Oldest \in Entries
      /\ published \in Nat /\ \A e \in Entries : number[e] \in Nat /\ number[e] <= published
      /\ \A u \in Users : delivered[u] \in Nat /\ entry_rd[u] \in Entries
      /\ \A e \in Entries : next[e] \in Entries
  BY <1>2, RingTypes
<1>4. s \in Entries /\ s # entry_in /\ Steps(entry_in, s) = wi + 1
  BY <1>1, <1>3, LaterEntries, StepsWrap
<1>5. /\ Linking /\ published > 0 /\ number[entry_in] = published /\ Oldest' = Oldest
      /\ \A u \in Users : delivered[u] < published
  BY <1>1 DEF Linking, OrderInv, Numbers, Oldest
<1>6. data[entry_in] /\ cur = entry_in
  BY <1>1 DEF IInv, SafeInv, EncoderState, FillBufferLive, InFlight
<1>7. CASE data[s]
  <2>1. wi' = wi + 1 /\ wpc' = "find" /\ UNCHANGED <<entry_in, next>>
    BY <1>7 DEF FindNext
  <2>2. Calm' /\ Numbers' /\ Begin' /\ Keys'
    BY <1>1, <1>5, <2>1 DEF OrderInv, Calm, Numbers, Begin, Keys, Linking
  <2>3. Ring'
    BY <1>1, <1>5, <2>1 DEF OrderInv, Ring, Kept
  <2>4. Loops'
    <3> SUFFICES ASSUME NEW e \in Entries, Steps(entry_in, e) \in 1 .. wi + 1 PROVE data[e]
      BY <1>1, <2>1 DEF Loops
    <3>1. CASE Steps(entry_in, e) \in 1 .. wi
      BY <1>1, <3>1 DEF OrderInv, Loops
    <3>2. CASE Steps(entry_in, e) = wi + 1
      <4>1. e = s
        BY <1>3, <1>4, <3>2 DEF Steps, Entries
      <4> QED BY <1>7, <4>1
    <3> QED BY <1>3, <3>1, <3>2
  <2>5. First'
    BY <1>1, <1>5, <2>1 DEF OrderInv, First, Linking, userVars
  <2>6. Nexts'
    BY <1>1, <1>5, <2>1 DEF OrderInv, Nexts, Follows, Current, Linking
  <2>7. Readers'
    BY <1>1, <1>5, <2>1 DEF OrderInv, Readers, Follows, Current, userVars
  <2> QED BY <2>2, <2>3, <2>4, <2>5, <2>6, <2>7 DEF OrderInv
<1>8. CASE ~data[s]
  <2>1. entry_in' = s /\ next' = [next EXCEPT ![entry_in] = s] /\ wpc' = "unlock" /\ ~Linking'
    BY <1>6, <1>8 DEF FindNext, Linking
  <2>2. next'[entry_in] = s /\ \A e \in Entries \ {entry_in} : next'[e] = next[e]
    BY <1>2, <1>3, <2>1 DEF TypeOK
  <2>3. ~Kept(s) /\ Steps(s, entry_in) > Steps(Oldest, entry_in)
    BY <1>4, <1>8, NotKept
  <2>4. Steps(s, entry_in) = N - (wi + 1) /\ Steps(Oldest, entry_in) \in Nat
    BY <1>3, <1>4, StepsRange
  <2>5. ASSUME NEW e \in Entries, Steps(e, entry_in) <= Steps(Oldest, entry_in)
        PROVE  Steps(e, s) = Steps(e, entry_in) + wi + 1
    <3>1. Steps(e, entry_in) \in Nat /\ Steps(e, s) \in Nat /\ Steps(e, entry_in) + wi + 1 < N
      BY <1>3, <1>4, <2>3, <2>4, <2>5, StepsRange
    <3> QED BY <1>3, <1>4, <3>1, StepsAdd
  <2>6. Steps(Oldest, s) = Steps(Oldest, entry_in) + wi + 1
    BY <1>3, <2>4, <2>5
  <2>7. \A e \in Entries : Kept(e)' <=> Kept(e)
    BY <1>1, <1>5 DEF Kept
  <2>8. Kept(entry_in)
    BY <1>3, <1>5 DEF Kept
  <2>9. ASSUME NEW d \in Nat, d < published, NEW q \in Entries, Follows(d, q) PROVE Follows(d, q)'
    BY <1>1, <1>5, <2>9 DEF Follows, Current
  <2>a. Calm' /\ Numbers'
    BY <1>1, <2>1, <2>3, <2>7, <1>4 DEF OrderInv, Calm, Numbers
  <2>b. Begin' /\ Keys'
    BY <1>1, <1>5 DEF OrderInv, Begin, Keys
  <2>c. Ring'
    <3>1. ASSUME NEW e \in Entries, Kept(e) PROVE Steps(e, s) <= Steps(Oldest, s)
      <4>1. Steps(e, entry_in) <= Steps(Oldest, entry_in) /\ Steps(e, entry_in) \in Nat
        BY <1>3, <3>1, StepsRange DEF OrderInv, Ring
      <4> QED BY <1>3, <2>4, <2>5, <2>6, <4>1
    <3>2. ASSUME NEW e \in Entries \ {s}, Steps(e, s) <= Steps(Oldest, s) PROVE data[e]
      <4>1. CASE Steps(e, entry_in) <= Steps(Oldest, entry_in)
        BY <1>6, <4>1 DEF OrderInv, Ring
      <4>2. CASE ~(Steps(e, entry_in) <= Steps(Oldest, entry_in))
        <5>1. /\ Steps(e, entry_in) \in 0 .. N-1 /\ Steps(e, s) \in 0 .. N-1 /\ Steps(e, s) # 0
              /\ e # entry_in /\ Steps(entry_in, e) + Steps(e, entry_in) = N
              /\ Steps(entry_in, e) \in 0 .. N-1
          BY <1>3, <1>4, <2>4, <4>2, StepsRange
        <5>2. \/ Steps(e, s) = Steps(e, entry_in) + wi + 1
              \/ Steps(e, s) = Steps(e, entry_in) + wi + 1 - N
          BY <1>3, <1>4, <5>1, StepsAdd
        <5>3. Steps(entry_in, e) \in 1 .. wi
          BY <1>1, <1>3, <2>4, <2>6, <3>2, <4>2, <5>1, <5>2
        <5> QED BY <1>1, <5>3 DEF OrderInv, Loops
      <4> QED BY <4>1, <4>2
    <3>3. ASSUME NEW e \in Entries, NEW f \in Entries, Kept(e), Kept(f), number[e] <= number[f]
          PROVE  Steps(f, s) <= Steps(e, s)
      <4>1. /\ Steps(e, entry_in) <= Steps(Oldest, entry_in) /\ Steps(e, entry_in) \in Nat
            /\ Steps(f, entry_in) <= Steps(Oldest, entry_in) /\ Steps(f, entry_in) \in Nat
            /\ Steps(f, entry_in) <= Steps(e, entry_in)
        BY <1>3, <3>3, StepsRange DEF OrderInv, Ring
      <4> QED BY <1>3, <2>5, <4>1
    <3> QED BY <1>1, <1>5, <2>1, <2>7, <3>1, <3>2, <3>3 DEF Ring
  <2>d. Loops' /\ First'
    BY <2>1 DEF Loops, First
  <2>e. Nexts'
    <3> SUFFICES ASSUME NEW e \in Entries, number[e] > 0 PROVE Follows(number[e], next[e])'
      BY <1>1 DEF Nexts
    <3>1. CASE e = entry_in
      BY <1>1, <1>5, <2>1, <2>2, <3>1 DEF Follows
    <3>2. CASE e # entry_in
      <4>1. Follows(number[e], next[e])
        BY <3>2 DEF OrderInv, Nexts
      <4>2. number[e] # number[entry_in]
        BY <1>2, <1>3, <2>8, <3>2, KeptApart
      <4>3. number[e] \in Nat /\ number[e] < published
        BY <1>3, <1>5, <4>2
      <4> QED BY <1>1, <1>3, <2>2, <2>9, <3>2, <4>1, <4>3
    <3> QED BY <3>1, <3>2
  <2>f. Readers'
    <3> SUFFICES ASSUME NEW u \in Users
                 PROVE  /\ upc[u] \in {"ready", "locked", "done"} => Follows(delivered[u], entry_rd[u])'
                        /\ upc[u] = "resync" =>
                             /\ lock[u] \in Entries /\ Steps(s, lock[u]) < Steps(s, entry_rd[u])
                             /\ number[entry_rd[u]] > delivered[u] /\ delivered[u] < number[Oldest]
      BY <1>1, <1>5, <2>1 DEF Readers, userVars
    <3>1. delivered' = delivered /\ entry_rd' = entry_rd
      BY <1>1 DEF userVars
    <3>2. upc[u] \in {"ready", "locked", "done"} => Follows(delivered[u], entry_rd[u])'
      BY <1>3, <1>5, <2>9, <3>1 DEF OrderInv, Readers
    <3>3. ASSUME upc[u] = "resync" PROVE Steps(s, lock[u]) < Steps(s, entry_rd[u])
      <4>1. /\ lock[u] \in Entries /\ ~data_size[lock[u]]
            /\ Steps(entry_in, lock[u]) < Steps(entry_in, entry_rd[u])
        BY <3>3 DEF OrderInv, Readers, IInv, SafeInv, UserLocks
      <4>2. ~data[lock[u]]
        BY <4>1, UnsizedEmpty
      <4>3. /\ lock[u] # entry_in /\ Steps(entry_in, lock[u]) \in 0 .. N-1
            /\ Steps(entry_in, lock[u]) # 0 /\ Steps(entry_in, entry_rd[u]) \in 0 .. N-1
            /\ Steps(s, lock[u]) \in 0 .. N-1 /\ Steps(s, entry_rd[u]) \in 0 .. N-1
        BY <1>3, <1>4, <1>6, <4>1, <4>2, StepsRange
      <4>4. Steps(entry_in, lock[u]) > wi
        BY <1>1, <1>3, <4>1, <4>2, <4>3 DEF OrderInv, Loops
      <4>5. /\ \/ Steps(entry_in, lock[u]) = wi + 1 + Steps(s, lock[u])
               \/ Steps(entry_in, lock[u]) = wi + 1 + Steps(s, lock[u]) - N
            /\ \/ Steps(entry_in, entry_rd[u]) = wi + 1 + Steps(s, entry_rd[u])
               \/ Steps(entry_in, entry_rd[u]) = wi + 1 + Steps(s, entry_rd[u]) - N
        BY <1>3, <1>4, <4>1, StepsAdd
      <4> QED BY <1>1, <1>3, <4>1, <4>3, <4>4, <4>5
    <3> QED BY <3>2, <3>3 DEF OrderInv, Readers
  <2> QED BY <2>a, <2>b, <2>c, <2>d, <2>e, <2>f DEF OrderInv
<1> QED BY <1>7, <1>8

-----------------------------------------------------------------------------
(* The users.                                                              *)

(* What a step of user u has to show: the ring is as it was, and u has     *)
(* somewhere to go on at.                                                  *)
LEMMA UserKeeps ==
  ASSUME IInv, StreamTypes, OrderInv, NEW u \in Users,
         UNCHANGED <<poolVars, entryVars, inVars, lossVars, published, number>>,
         \A v \in Users \ {u} :
           /\ upc'[v] = upc[v] /\ entry_rd'[v] = entry_rd[v] /\ lock'[v] = lock[v]
           /\ delivered'[v] = delivered[v],
         Linking => delivered'[u] < published,
         Linking /\ Oldest = entry_in /\ upc'[u] # "detached" => entry_rd'[u] = entry_in,
         upc'[u] \in {"ready", "locked", "done"} => Follows(delivered'[u], entry_rd'[u]),
         upc'[u] = "resync" =>
           /\ lock'[u] \in Entries /\ Steps(entry_in, lock'[u]) < Steps(entry_in, entry_rd'[u])
           /\ number[entry_rd'[u]] > delivered'[u] /\ delivered'[u] < number[Oldest]
  PROVE  OrderInv'
<1> USE DEF OrderInv, poolVars, entryVars, inVars, lossVars
<1>1. Oldest' = Oldest /\ Linking' = Linking
  BY DEF Oldest, Linking
<1>2. Calm' /\ Begin' /\ Keys'
  BY <1>1 DEF Calm, Begin, Keys
<1>3. Numbers'
  <2>1. Linking => \A v \in Users : delivered'[v] < published
    BY DEF Numbers
  <2> QED BY <1>1, <2>1 DEF Numbers, Kept
<1>4. Ring' /\ Loops'
  BY <1>1 DEF Ring, Loops, Kept
<1>5. First'
  BY <1>1 DEF First
<1>6. Nexts'
  BY <1>1 DEF Nexts, Follows, Current
<1>7. Readers'
  <2> SUFFICES ASSUME NEW v \in Users
               PROVE  /\ upc'[v] \in {"ready", "locked", "done"} => Follows(delivered'[v], entry_rd'[v])
                      /\ upc'[v] = "resync" =>
                           /\ lock'[v] \in Entries
                           /\ Steps(entry_in, lock'[v]) < Steps(entry_in, entry_rd'[v])
                           /\ number[entry_rd'[v]] > delivered'[v] /\ delivered'[v] < number[Oldest]
    BY <1>1 DEF Readers, Follows, Current
  <2>1. CASE v = u
    BY <2>1
  <2>2. CASE v # u
    BY <2>2 DEF Readers
  <2> QED BY <2>1, <2>2
<1> QED BY <1>2, <1>3, <1>4, <1>5, <1>6, <1>7

(* A user starts at the latest key frame.                                  *)
LEMMA JoinKeeps ==
  ASSUME IInv, StreamTypes, OrderInv, NEW u \in Users, Join(u)
  PROVE  OrderInv'
<1>1. TypeOK
  BY DEF IInv, TypeInv
<1>2. /\ 0 \in 0 .. K-1 /\ entry_in \in Entries /\ Oldest \in Entries /\ key_history[0] \in Entries
      /\ published \in Nat /\ \A e \in Entries : number[e] \in Nat /\ number[e] <= published
  BY <1>1, RingTypes
<1>3. /\ UNCHANGED <<poolVars, entryVars, inVars, lossVars, published, number>>
      /\ upc'[u] = "ready" /\ entry_rd'[u] = key_history[0] /\ delivered'[u] = 0
      /\ \A v \in Users \ {u} :
           /\ upc'[v] = upc[v] /\ entry_rd'[v] = entry_rd[v] /\ lock'[v] = lock[v]
           /\ delivered'[v] = delivered[v]
  BY <1>1 DEF Join, Attach, TypeOK, StreamTypes
<1>4. Follows(0, key_history[0])
  <2>1. CASE published = 0
    BY <1>2, <2>1 DEF OrderInv, Begin, Follows, Current
  <2>2. CASE published # 0
    <3>1. Kept(key_history[0])
      BY <1>1, <1>2, <2>2, KeysKept
    <3> QED BY <1>2, <3>1 DEF Kept, Follows, Current
  <2> QED BY <2>1, <2>2
<1>5. Linking => 0 < published
  BY <1>2 DEF OrderInv, Numbers
<1>6. Linking /\ Oldest = entry_in => key_history[0] = entry_in
  <2> SUFFICES ASSUME Linking, Oldest = entry_in PROVE key_history[0] = entry_in
    OBVIOUS
  <2>1. Kept(key_history[0]) /\ number[entry_in] = published
    BY <1>1, <1>2, <1>5, KeysKept DEF OrderInv, Numbers
  <2>2. number[key_history[0]] = number[entry_in]
    BY <1>2, <2>1 DEF Kept
  <2> QED BY <1>1, <1>2, <2>1, <2>2, KeptApart
<1> QED BY <1>3, <1>4, <1>5, <1>6, UserKeeps

(* What the nearest key frame is for a reader at an empty entry: the       *)
(* oldest one, and not the frame that is being linked.                     *)
LEMMA ResyncTarget ==
  ASSUME IInv, StreamTypes, OrderInv, NEW p \in Entries, p # entry_in, ~data[p], published > 0
  PROVE  NearestKey(p) = Oldest
<1> DEFINE h == key_history
           gaps == {k \in 1 .. K-1 : InGap(p, h[k], h[k-1])}
           old == {k \in gaps : \A j \in gaps : j <= k}
<1>1. TypeOK
  BY DEF IInv, TypeInv
<1>2. /\ N \in Nat /\ K \in Nat /\ K-1 \in 0 .. K-1 /\ 0 \in 0 .. K-1
      /\ entry_in \in Entries /\ Oldest \in Entries /\ \A k \in 0 .. K-1 : h[k] \in Entries
      /\ \A e \in Entries : number[e] \in Nat
  BY <1>1, RingTypes
<1>3. Steps(p, entry_in) > Steps(Oldest, entry_in)
  BY NotKept
<1>4. Kept(h[0]) /\ Steps(h[0], entry_in) <= Steps(Oldest, entry_in)
  BY <1>1, <1>2, KeysKept DEF OrderInv, Ring
<1>5. CASE h[0] # h[K-1]
  <2>1. InGap(p, h[0], Oldest)
    BY <1>2, <1>3, <1>4, <1>5 DEF InGap, Steps, Entries, Oldest
  <2> QED BY <2>1 DEF NearestKey, Oldest
<1>6. CASE h[0] = h[K-1]
  <2>1. ASSUME NEW k \in 0 .. K-1 PROVE h[k] = Oldest
    <3>1. Kept(h[k]) /\ number[h[k]] <= number[h[0]] /\ h[0] = Oldest
      BY <1>1, <1>2, <1>6, KeysKept DEF OrderInv, Keys, Oldest
    <3>2. number[h[k]] = number[Oldest]
      BY <1>2, <3>1 DEF Kept
    <3> QED BY <1>1, <1>2, <3>1, <3>2, KeptApart
  <2>2. ASSUME NEW k \in 1 .. K-1 PROVE h[k] = h[k-1]
    <3>1. k \in 0 .. K-1 /\ k-1 \in 0 .. K-1
      BY <1>2
    <3> QED BY <2>1, <3>1
  <2>3. ~InGap(p, h[0], h[K-1]) /\ \A k \in 1 .. K-1 : ~InGap(p, h[k], h[k-1])
    BY <1>6, <2>2 DEF InGap
  <2>4. old = {}
    BY <2>3
  <2>5. NearestKey(p) = h[0]
    BY <2>3, <2>4 DEF NearestKey
  <2> QED BY <1>6, <2>5 DEF Oldest
<1> QED BY <1>5, <1>6

(* A user that finds its entry empty has fallen behind the kept frames.    *)
LEMMA BehindOldest ==
  ASSUME IInv, StreamTypes, OrderInv, NEW u \in Users, OutResync(u)
  PROVE  number[Oldest] > delivered[u]
<1> DEFINE p == entry_rd[u]
<1>1. TypeOK /\ upc[u] = "locked" /\ p # entry_in /\ ~data_size[p]
  BY DEF OutResync, IInv, TypeInv
<1>2. /\ Oldest \in Entries /\ p \in Entries /\ delivered[u] \in Nat
      /\ \A e \in Entries : number[e] \in Nat
  BY <1>1, RingTypes
<1>3. ~Kept(p)
  BY <1>1, <1>2, UnsizedEmpty, NotKept
<1>4. Follows(delivered[u], p)
  BY <1>1 DEF OrderInv, Readers
<1>5. ~(number[p] > delivered[u] /\ Current(delivered[u]))
  BY <1>2, <1>3 DEF Current, Kept
<1> QED BY <1>1, <1>2, <1>3, <1>4, <1>5 DEF Follows, Current, Kept

(* A user that finds its entry empty is sent to the oldest key frame.      *)
LEMMA ResyncKeeps ==
  ASSUME IInv, StreamTypes, OrderInv, NEW u \in Users, OutResync(u), UNCHANGED streamVars
  PROVE  OrderInv'
<1> DEFINE p == entry_rd[u]
<1>1. TypeOK /\ upc[u] = "locked" /\ p # entry_in /\ ~data_size[p]
  BY DEF OutResync, IInv, TypeInv
<1>2. /\ N \in Nat /\ K-1 \in 0 .. K-1 /\ entry_in \in Entries /\ Oldest \in Entries /\ p \in Entries
      /\ delivered[u] \in Nat
      /\ published \in Nat /\ \A e \in Entries : number[e] \in Nat /\ number[e] <= published
  BY <1>1, RingTypes
<1>3. lock[u] = p /\ ~data[p]
  BY <1>1, <1>2, UnsizedEmpty DEF IInv, SafeInv, UserLocks
<1>4. /\ UNCHANGED <<poolVars, entryVars, inVars, lossVars, published, number>>
      /\ upc'[u] = "resync" /\ entry_rd'[u] = NearestKey(p) /\ lock'[u] = p /\ delivered'[u] = delivered[u]
      /\ \A v \in Users \ {u} :
           /\ upc'[v] = upc[v] /\ entry_rd'[v] = entry_rd[v] /\ lock'[v] = lock[v]
           /\ delivered'[v] = delivered[v]
  BY <1>1, <1>3 DEF OutResync, TypeOK, streamVars
<1>5. ~Kept(p) /\ Steps(p, entry_in) > Steps(Oldest, entry_in)
  BY <1>1, <1>2, <1>3, NotKept
<1>6. number[Oldest] > delivered[u]
  BY BehindOldest
<1>7. published > 0 /\ NearestKey(p) = Oldest
  BY <1>1, <1>2, <1>3, <1>6, ResyncTarget
<1>8. Oldest # entry_in
  <2> SUFFICES ASSUME Oldest = entry_in PROVE FALSE
    OBVIOUS
  <2>1. Kept(entry_in)
    BY <1>1, <1>2, <1>7, KeysKept DEF Oldest
  <2> QED BY <1>1, <2>1 DEF OrderInv, Numbers, First
<1>9. Steps(entry_in, p) < Steps(entry_in, Oldest)
  BY <1>1, <1>2, <1>5, <1>8, StepsRange
<1> QED BY <1>1, <1>2, <1>3, <1>4, <1>6, <1>7, <1>8, <1>9, UserKeeps DEF OrderInv, Numbers

(* What a user takes out is a frame it has not had, or nothing.            *)
LEMMA DeliveredNew ==
  ASSUME IInv, StreamTypes, OrderInv, NEW u \in Users, Deliver(u)
  PROVE  /\ entry_rd[u] # entry_in /\ number[entry_rd[u]] > delivered[u]
         /\ Current(delivered[u]) => data_size[entry_rd[u]] /\ number[entry_rd[u]] = delivered[u] + 1
         /\ delivered' = [delivered EXCEPT ![u] =
              IF data_size[entry_rd[u]] THEN number[entry_rd[u]] ELSE delivered[u]]
         /\ entry_rd' = [entry_rd EXCEPT ![u] = next[entry_rd[u]]]
         /\ upc' = [upc EXCEPT ![u] = "done"]
         /\ UNCHANGED <<poolVars, entryVars, inVars, lossVars, lock, published, number, emptied>>
<1> DEFINE p == entry_rd[u]
<1>1. TypeOK
  BY DEF IInv, TypeInv
<1>2. /\ N \in Nat /\ p \in Entries /\ p # None /\ entry_in \in Entries /\ Oldest \in Entries
      /\ delivered[u] \in Nat /\ \A e \in Entries : number[e] \in Nat
  BY <1>1, RingTypes, EntriesNotEmpty
<1>3. TakeOut(u, p)
  BY DEF Deliver, OutNext, OutKey
<1>4. out_ptr'[u] = IF data_size[p] THEN p ELSE None
  BY <1>1, <1>3 DEF TakeOut, TypeOK
<1>5. /\ p # entry_in /\ number[p] > delivered[u]
      /\ Current(delivered[u]) => data_size[p] /\ number[p] = delivered[u] + 1
  <2>1. CASE OutNext(u)
    <3>1. upc[u] = "locked" /\ p # entry_in /\ data_size[p]
      BY <2>1 DEF OutNext
    <3>2. Follows(delivered[u], p)
      BY <3>1 DEF OrderInv, Readers
    <3> QED BY <1>2, <3>1, <3>2 DEF Follows
  <2>2. CASE OutKey(u)
    <3>1. upc[u] = "resync"
      BY <2>2 DEF OutKey
    <3>2. /\ lock[u] \in Entries /\ Steps(entry_in, lock[u]) < Steps(entry_in, p)
          /\ number[p] > delivered[u] /\ delivered[u] < number[Oldest]
      BY <3>1 DEF OrderInv, Readers
    <3> QED BY <1>2, <3>2, StepsRange DEF Current
  <2> QED BY <2>1, <2>2 DEF Deliver
<1>6. delivered' = [delivered EXCEPT ![u] = IF data_size[p] THEN number[p] ELSE delivered[u]]
  BY <1>2, <1>4 DEF Deliver
<1>7. /\ entry_rd' = [entry_rd EXCEPT ![u] = next[p]] /\ upc' = [upc EXCEPT ![u] = "done"]
      /\ UNCHANGED <<poolVars, entryVars, inVars, lossVars, lock, published, number, emptied>>
  BY <1>3 DEF TakeOut, Deliver
<1> QED BY <1>5, <1>6, <1>7

(* It goes on behind that frame.                                           *)
LEMMA DeliverKeeps ==
  ASSUME IInv, StreamTypes, OrderInv, NEW u \in Users, Deliver(u)
  PROVE  OrderInv'
<1> DEFINE p == entry_rd[u]
           n == IF data_size[p] THEN number[p] ELSE delivered[u]
<1>1. TypeOK
  BY DEF IInv, TypeInv
<1>2. /\ p \in Entries /\ next[p] \in Entries /\ entry_in \in Entries /\ Oldest \in Entries
      /\ delivered[u] \in Nat /\ delivered[u] <= published
      /\ published \in Nat /\ \A e \in Entries : number[e] \in Nat /\ number[e] <= published
  BY <1>1, RingTypes
<1>3. /\ p # entry_in /\ number[p] > delivered[u]
      /\ Current(delivered[u]) => data_size[p]
      /\ delivered' = [delivered EXCEPT ![u] = n] /\ entry_rd' = [entry_rd EXCEPT ![u] = next[p]]
      /\ upc' = [upc EXCEPT ![u] = "done"]
      /\ UNCHANGED <<poolVars, entryVars, inVars, lossVars, lock, published, number, emptied>>
  BY DeliveredNew
<1>4. /\ delivered'[u] = n /\ entry_rd'[u] = next[p] /\ upc'[u] = "done"
      /\ \A v \in Users \ {u} :
           /\ upc'[v] = upc[v] /\ entry_rd'[v] = entry_rd[v] /\ lock'[v] = lock[v]
           /\ delivered'[v] = delivered[v]
  BY <1>1, <1>3 DEF TypeOK, StreamTypes
<1>5. n \in Nat /\ n <= number[p]
  BY <1>2, <1>3
<1>6. Follows(n, next[p])
  <2>1. Follows(number[p], next[p])
    BY <1>2, <1>3 DEF OrderInv, Nexts
  <2>2. CASE n = number[p]
    BY <2>1, <2>2
  <2>3. CASE n # number[p]
    <3>1. ~Current(n) /\ n = delivered[u]
      BY <1>3, <2>3
    <3> HIDE DEF n
    <3> QED BY <1>2, <1>5, <2>1, <2>3, <3>1 DEF Follows, Current
  <2> QED BY <2>2, <2>3
<1>7. Linking => n < published
  <2> SUFFICES ASSUME Linking PROVE n < published
    OBVIOUS
  <2>1. number[entry_in] = published /\ published > 0
    BY DEF OrderInv, Numbers
  <2>2. Kept(entry_in)
    BY <1>2, <2>1 DEF Kept
  <2>3. number[p] # published
    BY <1>1, <1>2, <1>3, <2>1, <2>2, KeptApart
  <2> HIDE DEF n
  <2> QED BY <1>2, <1>5, <2>3
<1>8. ~(Linking /\ Oldest = entry_in)
  <2>1. upc[u] # "detached"
    BY DEF Deliver, OutNext, OutKey
  <2> QED BY <1>3, <2>1 DEF OrderInv, First
<1> HIDE DEF n
<1> QED BY <1>3, <1>4, <1>6, <1>7, <1>8, UserKeeps

(* The other steps of a user: detach, lock, nothing new, unlock.           *)
LEMMA UserQuiet ==
  ASSUME IInv, StreamTypes, OrderInv, NEW u \in Users, UNCHANGED streamVars,
         Detach(u) \/ OutLock(u) \/ OutNothing(u) \/ OutUnlock(u)
  PROVE  OrderInv'
<1>1. TypeOK
  BY DEF IInv, TypeInv
<1>2. /\ UNCHANGED <<poolVars, entryVars, inVars, lossVars, published, number, delivered, entry_rd>>
      /\ upc[u] \in {"ready", "locked", "done"} /\ upc'[u] # "resync"
      /\ \A v \in Users \ {u} : upc'[v] = upc[v] /\ lock'[v] = lock[v]
  BY <1>1 DEF Detach, OutLock, OutNothing, OutUnlock, TypeOK, streamVars
<1>3. Follows(delivered[u], entry_rd[u])
  BY <1>2 DEF OrderInv, Readers
<1>4. Linking /\ Oldest = entry_in => entry_rd[u] = entry_in
  BY <1>2 DEF OrderInv, First
<1>5. Linking => delivered[u] < published
  BY DEF OrderInv, Numbers
<1> QED BY <1>2, <1>3, <1>4, <1>5, UserKeeps

-----------------------------------------------------------------------------
(* The invariant of the stream.                                            *)

LEMMA StreamInvInit == StreamInit => StreamInv
<1> SUFFICES ASSUME StreamInit PROVE StreamInv
  OBVIOUS
<1>1. IInv /\ StreamTypes
  BY IInvInit, StreamInitTypes DEF StreamInit
<1>2. /\ epc = "idle" /\ wpc = "idle" /\ entry_in = 0 /\ published = 0
      /\ key_history = [k \in 0 .. K-1 |-> 0] /\ number = [e \in Entries |-> 0]
      /\ \A u \in Users : upc[u] = "detached"
  BY DEF StreamInit, Init
<1>3. 0 \in Entries /\ K-1 \in 0 .. K-1 /\ Steps(0, 0) = 0
  BY EntriesNotEmpty, PoolAssumption DEF Steps
<1>4. Oldest = 0 /\ ~Linking
  BY <1>2, <1>3 DEF Oldest, Linking
<1>5. \A e \in Entries : ~Kept(e)
  BY <1>2 DEF Kept
<1>6. Calm /\ Numbers /\ Begin /\ Keys
  BY <1>2, <1>3, <1>4, <1>5 DEF Calm, Numbers, Begin, Keys
<1>7. Ring
  <2>1. \A e \in Entries \ {0} : Steps(e, 0) \in Nat /\ Steps(e, 0) # 0
    BY <1>3, StepsRange
  <2> QED BY <1>2, <1>3, <1>4, <1>5, <2>1 DEF Ring
<1>8. Loops /\ First
  BY <1>2, <1>4 DEF Loops, First
<1>9. Nexts /\ Readers
  BY <1>2 DEF Nexts, Readers
<1> QED BY <1>1, <1>6, <1>7, <1>8, <1>9 DEF StreamInv, OrderInv

(* One step, while no emptying begins.                                     *)
LEMMA OrderStep ==
  ASSUME K >= 2, IInv, StreamTypes, OrderInv, [StreamNext]_<<vars, streamVars>>, ~emptied, ~emptied'
  PROVE  OrderInv'
<1>1. Calm
  BY DEF OrderInv
<1>2. ASSUME Emptying PROVE FALSE
  BY <1>2 DEF Emptying
<1>3. ASSUME Unobserved PROVE OrderInv'
  <2>1. UNCHANGED streamVars
    BY <1>3 DEF Unobserved
  <2>2. CASE Request \/ RequestAlloc \/ RequestAllocFails \/ Append \/ CommitUnlock
    <3>1. /\ UNCHANGED <<entry_in, key_history, data_size, next, userVars>> /\ epc' = epc
          /\ wpc \in {"idle", "calloc", "append", "unlock"}
          /\ wpc' \in {"idle", "wrlock", "calloc", "append"}
          /\ wpc' \in {"calloc", "append"} => wpc \in {"calloc", "append"}
      BY <2>2 DEF Request, RequestAlloc, RequestAllocFails, Append, CommitUnlock, poolVars,
           entryVars, lossVars
    <3>2. \A e \in Entries : data[e] => data'[e]
      <4>1. TypeOK
        BY DEF IInv, TypeInv
      <4> QED BY <2>2, <4>1 DEF Request, RequestAlloc, RequestAllocFails, Append, CommitUnlock,
                   entryVars, TypeOK
    <3>3. ~Linking
      BY <3>1 DEF Linking
    <3> QED BY <2>1, <3>1, <3>2, <3>3, QuietStep
  <2>3. CASE ScanStep
    BY <2>1, <2>3, ScanStepKeeps
  <2>4. CASE ScanDone
    BY <2>1, <2>4, ScanDoneKeeps
  <2>5. CASE FindNext
    BY <2>1, <2>5, FindNextKeeps
  <2>6. CASE ExhaustedStep \/ ExhaustedDone \/ LossStep \/ LossDone
    BY <1>1, <2>6 DEF Calm, ExhaustedStep, ExhaustedDone, LossStep, LossDone
  <2>7. ASSUME NEW u \in Users, Detach(u) \/ OutLock(u) \/ OutNothing(u) \/ OutUnlock(u)
        PROVE  OrderInv'
    BY <2>1, <2>7, UserQuiet
  <2>8. ASSUME NEW u \in Users, OutResync(u) PROVE OrderInv'
    BY <2>1, <2>8, ResyncKeeps
  <2> QED BY <1>3, <2>2, <2>3, <2>4, <2>5, <2>6, <2>7, <2>8 DEF Unobserved
<1>4. CASE UNCHANGED <<vars, streamVars>>
  BY <1>4 DEF vars, streamVars, poolVars, entryVars, inVars, userVars, lossVars, OrderInv, Calm,
       Numbers, Begin, Keys, Ring, Loops, Nexts, Readers, First, Follows, Current, Kept, Linking, Oldest
<1> QED BY <1>2, <1>3, <1>4, FillStep, PublishStep, JoinKeeps, DeliverKeeps DEF StreamNext

LEMMA StreamInvStep ==
  ASSUME K >= 2, StreamInv, [StreamNext]_<<vars, streamVars>>
  PROVE  StreamInv'
<1>1. IInv'
  BY StreamStepOfPool, IInvStep DEF StreamInv
<1>2. StreamTypes'
  BY TypesStep DEF StreamInv
<1>3. emptied => emptied'
  BY DEF StreamInv, StreamNext, Fill, Publish, Emptying, Unobserved, Join, Deliver, streamVars
<1>4. emptied' \/ OrderInv'
  BY <1>3, OrderStep DEF StreamInv
<1> QED BY <1>1, <1>2, <1>4 DEF StreamInv

LEMMA StreamInvAlways == ASSUME K >= 2 PROVE StreamSpec => []StreamInv
<1> USE K >= 2
<1>1. StreamInv /\ [StreamNext]_<<vars, streamVars>> => StreamInv'
  BY StreamInvStep
<1> QED BY StreamInvInit, <1>1, PTL DEF StreamSpec

-----------------------------------------------------------------------------
(* The refinement.                                                         *)

LEMMA LogStep ==
  ASSUME K >= 2, StreamInv, [StreamNext]_<<vars, streamVars>>
  PROVE  [Log!LogNext]_(Log!logVars)
<1> DEFINE oldest == IF emptied THEN 0 ELSE number[Oldest]
<1> USE DEF Log!LogNext, Log!logVars, Oldest
<1>1. IInv /\ StreamTypes
  BY DEF StreamInv
<1>2. TypeOK
  BY <1>1 DEF IInv, TypeInv
<1>3. /\ published \in Nat /\ \A e \in Entries : number[e] \in Nat /\ number[e] <= published
      /\ \A u \in Users : delivered[u] \in Nat /\ entry_rd[u] \in Entries
      /\ delivered \in [Users -> Nat]
  BY <1>1, <1>2, RingTypes DEF StreamTypes
<1>4. CASE Fill
  <2>1. UNCHANGED <<published, delivered, emptied>>
    BY <1>4 DEF Fill
  <2>2. oldest' = oldest
    <3>1. CASE emptied
      BY <2>1, <3>1
    <3>2. CASE ~emptied
      BY <1>1, <1>4, <2>1, <3>2, FillOldest DEF StreamInv
    <3> QED BY <3>1, <3>2
  <2> QED BY <2>1, <2>2
<1>5. CASE Publish
  <2>1. published < MaxFrames
    BY <1>1, <1>5 DEF Publish, Commit, StreamTypes
  <2>2. published' = published + 1 /\ UNCHANGED <<delivered, emptied>>
    BY <1>5 DEF Publish
  <2>3. oldest' \in IF emptied THEN {0} ELSE oldest .. published'
    <3>1. CASE emptied
      BY <2>2, <3>1
    <3>2. CASE ~emptied
      BY <1>1, <1>5, <2>2, <3>2, PublishOldest DEF StreamInv
    <3> QED BY <3>1, <3>2
  <2>4. Log!LogPublish
    BY <2>1, <2>2, <2>3 DEF Log!LogPublish
  <2> QED BY <2>4
<1>6. CASE Emptying
  BY <1>6 DEF Emptying, Log!LogEmptied
<1>7. CASE Unobserved \/ UNCHANGED <<vars, streamVars>>
  <2>1. UNCHANGED streamVars
    BY <1>7 DEF Unobserved
  <2>2. Oldest' = Oldest
    BY <1>7 DEF Unobserved, Request, RequestAlloc, RequestAllocFails, Append, ScanStep, ScanDone,
         FindNext, ExhaustedStep, ExhaustedDone, CommitUnlock, LossStep, LossDone, Detach, OutLock,
         OutNothing, OutResync, OutUnlock, poolVars, vars
  <2> QED BY <2>1, <2>2 DEF streamVars
<1>8. ASSUME NEW u \in Users, Join(u) PROVE Log!LogNext
  BY <1>8 DEF Join, Attach, poolVars, Log!LogJoin
<1>9. ASSUME NEW u \in Users, Deliver(u) PROVE [Log!LogNext]_(Log!logVars)
  <2> DEFINE n == IF out_ptr'[u] = None THEN delivered[u] ELSE number[out_ptr'[u]]
  <2>1. UNCHANGED <<published, emptied, oldest>> /\ delivered' = [delivered EXCEPT ![u] = n]
    BY <1>9 DEF Deliver, OutNext, OutKey, TakeOut, poolVars
  <2>2. out_ptr'[u] = IF data_size[entry_rd[u]] THEN entry_rd[u] ELSE None
    BY <1>2, <1>9 DEF Deliver, OutNext, OutKey, TakeOut, TypeOK
  <2>3. CASE ~data_size[entry_rd[u]]
    <3>1. delivered' = delivered
      BY <1>3, <2>1, <2>2, <2>3
    <3> QED BY <2>1, <3>1
  <2>4. CASE data_size[entry_rd[u]]
    <3>1. n = number[entry_rd[u]] /\ n \in Nat /\ n <= published
      BY <1>3, <2>2, <2>4, EntriesNotEmpty
    <3>2. ~emptied => n > delivered[u] /\ (Current(delivered[u]) => n = delivered[u] + 1)
      BY <1>1, <1>9, <3>1, DeliveredNew DEF StreamInv
    <3> HIDE DEF n
    <3>3. n \in Log!Deliverable(u)
      BY <1>3, <3>1, <3>2 DEF Log!Deliverable, Current
    <3>4. Log!LogDeliver(u)
      BY <2>1, <3>3 DEF Log!LogDeliver
    <3> QED BY <3>4
  <2> QED BY <2>3, <2>4
<1> QED BY <1>4, <1>5, <1>6, <1>7, <1>8, <1>9 DEF StreamNext

(* The pool implements FrameLog: until it is emptied every user moves      *)
(* forward through the frames, gets none twice and none that is not        *)
(* complete, and misses none but such as are older than the oldest key     *)
(* frame remembered.  FRAME_BUFF_NUM_IDR (app/dvr.c), the number of key    *)
(* frames remembered, is 2 but for two variants of the device, where it is *)
(* 1 and this is false.                                                    *)
THEOREM PoolIsLog == ASSUME K >= 2 PROVE StreamSpec => StreamIsLog
<1> USE K >= 2
<1>1. StreamInit => Log!LogInit
  <2> SUFFICES ASSUME StreamInit PROVE Log!LogInit
    OBVIOUS
  <2>1. K-1 \in 0 .. K-1 /\ 0 \in Entries
    BY EntriesNotEmpty, PoolAssumption
  <2> QED BY <2>1 DEF StreamInit, Init, Log!LogInit
<1>2. StreamInv /\ [StreamNext]_<<vars, streamVars>> => [Log!LogNext]_(Log!logVars)
  BY LogStep
<1> QED BY <1>1, <1>2, StreamInvAlways, PTL DEF StreamSpec, StreamIsLog, Log!LogSpec

-----------------------------------------------------------------------------
(* What the pool keeps, and where a user that fell behind goes on.         *)

(* Every frame since the oldest key frame remembered lies in the ring with *)
(* its data.  FrameLog says that a user misses none of them, which alone   *)
(* would allow a pool that delivers nothing.                               *)
FramesRetained ==
  ~emptied => \A n \in 1 .. published :
                n >= number[Oldest] => \E e \in Entries : number[e] = n /\ data[e]

(* The nearest key frame that OutResync looks for is always the oldest: a  *)
(* user sent there has had none of the frames kept.                        *)
ResyncToOldest ==
  ~emptied => \A u \in Users :
                OutResync(u) => entry_rd'[u] = Oldest /\ delivered[u] < number[Oldest]

(* No number of a kept frame is missing.                                   *)
Whole ==
  emptied \/ \A n \in 1 .. published :
               n >= number[Oldest] => \E e \in Entries : number[e] = n

LEMMA WholeStep ==
  ASSUME K >= 2, StreamInv, Whole, [StreamNext]_<<vars, streamVars>>
  PROVE  Whole'
<1> SUFFICES ASSUME ~emptied', NEW n \in 1 .. published', n >= number'[Oldest']
             PROVE  \E e \in Entries : number'[e] = n
  BY DEF Whole
<1>1. ~emptied /\ ~Emptying
  BY DEF StreamNext, Fill, Publish, Emptying, Unobserved, Join, Deliver, streamVars, StreamInv,
         StreamTypes
<1>2. IInv /\ StreamTypes /\ OrderInv /\ TypeOK
  BY <1>1 DEF StreamInv, IInv, TypeInv
<1>3. /\ published \in Nat /\ entry_in \in Entries /\ Oldest \in Entries
      /\ \A e \in Entries : number[e] \in Nat
  BY <1>2, RingTypes
<1>4. CASE Fill
  <2>1. /\ wpc = "wrlock" /\ published' = published
        /\ number' = [number EXCEPT ![entry_in] = 0] /\ number'[Oldest'] = number[Oldest]
    BY <1>2, <1>4, FillOldest DEF Fill, RequestLocked, Oldest
  <2>2. PICK e \in Entries : number[e] = n
    BY <1>1, <2>1 DEF Whole
  <2>3. Kept(e) /\ ~Kept(entry_in)
    BY <1>2, <1>3, <2>1, <2>2 DEF OrderInv, Numbers, Linking, Kept
  <2>4. number'[e] = n
    BY <1>2, <2>1, <2>2, <2>3 DEF StreamTypes
  <2> QED BY <2>4
<1>5. CASE Publish
  <2>1. /\ wpc = "append" /\ published' = published + 1
        /\ number' = [number EXCEPT ![entry_in] = published + 1]
    BY <1>5 DEF Publish, Commit
  <2>2. number[entry_in] = 0 /\ number'[Oldest'] >= number[Oldest]
    BY <1>2, <1>3, <1>5, <2>1, PublishOldest DEF OrderInv, Numbers, Oldest
  <2>3. CASE n = published + 1
    BY <1>2, <1>3, <2>1, <2>3 DEF StreamTypes
  <2>4. CASE n # published + 1
    <3>1. n \in 1 .. published /\ number'[Oldest'] \in Nat
      BY <1>2, <1>3, <1>5, <2>1, <2>4, PublishOldest DEF Oldest
    <3>2. PICK e \in Entries : number[e] = n
      BY <1>1, <1>3, <2>2, <3>1 DEF Whole
    <3>3. number'[e] = n
      BY <1>2, <2>1, <2>2, <3>1, <3>2 DEF StreamTypes
    <3> QED BY <3>3
  <2> QED BY <2>3, <2>4
<1>6. CASE ~Fill /\ ~Publish
  <2>1. UNCHANGED <<published, number, key_history>>
    BY <1>1, <1>6 DEF StreamNext, Unobserved, Request, RequestAlloc, RequestAllocFails, Append,
         ScanStep, ScanDone, FindNext, ExhaustedStep, ExhaustedDone, CommitUnlock, LossStep,
         LossDone, Detach, OutLock, OutNothing, OutResync, OutUnlock, Join, Attach, Deliver,
         OutNext, OutKey, TakeOut, poolVars, vars, streamVars
  <2> QED BY <1>1, <2>1 DEF Whole, Oldest
<1> QED BY <1>4, <1>5, <1>6

LEMMA WholeRetained == ASSUME StreamInv, Whole PROVE FramesRetained
<1> SUFFICES ASSUME ~emptied, NEW n \in 1 .. published, n >= number[Oldest]
             PROVE  \E e \in Entries : number[e] = n /\ data[e]
  BY DEF FramesRetained
<1>1. IInv /\ StreamTypes /\ OrderInv /\ TypeOK
  BY DEF StreamInv, IInv, TypeInv
<1>2. PICK e \in Entries : number[e] = n
  BY DEF Whole
<1>3. Kept(e)
  BY <1>2 DEF Kept
<1>4. CASE e # entry_in
  BY <1>1, <1>2, <1>3, <1>4, NotKept
<1>5. CASE e = entry_in
  <2>1. Linking
    BY <1>1, <1>3, <1>5 DEF OrderInv, Numbers
  <2>2. data[entry_in]
    BY <1>1, <2>1 DEF Linking, IInv, SafeInv, EncoderState, FillBufferLive, InFlight
  <2> QED BY <1>2, <1>5, <2>2
<1> QED BY <1>4, <1>5

(* The pool keeps all frames since the oldest key frame remembered, beside *)
(* the scan, the users and a full ring.                                    *)
THEOREM FramesAreRetained == ASSUME K >= 2 PROVE StreamSpec => []FramesRetained
<1> USE K >= 2
<1>1. StreamInit => Whole
  BY DEF StreamInit, Whole
<1>2. StreamInv /\ Whole /\ [StreamNext]_<<vars, streamVars>> => Whole'
  BY WholeStep
<1>3. StreamInv /\ Whole => FramesRetained
  BY WholeRetained
<1> QED BY <1>1, <1>2, <1>3, StreamInvAlways, PTL DEF StreamSpec

(* MEDIAPOOL_user_out_request sends a user that fell behind as far back as *)
(* the pool reaches, and never over frames it could still have had.        *)
THEOREM ResyncsGoToOldest ==
  ASSUME K >= 2 PROVE StreamSpec => [][ResyncToOldest]_<<vars, streamVars>>
<1> USE K >= 2
<1>1. ASSUME StreamInv PROVE ResyncToOldest
  <2> SUFFICES ASSUME ~emptied, NEW u \in Users, OutResync(u)
               PROVE  entry_rd'[u] = Oldest /\ delivered[u] < number[Oldest]
    BY DEF ResyncToOldest
  <2>1. IInv /\ StreamTypes /\ OrderInv /\ TypeOK
    BY <1>1 DEF StreamInv, IInv, TypeInv
  <2>2. number[Oldest] > delivered[u]
    BY <2>1, BehindOldest
  <2>3. /\ entry_rd[u] \in Entries /\ entry_rd[u] # entry_in /\ ~data[entry_rd[u]]
        /\ entry_rd'[u] = NearestKey(entry_rd[u])
    BY <2>1, RingTypes, UnsizedEmpty DEF OutResync, TypeOK
  <2>4. published > 0
    BY <2>1, <2>2, RingTypes
  <2> QED BY <2>1, <2>2, <2>3, <2>4, ResyncTarget
<1> QED BY <1>1, StreamInvAlways, PTL DEF StreamSpec
=============================================================================
