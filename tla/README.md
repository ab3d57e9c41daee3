# A verification project for hidvr

hidvr is the program of a digital video recorder and network video recorder on
HiSilicon chips, in C: `app/` is the recorder, `common/` what it shares with
other programs. Hardware threads encode pictures and sound into frame pools;
recorder and network threads read the pools; protocol libraries serve clients
through one session server; a table of channels connects network cameras; a
daemon calls periodic tasks. The program shares state between threads freely,
with few locks, and hardly has tests: this is what the project is about.

Paths below are relative to `src/`.

## 1. Inventory

| component | source | state | operations | interacts with |
|---|---|---|---|---|
| frame pool | `app/mediabuf/media_pool.c`, `media_entry.c`, `rwlock.c` | ring of entries (size, data, key flag, next, a read-write lock each), entry_in, key_history, full flag, users | in_request, in_append, in_commit, emtpy, user_attach/detach/sync, out_lock, out, out_unlock | encoder thread, users (recorder, sessions), the pool-exhausted hook of `app/dvr.c`, the video-loss thread of `app/jdk/jdk.c` |
| session server | `app/spook/spook.c` | entry table (tasks), session table, triggers, address list | init, add/remove_session, reload, destroy; accept; probe and loop of a session | protocol libraries by callback, clients by sockets |
| periodic tasks | `app/timetick.c` | task table (function, counter, interval), count, daemon flag | AddTask, RemoveTask, RemoveAllTask, Init, Destroy, the daemon | overlay clock (`app/dvr.c`, `app/app_overlay.c`), automatic switch (`app/video.c`) |
| network channels | `app/nvrpc_function.c` | channel table under a mutex, the channels' threads, LAN address, links, search flags | start, stop, modify a channel; the DNVR thread's links, LAN address and search; NVRPC_Search, NVRPC_destory | camera sessions (threads it starts and joins), environment, ifconf |
| camera session | `app/nvrpc_protocol_hg.c` | two connections, lengths and time stamps of the frame coming in | connect, log in, set up, select, read a frame, end | network channels (running, join), the frame pools of the channel, live view |
| encoder control | `app/dvr.c`, `app/sdk_HI3521/hi3521_enc.c`, `app/app_overlay.c` | encoder object, channels, overlays, canvases | init, destroy, channel open and close, encoder loop, clock task | frame pool, periodic tasks, jdk hooks |
| picture layout | `common/vo_grid.c`, `app/jdk/jdk.c` | division, page, map from grids to channels | JDK_set_vo_division, JDK_swap_vo_chn, finding a grid | commands of `app/dvr.c`, video input |
| video input and output | `app/jdk/*.c`, `app/app_jdk.c` | what feeds each channel, loss flags, formats, zooms, live or playback | loss loop, format check loop, zoom, play and live mode | encoder control and frame pool by hooks, picture layout |
| TCP text server | `app/tcp_server.c` | sockets, send list, read buffer | start, stop, send, loop with callbacks | none in the repository |
| shared-memory stream | `common/NetStreamIPC.c` | ring with levels | write and read packages | another process |
| direct file I/O | `common/direct_io.c` | aligned buffer, position, size | open, close, read, write, seek, tell | file system |
| timers, queue | `app/timer.c`, `app/queue.c` | timer table with threads; ring of packages | add, remove, free; add, get, clear | none in the repository |
| environment, users, configuration files | `common/environment.c`, `app/env_action.c`, `common/user.c`, `common/inifile.c` | values, accounts, sections | getters, setters with change callbacks | most of `app/` |
| boards, drivers, drawing, sound | `app/video/`, `app/bsp/`, `app/overlay.c`, `app/audio.c` | registers, tables | register sequences, drawing | hardware |

`PROJECT.json` lists the same parts with what is modelled of each, and, under
hazards, what in the code is hard to test, at its line.

What makes each right, in short: the *frame pool* must not free or rewrite what
somebody uses, must not hang or refuse for ever, and must give each user the
frames in order, going on at a key frame when frames were missed. The *session
server* must own every descriptor exactly once, find each connection its task,
call no function that is not there and stop when told. The *periodic tasks*
must be called as long as they are in the table and not after. The *network
channels* must not deadlock with their threads, must give each camera an address
and a channel of its own and leave nothing behind; a *camera session* must hand on
whole frames in order, end when told and lose no socket; the *layout* must show
each camera of the page once and know where; the *video input and output* must
show what there is to see, in its format, and playback only in playback; *encoder control* must not destroy what a loop or a task uses;
*direct I/O* must be a file; the *shared-memory stream* must deliver packages whole.

## 2. Modules

| module | what it is |
|---|---|
| `MediaPool` | the frame pool with the encoder thread, users and the video-loss thread |
| `FrameLog` | abstract: what a user of a stream is promised, a log read forward, of which the last frames are kept |
| `MediaPoolStream` | MediaPool with frames numbered, shown to implement FrameLog |
| `MediaPoolProofs` | theorems about MediaPool |
| `MediaPoolStreamProofs` | theorems about MediaPoolStream, the refinement among them |
| `SpookServer` | the session server: server thread, sessions, owner |
| `SpookServerProofs` | theorems about SpookServer |
| `TimeTick` | the periodic tasks: daemon, callers, owner |
| `TimeTickProofs` | theorems about TimeTick |
| `NvrChannels` | the channel table, the DNVR thread, searches and the destroy |
| `NvrChannelsProofs` | theorems about NvrChannels |
| `CameraLog` | abstract: what a camera's stream is promised, whole frames in order |
| `HgSession` | a channel's thread with its camera, shown to implement CameraLog |
| `HgSessionProofs` | theorems about HgSession, the refinement among them |
| `VoLayout` | divisions of the screen, pages, swaps: a specification of its own |
| `VoLayoutProofs` | theorems about VoLayout |
| `VideoOut` | VoLayout with the loss thread, the format check thread and the application |
| `VideoOutProofs` | theorems about VideoOut, on those of VoLayout |
| `MC*` | the same on small instances, with symmetry, for TLC |

`HgSession` refines what `NvrChannels` takes for granted: that a channel's thread
ends some time after running was cleared (`ThreadEnds` with weak fairness there,
`StopEnds`, checked by TLC here, says so unless a short header has caught the thread, a camera that
`NvrChannels` does not have). `VideoOut` extends `VoLayout`, so that its calls are the
layout's actions; `ScreenIsLayout` says that it implements it.

### MediaPool

An entry is abstracted to whether its data_size is not 0, whether its data is
not NULL, its key flag and its next; payload, sizes and times are left out, and
a user's comparison of time stamps (`MEDIAPOOL_user_sync`, which only MEDIABUF_sync calls, and
nothing in the repository that) may go either way. The
entry locks are real: `wrlocked` is what in_request holds for writing, `lock`
what each user holds for reading; trywrlock succeeds when nobody holds the lock.
The actions follow the calls between two accesses to shared state:

- encoder thread: `Request`, `RequestLocked`, `RequestAlloc`, `RequestAllocFails`,
  `Append`, `Commit`, then the scan of a key frame (`ScanStep`, `ScanDone`), the
  search for the next entry (`FindNext`, `FindNextFails`), the emptying that the
  pool-exhausted hook starts (`ExhaustedStep`, `ExhaustedDone`) and `CommitUnlock`;
- video-loss thread: `SignalLoss`, `LossStep`, `LossDone`, at any moment;
- users: `Attach`, `Detach`, `UserSync`, `OutLock`, `OutNothing`, `OutNext`,
  `OutResync`, `OutKey`, `OutUnlock`. A resync and its jump to the key frame are two
  steps, since the scan may come between.

Three things are one step where the code has several accesses: the shift of `key_history` when a
key frame is committed, its reading by find_nearest_key, and the reading of the entry that a
resync jumps to, which is read without its lock (`media_pool.c:723-735`).

`MediaPoolStream` adds to each entry the number of its frame, and to each user
what it has read last; `UserSync` is not a step of it, since it has no caller and may take
a user back to the latest key frame. `StreamIsLog` is the refinement of `FrameLog`: a user only
moves forward, and while the frame it had last is kept it gets the very next one; what is
kept is mapped to the frames since the oldest key frame in `key_history`. The promise ends with
the first emptying.

### SpookServer

The server thread (`Bind`, `Poll`, `Timeout`, `Accept`, `Refuse`, `Admit`, `SlotTaken`,
`SetupSession`, `SetupFails`), one thread per session slot (`Peek`, the four answers
of a probe, `NextEntry`, `EnterTask`, `TaskReturns`, `Close`, `Clear`, `Release`) and
the owner's calls. Descriptors are a finite set of numbers that are given out
again as soon as they are closed: which socket a number means is the point of
`SocketsAreOwn`. What a client sends is the protocol its connection speaks and
how much of it a peek sees; a probe answers MATCH for its own protocol only,
MISMATCH for others only, and UNDETERMIN whenever it likes. The address list is
one free choice. `lost` says that the process is gone: exited in an assertion,
called NULL, compared a NULL name, or went on in a freed server. After that
nothing is said. Three history variables, which no step reads but to keep them, say whether a task was
removed since the server was made (`removed`), whether a session was set up before any task was counted
(`early`), and whether the very task a session has hit was removed since (`gone`). Flags and counters are taken to be read and written whole and
to be seen by other threads, which C does not promise of plain variables.

### TimeTick

The daemon's round over the table (`DaemonScan` and the read and the write of a
decrement, `DaemonLoad` and `DaemonStore`; the call, `DaemonRan`, and the read and the
write of the re-arming), the steps of AddTask and RemoveTask by any caller, and
Init and Destroy by one. `--nTaskTick` and the re-arming are a read and a write, as
on the ARM the code is built for; a change of the count is one step, since what a
lost count does, two threads that add into one slot already do in the model. A counter that falls below zero
reaches zero again after 2^32 seconds, and is kept at -1. `armed` is history: a slot's counter was
last set by an addition while the daemon was not about to write that slot, and no removal cleared it since.
Several callers can get the count wrong without end; no call begins while it is more than
`MaxMiscount` away from 0 .. MaxTask. DaemonStart sleeps for
5 ms so that the thread has begun: the model takes that for granted (`DaemonStarted`).

### NvrChannels

The table (`using`, `ip`, `dev`, `running`), the thread each entry names (`thr`: none,
running, over, joined) and the mutex `lock_thread_restart`. The DNVR thread's
program counter goes round `CheckLinks`, the LAN's address, the beginning of a search, its
answers and, for each answer, stop, join, start and the binding of the address to
the MAC (`arp`). A stop may join a thread that NVRPC_destory has joined: that join returns (`StopJoin`) or
never does, with the lock held (`StopStuck`). A LAN address that moves, or that get_ipaddr cannot
tell, stops all channels (`LanMoves`). NVRPC_destory joins channel by channel with the lock held
(`DestroyJoin`), lets it go, tells the DNVR thread and joins it; NVRPC_Search waits for the
LAN's search to give way or for its time-out. A host below 11 is taken as one of
another net, all cameras have one port number, and clocks are left out: the window of a search
may be over at any look at it, and of a link's looks only those before the third
are counted.

### HgSession

The thread of a channel. Bytes are counted, not stored: a camera's script says
at which byte each packet ends, which time stamp it has, and whether its header is *short*, one whose
payloadLen is below the size of the RTP header that line 698 takes off it. `Arrive` brings one byte,
so that a header, a packet or a frame is cut anywhere. `ReadHeader`, `ReadBody` and
`Commit` follow `_read_frame`, with `hlen`, `ftmplen`, `flen` and `last_timestamp` as the code
carries them from call to call. Packets of time stamp 0 belong to the frame after them (`EndsFrame`, line 703);
at a short header the loop goes round without reading (`ReadSpins`), for ever. `MainIsCameraLog` is the refinement of `CameraLog`. The
texts of login and settings are one step that succeeds or fails.

### VoLayout and VideoOut

`VoLayout` names a division by its number of grids and takes the factor tables from
`VO_GRID_get_rect_of_grid`; `shown` says in which grid each channel is open, as the chip would,
`voChnMap` what the program believes. `MCVideoOut` has TLC check the tables of all
nine divisions: every cell is covered once (`GridsTile`), and every point is found in
its grid but those in the rows and columns left over by the division
(`PointsAreFound`).

`VideoOut` has three threads. The loss thread's pass is `LossQuery`, then per camera
`LossUnbind` and `LossBind`, `LossKeep`, and for an input whose format changed `LossOpen` (the input's
mode), `LossOpened` (the wanted one), `LossFormatUnbind`, `LossFormatDone`; the check thread reads a format
(`CheckProbe`), compares it with the input's mode later (`CheckCompare`) and writes the wanted one later
still (`CheckWrite`); the application clears the zooms camera by camera before
a division, playback or live mode, and zooms in two steps that the loss thread may
fall between. A binding is one command of the chip; unbinding an output removes
only the input's own group, as `hi_3521_vi_unbind_output` does.

## 3. Runs

| run | instance | what it shows |
|---|---|---|
| `pool_faults` | 3 entries, 2 users for one user slot, calloc fails, signal losses | locks, buffers, locked frames and refusals in spite of every error path |
| `pool_inuse` | violation | the scan frees what a resynced user reads |
| `stream_log` | 3 entries, calloc fails, signal losses, with fairness | frames come in order, none that is kept is missed; the encoder thread's calls return |
| `spook_calls` | 2 sessions, 2 entries, 4 descriptors, every call, early clients | ownership of descriptors, no leak, no exit; right task and no missing function but in the named cases |
| `spook_live` | 1 session, 2 retries, tasks added and reloads beside it, with fairness | sessions decide, reloads return |
| `tick_calls` | 2 slots, 2 tasks, 1 caller, every call, with fairness | count exact, nothing after destroy, destroy returns |
| `tick_churn` | 2 slots, 2 callers that add and remove, with fairness | tasks in the table run again and again, but in a slot that was spoilt |
| `nvr_calls` | 2 channels, 2 cameras, 4 hosts, searches | addresses differ, one LAN search at most begins under NVRPC_Search |
| `nvr_destroy` | 1 channel, 2 nets, destroy, searches, changes of the LAN, with fairness | destroy returns unless the DNVR thread joined a joined thread, joins no thread twice while it has the lock, leaves only what was started late; the LAN's search gives way |
| `hg_calls` | 3 cameras' scripts, headers of 2 bytes, with fairness | whole frames in order, no socket lost; stop ends and a camera that goes is noticed, unless a short header catches the thread |
| `hg_closed` | violation, with fairness | both connections closed before a byte: the thread never ends the session |
| `vo_live` | 2 cameras, one zoomed, one with two formats, divisions of 1 and 4, with fairness | the screen, its map, playback; signals, losses and formats are followed |

*Bounds.* A ring of three or four entries has every role at once: the entry
being filled, one locked, one remembered, one free; four entries let a user fall
behind by a whole key frame and be sent on. Two users suffice for one to hold
what the scan or the other user's resync needs. Frames are two pieces so that an emptying
can fall between them. `stream_log` stops the encoder at MaxFrames 5, more than once
round the ring. Two sessions and two entries give a hole before a
used entry, a full table and a number reused while its last owner leaves; four
descriptors are exactly the two sessions', the listening one and one in hand, so
that one leak is noticed. `MaxRetry` is 0 in `spook_calls`, where retries change no
ownership, and 2 in `spook_live` (5 in the code). `Modulus` is 16 in place
of 2^32: all that matters is that it is larger than the table. Two slots and two
tasks let the daemon be before, at and behind the slot that changes; in `tick_calls` intervals
up to 2 tell an early call from one in time. In `tick_churn` every interval is a second (MaxTick 1): what
matters there is which write of the counter comes last, and the zero of a removal still differs from it;
the count is at most one beyond the table's size or below zero when a call begins (MaxMiscount 1), so that a
table that is full by count alone, and a count that has gone below zero, are both there. Two channels and two cameras let one
camera come in at the other's port, where the address it brings is taken; four hosts
leave one to change to; one channel is enough for every order of destroy, stop, join
and start, and two nets for a change of the LAN's address. The scripts of
`hg_calls` have frames of one and two packets, empty packets, an empty frame, a packet of time stamp 0
after a frame, a sub stream with a short header, and a connection
that begins with the time stamp the last one ended with; headers of two bytes can be cut.
In `vo_live` a division of one and one of four give several pages and grids without a
camera; one camera is zoomed, the other changes its format, and both come and go. Grids are
swapped outside live mode only (`SwapLive`), since a swap touches the layout alone and
the layout is proved for all orders.

*Symmetry* is used for users, descriptors, protocols and devices in the runs
without liveness. *Deadlock* is checked where the system cannot stop, and not for
the session server, which ends when the process is lost, nor for the channel
table and the session, which end when told; see the cfg files.

*Fairness.* enc_loop polls the hardware for ever, so requests keep coming and a
call that has begun goes on (WF); the write lock of an entry is had when its
users are gone again and again (SF), since users sleep between polls. Nothing
makes users attach or signals be lost. In the session server select and recv
have time-outs of 2 s and 10 s, so the server thread and every session that is
not in its task's loop go on (WF); nothing makes clients connect, tasks return or the owner
call. The daemon of TimeTick and a call once made go on (WF); nothing makes
anyone call. The DNVR thread, NVRPC_destory and a search go on (WF), a camera's
thread looks at running now and then (WF), and the answers to one request end, since
a window of time is all they have (SF of `Silence`). In HgSession the thread goes on once a camera
answers (WF; connecting may take for ever, so `ConnectMain` has none), and the time-outs of select and of reading strike when
a stream is quiet again and again (SF of `Silence` and `ReadSilent`). In VideoOut both threads and
a call that was made go on (WF); no camera has to come or go, and the liveness properties speak
of cameras that are there, or away, for good.

## 4. Findings

Each is a run that TLC finds violated; `PROJECT.json` quotes the line it contradicts.

1. `pool_inuse` (`media_pool.c:515`): a resync hands a user the key frame's data while
   it holds the lock of another entry; the scan then clears that frame as free.
2. `hg_closed` (`nvrpc_protocol_hg.c:662`): a connection the camera has closed is always
   readable and reads nothing, and where nothing was ever read no clock runs: the thread reads nothing
   for ever, although its message says that it stops after some seconds.

The models also contain, without a run of their own:

- frame pool: when the pool is exhausted by the commit of a key frame, or while a
  user reads the latest one, it goes on at an entry that still has data and may
  discard every later frame (`media_pool.c:553`); next of a busy entry is forced on to the key
  frame, but a user that has copied next before goes on without one (`:523`); once the pool was emptied
  `key_history` may name the entry being filled, and a resync hands out its data before they are
  complete, or NULL with a size (`:622`, `:713`): FrameLog promises nothing then;
- session server: the entry that matched is read again for its loop, and may be another
  task's by then, or nobody's, when its task was removed in between (`spook.c:258`, what `TaskIsHit`
  exempts by `gone`); a removal also leaves sessions to walk over entries that are empty
  (`NoNullCall` exempts it by `removed`); a connection between
  SPOOK_init and the first registration makes its session call entry[0].do_probe,
  which is NULL (`spook.c:220`, the order the example in `spook.h` shows, `EarlyClients`; exempted by `early`);
  a removal compares the NULL names of empty entries (`spook.c:424`, `RemoveUnnamed`);
- periodic tasks: a task added into a slot the daemon is about to
  write gets a counter that never reaches zero (`timetick.c:134`), and so does one whose counter is
  cleared by a removal that found another task in its slot (both are what `TaskRuns` exempts by `armed`);
  TIMETICK_RemoveTask returns while the daemon is in the task (`timetick.c:226`); two
  threads adding at once can count one slot twice, which the assertion of
  TIMETICK_RemoveAllTask (`timetick.c:252`) notices;
- network channels: NVRPC_destory leaves the entries in use, so that the DNVR thread may
  join a joined thread, which C does not define and which may hang it with the lock held
  (`DestroyReturns` then promises nothing), and start channels nobody stops after the lock is let go
  (`nvrpc_function.c:656`, `:1644`); a channel's address is overwritten before its stop
  unbinds it, and the old one stays bound to its MAC (`:1448`, `:645`); lan_searching may
  stay set when the DNVR thread ends, so that a search waits for its time-out;
- camera session: frames of time stamp 0 are merged with the frame after them
  (`nvrpc_protocol_hg.c:703`): CameraLog's frames are those that `EndsFrame` tells apart; a payloadLen
  below the RTP header's size makes data_len negative (`:698`), after which the loop neither reads nor
  looks at running: a stop, and NVRPC_destory with it, waits for ever (`Spinning`);
- layout: a grid equal to the number of cameras passes the test of a swap
  (`jdk.c:727`); the channel of no camera it opens is hidden by no later division;
- video output: a zoom cleared after the signal went binds the lost camera's input
  again (`jdk_hi_3521.c:1666`), so that the lost camera shows its frozen input instead of
  the picture of the loss until the next change: `LossShown` leaves zoomed cameras out; a zoom
  ended outside full screen leaves the channel on the zoom's group (`:1715`).

Seen while reading, in parts that are not modelled: the commit of a sub stream takes
size, key flag and data of the main stream (`nvrpc_protocol_hg.c:1542-1552`); a failed
NVRPC_connect goes on with the descriptor it closed (`:253-280`); NVRPC_hg_connected reads a
structure that the channel's thread may have freed (`:604-616`, `:1630`); frame sizes are not
compared with BUF_SIZE; `nChn <= MAX_CAM_CH` lets a channel number be one too large
(`nvrpc_function.c:498`); the count of a link's looks is not reset when the link
returns (`:1325`); VO_GRID_get_size_of_grid writes size1 where it means size2
(`vo_grid.c:137-160`); JDK_swap_vo_chn leaks its table at one return (`jdk.c:744`), and its test
`div == X1 && div >= NR` never holds (`:724`); JDK_set_live_mode while live binds every decoder, and the
loss daemon it then starts returns at once (`:1416`); direct_io.c goes back one byte too far
to its original position (`:204`) and writes a stale rest of the page after crossing
a block; tcp_server.c leaves what was queued to the next client of a slot (`:37`) and
writes one past its buffer (`:58`).

Why the order promise holds at all (`StreamIsLog`): during a resync the reader
keeps the lock of the *empty* entry it waited at, which the encoder comes to before it
could fill the key frame's entry again; so the encoder cannot go round. And
the nearest key frame is always the oldest (`ResyncToOldest`), so that a resync goes over no
frame the user could still have had. With one remembered key frame (FRAME_BUFF_NUM_IDR of the 3520D lite
and the 3531, `dvr.c:384`), or after an emptying, which gives
`key_history` one position for all, this is not so (with K = 1 a user that got frame 3 is sent back
to frame 1): the order is stated and proved for K >= 2 until
the first emptying.

What FrameLog does not promise is that a user that missed frames goes on at a key frame. It is not so:
a user that fell behind and is away while the encoder goes round finds the entry it waits at
filled again, with whatever frame came there, takes that one for its next, and no
resync happens.

## 5. Proofs

`tlapm` checks every proof; constants are as general as the named assumptions.

*MediaPoolProofs* (PoolAssumption: the assertions of MEDIAPOOL_create). `TypeCorrect`,
`WriteLocksOwned`, `FillBufferSafe`, `LockedFrameSafe` and `RefusalHasCause` follow from
one inductive invariant `IInv`. The properties are not inductive as they stand:
that the scan does not free a locked frame needs where the scan is and which
entries it has passed (`LoopBounds`), that the buffer being filled survives an
emptying needs that its entry is locked for writing and sized (`EncoderState`,
`SizedEntries`), and that a lock is not leaked needs that the error returns of
in_request are not reached. TLC checked `IInv` on the instance of `pool_faults`
before it was proved.

*MediaPoolStreamProofs* (PoolAssumption, StreamAssumption, and K >= 2, which is FRAME_BUFF_NUM_IDR
of all variants but one, `dvr.c:370-398`). `PoolIsLog` is the refinement, for any ring, any users and any
bound on the frames. It rests on `IInv` and on `OrderInv`, which holds until the first emptying and
follows the numbers round the ring, counted in steps to entry_in:

- `Ring`: the kept frames, those since the oldest key frame, lie behind entry_in in the order of
  their numbers with no empty entry between them, so that neither the scan (`Loops`) nor in_request
  (`Numbers`) comes to one of them;
- `Nexts` and `Readers`: next of a kept frame, and the place where a user that had it goes on,
  is the frame after it, or entry_in for the last. Of a frame no longer kept it is a newer frame,
  entry_in, or an empty entry (`Follows`), at which the user resyncs;
- `Readers` also says that a user in a resync holds an entry that the encoder comes to before the key frame it was
  sent to, which is why that key frame is still there when it is taken;
- `First` is for the first frame, which is linked while it is the oldest itself.

`ResyncTarget`, a lemma about find_nearest_key, says that from an empty entry the search ends at
the oldest key frame; `ResyncsGoToOldest` is the action property. `FramesAreRetained` adds that no number is missing among
the frames kept (`Whole`): FrameLog alone would allow a pool that delivers nothing. TLC checked
the invariant on rings of 4 and 5 entries, with 2 and 3 key frames, one and two users, before it was proved.

*SpookServerProofs* (SpookAssumption: tables are not empty, the modulus exceeds the
entry table, descriptors are finitely many). `DescriptorsOwned` and `SocketsNotShared` are
inductive together with the life of a session (`SessionLife`: a live one has its
slot, which it gives back last) and the phases of the server thread
(`ServerPhase`: it has a listening socket from bind to the end, a connection from
accept to setup, and the server is freed after the join). `AssertionsHold` counts:
what is open is the listening socket and at most one descriptor for each
session, so with NumSession + 2 descriptors one is left whenever bind or accept
wants one. `NoNullCalls` and `TasksAreHit` are for every call of the owner, removals among them, and for
clients that come at any time; they name the sessions of which they say nothing. `NoNullCalls` keeps, until
the first removal, `Registered` (entries below n_entry are complete) and `Probing` (a session that was not early
looks below n_entry). `TasksAreHit`, an action property, keeps that an entry's probe and loop belong together
outside the owner's call that changes them (`Paired`) and that the entry and the socket that matched are
still those unless the task is gone (`Known`), which needs `Ownership`: nobody
else closes or is given a live session's descriptor.

*TimeTickProofs* (TimeTickAssumption: a table with slots, intervals of a second at
least). `DestroyedIsAtRest` needs only that a running daemon is known to the owner
(`DaemonKnown`), for any callers. `CountExact` and `TypesKept` assume one caller (`OneCaller`),
without which they are false; `CountInv` says how far the count is from the number of
tasks at each step of a call (`Counting`) and what the slot of the call holds
(`CallSlot`), so that after the last slot of TIMETICK_RemoveAllTask the table is empty and
the count zero.

*HgSessionProofs* (HgAssumption: a header has a length and a camera's positions do not go back; time stamps
may be 0, payloads and frames empty and headers short). `SessionIsCameraLog` is the refinement. Its invariant has two layers.
`Bytes` counts: what is read of a stream has arrived and belongs to a packet (`InPackets`), so that
_read_frame never asks for fewer than no bytes. `Frames` says what fbuf holds (`Gathering`): it begins
where frame i ended, the packets since are of one frame, and the time stamp last seen is theirs or
that of the packet just finished, or 0 while only packets of stamp 0 have come, to which the next packet is
added whatever its stamp (`FrameGoesOn`). When the next header differs that packet ended a frame
(`FrameIsOver`), which is what CameraLog asks of a delivery (`Delivered`); `Fresh` says that a new
connection begins with nothing of the old one. `NoSocketLost` needs which connections there are at each
step (`Sockets`).

*NvrChannelsProofs* (NvrAssumption). `JoinsAreSingle` and `LeftoversAreLate` follow from who holds the lock
(`LockHolder`, a DNVR thread stuck in a second join included) and from what NVRPC_destory has done with the channels it has passed (`Joins`, `Leftover`).
`SearchesTakeTurns` keeps that a round which began under NVRPC_Search has left the place it began
at. `AddressesAreOwn` needs that the address chosen for a camera stays nobody else's until
its channel is started with it (`Chosen`). `TypesKept` needs that the loops stand at a channel
(`AtChannel`).

*VoLayoutProofs* (LayoutAssumption: there are cameras, the device has a channel for
each, the divisions are the nine the tables know). `MapAgrees` and `PageShown` follow from an
invariant that adds to them that the map is one to one and onto the page's grids
(`MapIsOneToOne`, `MapIsOnto`): without it a swap might open a channel in two grids or leave one
out. `PicturesSeparate` adds `GridsApart`, a lemma over the factor tables of all divisions: two
grids share no cell.

*VideoOutProofs* (VideoOutAssumption). Every action of VideoOut leaves the layout alone or is one
of VoLayout's (`ScreenIsLayout`), so `MapIsSeen`, `PageIsSeen` and `PicturesAreApart` are
those theorems carried over. `PlaybackSafe` needs `PlayInv`: outside live mode the loss thread is
off and no zoom is half way, so nobody is left who binds an input.
`TypesKept` needs what each thread has in hand (`AtHand`).

*Only model-checked:* liveness (EncoderReturns, SessionDecides, ReloadReturns,
TaskRuns, the two DestroyReturns, LanGivesWay, StopEnds, ClosedIsNoticed, SignalShown, LossShown,
FormatFollows), since fairness and ENABLED are out of the prover's reach. Every invariant, action
property and refinement that a passing run checks is proved; StreamIsLog for K >= 2.

## 6. Not modelled

Of the frame pool: its creation and release, statistics and MEDIAPOOL_is_empty. Of the
session server: the address list's contents, the folder of notes, failures of
thread creation and of select (both end the process). Of the periodic tasks: the clock
they also keep, which nothing reads. Of the network channels: the switch of live view and
recording, the texts of the search's messages, protocols other than the one that has
a run_handle. Of the camera session: login and settings in detail, the live view and
the sub stream's pool, frames larger than BUF_SIZE. Of the video output: inputs that share a chip, network
cameras, the set-up of the chip, the second monitor, which mirrors the first; a failing close or open of an input, which
the code tries again in the next round; JDK_set_auto_vi_format_check, which nothing calls, so
that viInModeAuto is for good what JDK_vin_init was given from the environment (`app_jdk.c:430`): TRUE here, since
formats are only followed then; and videoCheckFreeze, which the loss thread sets, and clears again before it tests it. Nothing in the repository calls
JDK_set_play_mode, JDK_set_live_mode and the zoom: they are modelled as their code
allows them to be called.

The encoder's start and stop (AVENC_Init2, AVENC_Destroy2: `sdk_enc` stays NULL, so that
AVENC_chn_open and AVENC_chn_close return at once), the TCP text server, the stream over shared memory, the
timers, the queue and direct file I/O have no caller in the repository, so that the order of
their calls would be invented; they come last in the plan. Drivers, register
tables (the switch chip's too), drawing, sound and vendor libraries are I/O without a protocol; dlmalloc is vendored;
four of the five encoder sources are variants of one. Configuration files, users
and the environment are sequential.

## 7. Plan

1. `AVEnc` (`app/dvr.c`, `hi3521_enc.c`, `app_overlay.c`) composed with TimeTick for the clock
   task: create_overlay sets the canvas before its region exists, release_overlay clears it before
   detaching, and update_overlay reads it again (`hi3521_enc.c:1264`), while the task may go on after
   TIMETICK_RemoveTask (`dvr.c:353`) and channels are closed beside the encoder loop.
2. `DirectIO` as a refinement of a plain file, `NetStreamIPC` of a queue of whole packages,
   `TcpServer`, `Timer`, `Queue`.
3. The live view's switch of streams with the session that feeds it.
