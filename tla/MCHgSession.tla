---------------------------- MODULE MCHgSession ----------------------------
(* HgSession with three kinds of cameras, for TLC.  A frame comes in       *)
(* packets of several lengths, 0 too; the second script begins with the    *)
(* time stamp that the first one ends with, and has an empty frame; in the *)
(* third a packet of stamp 0 follows a frame, and the sub stream's header  *)
(* is short.                                                               *)
EXTENDS HgSession

Pk(ts, to) == [ts |-> ts, to |-> to, short |-> FALSE]
Short(ts, to) == [ts |-> ts, to |-> to, short |-> TRUE]
Camera(main, sub) == [s \in Streams |-> IF s = "main" THEN main ELSE sub]

MCScripts ==
  {Camera(<<Pk(1, 1), Pk(1, 3), Pk(2, 3), Pk(2, 4), Pk(3, 5)>>, <<Pk(1, 1)>>),
   Camera(<<Pk(3, 1), Pk(4, 1), Pk(5, 2)>>, <<Pk(1, 1), Pk(2, 2)>>),
   Camera(<<Pk(1, 1), Pk(0, 2), Pk(2, 3), Pk(3, 4)>>, <<Short(1, 1)>>)}
=============================================================================
