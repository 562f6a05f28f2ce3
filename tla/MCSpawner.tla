----------------------------- MODULE MCSpawner -----------------------------
(***************************************************************************)
(* An instance of Spawner for TLC.                                         *)
(***************************************************************************)
EXTENDS Spawner

CONSTANTS c1, c2, t1, t2, t3

Default(b)   == [set |-> "default", beh |-> b]
Stream(s, b) == [set |-> "stream", stream |-> s, beh |-> b]

(* A filter with all three streams (the last call comes too late), and a   *)
(* compiler.                                                               *)
Setters ==
  (c1 :> <<Stream(0, "pipe_read"), Stream(1, "pipe_write"), Stream(2, "pipe_write"),
           Stream(1, "close")>>) @@
  (c2 :> <<Default("pipe_write"), Stream(0, "close")>>)
=============================================================================
