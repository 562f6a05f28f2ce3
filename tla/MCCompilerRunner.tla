------------------------- MODULE MCCompilerRunner --------------------------
(***************************************************************************)
(* Instances of CompilerRunner for TLC.                                    *)
(***************************************************************************)
EXTENDS CompilerRunner, TLC

CONSTANTS j1, j2, t1, t2, out, err, k1, k2

(* Each job with a configuration of its own, and both with one.            *)
OwnConfig    == (j1 :> k1) @@ (j2 :> k2)
SharedConfig == (j1 :> k1) @@ (j2 :> k1)

Output == (out :> 0) @@ (err :> 2)
Short  == (out :> 0) @@ (err :> 1)
=============================================================================
