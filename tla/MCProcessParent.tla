-------------------------- MODULE MCProcessParent --------------------------
(***************************************************************************)
(* Instances of ProcessParent for TLC.                                     *)
(***************************************************************************)
EXTENDS ProcessParent, TLC

CONSTANTS c1, c2, c3, t1, t2
=============================================================================
