-------------------------- MODULE MCMessagePasser --------------------------
(***************************************************************************)
(* Instances of MessagePasser for TLC: peer a calls, peer b serves, and in *)
(* some runs each does both.                                               *)
(***************************************************************************)
EXTENDS MessagePasser, TLC

CONSTANTS a, b, t1, t2, t3, op1, op2

(* t1 belongs to a, t3 to b.                                               *)
OneAndOne == (t1 :> a) @@ (t3 :> b)
OneA      == (t1 :> a)

(* How many conversation ids each end hands out.                           *)
OnlyA1 == (a :> 1) @@ (b :> 0)
OnlyA4 == (a :> 4) @@ (b :> 0)
Both1  == (a :> 1) @@ (b :> 1)
=============================================================================
