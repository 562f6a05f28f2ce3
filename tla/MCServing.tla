----------------------------- MODULE MCServing -----------------------------
(***************************************************************************)
(* Serving with one opcode that is requested and one that is subscribed    *)
(* to, two calls of connect, two sinks and two application threads: a      *)
(* simple_production is replaced, a stale sink closes beside a fresh one.  *)
(***************************************************************************)
EXTENDS Serving

CONSTANTS reply, feed, x1, x2, t1, t2

MCKeys       == {reply, feed}
MCSubscribed == {feed}
MCAddresses  == {x1, x2}
MCThreads    == {t1, t2}
=============================================================================
