------------------------- MODULE MCAgentController -------------------------
(***************************************************************************)
(* Instances of AgentController for TLC.                                   *)
(***************************************************************************)
EXTENDS AgentController

CONSTANTS a1, a2, gcc, clang

Compiler(n, v) == [name |-> n, version |-> v]

(* With the first and the last of these as its ends, a range contains      *)
(* 2.1.2.2 and 1.2.1.1 in the code's order, and 2.0.2.2 only in the usual  *)
(* one; the code compares 3.0.3.3 with none of the three as others do.     *)
MCVersions  == {<<0, 0, 0, 0>>, <<1, 1, 1, 1>>, <<3, 0, 3, 3>>, <<3, 3, 3, 3>>}
MCCompilers == {{Compiler(gcc, <<2, 1, 2, 2>>)},
                {Compiler(gcc, <<1, 2, 1, 1>>), Compiler(clang, <<2, 0, 2, 2>>)}}
MCTexts     == {<<>>, <<1>>, <<2>>, <<1, 2>>, <<2, 1>>, <<1, 2, 1>>}
=============================================================================
