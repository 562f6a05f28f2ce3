---------------------------- MODULE MCDispatcher ----------------------------
(***************************************************************************)
(* Dispatcher for TLC.  The payloads are made of items of every type, the  *)
(* smallest and the largest of their kind, and a string that is one longer *)
(* than its length field can say; the functions take none, one or two      *)
(* arguments, and some return a value.                                     *)
(***************************************************************************)
EXTENDS Dispatcher

Item(t, v) == [type |-> t, val |-> v]
Same(c, n) == [i \in 1..n |-> c]

MCItems ==
  {Item("bool", <<0>>), Item("bool", <<1>>),
   Item("int32", Same(5, 4)), Item("uint32", <<1, 0, 0, 0>>),
   Item("int64", Same(15, 8)), Item("uint64", Same(6, 8)),
   Item("string", <<>>), Item("string", <<5, 0>>), Item("string", Same(7, 256)),
   Item("node_item", <<2, 0, 1, 0>>),
   Item("uint8s", <<>>), Item("uint8s", <<<<3>>, <<4>>>>), Item("uint32s", <<Same(0, 4)>>),
   Item("strings", <<>>), Item("strings", <<<<>>, <<9>>>>)}

(* One opcode has no function.                                             *)
MCOpcodes == {"nobody", "stop", "count", "set", "ask"}

Function(o, params, result) == [op |-> o, params |-> params, result |-> result]

(* The first "set" is replaced by a second one of other parameters.        *)
MCOffered ==
  <<Function("stop", <<>>, <<>>),
    Function("set", <<"string">>, <<>>),
    Function("count", <<>>, <<Item("int32", Same(5, 4))>>),
    Function("set", <<"bool">>, <<>>),
    Function("ask", <<"string", "uint32">>, <<Item("string", <<5, 0>>)>>)>>
=============================================================================
