--------------------------- MODULE PayloadCodec ----------------------------
(***************************************************************************)
(* serializer<payload> and deserializer<payload>                           *)
(* (src/network/protocol/payload_serializer.cpp) over the memory streams   *)
(* of src/util/memstream.cpp.                                              *)
(*                                                                         *)
(* A payload is a sequence of items, an item a type of payload_item_t and  *)
(* a value.  What the streams move are cells, a byte each, that count to   *)
(* Base.  The value of an integer is the sequence of its cells, as memcpy  *)
(* sees it; that of a string is the sequence of its characters.            *)
(***************************************************************************)
EXTENDS Integers, SequencesExt

CONSTANTS
  Base,     \* values of a byte (256 in the code): at least one for each type
  Items,    \* the items a payload is made of
  MaxItems, \* bound: items of a payload
  Slack,    \* by how much a buffer may be longer than serializer::size says
  MaxCut    \* bound: cells the other end's message is short of

VARIABLES
  p,      \* the payload that is written
  buffer, \* the size of the buffer it is written to
  out,    \* what was written
  cut,    \* how much of it the other end does not see
  rest,   \* what memory_input_stream has left
  left,   \* items deserialize has still to read
  got,    \* the payload it fills
  phase   \* how far the two have come, and how they ended

vars == <<p, buffer, out, cut, rest, left, got, phase>>
-----------------------------------------------------------------------------
(* payload_item_t: the place of a type is its prefix on the wire.          *)
Types == <<"bool", "int32", "uint32", "int64", "uint64", "string", "node_item",
           "uint8s", "int32s", "uint32s", "int64s", "uint64s", "strings">>

ASSUME BaseAssumption == Base \in Nat /\ Base >= Len(Types)
ASSUME BoundsAssumption == MaxItems \in Nat /\ Slack \subseteq Nat /\ MaxCut \in Nat

Prefix(t) == (CHOOSE i \in DOMAIN Types : Types[i] = t) - 1

(* The bytes of an integer, or of one integer of a vector.                 *)
Width(t) ==
  CASE t \in {"bool", "uint8s"} -> 1
    [] t \in {"int32", "uint32", "node_item", "int32s", "uint32s"} -> 4
    [] t \in {"int64", "uint64", "int64s", "uint64s"} -> 8

Integral == {"bool", "int32", "uint32", "int64", "uint64"}
Vectors  == {"uint8s", "int32s", "uint32s", "int64s", "uint64s"}

(* payload_item: what the value of an item of each type can be.            *)
Byte == 0..(Base - 1)

Values(t) ==
  CASE t = "bool"    -> {<<0>>, <<1>>}
    [] t \in (Integral \ {"bool"}) \cup {"node_item"} -> [1..Width(t) -> Byte]
    [] t = "string"  -> Seq(Byte)
    [] t \in Vectors -> Seq([1..Width(t) -> Byte])
    [] t = "strings" -> Seq(Seq(Byte))

IsItem(it) ==
  /\ it = [type |-> it.type, val |-> it.val]
  /\ it.type \in ToSet(Types) /\ it.val \in Values(it.type)

ASSUME ItemsAssumption == \A it \in Items : IsItem(it)

(* A number in w bytes, the lowest first, and back.                        *)
Place == <<1, Base, Base * Base, Base * Base * Base>>
Little(n, w) == [i \in 1..w |-> (n \div Place[i]) % Base]

Number16_Swapped_Bug(s) == s[2] + Base * s[1]

Number16(s) == s[1] + Base * s[2]

Total(lens) ==
  LET sum[n \in 0..Len(lens)] == IF n = 0 THEN 0 ELSE sum[n - 1] + lens[n]
  IN  sum[Len(lens)]

(* compute_size_visitor, and serializer<payload>::size: no count of items. *)
ItemSize(it) ==
  CASE it.type \in Integral \cup {"node_item"} -> 1 + Width(it.type)
    [] it.type = "string"  -> 1 + 2 + Len(it.val)
    [] it.type \in Vectors -> 1 + 4 + Width(it.type) * Len(it.val)
    [] it.type = "strings" -> 1 + Total([i \in DOMAIN it.val |-> 2 + Len(it.val[i])])

Size(q) == Total([i \in DOMAIN q |-> ItemSize(q[i])])

Fields_Short_Bug(it) ==
  <<<<Prefix(it.type)>>>> \o
  CASE it.type \in Integral \cup {"node_item"} -> <<it.val>>
    [] it.type = "string"  -> <<Little(Len(it.val), 2), it.val>>
    [] it.type \in Vectors -> <<Little(Len(it.val), 4)>> \o it.val
    [] it.type = "strings" -> <<Little(Len(it.val), 2)>> \o
         FlattenSeq([i \in DOMAIN it.val |-> <<Little(Len(it.val[i]), 2), it.val[i]>>])

(* serialize_visitor: what it writes of an item, one write after another.  *)
Fields(it) ==
  <<<<Prefix(it.type)>>>> \o
  CASE it.type \in Integral \cup {"node_item"} -> <<it.val>>
    [] it.type = "string"  -> <<Little(Len(it.val), 2), it.val>>
    [] it.type \in Vectors -> <<Little(Len(it.val), 4)>> \o it.val
    [] it.type = "strings" -> <<Little(Len(it.val), 4)>> \o
         FlattenSeq([i \in DOMAIN it.val |-> <<Little(Len(it.val[i]), 2), it.val[i]>>])

Writes_Uncounted_Bug(q) == FlattenSeq([i \in DOMAIN q |-> Fields(q[i])])

Writes(q) ==
  <<Little(Len(q), 2)>> \o FlattenSeq([i \in DOMAIN q |-> Fields(q[i])])
-----------------------------------------------------------------------------
Payloads == BoundedSeq(Items, MaxItems)

Init ==
  /\ p \in Payloads
  /\ \E more \in Slack : buffer = Size(p) + more
  /\ out = <<>> /\ cut = 0 /\ rest = <<>> /\ left = 0 /\ got = <<>>
  /\ phase = "new"

(* serialize: a write that does not fit throws, and ends it.               *)
Fits(ws, n) == Len(FlattenSeq(SubSeq(ws, 1, n))) <= buffer

Serialize ==
  /\ phase = "new"
  /\ LET ws == Writes(p)
         n  == CHOOSE k \in 0..Len(ws) :
                 Fits(ws, k) /\ (k = Len(ws) \/ ~Fits(ws, k + 1))
     IN  /\ out' = FlattenSeq(SubSeq(ws, 1, n))
         /\ phase' = IF n = Len(ws) THEN "written" ELSE "exhausted"
  /\ UNCHANGED <<p, buffer, cut, rest, left, got>>

(* The other end is given the buffer, or one that is cut short.            *)
Receive ==
  /\ phase = "written"
  /\ \E n \in 0..MaxCut : n <= Len(out) /\ cut' = n
  /\ rest' = SubSeq(out, 1, Len(out) - cut')
  /\ phase' = "received"
  /\ UNCHANGED <<p, buffer, out, left, got>>
-----------------------------------------------------------------------------
(* What the reading of a value comes to: the value and what is left, or    *)
(* the exception (or the crash) that ends deserialize.                     *)
First(s, n) == SubSeq(s, 1, n)
After(s, n) == SubSeq(s, n + 1, Len(s))

Value(v, s)   == [ends |-> "no", val |-> v, rest |-> s]
Ends(how)     == [ends |-> how, val |-> <<>>, rest |-> <<>>]
Exhausted     == Ends("out_of_range")
Length(s)     == Number16(First(s, 2))

ReadIntegral(t, s) ==
  IF Len(s) < Width(t) THEN Exhausted
  ELSE IF t = "bool" THEN Value(<<IF s[1] = 0 THEN 0 ELSE 1>>, Tail(s))
  ELSE Value(First(s, Width(t)), After(s, Width(t)))

ReadString_Short_Bug(s) ==
  IF Len(s) < 2 THEN Exhausted
  ELSE Value(SubSeq(s, 3, IF Length(s) + 2 < Len(s) THEN Length(s) + 2 ELSE Len(s)),
             After(s, 2 + Length(s)))

ReadString(s) ==
  IF Len(s) < 2 \/ Len(s) - 2 < Length(s) THEN Exhausted
  ELSE Value(SubSeq(s, 3, Length(s) + 2), After(s, 2 + Length(s)))

(* vector_extractor: 16 bits of length, although 32 were written; then a   *)
(* copy through the first element of a vector that has none.               *)
ReadVector(t, s) ==
  IF Len(s) < 2 \/ Len(s) - 2 < Width(t) * Length(s) THEN Exhausted
  ELSE IF Length(s) > 0 THEN Ends("crashed")
  ELSE Value(<<>>, After(s, 2))

ReadStrings(s) ==
  LET read[n \in 0..Length(s)] ==
        IF n = 0 THEN Value(<<>>, After(s, 2))
        ELSE LET before == read[n - 1]
                 str    == ReadString(before.rest)
             IN  IF before.ends # "no" THEN before
                 ELSE IF str.ends # "no" THEN str
                 ELSE Value(Append(before.val, str.val), str.rest)
  IN  IF Len(s) < 2 THEN Exhausted ELSE read[Length(s)]

Readable == {Prefix(t) : t \in ToSet(Types) \ {"node_item"}}

ReadItem(s) ==
  IF s = <<>> THEN Exhausted
  ELSE IF Head(s) \notin Readable THEN Ends("invalid_data")
  ELSE LET t == Types[Head(s) + 1] IN
    CASE t \in Integral -> ReadIntegral(t, Tail(s))
      [] t = "string"   -> ReadString(Tail(s))
      [] t \in Vectors  -> ReadVector(t, Tail(s))
      [] t = "strings"  -> ReadStrings(Tail(s))

(* deserialize: the count of the items, then one item after another.  What *)
(* had been read of an item that fails is left out.                        *)
DeserializeCount ==
  /\ phase = "received"
  /\ IF Len(rest) < 2
     THEN phase' = "out_of_range" /\ UNCHANGED <<rest, left>>
     ELSE /\ left' = Length(rest) /\ rest' = After(rest, 2)
          /\ phase' = IF left' = 0 THEN "read" ELSE "reading"
  /\ UNCHANGED <<p, buffer, out, cut, got>>

DeserializeItem ==
  /\ phase = "reading"
  /\ LET item == ReadItem(rest) IN
       IF item.ends # "no"
       THEN phase' = item.ends /\ UNCHANGED <<rest, left, got>>
       ELSE /\ got' = Append(got, [type |-> Types[Head(rest) + 1], val |-> item.val])
            /\ rest' = item.rest /\ left' = left - 1
            /\ phase' = IF left = 1 THEN "read" ELSE "reading"
  /\ UNCHANGED <<p, buffer, out, cut>>

Next == Serialize \/ Receive \/ DeserializeCount \/ DeserializeItem

Spec == Init /\ [][Next]_vars
-----------------------------------------------------------------------------
Ended == phase \in {"read", "out_of_range", "invalid_data", "crashed"}

(* The items the two agree on: no vector, no node_item, and no string that *)
(* is longer than its length field can say.                                *)
Agreed(it) == it.type \in Integral \/ (it.type = "string" /\ Len(it.val) < Base * Base)
Faithful   == \A i \in DOMAIN p : Agreed(p[i])

(* A payload of such items comes back as it was, whatever their values and *)
(* their order, and nothing is left over.                                  *)
RoundTrip == (Faithful /\ cut = 0 /\ Ended) => (phase = "read" /\ got = p /\ rest = <<>>)

(* No proper beginning of such a message is taken for a whole one: the     *)
(* dispatcher answers it with error_invalid_payload.                       *)
TruncationFound == (Faithful /\ cut > 0 /\ Ended) => phase = "out_of_range"

(* What size leaves out: the count of the items, and that of the strings   *)
(* of a vector.  A buffer is long enough exactly when it is longer than    *)
(* size says by so much; the buffers message_passer makes never are.       *)
SizeFallsShort ==
  phase # "new" =>
    (phase = "exhausted" <=>
       buffer < Size(p) + 2 + 4 * Cardinality({i \in DOMAIN p : p[i].type = "strings"}))
=============================================================================
