----------------------------- MODULE Dispatcher -----------------------------
(***************************************************************************)
(* base_dispatcher::call (src/network/protocol/dispatcher.cpp): a request  *)
(* is turned into the call of a member function, by the decoder of         *)
(* PayloadCodec, the member_function_registry, and the encoder for the     *)
(* reply; and the templates by which message_passer fills a message with a *)
(* payload.  Whatever goes wrong is caught and becomes an error code, so   *)
(* the question is what had been done by then.                             *)
(*                                                                         *)
(* The streams are given what message::get_data returns: a null pointer.   *)
(* What the dispatcher does of itself can only be seen with the arrays the *)
(* tests of the codec give them instead; Data says which are tried.        *)
(***************************************************************************)
EXTENDS PayloadCodec

CONSTANTS
  Data,     \* what get_data gives: "null" in the code, "array" in the codec's tests
  Opcodes,  \* what the other end may ask for
  Offered   \* the functions given to register_function, in order: their opcode,
            \* the types of their parameters and what they return

ASSUME DataAssumption == Data \subseteq {"null", "array"}
ASSUME OfferedAssumption ==
  /\ Offered \in Seq(ToSet(Offered))
  /\ \A f \in ToSet(Offered) :
       /\ f.op \in Opcodes /\ f.params \in Seq(ToSet(Types))
       /\ f.result \in Seq(ToSet(f.result)) /\ \A it \in ToSet(f.result) : IsItem(it)

VARIABLES
  data,    \* what get_data gives this time
  ran,     \* history: the functions that ran, and with which arguments
  answer,  \* what the request was answered with
  sent     \* what became of a message the application filled with p

dispatchVars == <<vars, data, ran, answer, sent>>

(* register_function assigns: of two functions of an opcode the later one  *)
(* is called.  All is registered before the first request comes; nothing   *)
(* keeps the two apart in the code, where _invokers has no mutex.          *)
RegisterFunction(functions, f) ==
  [o \in DOMAIN functions \cup {f.op} |-> IF o = f.op THEN f ELSE functions[o]]

Functions ==
  LET registered[n \in 0..Len(Offered)] ==
        IF n = 0 THEN [o \in {} |-> {}] ELSE RegisterFunction(registered[n - 1], Offered[n])
  IN  registered[Len(Offered)]

DispatchInit ==
  /\ Init /\ data \in Data
  /\ ran = <<>> /\ answer = "none" /\ sent = "none"
-----------------------------------------------------------------------------
(* message::create: as much room as serializer::size says.                 *)
Room(q) == Size(q)

(* The payload is serialized into the message: the first write, of two     *)
(* bytes, goes to the null pointer, or beyond the end.                     *)
Filled(q) ==
  CASE data = "null"  -> IF Room(q) < 2 THEN "out_of_range" ELSE "crashed"
    [] data = "array" -> IF Len(FlattenSeq(Writes(q))) <= Room(q) THEN "written"
                         ELSE "out_of_range"

(* message_passer::request, create_reply and subscription_sink::produce of *)
(* a payload: an exception reaches the caller before anything is sent.     *)
SendPayload ==
  /\ phase = "new" /\ sent = "none"
  /\ sent' = Filled(p)
  /\ UNCHANGED <<vars, data, ran, answer>>
-----------------------------------------------------------------------------
(* arg_parser::pop, for one parameter after the other, all of them before  *)
(* the function is called; arguments too many are not looked at.           *)
Popped(params, args) ==
  IF Len(args) < Len(params) THEN "out_of_range"
  ELSE IF \E i \in DOMAIN params : args[i].type # params[i] THEN "bad_get"
  ELSE "popped"

(* member_function_registry::call                                          *)
Invoked(o, args) ==
  IF o \notin DOMAIN Functions THEN "out_of_range" ELSE Popped(Functions[o].params, args)

(* The payload of a request that has any is deserialized; from the null    *)
(* pointer no more than the refusal of a single byte comes.                *)
Received == Len(out) - cut

Undelivered == data = "null" /\ phase = "received" /\ Received >= 2

Deserialize == ~Undelivered /\ (DeserializeCount \/ DeserializeItem)

Deserialized_Partly_Bug == phase \in {"read", "out_of_range"}

(* When the arguments are there.                                           *)
Deserialized == phase = "read" \/ (phase = "received" /\ Received = 0)

Refused == phase \in {"out_of_range", "invalid_data"} /\ Received > 0

Die ==
  /\ Undelivered /\ answer = "none"
  /\ answer' = "crashed"
  /\ UNCHANGED <<vars, data, ran, sent>>

Refuse ==
  /\ Refused /\ answer = "none"
  /\ answer' = "error_invalid_payload"
  /\ UNCHANGED <<vars, data, ran, sent>>

(* What a reply that is filled like this is answered with.                 *)
AnswerTo(filled) ==
  CASE filled = "written"      -> "error_success"
    [] filled = "out_of_range" -> "error_internal_error"
    [] filled = "crashed"      -> "crashed"

(* The function is called, then its result put into the reply.             *)
Perform(o) ==
  /\ Deserialized /\ answer = "none"
  /\ IF Invoked(o, got) = "popped"
     THEN LET n == Len(Functions[o].params) IN
            /\ ran' = Append(ran, [op |-> o, args |-> SubSeq(got, 1, n)])
            /\ answer' = AnswerTo(Filled(Functions[o].result))
     ELSE answer' = "error_internal_error" /\ UNCHANGED ran
  /\ UNCHANGED <<vars, data, sent>>
-----------------------------------------------------------------------------
Decode(A) == A /\ answer = "none" /\ UNCHANGED <<data, ran, answer, sent>>

DispatchNext ==
  \/ Decode(Serialize) \/ Decode(Receive) \/ Decode(Deserialize)
  \/ SendPayload \/ Die \/ Refuse
  \/ \E o \in Opcodes : Perform(o)

DispatchSpec == DispatchInit /\ [][DispatchNext]_dispatchVars
-----------------------------------------------------------------------------
(* A function only runs with the very arguments the other end sent, in     *)
(* their order, of the types it takes, and for a message that came whole:  *)
(* what was read of a message that broke off is never used.  (A message of *)
(* which nothing at all came is a call without arguments.)                 *)
CallAsSent ==
  Faithful =>
    \A i \in DOMAIN ran :
      LET params == Functions[ran[i].op].params IN
        /\ ran[i].args = SubSeq(p, 1, Len(params))
        /\ \A j \in DOMAIN params : ran[i].args[j].type = params[j]
        /\ cut = 0 \/ params = <<>>

(* No payload ever leaves: the room in a message is what size says, which  *)
(* leaves out the count that is written first.  A function that ran is     *)
(* answered with an error, or the program dies over its reply.             *)
PayloadsNeverLeave == sent # "written" /\ answer # "error_success"
=============================================================================
