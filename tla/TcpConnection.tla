--------------------------- MODULE TcpConnection ---------------------------
(***************************************************************************)
(* One tcp_connection (src/network/transport/tcp_connection.{hpp,cpp}) and *)
(* its message_queue.  The other end is any program that speaks the same   *)
(* framing: a header that carries a payload length, then that many bytes.  *)
(* A header counts as HeaderSize units on the way out and is one cell on   *)
(* the way in; every payload byte is one unit and one cell.                *)
(*                                                                         *)
(* Any application thread may call send and stop; the handlers of the      *)
(* asynchronous operations run one at a time on the io thread.             *)
(***************************************************************************)
EXTENDS Naturals, Sequences

CONSTANTS
  HeaderSize,    \* sizeof(message::header)
  IgnoreBuffer,  \* size of ignore_buffer_t (1024 in the code)
  Limits,        \* values _maximum_payload_length may have: it is not initialised
  Payloads,      \* bound: payload lengths of the messages sent and received
  MaxSends,      \* bound: calls of send
  MaxLimits,     \* bound: calls of set_maximum_payload_length
  MaxFrames,     \* bound: frames the other end sends
  MaxStops       \* bound: calls of stop by the application

ASSUME SizesAssumption == /\ HeaderSize \in Nat \ {0}
                          /\ IgnoreBuffer \in Nat \ {0}
                          /\ Limits \subseteq Nat /\ Limits # {}
                          /\ Payloads \subseteq Nat
ASSUME BoundsAssumption == /\ MaxSends \in Nat /\ MaxLimits \in Nat
                           /\ MaxFrames \in Nat /\ MaxStops \in Nat

VARIABLES
  started, stopped,  \* _started, _stopped
  open,              \* the socket is open at this end
  limit,             \* _maximum_payload_length
  queue,             \* _msg_queue
  writing,           \* the sizes of the async_write operations under way
  reading,           \* the async_read operations under way; done: a socket that closed
                     \* had completed it
  delivered,         \* messages given to _on_message
  closing,           \* calls of stop that have set _stopped and not yet closed
  closed,            \* times _on_closed was raised
  stream,            \* the cells that have arrived and were not read yet
  owed,              \* payload cells of the frame the other end is in
  eof,               \* the other end has closed
  sends, limits, frames, stops  \* calls and frames so far

vars == <<started, stopped, open, limit, queue, writing, reading, delivered, closing,
          closed, stream, owed, eof, sends, limits, frames, stops>>

Running == started /\ ~stopped

Header(n) == [cell |-> "header", len |-> n]
Byte      == [cell |-> "byte", len |-> 0]

(* An async_read of len cells, of remains cells the frame still has.       *)
Read(what, n, left) == [what |-> what, len |-> n, remains |-> left, done |-> FALSE]
ReadHeader == Read("header", 1, 1)

Init ==
  /\ started = FALSE /\ stopped = FALSE /\ open = TRUE
  /\ limit \in Limits
  /\ queue = <<>> /\ writing = <<>> /\ reading = <<>>
  /\ delivered = 0 /\ closing = 0 /\ closed = 0
  /\ stream = <<>> /\ owed = 0 /\ eof = FALSE
  /\ sends = 0 /\ limits = 0 /\ frames = 0 /\ stops = 0
-----------------------------------------------------------------------------
(* message_queue.  An item is a message of which remains units of the      *)
(* header, then of the payload, are left to write.                         *)
Item(n) == [state |-> "header", remains |-> HeaderSize, len |-> n]

(* item::buffer: from data + remains to the end.                           *)
BufferSize(item) ==
  (IF item.state = "header" THEN HeaderSize ELSE item.len) - item.remains

(* item::consume and message_queue::consume: n units were written.  The    *)
(* loop is not entered for none.                                           *)
Consume(n, q) ==
  LET rest[k \in Nat, r \in Seq([state : {"header", "payload"}, remains : Nat, len : Nat])] ==
        IF k = 0 \/ r = <<>> THEN r
        ELSE LET it == Head(r) IN
          IF k < it.remains THEN <<[it EXCEPT !.remains = @ - k]>> \o Tail(r)
          ELSE IF it.state = "header" /\ it.len > 0
          THEN rest[k - it.remains,
                    <<[it EXCEPT !.state = "payload", !.remains = it.len]>> \o Tail(r)]
          ELSE rest[k - it.remains, Tail(r)]
  IN IF n = 0 THEN q ELSE rest[n, q]

(* async_write of the front item.                                          *)
WriteFront(q) == writing' = Append(writing, BufferSize(Head(q)))
-----------------------------------------------------------------------------
Start ==
  /\ ~started /\ ~stopped
  /\ started' = TRUE
  /\ reading' = Append(reading, ReadHeader)
  /\ UNCHANGED <<stopped, open, limit, queue, writing, delivered, closing, closed,
                 stream, owed, eof, sends, limits, frames, stops>>

(* Names ending in _Bug are deviations that stand in for the definition    *)
(* that follows them, to show what each property detects.                  *)
Send_Eager_Bug(n) ==
  /\ sends < MaxSends /\ Running
  /\ sends' = sends + 1
  /\ queue' = Append(queue, Item(n))
  /\ WriteFront(queue')
  /\ UNCHANGED <<started, stopped, open, limit, reading, delivered, closing, closed,
                 stream, owed, eof, limits, frames, stops>>

Send(n) ==
  /\ sends < MaxSends /\ Running
  /\ sends' = sends + 1
  /\ queue' = Append(queue, Item(n))
  /\ IF queue = <<>> THEN WriteFront(queue') ELSE UNCHANGED writing
  /\ UNCHANGED <<started, stopped, open, limit, reading, delivered, closing, closed,
                 stream, owed, eof, limits, frames, stops>>

SetLimit(n) ==
  /\ limits < MaxLimits /\ limits' = limits + 1
  /\ limit' = n
  /\ UNCHANGED <<started, stopped, open, queue, writing, reading, delivered, closing, closed,
                 stream, owed, eof, sends, frames, stops>>

(* stop: _stopped is set under the mutex, the socket closed and _on_closed *)
(* raised after it was released.  A read that had all it asked for may     *)
(* have completed before.                                                  *)
SetStopped == stopped' = TRUE /\ closing' = closing + 1

Stop ==
  /\ stops < MaxStops /\ stops' = stops + 1
  /\ SetStopped
  /\ UNCHANGED <<started, open, limit, queue, writing, reading, delivered, closed,
                 stream, owed, eof, sends, limits, frames>>

Close ==
  /\ closing > 0 /\ closing' = closing - 1
  /\ open' = FALSE /\ closed' = closed + 1
  /\ \E d \in BOOLEAN :
       /\ d => open
       /\ reading' = [i \in DOMAIN reading |->
                       IF d /\ Len(stream) >= reading[i].len
                       THEN [reading[i] EXCEPT !.done = TRUE] ELSE reading[i]]
  /\ UNCHANGED <<started, stopped, limit, queue, writing, delivered,
                 stream, owed, eof, sends, limits, frames, stops>>
-----------------------------------------------------------------------------
HandleWrite_Restless_Bug ==
  /\ writing # <<>>
  /\ LET q == Consume(Head(writing), queue) IN
       /\ queue' = q
       /\ writing' = IF q = <<>> THEN Tail(writing)
                     ELSE Append(Tail(writing), BufferSize(Head(q)))
  /\ UNCHANGED <<started, stopped, open, limit, reading, delivered, closing, closed, stream,
                 owed, eof, sends, limits, frames, stops>>

(* _handle_write.  An async_write of no bytes succeeds at once, on any     *)
(* socket; one of some bytes fails on a closed socket.                     *)
HandleWrite ==
  /\ writing # <<>>
  /\ IF Head(writing) > 0 /\ (~open \/ eof)
     THEN SetStopped /\ writing' = Tail(writing) /\ UNCHANGED queue
     ELSE LET q == Consume(Head(writing), queue) IN
       /\ queue' = q
       /\ writing' = IF ~Running \/ q = <<>> THEN Tail(writing)
                     ELSE Append(Tail(writing), BufferSize(Head(q)))
       /\ UNCHANGED <<stopped, closing>>
  /\ UNCHANGED <<started, open, limit, reading, delivered, closed, stream, owed, eof,
                 sends, limits, frames, stops>>

(* A read completes when all it asked for has arrived; it fails when the   *)
(* socket is closed, or when the other end has closed and too little came. *)
Complete(r) == (open \/ r.done) /\ Len(stream) >= r.len
Fails(r)    == (~open /\ ~r.done) \/ (eof /\ Len(stream) < r.len)

NextRead(r) == reading' = Append(Tail(reading), r)

Take(n) == stream' = SubSeq(stream, n + 1, Len(stream))

Smaller(x, y) == IF x < y THEN x ELSE y

ReadIgnore(n) == Read("ignore", Smaller(IgnoreBuffer, n), n)

(* _handle_read_header: a frame without payload is not delivered, a large  *)
(* one is skipped in pieces (_queue_ignore_payload).                       *)
HandleHeader ==
  /\ reading # <<>> /\ Head(reading).what = "header" /\ Complete(Head(reading))
  /\ LET n == Head(stream).len IN
       NextRead(IF n = 0 THEN ReadHeader
                ELSE IF n > limit THEN ReadIgnore(n)
                ELSE Read("payload", n, n))
  /\ Take(1)
  /\ UNCHANGED <<started, stopped, open, limit, queue, writing, delivered, closing, closed,
                 owed, eof, sends, limits, frames, stops>>

(* message::get_data returns 0, whatever payload the message holds.        *)
GetData == 0

(* _handle_read_payload: reading into a null pointer is an error as soon   *)
(* as there is something to read.                                          *)
HandlePayload ==
  /\ reading # <<>> /\ Head(reading).what = "payload"
  /\ open \/ Head(reading).done
  /\ stream # <<>>
  /\ IF GetData = 0
     THEN /\ SetStopped /\ reading' = Tail(reading)
          /\ UNCHANGED <<stream, delivered>>
     ELSE /\ Complete(Head(reading)) /\ Take(Head(reading).len)
          /\ delivered' = delivered + 1 /\ NextRead(ReadHeader)
          /\ UNCHANGED <<stopped, closing>>
  /\ UNCHANGED <<started, open, limit, queue, writing, closed, owed, eof, sends, limits, frames, stops>>

HandleIgnore_OnePiece_Bug ==
  /\ reading # <<>> /\ Head(reading).what = "ignore" /\ Complete(Head(reading))
  /\ NextRead(ReadHeader)
  /\ Take(Head(reading).len)
  /\ UNCHANGED <<started, stopped, open, limit, queue, writing, delivered, closing, closed,
                 owed, eof, sends, limits, frames, stops>>

HandleIgnore_FullBuffer_Bug ==
  /\ reading # <<>> /\ Head(reading).what = "ignore" /\ Complete(Head(reading))
  /\ LET left == Head(reading).remains - IgnoreBuffer IN
       NextRead(IF left = 0 THEN ReadHeader ELSE ReadIgnore(left))
  /\ Take(Head(reading).len)
  /\ UNCHANGED <<started, stopped, open, limit, queue, writing, delivered, closing, closed,
                 owed, eof, sends, limits, frames, stops>>

HandleIgnore ==
  /\ reading # <<>> /\ Head(reading).what = "ignore" /\ Complete(Head(reading))
  /\ LET r == Head(reading)  left == r.remains - r.len IN
       /\ NextRead(IF left = 0 THEN ReadHeader ELSE ReadIgnore(left))
       /\ Take(r.len)
  /\ UNCHANGED <<started, stopped, open, limit, queue, writing, delivered, closing, closed,
                 owed, eof, sends, limits, frames, stops>>

HandleReadError_Retry_Bug ==
  /\ reading # <<>> /\ Fails(Head(reading))
  /\ NextRead(ReadHeader)
  /\ UNCHANGED <<started, stopped, open, limit, queue, writing, delivered, closing, closed,
                 stream, owed, eof, sends, limits, frames, stops>>

(* Every read handler stops the connection when its read failed.           *)
HandleReadError ==
  /\ reading # <<>> /\ Fails(Head(reading))
  /\ SetStopped /\ reading' = Tail(reading)
  /\ UNCHANGED <<started, open, limit, queue, writing, delivered, closed, stream, owed, eof,
                 sends, limits, frames, stops>>
-----------------------------------------------------------------------------
(* The other end.                                                          *)
PeerHeader(n) ==
  /\ ~eof /\ owed = 0 /\ frames < MaxFrames
  /\ frames' = frames + 1 /\ owed' = n
  /\ stream' = Append(stream, Header(n))
  /\ UNCHANGED <<started, stopped, open, limit, queue, writing, reading, delivered, closing,
                 closed, eof, sends, limits, stops>>

PeerByte ==
  /\ ~eof /\ owed > 0
  /\ owed' = owed - 1
  /\ stream' = Append(stream, Byte)
  /\ UNCHANGED <<started, stopped, open, limit, queue, writing, reading, delivered, closing,
                 closed, eof, sends, limits, frames, stops>>

PeerClose ==
  /\ ~eof /\ eof' = TRUE
  /\ UNCHANGED <<started, stopped, open, limit, queue, writing, reading, delivered, closing,
                 closed, stream, owed, sends, limits, frames, stops>>
-----------------------------------------------------------------------------
Handlers == HandleWrite \/ HandleHeader \/ HandlePayload \/ HandleIgnore \/ HandleReadError

Next == \/ Start \/ Stop \/ Close \/ Handlers
        \/ \E n \in Payloads : Send(n) \/ PeerHeader(n)
        \/ \E n \in Limits : SetLimit(n)
        \/ PeerByte \/ PeerClose

(* The io thread runs the handlers of what completed, reads before writes  *)
(* or after; a call of stop that has begun finishes.                       *)
Fairness == WF_vars(Close) /\ WF_vars(HandleWrite)
            /\ WF_vars(HandleHeader \/ HandlePayload \/ HandleIgnore \/ HandleReadError)

Spec == Init /\ [][Next]_vars
FairSpec == Spec /\ Fairness
-----------------------------------------------------------------------------
TypeOK ==
  /\ started \in BOOLEAN /\ stopped \in BOOLEAN /\ open \in BOOLEAN /\ eof \in BOOLEAN
  /\ limit \in Limits
  /\ queue \in Seq([state : {"header", "payload"}, remains : Nat, len : Payloads])
  /\ writing \in Seq(Nat)
  /\ reading \in Seq([what : {"header", "payload", "ignore"}, len : Nat, remains : Nat,
                      done : BOOLEAN])
  /\ delivered \in Nat /\ closing \in Nat /\ closed \in Nat /\ owed \in Nat
  /\ stream \in Seq([cell : {"header", "byte"}, len : Nat])
  /\ sends \in 0..MaxSends /\ limits \in 0..MaxLimits
  /\ frames \in 0..MaxFrames /\ stops \in 0..MaxStops

(* The reader never loses its place in the stream, whatever the lengths,   *)
(* the limit of the moment and the size of the ignore buffer: it takes a   *)
(* header for a header, and as many payload bytes as the frame still has.  *)
FramingKept ==
  \A i \in DOMAIN reading :
    LET left == IF reading[i].what = "header" THEN 0 ELSE reading[i].remains IN
      /\ \A j \in DOMAIN stream : j <= left => stream[j].cell = "byte"
      /\ Len(stream) > left => stream[left + 1].cell = "header"
      /\ reading[i].len <= reading[i].remains
      /\ Len(stream) < left => owed = left - Len(stream)

(* While the connection runs there is one write under way exactly when     *)
(* something is queued, and one read: no send is left without a writer,    *)
(* and no two of them interleave their bytes.                              *)
OneWriter ==
  Running => /\ Len(writing) = (IF queue = <<>> THEN 0 ELSE 1)
             /\ Len(reading) = 1

(* A connection that was stopped lets go of its handlers, which hold the   *)
(* shared pointers that keep it alive.                                     *)
StoppedReleases == stopped ~> (reading = <<>> /\ writing = <<>>)

(* When the other end closes, a started connection tells its listeners so, *)
(* wherever it is in a frame.                                              *)
EofCloses == (started /\ eof) ~> closed > 0

(* What is queued is written, unless the connection stops.                 *)
QueueDrains == (queue # <<>>) ~> (queue = <<>> \/ stopped)
=============================================================================
