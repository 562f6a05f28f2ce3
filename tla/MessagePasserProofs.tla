------------------------ MODULE MessagePasserProofs ------------------------
(***************************************************************************)
(* Theorems about MessagePasser, for any opcodes, threads, bounds and any  *)
(* size of the conversation id.  The last part, from the tokens of a call  *)
(* on, shows that it implements CallContract while ids have not wrapped.   *)
(***************************************************************************)
EXTENDS MessagePasser, SequenceTheorems, TLAPS

(* There is exactly one other end, and it has this one as its other end.   *)
LEMMA OtherPeer ==
  ASSUME NEW p \in Peers
  PROVE  /\ Other(p) \in Peers /\ Other(p) # p
         /\ Other(Other(p)) = p
         /\ Peers = {p, Other(p)}
BY PeersAssumption DEF Other

(* A conversation id fits in CookieMod.                                    *)
LEMMA CookieType ==
  ASSUME NEW n \in Serials
  PROVE  Cookie(n) \in 0..(CookieMod - 1)
<1>1. n \in Nat /\ CookieMod \in Nat /\ CookieMod > 0
  BY BoundsAssumption DEF Serials
<1>2. n % CookieMod \in 0..(CookieMod - 1)
  BY <1>1
<1>. QED BY <1>2 DEF Cookie

LEMMA MsgType ==
  ASSUME NEW type \in Kinds \cup Replies \cup {"notification"},
         NEW op \in Opcodes, NEW n \in Serials,
         NEW err \in {"success", "failure", "aborted"}
  PROVE  Msg(type, op, n, err) \in Message
BY CookieType DEF Msg, Message

LEMMA ReplyIsMessage ==
  ASSUME NEW m \in Message, m.type \in Kinds,
         NEW err \in {"success", "failure", "aborted"}
  PROVE  /\ Reply(m, err) \in Message
         /\ Reply(m, err).type = ReplyType[m.type]
         /\ Reply(m, err).type \in Replies
         /\ Reply(m, err).op = m.op
         /\ Reply(m, err).cid = m.cid
         /\ Reply(m, err).serial = m.serial
         /\ Reply(m, err).err = err
<1>1. /\ ReplyType["request"] = "response"
      /\ ReplyType["subscribe_request"] = "subscribe_response"
      /\ ReplyType["unsubscribe_request"] = "unsubscribe_response"
  BY DEF ReplyType
<1>2. ReplyType[m.type] \in Replies
  BY <1>1 DEF Kinds, Replies
<1>. QED BY <1>2 DEF Reply, Message

LEMMA SingletonSeq ==
  ASSUME NEW S, NEW e \in S
  PROVE  <<e>> \in Seq(S)
OBVIOUS

-----------------------------------------------------------------------------
(* How a step changes the channels, for any sets F[q] of messages that the *)
(* channels are known to hold.                                             *)
LEMMA WireChan ==
  ASSUME chan \in [Peers -> Seq(Message)], NEW F,
         \A q \in Peers : chan[q] \in Seq(F[q]),
         NEW p \in Peers, NEW ms \in Seq(Message), ms \in Seq(F[Other(p)]), Wire(p, ms)
  PROVE  /\ chan' \in [Peers -> Seq(Message)]
         /\ \A q \in Peers : chan'[q] \in Seq(F[q])
<1>1. Other(p) \in Peers
  BY OtherPeer
<1>2. /\ chan[Other(p)] \o ms \in Seq(Message)
      /\ chan[Other(p)] \o ms \in Seq(F[Other(p)])
  BY <1>1, ConcatProperties
<1>. QED BY <1>1, <1>2 DEF Wire

LEMMA ConsumeChan ==
  ASSUME chan \in [Peers -> Seq(Message)], NEW F,
         \A q \in Peers : chan[q] \in Seq(F[q]),
         NEW p \in Peers, chan[p] # <<>>, Consume(p)
  PROVE  /\ Head(chan[p]) \in Message /\ Head(chan[p]) \in F[p]
         /\ chan' \in [Peers -> Seq(Message)]
         /\ \A q \in Peers : chan'[q] \in Seq(F[q])
<1>1. /\ Head(chan[p]) \in Message /\ Head(chan[p]) \in F[p]
      /\ Tail(chan[p]) \in Seq(Message) /\ Tail(chan[p]) \in Seq(F[p])
  BY HeadTailProperties
<1>. QED BY <1>1 DEF Consume

LEMMA AnswerChan ==
  ASSUME chan \in [Peers -> Seq(Message)], NEW F,
         \A q \in Peers : chan[q] \in Seq(F[q]),
         NEW p \in Peers, chan[p] # <<>>, NEW m, 
         NEW ms \in Seq(Message), ms \in Seq(F[Other(p)]), Answer(p, m, ms)
  PROVE  /\ chan' \in [Peers -> Seq(Message)]
         /\ \A q \in Peers : chan'[q] \in Seq(F[q])
<1>1. Other(p) \in Peers /\ Other(p) # p
  BY OtherPeer
<1>2. /\ Tail(chan[p]) \in Seq(Message) /\ Tail(chan[p]) \in Seq(F[p])
  BY HeadTailProperties
<1>3. /\ chan[Other(p)] \o ms \in Seq(Message)
      /\ chan[Other(p)] \o ms \in Seq(F[Other(p)])
  BY <1>1, ConcatProperties
<1>4. CASE Reaches(p)
  <2>1. chan' = [chan EXCEPT ![p] = Tail(@), ![Other(p)] = @ \o ms]
    BY <1>4 DEF Answer
  <2>. QED BY <2>1, <1>1, <1>2, <1>3
<1>5. CASE ~Reaches(p)
  <2>1. chan' = [chan EXCEPT ![p] = Tail(@)]
    BY <1>5 DEF Answer
  <2>. QED BY <2>1, <1>2
<1>. QED BY <1>4, <1>5

LEMMA StopChan ==
  ASSUME chan \in [Peers -> Seq(Message)], NEW F,
         \A q \in Peers : chan[q] \in Seq(F[q]),
         NEW p \in Peers, Stop(p)
  PROVE  /\ chan' \in [Peers -> Seq(Message)]
         /\ \A q \in Peers : chan'[q] \in Seq(F[q])
<1>1. Other(p) \in Peers /\ Other(p) # p
  BY OtherPeer
<1>2. PICK k \in 0..Len(chan[Other(p)]), j \in 0..Len(chan[p]) :
        chan' = [chan EXCEPT ![Other(p)] = SubSeq(@, 1, k), ![p] = SubSeq(@, 1, j)]
  BY DEF Stop
<1>3. ASSUME NEW S, NEW s \in Seq(S), NEW n \in 0..Len(s)
      PROVE  SubSeq(s, 1, n) \in Seq(S)
  <2>1. Len(s) \in Nat /\ n \in Int
    BY <1>3, LenProperties
  <2>2. \A i \in 1..n : s[i] \in S
    BY <1>3, <2>1, ElementOfSeq
  <2>. QED BY <2>1, <2>2, SubSeqProperties
<1>4. \A q \in Peers : chan'[q] \in Seq(Message) /\ chan'[q] \in Seq(F[q])
  <2>. SUFFICES ASSUME NEW q \in Peers
                PROVE  chan'[q] \in Seq(Message) /\ chan'[q] \in Seq(F[q])
    OBVIOUS
  <2>1. CASE q = p
    <3>1. chan'[q] = SubSeq(chan[p], 1, j)
      BY <1>1, <1>2, <2>1
    <3>. QED BY <3>1, <2>1, <1>3
  <2>2. CASE q = Other(p)
    <3>1. chan'[q] = SubSeq(chan[Other(p)], 1, k)
      BY <1>1, <1>2, <2>2
    <3>. QED BY <3>1, <2>2, <1>1, <1>3
  <2>. QED BY <2>1, <2>2, OtherPeer
<1>. QED BY <1>2, <1>4

-----------------------------------------------------------------------------
(* How a step changes the history of the calls.                            *)
LEMMA LoseCallsType ==
  ASSUME calls \in [Peers -> [Serials -> Call]], NEW gone, LoseCalls(gone)
  PROVE  /\ calls' \in [Peers -> [Serials -> Call]]
         /\ \A p \in Peers, n \in Serials : calls'[p][n].kind = calls[p][n].kind
<1>. DEFINE next(p, n) ==
       IF \E q \in Peers : \E m \in gone[q] :
             m.type # "notification" /\ Caller(q, m) = p /\ m.serial = n
       THEN [calls[p][n] EXCEPT !.fate = "lost"] ELSE calls[p][n]
<1>1. calls' = [p \in Peers |-> [n \in Serials |-> next(p, n)]]
  BY DEF LoseCalls
<1>2. \A p \in Peers, n \in Serials :
         next(p, n) \in Call /\ next(p, n).kind = calls[p][n].kind
  <2>. SUFFICES ASSUME NEW p \in Peers, NEW n \in Serials
                PROVE  next(p, n) \in Call /\ next(p, n).kind = calls[p][n].kind
    OBVIOUS
  <2>1. next(p, n) \in {[calls[p][n] EXCEPT !.fate = "lost"], calls[p][n]}
    OBVIOUS
  <2>2. calls[p][n] \in Call
    OBVIOUS
  <2>. HIDE DEF next
  <2>. QED BY <2>1, <2>2 DEF Call, Fates
<1>. HIDE DEF next
<1>. QED BY <1>1, <1>2

LEMMA SetFateType ==
  ASSUME NEW cs \in [Peers -> [Serials -> Call]],
         NEW p \in Peers, NEW n \in Serials, NEW f \in Fates
  PROVE  /\ SetFate(cs, p, n, f) \in [Peers -> [Serials -> Call]]
         /\ \A q \in Peers, k \in Serials : SetFate(cs, p, n, f)[q][k].kind = cs[q][k].kind
<1>. DEFINE c == [cs[p][n] EXCEPT !.fate = f]
<1>1. cs[p][n] \in Call
  OBVIOUS
<1>2. c \in Call /\ c.kind = cs[p][n].kind
  BY <1>1 DEF Call
<1>. HIDE DEF c
<1>3. SetFate(cs, p, n, f) = [cs EXCEPT ![p] = [cs[p] EXCEPT ![n] = c]]
  BY DEF SetFate, c
<1>. QED BY <1>2, <1>3

LEMMA UnlessType ==
  ASSUME NEW ok \in BOOLEAN, NEW f \in Fates
  PROVE  Unless(ok, f) \in Fates
BY DEF Unless, Fates
-----------------------------------------------------------------------------
(* Type correctness.                                                       *)
LEMMA HeadType ==
  ASSUME TypeOK, NEW p \in Peers, chan[p] # <<>>
  PROVE  /\ Head(chan[p]) \in Message
         /\ Head(chan[p]).op \in Opcodes
         /\ Head(chan[p]).serial \in Serials
         /\ Head(chan[p]).cid \in 0..(CookieMod - 1)
<1>1. chan[p] \in Seq(Message)
  BY DEF TypeOK
<1>2. Head(chan[p]) \in Message
  BY <1>1, HeadTailProperties
<1>. QED BY <1>2 DEF Message

LEMMA BakeType ==
  ASSUME TypeOK, NEW t \in Threads, NEW type \in Kinds, NEW op \in Opcodes,
         Bake(t, type, op)
  PROVE  /\ Home[t] \in Peers /\ baked[Home[t]] + 1 \in Serials
         /\ baked' \in [Peers -> 0..MaxSerial]
         /\ calls' \in [Peers -> [Serials -> Call]]
         /\ hand' \in [Threads -> SUBSET Hand]
<1>. DEFINE p == Home[t]  n == baked[Home[t]] + 1
<1>1. p \in Peers
  BY ThreadsAssumption
<1>2. n \in Serials /\ n \in 0..MaxSerial
  <2>1. baked[p] \in 0..MaxSerial /\ Budget[p] \in 0..MaxSerial /\ MaxSerial \in Nat
    BY <1>1, BoundsAssumption DEF TypeOK
  <2>2. baked[p] < Budget[p]
    BY DEF Bake
  <2>. QED BY <2>1, <2>2 DEF Serials
<1>3. Msg(type, op, n, "success") \in Message
  BY <1>2, MsgType
<1>4. [kind |-> type, fate |-> "issued"] \in Call
  BY DEF Call, Fates
<1>. HIDE DEF p, n
<1>5. baked' = [baked EXCEPT ![p] = n] /\ calls' = [calls EXCEPT ![p][n] = [kind |-> type, fate |-> "issued"]]
      /\ hand' = [hand EXCEPT ![t] = {[at |-> "send", msg |-> Msg(type, op, n, "success")]}]
  BY DEF Bake, p, n
<1>6. baked' \in [Peers -> 0..MaxSerial] /\ calls' \in [Peers -> [Serials -> Call]]
  BY <1>1, <1>2, <1>4, <1>5 DEF TypeOK
<1>7. hand' \in [Threads -> SUBSET Hand]
  BY <1>3, <1>5 DEF TypeOK, Hand
<1>. QED BY <1>1, <1>2, <1>6, <1>7 DEF p, n

LEMMA CloseProductionType ==
  ASSUME TypeOK, NEW p \in Peers, NEW m \in Message, CloseProduction(p, m)
  PROVE  /\ productions' \in [Peers -> [Opcodes -> 0..MaxSerial]]
         /\ chan' \in [Peers -> Seq(Message)]
<1>1. m.op \in Opcodes
  BY DEF Message
<1>2. productions' \in [Peers -> [Opcodes -> 0..MaxSerial]]
  BY <1>1, BoundsAssumption DEF TypeOK, CloseProduction
<1>3. CASE productions[p][m.op] = 0
  BY <1>2, <1>3 DEF CloseProduction, TypeOK
<1>4. CASE productions[p][m.op] # 0
  <2>1. Wire(p, <<m>>)
    BY <1>4 DEF CloseProduction
  <2>. DEFINE F == [q \in Peers |-> Message]
  <2>2. \A q \in Peers : F[q] = Message
    OBVIOUS
  <2>. HIDE DEF F
  <2>3. <<m>> \in Seq(Message)
    OBVIOUS
  <2>. QED BY <1>2, <2>1, <2>2, <2>3, WireChan, OtherPeer DEF TypeOK
<1>. QED BY <1>3, <1>4

(* What close and the destructor of a sink leave to be done.               *)
LEMMA ClosingType ==
  ASSUME TypeOK, NEW t \in Threads, NEW s \in sinks[Home[t]]
  PROVE  /\ Home[t] \in Peers /\ s \in Sink /\ s.op \in Opcodes /\ s.serial \in Serials
         /\ Closing(s) \in SUBSET Hand
         /\ \A h \in Closing(s) :
               /\ h.at = "close" /\ h.msg = Msg("notification", s.op, s.serial, "aborted")
               /\ h.msg.type = "notification" /\ h.msg.err = "aborted"
               /\ h.msg.op = s.op /\ h.msg.serial = s.serial
<1>1. Home[t] \in Peers /\ s \in Sink
  BY ThreadsAssumption DEF TypeOK
<1>2. s.op \in Opcodes /\ s.serial \in Serials
  BY <1>1 DEF Sink
<1>. DEFINE m == Msg("notification", s.op, s.serial, "aborted")
<1>3. m \in Message
  BY <1>2, MsgType
<1>4. m.type = "notification" /\ m.err = "aborted" /\ m.op = s.op /\ m.serial = s.serial
  BY DEF Msg
<1>5. Closing(s) = {[at |-> "close", msg |-> m]}
  BY DEF Closing
<1>. HIDE DEF m
<1>6. Closing(s) \in SUBSET Hand
  BY <1>3, <1>4, <1>5 DEF Hand
<1>. QED BY <1>1, <1>2, <1>4, <1>5, <1>6 DEF m

LEMMA HandType ==
  ASSUME TypeOK, NEW t \in Threads, NEW h \in hand[t]
  PROVE  /\ Home[t] \in Peers /\ h.msg \in Message
         /\ h.at \in {"send", "insert", "close"}
         /\ h.at = "insert" => h.msg.type \in Kinds
         /\ h.at = "close" => h.msg.type = "notification"
<1>1. Home[t] \in Peers /\ h \in Hand
  BY ThreadsAssumption DEF TypeOK
<1>. QED BY <1>1 DEF Hand

LEMMA AnswerType ==
  ASSUME TypeOK, NEW p \in Peers, NEW m \in Message, NEW ms \in Seq(Message),
         chan[p] # <<>>, Answer(p, m, ms)
  PROVE  /\ chan' \in [Peers -> Seq(Message)]
         /\ calls' \in [Peers -> [Serials -> Call]]
         /\ \A q \in Peers, k \in Serials : calls'[q][k].kind = calls[q][k].kind
<1>1. Unless(Reaches(p), "served") \in Fates
  BY UnlessType DEF Fates, Reaches
<1>2. Other(p) \in Peers /\ m.serial \in Serials
  BY OtherPeer DEF Message
<1>3. /\ calls' \in [Peers -> [Serials -> Call]]
      /\ \A q \in Peers, k \in Serials : calls'[q][k].kind = calls[q][k].kind
  <2>1. calls' = SetFate(calls, Other(p), m.serial, Unless(Reaches(p), "served"))
    BY DEF Answer
  <2>2. calls \in [Peers -> [Serials -> Call]]
    BY DEF TypeOK
  <2>. QED BY <1>1, <1>2, <2>1, <2>2, SetFateType
<1>. DEFINE F == [q \in Peers |-> Message]
<1>4. \A q \in Peers : F[q] = Message
  OBVIOUS
<1>. HIDE DEF F
<1>5. chan' \in [Peers -> Seq(Message)]
  BY <1>2, <1>4, AnswerChan DEF TypeOK
<1>. QED BY <1>3, <1>5

LEMMA WireType ==
  ASSUME TypeOK, NEW p \in Peers, NEW m \in Message, Wire(p, <<m>>)
  PROVE  chan' \in [Peers -> Seq(Message)]
<1>. DEFINE F == [q \in Peers |-> Message]
<1>1. \A q \in Peers : F[q] = Message
  OBVIOUS
<1>. HIDE DEF F
<1>2. <<m>> \in Seq(Message)
  OBVIOUS
<1>. QED BY <1>1, <1>2, WireChan, OtherPeer DEF TypeOK

LEMMA ConsumeType ==
  ASSUME TypeOK, NEW p \in Peers, chan[p] # <<>>, Consume(p)
  PROVE  chan' \in [Peers -> Seq(Message)]
BY HeadTailProperties DEF TypeOK, Consume

LEMMA EntryType ==
  ASSUME NEW m \in Message, m.type \in Kinds
  PROVE  Entry(m) \in Outstanding
BY DEF Entry, Outstanding, Message

LEMMA InsertType ==
  ASSUME NEW S, NEW T \in SUBSET S, NEW e \in S
  PROVE  Insert(T, e) \in SUBSET S
BY DEF Insert

LEMMA TypeInit == Init => TypeOK
<1>. SUFFICES ASSUME Init PROVE TypeOK
  OBVIOUS
<1>1. MaxSerial \in Nat
  BY BoundsAssumption
<1>2. calls \in [Peers -> [Serials -> Call]]
  BY DEF Init, Call, Fates
<1>3. chan \in [Peers -> Seq(Message)]
  BY DEF Init
<1>. QED BY <1>1, <1>2, <1>3 DEF Init, TypeOK

LEMMA TypeNext == TypeOK /\ [Next]_vars => TypeOK'
<1>. SUFFICES ASSUME TypeOK, [Next]_vars PROVE TypeOK'
  OBVIOUS
<1>1. ASSUME NEW p \in Peers, StartConnection(p) PROVE TypeOK'
  BY <1>1 DEF StartConnection, TypeOK
<1>2. ASSUME NEW p \in Peers, Listen(p) PROVE TypeOK'
  BY <1>2 DEF Listen, TypeOK
<1>3. ASSUME NEW p \in Peers, Stop(p) PROVE TypeOK'
  <2>. DEFINE F == [q \in Peers |-> Message]
  <2>1. \A q \in Peers : F[q] = Message
    OBVIOUS
  <2>. HIDE DEF F
  <2>2. chan' \in [Peers -> Seq(Message)]
    BY <1>3, <2>1, StopChan DEF TypeOK
  <2>3. calls' \in [Peers -> [Serials -> Call]]
    BY <1>3, LoseCallsType DEF Stop, TypeOK
  <2>. QED BY <1>3, <2>2, <2>3 DEF Stop, TypeOK
<1>4. ASSUME NEW p \in Peers, HangUp(p) PROVE TypeOK'
  BY <1>4 DEF HangUp, TypeOK
<1>5. ASSUME NEW t \in Threads, NEW op \in Opcodes, Request(t, op) PROVE TypeOK'
  <2>1. Bake(t, "request", op)
    BY <1>5 DEF Request
  <2>2. /\ baked' \in [Peers -> 0..MaxSerial] /\ calls' \in [Peers -> [Serials -> Call]]
        /\ hand' \in [Threads -> SUBSET Hand]
    BY <2>1, BakeType DEF Kinds
  <2>. QED BY <1>5, <2>2 DEF Request, TypeOK
<1>6. ASSUME NEW t \in Threads, NEW op \in Opcodes, Subscribe(t, op) PROVE TypeOK'
  <2>1. Bake(t, "subscribe_request", op)
    BY <1>6 DEF Subscribe
  <2>2. /\ baked' \in [Peers -> 0..MaxSerial] /\ calls' \in [Peers -> [Serials -> Call]]
        /\ hand' \in [Threads -> SUBSET Hand]
    BY <2>1, BakeType DEF Kinds
  <2>. QED BY <1>6, <2>2 DEF Subscribe, TypeOK
<1>7. ASSUME NEW t \in Threads, NEW h \in handles[Home[t]], NEW dropped \in BOOLEAN,
             Unsubscribe(t, h, dropped)
      PROVE  TypeOK'
  <2>1. Bake(t, "unsubscribe_request", h.op) /\ Home[t] \in Peers
    BY <1>7, ThreadsAssumption DEF Unsubscribe
  <2>2. h.op \in Opcodes
    BY <1>7, <2>1 DEF TypeOK, Handle
  <2>3. /\ baked' \in [Peers -> 0..MaxSerial] /\ calls' \in [Peers -> [Serials -> Call]]
        /\ hand' \in [Threads -> SUBSET Hand]
    BY <2>1, <2>2, BakeType DEF Kinds
  <2>4. subscriptions' \in [Peers -> [Opcodes -> 0..MaxSerial]]
    BY <1>7, <2>1, <2>2, BoundsAssumption DEF Unsubscribe, TypeOK
  <2>5. handles' \in [Peers -> SUBSET Handle]
    BY <1>7, <2>1 DEF Unsubscribe, TypeOK
  <2>. QED BY <1>7, <2>3, <2>4, <2>5 DEF Unsubscribe, TypeOK
<1>8. ASSUME NEW t \in Threads, SendCall(t) PROVE TypeOK'
  <2>. DEFINE p == Home[t]
  <2>1. PICK h \in hand[t] :
          /\ h.at = "send" /\ h.msg.type \in Kinds
          /\ Wire(p, <<h.msg>>)
          /\ calls' = SetFate(calls, p, h.msg.serial, Unless(Reaches(p), "issued"))
          /\ hand' = [hand EXCEPT ![t] = {[at |-> "insert", msg |-> h.msg]}]
    BY <1>8 DEF SendCall
  <2>2. p \in Peers /\ h.msg \in Message /\ h.msg.serial \in Serials
    BY HandType DEF Message
  <2>. HIDE DEF p
  <2>3. chan' \in [Peers -> Seq(Message)]
    BY <2>1, <2>2, WireType
  <2>4. Unless(Reaches(p), "issued") \in Fates
    BY UnlessType DEF Fates, Reaches
  <2>5. calls' \in [Peers -> [Serials -> Call]]
    BY <2>1, <2>2, <2>4, SetFateType DEF TypeOK
  <2>6. hand' \in [Threads -> SUBSET Hand]
    BY <2>1, <2>2 DEF TypeOK, Hand
  <2>. QED BY <1>8, <2>3, <2>5, <2>6 DEF SendCall, TypeOK
<1>9. ASSUME NEW t \in Threads, Register(t) PROVE TypeOK'
  <2>. DEFINE p == Home[t]
  <2>1. PICK h \in hand[t] :
          /\ h.at = "insert"
          /\ outstanding' = [outstanding EXCEPT ![p] = Insert(@, Entry(h.msg))]
          /\ hand' = [hand EXCEPT ![t] = {}]
    BY <1>9 DEF Register
  <2>2. p \in Peers /\ h.msg \in Message /\ h.msg.type \in Kinds
    BY <2>1, HandType
  <2>. HIDE DEF p
  <2>3. Insert(outstanding[p], Entry(h.msg)) \in SUBSET Outstanding
    BY <2>2, EntryType, InsertType DEF TypeOK
  <2>4. outstanding' \in [Peers -> SUBSET Outstanding]
    BY <2>1, <2>2, <2>3 DEF TypeOK
  <2>5. hand' \in [Threads -> SUBSET Hand]
    BY <2>1 DEF TypeOK
  <2>. QED BY <1>9, <2>4, <2>5 DEF Register, TypeOK
<1>10. ASSUME NEW t \in Threads, NEW s \in sinks[Home[t]], Produce(t, s) PROVE TypeOK'
  <2>1. s.op \in Opcodes /\ s.serial \in Serials
    BY ThreadsAssumption DEF TypeOK, Sink
  <2>2. Msg("notification", s.op, s.serial, "success") \in Message
    BY <2>1, MsgType
  <2>3. hand' \in [Threads -> SUBSET Hand]
    BY <1>10, <2>2 DEF Produce, TypeOK, Hand
  <2>. QED BY <1>10, <2>3 DEF Produce, TypeOK
<1>11. ASSUME NEW t \in Threads, SendNotification(t) PROVE TypeOK'
  <2>1. PICK h \in hand[t] : Wire(Home[t], <<h.msg>>) /\ hand' = [hand EXCEPT ![t] = {}]
    BY <1>11 DEF SendNotification
  <2>2. Home[t] \in Peers /\ h.msg \in Message
    BY HandType
  <2>3. chan' \in [Peers -> Seq(Message)]
    BY <2>1, <2>2, WireType
  <2>4. hand' \in [Threads -> SUBSET Hand]
    BY <2>1 DEF TypeOK
  <2>. QED BY <1>11, <2>3, <2>4 DEF SendNotification, TypeOK
<1>12. ASSUME NEW t \in Threads, NEW s \in sinks[Home[t]], Close(t, s) PROVE TypeOK'
  <2>1. Home[t] \in Peers /\ s \in Sink /\ Closing(s) \in SUBSET Hand
    BY ClosingType
  <2>2. [s EXCEPT !.closed = TRUE] \in Sink
    BY <2>1 DEF Sink
  <2>3. sinks' \in [Peers -> SUBSET Sink]
    BY <1>12, <2>1, <2>2 DEF Close, TypeOK
  <2>4. hand' \in [Threads -> SUBSET Hand]
    BY <1>12, <2>1 DEF Close, TypeOK
  <2>. QED BY <1>12, <2>3, <2>4 DEF Close, TypeOK
<1>13. ASSUME NEW t \in Threads, NEW s \in sinks[Home[t]], DropSink(t, s) PROVE TypeOK'
  <2>1. Home[t] \in Peers /\ s \in Sink /\ Closing(s) \in SUBSET Hand
    BY ClosingType
  <2>2. sinks' \in [Peers -> SUBSET Sink]
    BY <1>13, <2>1 DEF DropSink, TypeOK
  <2>3. hand' \in [Threads -> SUBSET Hand]
    BY <1>13, <2>1 DEF DropSink, TypeOK
  <2>. QED BY <1>13, <2>2, <2>3 DEF DropSink, TypeOK
<1>27. ASSUME NEW t \in Threads, FinishClose(t) PROVE TypeOK'
  <2>1. PICK h \in hand[t] : CloseProduction(Home[t], h.msg) /\ hand' = [hand EXCEPT ![t] = {}]
    BY <1>27 DEF FinishClose
  <2>2. /\ productions' \in [Peers -> [Opcodes -> 0..MaxSerial]]
        /\ chan' \in [Peers -> Seq(Message)]
    BY <2>1, HandType, CloseProductionType
  <2>3. hand' \in [Threads -> SUBSET Hand]
    BY <2>1 DEF TypeOK
  <2>. QED BY <1>27, <2>2, <2>3 DEF FinishClose, TypeOK
<1>28. ASSUME NEW p \in Peers, AcceptClosed(p) PROVE TypeOK'
  <2>. DEFINE m == Head(chan[p])
              s == [op |-> m.op, serial |-> m.serial, closed |-> TRUE]
  <2>1. Answer(p, m, <<Reply(m, "success")>>)
    BY <1>28 DEF AcceptClosed
  <2>2. /\ chan[p] # <<>> /\ m \in Message /\ m.type \in Kinds
        /\ m.op \in Opcodes /\ m.serial \in Serials
    BY <1>28, HeadType DEF AcceptClosed, Arrives, Kinds
  <2>3. <<Reply(m, "success")>> \in Seq(Message)
    BY <2>2, ReplyIsMessage
  <2>4. /\ chan' \in [Peers -> Seq(Message)]
        /\ calls' \in [Peers -> [Serials -> Call]]
    BY <2>1, <2>2, <2>3, AnswerType
  <2>5. sinks' \in [Peers -> SUBSET Sink]
    <3>1. s \in Sink
      BY <2>2 DEF Sink
    <3>2. sinks' = [sinks EXCEPT ![p] = @ \cup {s}]
      BY <1>28 DEF AcceptClosed
    <3>. HIDE DEF s
    <3>. QED BY <3>1, <3>2 DEF TypeOK
  <2>6. productions' \in [Peers -> [Opcodes -> 0..MaxSerial]]
    <3>1. m.serial \in 0..MaxSerial
      BY <2>2, BoundsAssumption DEF Serials
    <3>. QED BY <1>28, <2>2, <3>1 DEF AcceptClosed, TypeOK
  <2>. QED BY <1>28, <2>4, <2>5, <2>6 DEF AcceptClosed, TypeOK
<1>14. ASSUME NEW p \in Peers, ReceiveEarly(p) PROVE TypeOK'
  <2>1. chan' \in [Peers -> Seq(Message)]
    BY <1>14, ConsumeType DEF ReceiveEarly
  <2>2. calls' \in [Peers -> [Serials -> Call]]
    BY <1>14, LoseCallsType DEF ReceiveEarly, TypeOK
  <2>. QED BY <1>14, <2>1, <2>2 DEF ReceiveEarly, TypeOK
<1>15. ASSUME NEW p \in Peers, ReceiveNotification(p) PROVE TypeOK'
  <2>1. chan' \in [Peers -> Seq(Message)]
    BY <1>15, ConsumeType DEF ReceiveNotification, Arrives
  <2>. QED BY <1>15, <2>1 DEF ReceiveNotification, TypeOK
<1>16. ASSUME NEW p \in Peers, ReceiveRequest(p) PROVE TypeOK'
  <2>. DEFINE m == Head(chan[p])
  <2>1. PICK err \in {"success", "failure"} : Answer(p, m, <<Reply(m, err)>>)
    BY <1>16 DEF ReceiveRequest
  <2>2. chan[p] # <<>> /\ m \in Message /\ m.type \in Kinds
    BY <1>16, HeadType DEF ReceiveRequest, Arrives, Kinds
  <2>3. <<Reply(m, err)>> \in Seq(Message)
    BY <2>2, ReplyIsMessage
  <2>4. /\ chan' \in [Peers -> Seq(Message)]
        /\ calls' \in [Peers -> [Serials -> Call]]
    BY <2>1, <2>2, <2>3, AnswerType
  <2>. QED BY <1>16, <2>4 DEF ReceiveRequest, TypeOK
<1>17. ASSUME NEW p \in Peers, RefuseSubscribe(p) PROVE TypeOK'
  <2>. DEFINE m == Head(chan[p])
  <2>1. Answer(p, m, <<Reply(m, "failure")>>)
    BY <1>17 DEF RefuseSubscribe
  <2>2. chan[p] # <<>> /\ m \in Message /\ m.type \in Kinds
    BY <1>17, HeadType DEF RefuseSubscribe, Arrives, Kinds
  <2>3. <<Reply(m, "failure")>> \in Seq(Message)
    BY <2>2, ReplyIsMessage
  <2>4. /\ chan' \in [Peers -> Seq(Message)]
        /\ calls' \in [Peers -> [Serials -> Call]]
    BY <2>1, <2>2, <2>3, AnswerType
  <2>. QED BY <1>17, <2>4 DEF RefuseSubscribe, TypeOK
<1>18. ASSUME NEW p \in Peers, AcceptSubscribe(p) PROVE TypeOK'
  <2>. DEFINE m == Head(chan[p])
              s == [op |-> m.op, serial |-> m.serial, closed |-> FALSE]
  <2>1. /\ chan[p] # <<>> /\ m \in Message /\ m.type \in Kinds
        /\ m.op \in Opcodes /\ m.serial \in Serials
    BY <1>18, HeadType DEF AcceptSubscribe, Arrives, Kinds
  <2>2. chan' \in [Peers -> Seq(Message)]
    BY <1>18, <2>1, ConsumeType DEF AcceptSubscribe
  <2>3. calls' \in [Peers -> [Serials -> Call]]
    BY <1>18, <2>1, OtherPeer, SetFateType DEF AcceptSubscribe, TypeOK, Fates
  <2>4. sinks' \in [Peers -> SUBSET Sink]
    <3>1. s \in Sink
      BY <2>1 DEF Sink
    <3>2. PICK R : sinks' = [sinks EXCEPT ![p] = (@ \ R) \cup {s}]
      BY <1>18 DEF AcceptSubscribe
    <3>. HIDE DEF s
    <3>. QED BY <3>1, <3>2 DEF TypeOK
  <2>5. productions' \in [Peers -> [Opcodes -> 0..MaxSerial]]
    <3>1. m.serial \in 0..MaxSerial
      BY <2>1, BoundsAssumption DEF Serials
    <3>. QED BY <1>18, <2>1, <3>1 DEF AcceptSubscribe, TypeOK
  <2>6. replying' \in [Peers -> SUBSET Message]
    BY <1>18, <2>1, ReplyIsMessage DEF AcceptSubscribe, TypeOK
  <2>. QED BY <1>18, <2>2, <2>3, <2>4, <2>5, <2>6 DEF AcceptSubscribe, TypeOK
<1>19. ASSUME NEW p \in Peers, DiscardSubscribe(p) PROVE TypeOK'
  <2>. DEFINE m == Head(chan[p])
              ms == <<Msg("notification", m.op, m.serial, "aborted"), Reply(m, "success")>>
  <2>1. Answer(p, m, ms)
    BY <1>19 DEF DiscardSubscribe
  <2>2. /\ chan[p] # <<>> /\ m \in Message /\ m.type \in Kinds
        /\ m.op \in Opcodes /\ m.serial \in Serials
    BY <1>19, HeadType DEF DiscardSubscribe, Arrives, Kinds
  <2>3. ms \in Seq(Message)
    BY <2>2, ReplyIsMessage, MsgType
  <2>4. /\ chan' \in [Peers -> Seq(Message)]
        /\ calls' \in [Peers -> [Serials -> Call]]
    BY <2>1, <2>2, <2>3, AnswerType
  <2>. QED BY <1>19, <2>4 DEF DiscardSubscribe, TypeOK
<1>20. ASSUME NEW p \in Peers, ReceiveUnsubscribe(p) PROVE TypeOK'
  <2>. DEFINE m == Head(chan[p])
  <2>1. /\ chan[p] # <<>> /\ m \in Message /\ m.type \in Kinds
        /\ m.op \in Opcodes /\ m.serial \in Serials
    BY <1>20, HeadType DEF ReceiveUnsubscribe, Arrives, Kinds
  <2>2. chan' \in [Peers -> Seq(Message)]
    BY <1>20, <2>1, ConsumeType DEF ReceiveUnsubscribe
  <2>3. calls' \in [Peers -> [Serials -> Call]]
    BY <1>20, <2>1, OtherPeer, SetFateType DEF ReceiveUnsubscribe, TypeOK, Fates
  <2>4. productions' \in [Peers -> [Opcodes -> 0..MaxSerial]]
    BY <1>20, <2>1, BoundsAssumption DEF ReceiveUnsubscribe, TypeOK
  <2>5. replying' \in [Peers -> SUBSET Message]
    BY <1>20, <2>1, ReplyIsMessage DEF ReceiveUnsubscribe, TypeOK
  <2>. QED BY <1>20, <2>2, <2>3, <2>4, <2>5 DEF ReceiveUnsubscribe, TypeOK
<1>21. ASSUME NEW p \in Peers, SendReply(p) PROVE TypeOK'
  <2>1. PICK m \in replying[p] :
          /\ replying' = [replying EXCEPT ![p] = {}]
          /\ Wire(p, <<m>>)
          /\ calls' = SetFate(calls, Other(p), m.serial, Unless(Reaches(p), "served"))
    BY <1>21 DEF SendReply
  <2>2. m \in Message /\ m.serial \in Serials
    BY DEF TypeOK, Message
  <2>3. chan' \in [Peers -> Seq(Message)]
    BY <2>1, <2>2, WireType
  <2>4. Unless(Reaches(p), "served") \in Fates
    BY UnlessType DEF Fates, Reaches
  <2>5. calls' \in [Peers -> [Serials -> Call]]
    BY <2>1, <2>2, <2>4, OtherPeer, SetFateType DEF TypeOK
  <2>6. replying' \in [Peers -> SUBSET Message]
    BY <2>1 DEF TypeOK
  <2>. QED BY <1>21, <2>3, <2>5, <2>6 DEF SendReply, TypeOK
<1>22. ASSUME NEW p \in Peers, DropResponse(p) PROVE TypeOK'
  <2>1. chan' \in [Peers -> Seq(Message)]
    BY <1>22, ConsumeType DEF DropResponse, Arrives
  <2>2. calls' \in [Peers -> [Serials -> Call]]
    BY <1>22, HeadType, SetFateType DEF DropResponse, Arrives, TypeOK, Fates
  <2>. QED BY <1>22, <2>1, <2>2 DEF DropResponse, TypeOK
<1>23. ASSUME NEW p \in Peers, CompleteCall(p) PROVE TypeOK'
  <2>1. PICK r \in outstanding[p] :
          /\ Completes(p, Head(chan[p]), r)
          /\ outstanding' = [outstanding EXCEPT ![p] = @ \ {r}]
          /\ calls' = SetFate(calls, p, r.serial, "answered")
    BY <1>23 DEF CompleteCall
  <2>2. chan' \in [Peers -> Seq(Message)]
    BY <2>1, ConsumeType DEF Completes, Arrives
  <2>3. r.serial \in Serials
    BY DEF TypeOK, Outstanding
  <2>4. calls' \in [Peers -> [Serials -> Call]]
    BY <2>1, <2>3, SetFateType DEF TypeOK, Fates
  <2>5. outstanding' \in [Peers -> SUBSET Outstanding]
    BY <2>1 DEF TypeOK
  <2>. QED BY <1>23, <2>2, <2>4, <2>5 DEF CompleteCall, TypeOK
<1>24. ASSUME NEW p \in Peers, CompleteSubscribe(p) PROVE TypeOK'
  <2>. DEFINE m == Head(chan[p])
  <2>1. PICK r \in outstanding[p] :
          /\ Completes(p, m, r)
          /\ outstanding' = [outstanding EXCEPT ![p] = @ \ {r}]
          /\ calls' = SetFate(calls, p, r.serial, "answered")
          /\ subscriptions' = [subscriptions EXCEPT ![p][m.op] = IF @ = 0 THEN r.serial ELSE @]
          /\ handles' = [handles EXCEPT ![p] = @ \cup {[op |-> m.op, serial |-> r.serial]}]
    BY <1>24 DEF CompleteSubscribe
  <2>2. chan[p] # <<>> /\ m.op \in Opcodes
    BY <2>1, HeadType DEF Completes, Arrives
  <2>3. chan' \in [Peers -> Seq(Message)]
    BY <2>1, <2>2, ConsumeType DEF Completes
  <2>4. r.serial \in Serials /\ r.serial \in 0..MaxSerial
    BY BoundsAssumption DEF TypeOK, Outstanding, Serials
  <2>5. calls' \in [Peers -> [Serials -> Call]]
    BY <2>1, <2>4, SetFateType DEF TypeOK, Fates
  <2>6. outstanding' \in [Peers -> SUBSET Outstanding]
    BY <2>1 DEF TypeOK
  <2>. HIDE DEF m
  <2>7. subscriptions' \in [Peers -> [Opcodes -> 0..MaxSerial]]
    BY <2>1, <2>2, <2>4 DEF TypeOK
  <2>8. handles' \in [Peers -> SUBSET Handle]
    BY <2>1, <2>2, <2>4 DEF TypeOK, Handle
  <2>. QED BY <1>24, <2>3, <2>5, <2>6, <2>7, <2>8 DEF CompleteSubscribe, TypeOK
<1>25. ASSUME NEW p \in Peers, DiscardHandle(p) PROVE TypeOK'
  <2>. DEFINE m == Head(chan[p])  n == baked[p] + 1
              u == Msg("unsubscribe_request", m.op, n, "success")
              c == [kind |-> u.type, fate |-> Unless(Reaches(p), "issued")]
  <2>1. PICK r \in outstanding[p] :
          /\ Arrives(p, Replies) /\ baked[p] < Budget[p]
          /\ subscriptions' = [subscriptions EXCEPT ![p][m.op] = 0]
          /\ baked' = [baked EXCEPT ![p] = n]
          /\ calls' = [calls EXCEPT ![p][r.serial].fate = "answered", ![p][n] = c]
          /\ outstanding' = [outstanding EXCEPT ![p] = Insert(@ \ {r}, Entry(u))]
          /\ chan' = IF Reaches(p)
                     THEN [chan EXCEPT ![p] = Tail(@), ![Other(p)] = Append(@, u)]
                     ELSE [chan EXCEPT ![p] = Tail(@)]
    BY <1>25 DEF DiscardHandle
  <2>2. chan[p] # <<>> /\ m.op \in Opcodes
    BY <2>1, HeadType DEF Arrives
  <2>3. n \in Serials /\ n \in 0..MaxSerial
    <3>1. baked[p] \in 0..MaxSerial /\ Budget[p] \in 0..MaxSerial /\ MaxSerial \in Nat
      BY BoundsAssumption DEF TypeOK
    <3>. QED BY <2>1, <3>1 DEF Serials
  <2>4. u \in Message /\ u.type = "unsubscribe_request" /\ u.type \in Kinds
    BY <2>2, <2>3, MsgType DEF Msg, Kinds
  <2>5. Unless(Reaches(p), "issued") \in Fates
    BY UnlessType DEF Fates, Reaches
  <2>6. c \in Call
    BY <2>4, <2>5 DEF Call
  <2>7. r.serial \in Serials
    BY DEF TypeOK, Outstanding
  <2>8. Tail(chan[p]) \in Seq(Message)
    BY <2>2, HeadTailProperties DEF TypeOK
  <2>9. Entry(u) \in Outstanding
    BY <2>4, EntryType
  <2>. HIDE DEF m, n, u, c
  <2>10. baked' \in [Peers -> 0..MaxSerial] /\ subscriptions' \in [Peers -> [Opcodes -> 0..MaxSerial]]
    BY <2>1, <2>2, <2>3, BoundsAssumption DEF TypeOK
  <2>11. calls' \in [Peers -> [Serials -> Call]]
    <3>. DEFINE c1 == SetFate(calls, p, r.serial, "answered")
    <3>1. c1 \in [Peers -> [Serials -> Call]]
      BY <2>7, SetFateType DEF TypeOK, Fates
    <3>2. calls' = [c1 EXCEPT ![p][n] = c]
      BY <2>1 DEF SetFate
    <3>. HIDE DEF c1
    <3>. QED BY <2>3, <2>6, <3>1, <3>2
  <2>12. Insert(outstanding[p] \ {r}, Entry(u)) \in SUBSET Outstanding
    BY <2>9, InsertType DEF TypeOK
  <2>13. outstanding' \in [Peers -> SUBSET Outstanding]
    BY <2>1, <2>12 DEF TypeOK
  <2>14. chan' \in [Peers -> Seq(Message)]
    <3>1. Append(chan[Other(p)], u) \in Seq(Message)
      BY <2>4, OtherPeer DEF TypeOK
    <3>. QED BY <2>1, <2>8, <3>1, OtherPeer DEF TypeOK
  <2>. QED BY <1>25, <2>10, <2>11, <2>13, <2>14 DEF DiscardHandle, TypeOK
<1>26. CASE UNCHANGED vars
  BY <1>26 DEF vars, TypeOK
<1>. QED BY <1>1, <1>2, <1>3, <1>4, <1>5, <1>6, <1>7, <1>8, <1>9, <1>10, <1>11, <1>12,
            <1>13, <1>14, <1>15, <1>16, <1>17, <1>18, <1>19, <1>20, <1>21, <1>22,
            <1>23, <1>24, <1>25, <1>26, <1>27, <1>28
         DEF Next, Receive, Application, Continue

(* TypeOK: the state of both passers stays well formed, in particular every *)
(* conversation id that is baked, sent or kept fits the id it travels as.   *)
THEOREM TypeCorrect == Spec => []TypeOK
BY TypeInit, TypeNext, PTL DEF Spec
-----------------------------------------------------------------------------
LEMMA HandleNext == TypeOK /\ SubscriptionHasHandle /\ [Next]_vars => SubscriptionHasHandle'
<1>. SUFFICES ASSUME TypeOK, SubscriptionHasHandle, [Next]_vars PROVE SubscriptionHasHandle'
  OBVIOUS
<1>1. ASSUME UNCHANGED <<subscriptions, handles>> PROVE SubscriptionHasHandle'
  BY <1>1 DEF SubscriptionHasHandle
<1>2. ASSUME NEW t \in Threads, NEW h \in handles[Home[t]], NEW dropped \in BOOLEAN,
             Unsubscribe(t, h, dropped)
      PROVE  SubscriptionHasHandle'
  <2>. DEFINE p == Home[t]
  <2>1. p \in Peers /\ h.op \in Opcodes
    BY ThreadsAssumption DEF TypeOK, Handle
  <2>2. /\ subscriptions' = [subscriptions EXCEPT ![p][h.op] = 0]
        /\ handles' = handles \/ handles' = [handles EXCEPT ![p] = @ \ {h}]
    BY <1>2 DEF Unsubscribe
  <2>. HIDE DEF p
  <2>. QED BY <2>1, <2>2 DEF SubscriptionHasHandle, TypeOK
<1>3. ASSUME NEW p \in Peers, CompleteSubscribe(p) PROVE SubscriptionHasHandle'
  <2>. DEFINE m == Head(chan[p])
  <2>1. PICK r \in outstanding[p] :
          /\ Completes(p, m, r)
          /\ subscriptions' = [subscriptions EXCEPT ![p][m.op] = IF @ = 0 THEN r.serial ELSE @]
          /\ handles' = [handles EXCEPT ![p] = @ \cup {[op |-> m.op, serial |-> r.serial]}]
    BY <1>3 DEF CompleteSubscribe
  <2>2. m.op \in Opcodes
    BY <2>1, HeadType DEF Completes, Arrives
  <2>. HIDE DEF m
  <2>. QED BY <2>1, <2>2 DEF SubscriptionHasHandle, TypeOK
<1>4. ASSUME NEW p \in Peers, DiscardHandle(p) PROVE SubscriptionHasHandle'
  <2>1. /\ Head(chan[p]).op \in Opcodes
        /\ subscriptions' = [subscriptions EXCEPT ![p][Head(chan[p]).op] = 0]
        /\ handles' = handles
    BY <1>4, HeadType DEF DiscardHandle, Arrives
  <2>. QED BY <2>1 DEF SubscriptionHasHandle, TypeOK
<1>5. ASSUME NEW t \in Threads, Application(t) PROVE SubscriptionHasHandle'
  BY <1>5, <1>1, <1>2 DEF Application, Request, Subscribe, Produce, Close, DropSink
<1>6. ASSUME NEW t \in Threads, Continue(t) PROVE SubscriptionHasHandle'
  BY <1>6, <1>1 DEF Continue, SendCall, Register, SendNotification, FinishClose
<1>7. ASSUME NEW p \in Peers, Receive(p) PROVE SubscriptionHasHandle'
  BY <1>7, <1>1, <1>3, <1>4
     DEF Receive, ReceiveEarly, ReceiveNotification, ReceiveRequest, RefuseSubscribe,
         AcceptSubscribe, DiscardSubscribe, AcceptClosed, ReceiveUnsubscribe,
         DropResponse, CompleteCall
<1>8. ASSUME NEW p \in Peers,
             StartConnection(p) \/ Listen(p) \/ Stop(p) \/ HangUp(p) \/ SendReply(p)
      PROVE  SubscriptionHasHandle'
  BY <1>8, <1>1 DEF StartConnection, Listen, Stop, HangUp, SendReply
<1>9. UNCHANGED vars => SubscriptionHasHandle'
  BY <1>1 DEF vars
<1>. QED BY <1>5, <1>6, <1>7, <1>8, <1>9 DEF Next

(* SubscriptionHasHandle: the application can always remove a callback the  *)
(* passer still runs, however subscriptions and handles came about.         *)
THEOREM SubscriptionsKeepHandle == Spec => []SubscriptionHasHandle
<1>1. Init => SubscriptionHasHandle
  BY DEF Init, SubscriptionHasHandle
<1>. QED BY <1>1, HandleNext, TypeCorrect, PTL DEF Spec
-----------------------------------------------------------------------------
(* A thread is in the middle of one thing at most.                          *)
OneInHand == \A t \in Threads : \A g, h \in hand[t] : g = h

LEMMA OneInHandNext == TypeOK /\ OneInHand /\ [Next]_vars => OneInHand'
<1>. SUFFICES ASSUME TypeOK, OneInHand, [Next]_vars PROVE OneInHand'
  OBVIOUS
<1>1. ASSUME UNCHANGED hand PROVE OneInHand'
  BY <1>1 DEF OneInHand
<1>2. ASSUME NEW t \in Threads, NEW h, hand' = [hand EXCEPT ![t] = {h}] PROVE OneInHand'
  BY <1>2 DEF OneInHand, TypeOK
<1>3. ASSUME NEW t \in Threads, hand' = [hand EXCEPT ![t] = {}] PROVE OneInHand'
  BY <1>3 DEF OneInHand, TypeOK
<1>4. ASSUME NEW t \in Threads, NEW type, NEW op, Bake(t, type, op) PROVE OneInHand'
  <2>1. \E h : hand' = [hand EXCEPT ![t] = {h}]
    BY <1>4 DEF Bake
  <2>. QED BY <1>2, <2>1
<1>5. ASSUME NEW t \in Threads, SendCall(t) PROVE OneInHand'
  <2>1. \E h : hand' = [hand EXCEPT ![t] = {h}]
    BY <1>5 DEF SendCall
  <2>. QED BY <1>2, <2>1
<1>6. ASSUME NEW t \in Threads, NEW s, Produce(t, s) PROVE OneInHand'
  <2>1. \E h : hand' = [hand EXCEPT ![t] = {h}]
    BY <1>6 DEF Produce
  <2>. QED BY <1>2, <2>1
<1>7. ASSUME NEW t \in Threads, Register(t) \/ SendNotification(t) \/ FinishClose(t)
      PROVE  OneInHand'
  <2>1. hand' = [hand EXCEPT ![t] = {}]
    BY <1>7 DEF Register, SendNotification, FinishClose
  <2>. QED BY <1>3, <2>1
<1>8. ASSUME NEW t \in Threads, NEW s, Close(t, s) \/ DropSink(t, s) PROVE OneInHand'
  <2>1. UNCHANGED hand \/ \E h : hand' = [hand EXCEPT ![t] = {h}]
    BY <1>8 DEF Close, DropSink, Closing
  <2>. QED BY <1>1, <1>2, <2>1
<1>. QED BY <1>1, <1>4, <1>5, <1>6, <1>7, <1>8, ZenonT(60)
         DEF Next, Receive, Application, Continue, vars, StartConnection, Listen, Stop, HangUp,
             Request, Subscribe, Unsubscribe, ReceiveEarly,
             ReceiveNotification, ReceiveRequest, RefuseSubscribe, AcceptSubscribe,
             DiscardSubscribe, AcceptClosed, ReceiveUnsubscribe, SendReply, DropResponse, CompleteCall,
             CompleteSubscribe, DiscardHandle

(* The threads on their way to erase a production stay on it.               *)
StillCloses == \A t \in Threads : \A h \in hand[t] : h.at = "close" => h \in hand'[t]

(* The parts of Closes and DeadProductionGoes, for a state given by its     *)
(* hands, productions and sinks.                                            *)
OnIt(hd, t, p, o, n) ==
  Home[t] = p /\ \E h \in hd[t] : h.at = "close" /\ h.msg.op = o /\ h.msg.serial = n

Served(pr, sk, hd, p, o) ==
  \/ [op |-> o, serial |-> pr[p][o], closed |-> FALSE] \in sk[p]
  \/ \E t \in Threads : OnIt(hd, t, p, o, pr[p][o])

AllServed(pr, sk, hd) ==
  \A p \in Peers, o \in Opcodes \ QuitOps : pr[p][o] # 0 => Served(pr, sk, hd, p, o)

LEMMA ClosesStays ==
  ASSUME StillCloses, NEW t \in Threads, NEW p, NEW o, NEW n, OnIt(hand, t, p, o, n)
  PROVE  OnIt(hand', t, p, o, n)
BY DEF StillCloses, OnIt

LEMMA DeadGoes ==
  /\ DeadProductionGoes <=> AllServed(productions, sinks, hand)
  /\ DeadProductionGoes' <=> AllServed(productions', sinks', hand')
BY DEF DeadProductionGoes, AllServed, Served, OnIt, Closes

(* A thread that begins something, and one that goes on with something      *)
(* other than a close.                                                      *)
LEMMA ClosesFrame ==
  ASSUME TypeOK, OneInHand, NEW t \in Threads, NEW H, hand' = [hand EXCEPT ![t] = H],
         Idle(t) \/ \E h \in hand[t] : h.at # "close"
  PROVE  StillCloses
<1>1. \A h \in hand[t] : h.at # "close"
  BY DEF Idle, OneInHand
<1>2. \A x \in Threads : x # t => hand'[x] = hand[x]
  BY DEF TypeOK
<1>. QED BY <1>1, <1>2 DEF StillCloses

LEMMA DeadNext ==
  TypeOK /\ OneInHand /\ DeadProductionGoes /\ [Next]_vars => DeadProductionGoes'
<1>. SUFFICES ASSUME TypeOK, OneInHand, AllServed(productions, sinks, hand), [Next]_vars
              PROVE  AllServed(productions', sinks', hand')
  BY DeadGoes
<1>a. ASSUME NEW p \in Peers, NEW o \in Opcodes
      PROVE  /\ productions[p] \in [Opcodes -> 0..MaxSerial]
             /\ productions[p][o] \in 0..MaxSerial
  BY DEF TypeOK
(* It is enough to look at productions that are new, at open sinks that go, *)
(* and at threads that have finished.                                       *)
<1>b. ASSUME UNCHANGED <<productions, sinks>>, StillCloses PROVE AllServed(productions', sinks', hand')
  <2>. SUFFICES ASSUME NEW p \in Peers, NEW o \in Opcodes \ QuitOps, productions'[p][o] # 0
                PROVE  Served(productions', sinks', hand', p, o)
    BY DEF AllServed
  <2>1. productions'[p][o] = productions[p][o] /\ sinks'[p] = sinks[p]
    BY <1>b
  <2>. QED BY <1>b, <2>1, ClosesStays DEF AllServed, Served
<1>1. ASSUME UNCHANGED <<productions, sinks, hand>> PROVE AllServed(productions', sinks', hand')
  BY <1>1, <1>b DEF StillCloses
<1>2. ASSUME NEW t \in Threads, NEW type, NEW op, Bake(t, type, op),
             UNCHANGED <<productions, sinks>>
      PROVE  AllServed(productions', sinks', hand')
  <2>1. Idle(t) /\ \E H : hand' = [hand EXCEPT ![t] = H]
    BY <1>2 DEF Bake
  <2>2. StillCloses
    BY <2>1, ClosesFrame
  <2>. QED BY <1>2, <1>b, <2>2
<1>3. ASSUME NEW t \in Threads, SendCall(t) \/ Register(t) \/ SendNotification(t)
      PROVE  AllServed(productions', sinks', hand')
  <2>1. /\ \E h \in hand[t] : h.at # "close"
        /\ \E H : hand' = [hand EXCEPT ![t] = H]
        /\ UNCHANGED <<productions, sinks>>
    BY <1>3 DEF SendCall, Register, SendNotification
  <2>2. StillCloses
    BY <2>1, ClosesFrame
  <2>. QED BY <1>b, <2>1, <2>2
<1>4. ASSUME NEW t \in Threads, NEW s, Produce(t, s) PROVE AllServed(productions', sinks', hand')
  <2>1. Idle(t) /\ (\E H : hand' = [hand EXCEPT ![t] = H]) /\ UNCHANGED <<productions, sinks>>
    BY <1>4 DEF Produce
  <2>2. StillCloses
    BY <2>1, ClosesFrame
  <2>. QED BY <1>b, <2>1, <2>2
(* The sink that goes or is closed is the one its thread closes from now on. *)
<1>5. ASSUME NEW t \in Threads, NEW s \in sinks[Home[t]], Close(t, s) \/ DropSink(t, s)
      PROVE  AllServed(productions', sinks', hand')
  <2>. SUFFICES ASSUME NEW p \in Peers, NEW o \in Opcodes \ QuitOps, productions'[p][o] # 0
                PROVE  Served(productions', sinks', hand', p, o)
    BY DEF AllServed
  <2>. DEFINE n == productions[p][o]  open == [op |-> o, serial |-> n, closed |-> FALSE]
  <2>1. productions'[p][o] = n
    BY <1>5 DEF Close, DropSink
  <2>2. /\ Idle(t)
        /\ hand' = hand \/ hand' = [hand EXCEPT ![t] = Closing(s)]
        /\ ~s.closed => hand' = [hand EXCEPT ![t] = Closing(s)]
        /\ \A r \in sinks[p] : r # s => r \in sinks'[p]
    <3>1. CASE Close(t, s)
      BY <3>1 DEF Close, TypeOK
    <3>2. CASE DropSink(t, s)
      <4>1. sinks' = [sinks EXCEPT ![Home[t]] = @ \ {s}]
        BY <3>2 DEF DropSink
      <4>2. \A r \in sinks[p] : r # s => r \in sinks'[p]
        BY <4>1 DEF TypeOK
      <4>. QED BY <3>2, <4>2 DEF DropSink
    <3>. QED BY <1>5, <3>1, <3>2
  <2>3. StillCloses
    <3>1. CASE hand' = hand
      BY <3>1 DEF StillCloses
    <3>2. CASE hand' = [hand EXCEPT ![t] = Closing(s)]
      BY <3>2, <2>2, ClosesFrame
    <3>. QED BY <2>2, <3>1, <3>2
  <2>4. CASE \E x \in Threads : OnIt(hand, x, p, o, n)
    BY <2>1, <2>3, <2>4, ClosesStays DEF Served
  <2>5. CASE open \in sinks'[p]
    BY <2>1, <2>5 DEF Served
  <2>6. CASE open \in sinks[p] /\ open \notin sinks'[p]
    <3>1. open = s
      BY <2>2, <2>6
    <3>2. s.op = o /\ s.serial = n /\ ~s.closed
      BY <3>1
    <3>3. p = Home[t]
      <4>1. \A q \in Peers : q # Home[t] => sinks'[q] = sinks[q]
        BY <1>5 DEF Close, DropSink, TypeOK
      <4>. QED BY <2>6, <4>1
    <3>4. hand'[t] = Closing(s)
      BY <2>2, <3>2 DEF TypeOK
    <3>5. PICK h : h \in Closing(s)
      BY DEF Closing
    <3>6. h \in hand'[t] /\ h.at = "close" /\ h.msg.op = o /\ h.msg.serial = n
      BY <3>2, <3>4, <3>5, ClosingType
    <3>7. OnIt(hand', t, p, o, n)
      BY <3>3, <3>6, <2>1 DEF OnIt
    <3>. QED BY <2>1, <3>7 DEF Served
  <2>7. productions[p][o] # 0
    BY <2>1
  <2>. QED BY <2>4, <2>5, <2>6, <2>7 DEF AllServed, Served
(* The thread that finishes erases the production of its opcode.            *)
<1>6. ASSUME NEW t \in Threads, FinishClose(t) PROVE AllServed(productions', sinks', hand')
  <2>1. PICK h \in hand[t] : /\ h.at = "close" /\ hand' = [hand EXCEPT ![t] = {}]
                             /\ productions' = [productions EXCEPT ![Home[t]][h.msg.op] = 0]
                             /\ sinks' = sinks
    BY <1>6 DEF FinishClose, CloseProduction
  <2>2. Home[t] \in Peers /\ h.msg.op \in Opcodes
    BY HandType DEF Message
  <2>. SUFFICES ASSUME NEW p \in Peers, NEW o \in Opcodes \ QuitOps, productions'[p][o] # 0
                PROVE  Served(productions', sinks', hand', p, o)
    BY DEF AllServed
  <2>3. ~(p = Home[t] /\ o = h.msg.op) /\ productions'[p][o] = productions[p][o]
    BY <1>a, <2>1, <2>2 DEF TypeOK
  <2>4. ASSUME NEW x \in Threads, OnIt(hand, x, p, o, productions[p][o])
        PROVE  OnIt(hand', x, p, o, productions[p][o])
    <3>1. x # t
      BY <2>1, <2>3, <2>4 DEF OnIt, OneInHand
    <3>2. hand'[x] = hand[x]
      BY <2>1, <3>1 DEF TypeOK
    <3>3. PICK g \in hand[x] : g.at = "close" /\ g.msg.op = o /\ g.msg.serial = productions[p][o]
      BY <2>4 DEF OnIt
    <3>4. Home[x] = p
      BY <2>4 DEF OnIt
    <3>. QED BY <2>3, <3>2, <3>3, <3>4 DEF OnIt
  <2>. QED BY <2>1, <2>3, <2>4 DEF AllServed, Served
<1>7. ASSUME NEW p \in Peers, AcceptSubscribe(p) \/ AcceptClosed(p) PROVE AllServed(productions', sinks', hand')
  <2>. DEFINE m == Head(chan[p])
  <2>1. m.op \in Opcodes /\ m.serial \in Serials
    BY <1>7, HeadType DEF AcceptSubscribe, AcceptClosed, Arrives
  <2>. DEFINE open == [op |-> m.op, serial |-> m.serial, closed |-> FALSE]
  <2>2. /\ productions' = [productions EXCEPT ![p][m.op] = m.serial]
        /\ hand' = hand
        /\ \A q \in Peers : \A r \in sinks[q] : q # p \/ r.op # m.op => r \in sinks'[q]
        /\ m.op \notin QuitOps => open \in sinks'[p] \/ AcceptClosed(p)
    BY <1>7 DEF AcceptSubscribe, AcceptClosed, TypeOK
  <2>3. m.op \notin QuitOps => open \in sinks'[p]
    BY <2>2 DEF AcceptClosed
  <2>. HIDE DEF m
  <2>. SUFFICES ASSUME NEW q \in Peers, NEW o \in Opcodes \ QuitOps, productions'[q][o] # 0
                PROVE  Served(productions', sinks', hand', q, o)
    BY DEF AllServed
  <2>4. CASE q = p /\ o = m.op
    <3>1. productions'[q][o] = m.serial
      BY <1>a, <2>1, <2>2, <2>4 DEF TypeOK
    <3>. QED BY <2>3, <2>4, <3>1 DEF Served
  <2>5. CASE ~(q = p /\ o = m.op)
    <3>1. productions'[q][o] = productions[q][o]
      BY <1>a, <2>1, <2>2, <2>5 DEF TypeOK
    <3>2. StillCloses
      BY <2>2 DEF StillCloses
    <3>. DEFINE r == [op |-> o, serial |-> productions[q][o], closed |-> FALSE]
    <3>3. r \in sinks[q] => r \in sinks'[q]
      BY <2>2, <2>5
    <3>. QED BY <3>1, <3>2, <3>3, ClosesStays DEF AllServed, Served
  <2>. QED BY <2>4, <2>5
<1>8. ASSUME NEW p \in Peers, ReceiveUnsubscribe(p) PROVE AllServed(productions', sinks', hand')
  <2>1. /\ Head(chan[p]).op \in Opcodes
        /\ productions' = [productions EXCEPT ![p][Head(chan[p]).op] = 0]
        /\ UNCHANGED <<sinks, hand>>
    BY <1>8, HeadType DEF ReceiveUnsubscribe, Arrives
  <2>. SUFFICES ASSUME NEW q \in Peers, NEW o \in Opcodes \ QuitOps, productions'[q][o] # 0
                PROVE  Served(productions', sinks', hand', q, o)
    BY DEF AllServed
  <2>2. productions'[q][o] = productions[q][o]
    BY <1>a, <2>1 DEF TypeOK
  <2>3. StillCloses
    BY <2>1 DEF StillCloses
  <2>. QED BY <2>1, <2>2, <2>3, ClosesStays DEF AllServed, Served
<1>9. ASSUME NEW t \in Threads, NEW op, Request(t, op) \/ Subscribe(t, op)
      PROVE  AllServed(productions', sinks', hand')
  BY <1>2, <1>9 DEF Request, Subscribe
<1>10. ASSUME NEW t \in Threads, NEW h, NEW dropped, Unsubscribe(t, h, dropped)
       PROVE  AllServed(productions', sinks', hand')
  BY <1>2, <1>10 DEF Unsubscribe
<1>. QED BY <1>1, <1>3, <1>4, <1>5, <1>6, <1>7, <1>8, <1>9, <1>10, ZenonT(60)
         DEF Next, Receive, Application, Continue, vars, StartConnection, Listen, Stop, HangUp,
             ReceiveEarly, ReceiveNotification, ReceiveRequest, RefuseSubscribe,
             DiscardSubscribe, SendReply, DropResponse, CompleteCall,
             CompleteSubscribe, DiscardHandle

(* DeadProductionGoes: between setting _closed and taking the mutex of the  *)
(* passer, a close cannot be overtaken so that the production of a dead     *)
(* sink stays: every production has an open sink, or a thread on its way to *)
(* erase it, whatever closes, drops and subscriptions meet.                 *)
THEOREM DeadProductionsGo == Spec => []DeadProductionGoes
<1>1. Init => OneInHand /\ DeadProductionGoes
  BY DEF Init, OneInHand, DeadProductionGoes
<1>. QED BY <1>1, OneInHandNext, DeadNext, TypeCorrect, PTL DEF Spec
-----------------------------------------------------------------------------
(* No crosstalk.  NoCrossTalk speaks of one message and one entry; it is    *)
(* inductive only together with where every message and entry comes from.   *)

(* The messages that may travel to q: each is tied to a conversation of its *)
(* caller by its id and by its type.                                        *)
Genuine(q) ==
  {m \in Message :
     /\ m.cid = Cookie(m.serial)
     /\ m.type \in Kinds => calls[Other(q)][m.serial].kind = m.type
     /\ m.type \in Replies => /\ calls[q][m.serial].kind \in Kinds
                              /\ m.type = ReplyType[calls[q][m.serial].kind]}

(* Ids that were not baked yet belong to no conversation.                   *)
Fresh == \A p \in Peers, n \in Serials : n > baked[p] => calls[p][n].kind = "none"

GenuineChan == \A q \in Peers : chan[q] \in Seq(Genuine(q))

GenuineReplies == \A p \in Peers : replying[p] \subseteq Genuine(Other(p))

GenuineHands == \A t \in Threads : \A h \in hand[t] : h.msg \in Genuine(Other(Home[t]))

GenuineEntries == \A p \in Peers : \A r \in outstanding[p] :
  r.cid = Cookie(r.serial) /\ calls[p][r.serial].kind = r.kind

Provenance == /\ TypeOK /\ Fresh
              /\ GenuineChan /\ GenuineReplies /\ GenuineHands /\ GenuineEntries

(* The conversations that exist keep their kind.                            *)
KindsKept == \A p \in Peers, n \in Serials :
  calls[p][n].kind # "none" => calls'[p][n].kind = calls[p][n].kind

LEMMA GenuineGrows ==
  ASSUME TypeOK, KindsKept, NEW q \in Peers
  PROVE  Genuine(q) \subseteq Genuine(q)'
<1>. SUFFICES ASSUME NEW m \in Genuine(q) PROVE m \in Genuine(q)'
  OBVIOUS
<1>1. m \in Message /\ m.serial \in Serials
  BY DEF Genuine, Message
<1>2. Other(q) \in Peers
  BY OtherPeer
<1>3. "none" \notin Kinds
  BY DEF Kinds
<1>. QED BY <1>1, <1>2, <1>3 DEF Genuine, KindsKept

(* A reply to a genuine request is genuine on the way back.                 *)
LEMMA ReplyGenuine ==
  ASSUME NEW p \in Peers, NEW m \in Genuine(p), m.type \in Kinds,
         NEW err \in {"success", "failure", "aborted"}
  PROVE  Reply(m, err) \in Genuine(Other(p))
<1>1. m \in Message /\ m.cid = Cookie(m.serial) /\ calls[Other(p)][m.serial].kind = m.type
  BY DEF Genuine
<1>2. /\ Reply(m, err) \in Message
      /\ Reply(m, err).type = ReplyType[m.type]
      /\ Reply(m, err).type \in Replies
      /\ Reply(m, err).cid = m.cid
      /\ Reply(m, err).serial = m.serial
  BY <1>1, ReplyIsMessage
<1>3. Reply(m, err).type \notin Kinds
  BY <1>2 DEF Kinds, Replies
<1>. QED BY <1>1, <1>2, <1>3 DEF Genuine

(* A notification is tied to no conversation.                               *)
LEMMA NotificationGenuine ==
  ASSUME NEW q \in Peers, NEW op \in Opcodes, NEW n \in Serials,
         NEW err \in {"success", "failure", "aborted"}
  PROVE  Msg("notification", op, n, err) \in Genuine(q)
<1>1. Msg("notification", op, n, err) \in Message
  BY MsgType
<1>. QED BY <1>1 DEF Genuine, Msg, Kinds, Replies

(* What does not touch the calls' kinds keeps whatever part it leaves       *)
(* alone, and adds nothing false to the others if it adds genuine messages. *)
LEMMA GenuineFrame ==
  ASSUME Provenance, KindsKept
  PROVE  /\ \A q \in Peers : chan[q] \in Seq(Genuine(q)')
         /\ \A p \in Peers : replying[p] \subseteq Genuine(Other(p))'
         /\ \A t \in Threads : \A h \in hand[t] : h.msg \in Genuine(Other(Home[t]))'
         /\ \A p \in Peers : \A r \in outstanding[p] :
              r.cid = Cookie(r.serial) /\ calls'[p][r.serial].kind = r.kind
<1>1. \A q \in Peers : Genuine(q) \subseteq Genuine(q)'
  BY GenuineGrows DEF Provenance
<1>2. \A q \in Peers : chan[q] \in Seq(Genuine(q)')
  BY <1>1, SeqMonotonic DEF Provenance, GenuineChan
<1>3. \A p \in Peers : replying[p] \subseteq Genuine(Other(p))'
  BY <1>1, OtherPeer DEF Provenance, GenuineReplies
<1>4. \A t \in Threads : \A h \in hand[t] : h.msg \in Genuine(Other(Home[t]))'
  BY <1>1, OtherPeer, ThreadsAssumption DEF Provenance, GenuineHands
<1>5. ASSUME NEW p \in Peers, NEW r \in outstanding[p]
      PROVE  r.cid = Cookie(r.serial) /\ calls'[p][r.serial].kind = r.kind
  <2>1. r.serial \in Serials /\ r.kind \in Kinds
    BY DEF Provenance, TypeOK, Outstanding
  <2>2. r.kind # "none"
    BY <2>1 DEF Kinds
  <2>. QED BY <2>1, <2>2 DEF Provenance, GenuineEntries, KindsKept
<1>. QED BY <1>2, <1>3, <1>4, <1>5

SameKinds == \A p \in Peers, n \in Serials : calls'[p][n].kind = calls[p][n].kind

LEMMA SetFateSame ==
  ASSUME TypeOK, NEW p \in Peers, NEW n \in Serials, NEW f \in Fates,
         calls' = SetFate(calls, p, n, f)
  PROVE  SameKinds
<1>1. calls \in [Peers -> [Serials -> Call]]
  BY DEF TypeOK
<1>2. \A q \in Peers, k \in Serials : SetFate(calls, p, n, f)[q][k].kind = calls[q][k].kind
  BY <1>1, SetFateType
<1>. QED BY <1>2 DEF SameKinds

LEMMA SameKindsFrame ==
  ASSUME Provenance, SameKinds, baked' = baked
  PROVE  KindsKept /\ Fresh'
BY DEF Provenance, SameKinds, KindsKept, Fresh

(* Wire, Consume and Answer keep the channels genuine.                      *)
LEMMA WireGenuine ==
  ASSUME Provenance, KindsKept, NEW p \in Peers, NEW m \in Message,
         m \in Genuine(Other(p))', Wire(p, <<m>>)
  PROVE  GenuineChan'
<1>. DEFINE F == [q \in Peers |-> Genuine(q)']
<1>1. \A q \in Peers : F[q] = Genuine(q)'
  OBVIOUS
<1>2. Other(p) \in Peers
  BY OtherPeer
<1>. HIDE DEF F
<1>3. \A q \in Peers : chan[q] \in Seq(F[q])
  BY <1>1, GenuineFrame
<1>4. <<m>> \in Seq(Message) /\ <<m>> \in Seq(F[Other(p)])
  <2>1. m \in F[Other(p)]
    BY <1>1, <1>2
  <2>. QED BY <2>1, SingletonSeq
<1>5. \A q \in Peers : chan'[q] \in Seq(F[q])
  BY <1>3, <1>4, WireChan DEF Provenance, TypeOK
<1>. QED BY <1>1, <1>5 DEF GenuineChan

LEMMA ConsumeGenuine ==
  ASSUME Provenance, KindsKept, NEW p \in Peers, chan[p] # <<>>, Consume(p)
  PROVE  GenuineChan'
<1>. DEFINE F == [q \in Peers |-> Genuine(q)']
<1>1. \A q \in Peers : F[q] = Genuine(q)'
  OBVIOUS
<1>. HIDE DEF F
<1>2. \A q \in Peers : chan[q] \in Seq(F[q])
  BY <1>1, GenuineFrame
<1>3. \A q \in Peers : chan'[q] \in Seq(F[q])
  BY <1>2, ConsumeChan DEF Provenance, TypeOK
<1>. QED BY <1>1, <1>3 DEF GenuineChan

LEMMA AnswerGenuine ==
  ASSUME Provenance, SameKinds, NEW p \in Peers, chan[p] # <<>>, NEW m,
         NEW ms \in Seq(Message), ms \in Seq(Genuine(Other(p))), Answer(p, m, ms)
  PROVE  GenuineChan'
<1>. DEFINE F == [q \in Peers |-> Genuine(q)']
<1>1. \A q \in Peers : F[q] = Genuine(q)'
  OBVIOUS
<1>2. Other(p) \in Peers /\ KindsKept
  BY OtherPeer DEF SameKinds, KindsKept
<1>. HIDE DEF F
<1>3. \A q \in Peers : chan[q] \in Seq(F[q])
  BY <1>1, <1>2, GenuineFrame
<1>4. Genuine(Other(p)) \subseteq F[Other(p)]
  BY <1>1, <1>2, GenuineGrows DEF Provenance
<1>5. ms \in Seq(F[Other(p)])
  BY <1>4, SeqMonotonic
<1>6. \A q \in Peers : chan'[q] \in Seq(F[q])
  BY <1>3, <1>5, AnswerChan DEF Provenance, TypeOK
<1>. QED BY <1>1, <1>6 DEF GenuineChan

LEMMA HeadGenuine ==
  ASSUME Provenance, NEW p \in Peers, chan[p] # <<>>
  PROVE  Head(chan[p]) \in Genuine(p)
BY HeadTailProperties DEF Provenance, GenuineChan

(* A baked id is a new conversation of the kind its message has.            *)
LEMMA BakeGenuine ==
  ASSUME Provenance, TypeOK', NEW t \in Threads, NEW type \in Kinds, NEW op \in Opcodes,
         Bake(t, type, op)
  PROVE  KindsKept /\ Fresh' /\ GenuineHands'
<1>. DEFINE p == Home[t]  n == baked[p] + 1  u == Msg(type, op, n, "success")
<1>1. p \in Peers /\ n \in Serials
  BY BakeType DEF Provenance
<1>2. /\ baked' = [baked EXCEPT ![p] = n]
      /\ calls' = [calls EXCEPT ![p][n] = [kind |-> type, fate |-> "issued"]]
      /\ hand' = [hand EXCEPT ![t] = {[at |-> "send", msg |-> u]}]
  BY DEF Bake
<1>3. /\ baked \in [Peers -> 0..MaxSerial] /\ MaxSerial \in Nat
      /\ calls \in [Peers -> [Serials -> Call]]
      /\ hand \in [Threads -> SUBSET Hand]
  BY BoundsAssumption DEF Provenance, TypeOK
<1>4. n > baked[p]
  BY <1>1, <1>3
<1>5. calls[p][n].kind = "none"
  BY <1>1, <1>4 DEF Provenance, Fresh
<1>6. u \in Message /\ u.type = type /\ u.cid = Cookie(u.serial) /\ u.serial = n
  BY <1>1, MsgType DEF Msg
<1>. HIDE DEF p, n, u
<1>7. KindsKept
  BY <1>1, <1>2, <1>3, <1>5 DEF KindsKept
<1>8. Fresh'
  <2>. SUFFICES ASSUME NEW q \in Peers, NEW k \in Serials, k > baked'[q]
                PROVE  calls'[q][k].kind = "none"
    BY DEF Fresh
  <2>1. k > baked[q] /\ (q = p => k # n)
    BY <1>1, <1>2, <1>3, <1>4 DEF Serials
  <2>2. calls'[q][k] = calls[q][k]
    BY <2>1, <1>1, <1>2, <1>3
  <2>. QED BY <2>1, <2>2 DEF Provenance, Fresh
<1>9. u \in Genuine(Other(p))'
  <2>1. Other(Other(p)) = p
    BY <1>1, OtherPeer
  <2>2. calls'[p][n].kind = type
    BY <1>1, <1>2, <1>3
  <2>. QED BY <1>6, <2>1, <2>2 DEF Genuine, Kinds, Replies
<1>10. GenuineHands'
  <2>. SUFFICES ASSUME NEW x \in Threads, NEW h \in hand'[x]
                PROVE  h.msg \in Genuine(Other(Home[x]))'
    BY DEF GenuineHands
  <2>1. CASE x = t
    BY <2>1, <1>2, <1>3, <1>9 DEF p
  <2>2. CASE x # t
    <3>1. h \in hand[x]
      BY <2>2, <1>2, <1>3
    <3>. QED BY <3>1, <1>7, GenuineFrame
  <2>. QED BY <2>1, <2>2
<1>. QED BY <1>7, <1>8, <1>10

LEMMA ProvenanceNext == Provenance /\ [Next]_vars => Provenance'
<1>. SUFFICES ASSUME Provenance, [Next]_vars PROVE Provenance'
  OBVIOUS
<1>0. TypeOK /\ TypeOK'
  BY TypeNext DEF Provenance
(* What is left to show when no kind changes and nothing is baked.          *)
<1>a. ASSUME SameKinds, baked' = baked,
             GenuineChan' \/ UNCHANGED chan,
             GenuineReplies' \/ UNCHANGED replying,
             GenuineHands' \/ UNCHANGED hand,
             GenuineEntries' \/ UNCHANGED outstanding
      PROVE  Provenance'
  <2>1. KindsKept /\ Fresh'
    BY <1>a, SameKindsFrame
  <2>2. GenuineChan'
    BY <1>a, <2>1, GenuineFrame DEF GenuineChan
  <2>3. GenuineReplies'
    BY <1>a, <2>1, GenuineFrame DEF GenuineReplies
  <2>4. GenuineHands'
    BY <1>a, <2>1, GenuineFrame DEF GenuineHands
  <2>5. GenuineEntries'
    BY <1>a, <2>1, GenuineFrame DEF GenuineEntries
  <2>. QED BY <1>0, <2>1, <2>2, <2>3, <2>4, <2>5 DEF Provenance
<1>b. ASSUME NEW t \in Threads, NEW type \in Kinds, NEW op \in Opcodes, Bake(t, type, op),
             UNCHANGED <<outstanding, chan, replying>>
      PROVE  Provenance'
  <2>1. KindsKept /\ Fresh' /\ GenuineHands'
    BY <1>0, <1>b, BakeGenuine
  <2>. QED BY <1>0, <1>b, <2>1, GenuineFrame
           DEF Provenance, GenuineChan, GenuineReplies, GenuineEntries
<1>1. ASSUME NEW p \in Peers, StartConnection(p) PROVE Provenance'
  BY <1>1, <1>a DEF StartConnection, SameKinds
<1>2. ASSUME NEW p \in Peers, Listen(p) PROVE Provenance'
  BY <1>2, <1>a DEF Listen, SameKinds
<1>3. ASSUME NEW p \in Peers, Stop(p) PROVE Provenance'
  <2>1. SameKinds
    BY <1>0, <1>3, LoseCallsType DEF Stop, SameKinds, TypeOK
  <2>2. KindsKept
    BY <2>1 DEF SameKinds, KindsKept
  <2>. DEFINE F == [q \in Peers |-> Genuine(q)']
  <2>3. \A q \in Peers : F[q] = Genuine(q)'
    OBVIOUS
  <2>. HIDE DEF F
  <2>4. \A q \in Peers : chan[q] \in Seq(F[q])
    BY <2>2, <2>3, GenuineFrame
  <2>5. \A q \in Peers : chan'[q] \in Seq(F[q])
    BY <1>0, <1>3, <2>4, StopChan DEF TypeOK
  <2>6. GenuineChan'
    BY <2>3, <2>5 DEF GenuineChan
  <2>. QED BY <1>3, <1>a, <2>1, <2>6 DEF Stop
<1>4. ASSUME NEW p \in Peers, HangUp(p) PROVE Provenance'
  BY <1>4, <1>a DEF HangUp, SameKinds
<1>5. ASSUME NEW t \in Threads, NEW op \in Opcodes, Request(t, op) PROVE Provenance'
  BY <1>5, <1>b DEF Request, Kinds
<1>6. ASSUME NEW t \in Threads, NEW op \in Opcodes, Subscribe(t, op) PROVE Provenance'
  BY <1>6, <1>b DEF Subscribe, Kinds
<1>7. ASSUME NEW t \in Threads, NEW h \in handles[Home[t]], NEW dropped \in BOOLEAN,
             Unsubscribe(t, h, dropped)
      PROVE  Provenance'
  <2>1. h.op \in Opcodes
    BY <1>0, ThreadsAssumption DEF TypeOK, Handle
  <2>. QED BY <1>7, <1>b, <2>1 DEF Unsubscribe, Kinds
<1>8. ASSUME NEW t \in Threads, SendCall(t) PROVE Provenance'
  <2>. DEFINE p == Home[t]
  <2>1. PICK h \in hand[t] :
          /\ h.at = "send" /\ h.msg.type \in Kinds
          /\ Wire(p, <<h.msg>>)
          /\ calls' = SetFate(calls, p, h.msg.serial, Unless(Reaches(p), "issued"))
          /\ hand' = [hand EXCEPT ![t] = {[at |-> "insert", msg |-> h.msg]}]
    BY <1>8 DEF SendCall
  <2>2. p \in Peers /\ h.msg \in Message /\ h.msg.serial \in Serials
    BY <1>0, HandType DEF Message
  <2>. HIDE DEF p
  <2>3. SameKinds
    <3>1. Unless(Reaches(p), "issued") \in Fates
      BY UnlessType DEF Fates, Reaches
    <3>. QED BY <1>0, <2>1, <2>2, <3>1, SetFateSame
  <2>4. KindsKept
    BY <2>3 DEF SameKinds, KindsKept
  <2>5. h.msg \in Genuine(Other(p))'
    BY <2>4, GenuineFrame DEF p
  <2>6. GenuineChan'
    BY <2>1, <2>2, <2>4, <2>5, WireGenuine
  <2>7. GenuineHands'
    <3>. SUFFICES ASSUME NEW x \in Threads, NEW g \in hand'[x]
                  PROVE  g.msg \in Genuine(Other(Home[x]))'
      BY DEF GenuineHands
    <3>1. CASE x = t
      BY <1>0, <2>1, <2>5, <3>1 DEF TypeOK, p
    <3>2. CASE x # t
      <4>1. g \in hand[x]
        BY <1>0, <2>1, <3>2 DEF TypeOK
      <4>. QED BY <2>4, <4>1, GenuineFrame
    <3>. QED BY <3>1, <3>2
  <2>. QED BY <1>8, <1>a, <2>3, <2>6, <2>7 DEF SendCall
<1>9. ASSUME NEW t \in Threads, Register(t) PROVE Provenance'
  <2>. DEFINE p == Home[t]
  <2>1. PICK h \in hand[t] :
          /\ h.at = "insert"
          /\ outstanding' = [outstanding EXCEPT ![p] = Insert(@, Entry(h.msg))]
          /\ hand' = [hand EXCEPT ![t] = {}]
          /\ calls' = calls
    BY <1>9 DEF Register
  <2>2. p \in Peers /\ h.msg.type \in Kinds
    BY <1>0, <2>1, HandType
  <2>3. /\ h.msg.cid = Cookie(h.msg.serial)
        /\ calls[p][h.msg.serial].kind = h.msg.type
    <3>1. h.msg \in Genuine(Other(p)) /\ Other(Other(p)) = p
      BY <2>2, OtherPeer DEF Provenance, GenuineHands
    <3>. QED BY <2>2, <3>1 DEF Genuine
  <2>. DEFINE e == Entry(h.msg)
  <2>4. e.cid = Cookie(e.serial) /\ calls'[p][e.serial].kind = e.kind
    BY <2>1, <2>3 DEF Entry
  <2>. HIDE DEF p, e
  <2>5. \A r \in Insert(outstanding[p], e) : r \in outstanding[p] \/ r = e
    BY DEF Insert
  <2>6. GenuineEntries'
    BY <1>0, <2>1, <2>2, <2>4, <2>5 DEF TypeOK, Provenance, GenuineEntries, e
  <2>7. GenuineHands'
    BY <1>0, <2>1 DEF TypeOK, Provenance, GenuineHands, Genuine
  <2>. QED BY <1>9, <1>a, <2>1, <2>6, <2>7 DEF Register, SameKinds
<1>10. ASSUME NEW t \in Threads, NEW s \in sinks[Home[t]], Produce(t, s) PROVE Provenance'
  <2>. DEFINE u == Msg("notification", s.op, s.serial, "success")
  <2>1. s.op \in Opcodes /\ s.serial \in Serials /\ Other(Home[t]) \in Peers
    BY <1>0, ThreadsAssumption, OtherPeer DEF TypeOK, Sink
  <2>2. u \in Genuine(Other(Home[t]))
    BY <2>1, NotificationGenuine
  <2>3. hand' = [hand EXCEPT ![t] = {[at |-> "send", msg |-> u]}] /\ calls' = calls
    BY <1>10 DEF Produce
  <2>. HIDE DEF u
  <2>4. GenuineHands'
    BY <1>0, <2>2, <2>3, SMTT(30) DEF TypeOK, Provenance, GenuineHands, Genuine
  <2>. QED BY <1>10, <1>a, <2>4 DEF Produce, SameKinds
<1>11. ASSUME NEW t \in Threads, SendNotification(t) PROVE Provenance'
  <2>1. PICK h \in hand[t] :
          Wire(Home[t], <<h.msg>>) /\ hand' = [hand EXCEPT ![t] = {}] /\ calls' = calls
    BY <1>11 DEF SendNotification
  <2>2. Home[t] \in Peers /\ h.msg \in Message /\ SameKinds /\ KindsKept
    <3>1. Home[t] \in Peers /\ h.msg \in Message
      BY <1>0, HandType
    <3>. QED BY <2>1, <3>1 DEF SameKinds, KindsKept
  <2>3. h.msg \in Genuine(Other(Home[t]))'
    BY <2>2, GenuineFrame
  <2>4. GenuineChan'
    BY <2>1, <2>2, <2>3, WireGenuine
  <2>5. GenuineHands'
    BY <1>0, <2>1 DEF TypeOK, Provenance, GenuineHands, Genuine
  <2>. QED BY <1>11, <1>a, <2>2, <2>4, <2>5 DEF SendNotification
(* A sink that is closed or destroyed has an abort to send.                 *)
<1>c. ASSUME NEW t \in Threads, NEW s \in sinks[Home[t]], hand' = [hand EXCEPT ![t] = Closing(s)],
             calls' = calls
      PROVE  GenuineHands'
  <2>. DEFINE u == Msg("notification", s.op, s.serial, "aborted")
  <2>1. s.op \in Opcodes /\ s.serial \in Serials /\ Other(Home[t]) \in Peers
    BY <1>0, ClosingType, OtherPeer
  <2>2. u \in Genuine(Other(Home[t]))
    BY <2>1, NotificationGenuine
  <2>3. hand' = [hand EXCEPT ![t] = {[at |-> "close", msg |-> u]}]
    BY <1>c DEF Closing
  <2>. HIDE DEF u
  <2>. QED BY <1>0, <1>c, <2>2, <2>3, SMTT(30) DEF TypeOK, Provenance, GenuineHands, Genuine
<1>12. ASSUME NEW t \in Threads, NEW s \in sinks[Home[t]], Close(t, s) PROVE Provenance'
  <2>1. GenuineHands'
    BY <1>12, <1>c DEF Close
  <2>. QED BY <1>12, <1>a, <2>1 DEF Close, SameKinds
<1>13. ASSUME NEW t \in Threads, NEW s \in sinks[Home[t]], DropSink(t, s) PROVE Provenance'
  <2>1. GenuineHands' \/ UNCHANGED hand
    BY <1>13, <1>c DEF DropSink
  <2>. QED BY <1>13, <1>a, <2>1 DEF DropSink, SameKinds
<1>27. ASSUME NEW t \in Threads, FinishClose(t) PROVE Provenance'
  <2>1. PICK h \in hand[t] : /\ Wire(Home[t], <<h.msg>>) \/ UNCHANGED chan
                             /\ hand' = [hand EXCEPT ![t] = {}]
                             /\ calls' = calls
    BY <1>27 DEF FinishClose, CloseProduction
  <2>2. Home[t] \in Peers /\ h.msg \in Message /\ SameKinds /\ KindsKept
    BY <1>0, <2>1, HandType DEF SameKinds, KindsKept
  <2>3. h.msg \in Genuine(Other(Home[t]))'
    BY <2>2, GenuineFrame
  <2>4. GenuineChan' \/ UNCHANGED chan
    BY <2>1, <2>2, <2>3, WireGenuine
  <2>5. GenuineHands'
    BY <1>0, <2>1 DEF TypeOK, Provenance, GenuineHands, Genuine
  <2>. QED BY <1>27, <1>a, <2>2, <2>4, <2>5 DEF FinishClose
<1>14. ASSUME NEW p \in Peers, ReceiveEarly(p) PROVE Provenance'
  <2>1. SameKinds
    BY <1>0, <1>14, LoseCallsType DEF ReceiveEarly, SameKinds, TypeOK
  <2>2. GenuineChan'
    BY <1>14, <2>1, ConsumeGenuine DEF ReceiveEarly, SameKinds, KindsKept
  <2>. QED BY <1>14, <1>a, <2>1, <2>2 DEF ReceiveEarly
<1>15. ASSUME NEW p \in Peers, ReceiveNotification(p) PROVE Provenance'
  <2>1. SameKinds /\ KindsKept
    BY <1>15 DEF ReceiveNotification, SameKinds, KindsKept
  <2>2. GenuineChan'
    BY <1>15, <2>1, ConsumeGenuine DEF ReceiveNotification, Arrives
  <2>. QED BY <1>15, <1>a, <2>1, <2>2 DEF ReceiveNotification
(* A message whose replies ms are sent in the same section.                 *)
<1>d. ASSUME NEW p \in Peers, Arrives(p, Kinds), NEW ms \in Seq(Message),
             ms \in Seq(Genuine(Other(p))), Answer(p, Head(chan[p]), ms)
      PROVE  SameKinds /\ GenuineChan'
  <2>1. chan[p] # <<>> /\ Head(chan[p]) \in Message
    BY <1>0, <1>d, HeadType DEF Arrives
  <2>2. SameKinds
    BY <1>0, <1>d, <2>1, AnswerType DEF SameKinds
  <2>. QED BY <1>d, <2>1, <2>2, AnswerGenuine
(* A request at the head of the channel, and a reply to it.                 *)
<1>e. ASSUME NEW p \in Peers, Arrives(p, Kinds), NEW err \in {"success", "failure"}
      PROVE  /\ chan[p] # <<>> /\ Head(chan[p]).type \in Kinds
             /\ Head(chan[p]).op \in Opcodes /\ Head(chan[p]).serial \in Serials
             /\ Other(p) \in Peers
             /\ Reply(Head(chan[p]), err) \in Message
             /\ Reply(Head(chan[p]), err) \in Genuine(Other(p))
  <2>1. chan[p] # <<>> /\ Head(chan[p]).type \in Kinds
    BY <1>e DEF Arrives
  <2>2. /\ Head(chan[p]) \in Message /\ Head(chan[p]) \in Genuine(p)
        /\ Head(chan[p]).op \in Opcodes /\ Head(chan[p]).serial \in Serials
    BY <1>0, <2>1, HeadType, HeadGenuine
  <2>. QED BY <1>e, <2>1, <2>2, ReplyGenuine, ReplyIsMessage, OtherPeer
<1>16. ASSUME NEW p \in Peers, ReceiveRequest(p) PROVE Provenance'
  <2>1. PICK err \in {"success", "failure"} :
          Answer(p, Head(chan[p]), <<Reply(Head(chan[p]), err)>>)
    BY <1>16 DEF ReceiveRequest
  <2>2. Arrives(p, Kinds)
    BY <1>16 DEF ReceiveRequest, Arrives, Kinds
  <2>3. <<Reply(Head(chan[p]), err)>> \in Seq(Message)
        /\ <<Reply(Head(chan[p]), err)>> \in Seq(Genuine(Other(p)))
    BY <2>2, <1>e
  <2>4. SameKinds /\ GenuineChan'
    BY <1>d, <2>1, <2>2, <2>3
  <2>. QED BY <1>16, <1>a, <2>4 DEF ReceiveRequest
<1>17. ASSUME NEW p \in Peers, RefuseSubscribe(p) PROVE Provenance'
  <2>1. Arrives(p, Kinds) /\ Answer(p, Head(chan[p]), <<Reply(Head(chan[p]), "failure")>>)
    BY <1>17 DEF RefuseSubscribe, Arrives, Kinds
  <2>2. <<Reply(Head(chan[p]), "failure")>> \in Seq(Message)
        /\ <<Reply(Head(chan[p]), "failure")>> \in Seq(Genuine(Other(p)))
    BY <2>1, <1>e
  <2>3. SameKinds /\ GenuineChan'
    BY <1>d, <2>1, <2>2
  <2>. QED BY <1>17, <1>a, <2>3 DEF RefuseSubscribe
<1>28. ASSUME NEW p \in Peers, AcceptClosed(p) PROVE Provenance'
  <2>1. Arrives(p, Kinds) /\ Answer(p, Head(chan[p]), <<Reply(Head(chan[p]), "success")>>)
    BY <1>28 DEF AcceptClosed, Arrives, Kinds
  <2>2. <<Reply(Head(chan[p]), "success")>> \in Seq(Message)
        /\ <<Reply(Head(chan[p]), "success")>> \in Seq(Genuine(Other(p)))
    BY <2>1, <1>e
  <2>3. SameKinds /\ GenuineChan'
    BY <1>d, <2>1, <2>2
  <2>. QED BY <1>28, <1>a, <2>3 DEF AcceptClosed
(* A request that is consumed now and answered by SendReply.                *)
<1>f. ASSUME NEW p \in Peers, Arrives(p, Kinds), Consume(p),
             replying' = [replying EXCEPT ![p] = {Reply(Head(chan[p]), "success")}],
             calls' = SetFate(calls, Other(p), Head(chan[p]).serial, "served")
      PROVE  SameKinds /\ GenuineChan' /\ GenuineReplies'
  <2>. DEFINE r == Reply(Head(chan[p]), "success")
  <2>1. /\ chan[p] # <<>> /\ Head(chan[p]).serial \in Serials /\ Other(p) \in Peers
        /\ r \in Genuine(Other(p))
    BY <1>e, <1>f
  <2>2. SameKinds
    BY <1>0, <1>f, <2>1, SetFateSame DEF Fates
  <2>3. KindsKept
    BY <2>2 DEF SameKinds, KindsKept
  <2>4. GenuineChan'
    BY <1>f, <2>1, <2>3, ConsumeGenuine
  <2>5. r \in Genuine(Other(p))'
    BY <1>0, <2>1, <2>3, GenuineGrows
  <2>6. \A q \in Peers : replying[q] \subseteq Genuine(Other(q))'
    BY <2>3, GenuineFrame
  <2>7. replying' = [replying EXCEPT ![p] = {r}]
    BY <1>f
  <2>. HIDE DEF r
  <2>8. \A q \in Peers : replying'[q] \subseteq Genuine(Other(q))'
    BY <1>0, <2>5, <2>6, <2>7 DEF TypeOK
  <2>. QED BY <2>2, <2>4, <2>8 DEF GenuineReplies
<1>18. ASSUME NEW p \in Peers, AcceptSubscribe(p) PROVE Provenance'
  <2>1. SameKinds /\ GenuineChan' /\ GenuineReplies'
    BY <1>18, <1>f DEF AcceptSubscribe, Arrives, Kinds
  <2>. QED BY <1>18, <1>a, <2>1 DEF AcceptSubscribe
<1>19. ASSUME NEW p \in Peers, DiscardSubscribe(p) PROVE Provenance'
  <2>. DEFINE m == Head(chan[p])  u == Msg("notification", m.op, m.serial, "aborted")
              r == Reply(m, "success")
  <2>1. Arrives(p, Kinds) /\ Answer(p, m, <<u, r>>)
    BY <1>19 DEF DiscardSubscribe, Arrives, Kinds
  <2>2. r \in Message /\ r \in Genuine(Other(p)) /\ m.op \in Opcodes /\ m.serial \in Serials
        /\ Other(p) \in Peers
    BY <2>1, <1>e
  <2>3. u \in Message /\ u \in Genuine(Other(p))
    BY <2>2, MsgType, NotificationGenuine
  <2>. HIDE DEF u, r
  <2>4. <<u, r>> \in Seq(Message) /\ <<u, r>> \in Seq(Genuine(Other(p)))
    BY <2>2, <2>3
  <2>5. SameKinds /\ GenuineChan'
    BY <1>d, <2>1, <2>4
  <2>. QED BY <1>19, <1>a, <2>5 DEF DiscardSubscribe
<1>20. ASSUME NEW p \in Peers, ReceiveUnsubscribe(p) PROVE Provenance'
  <2>1. SameKinds /\ GenuineChan' /\ GenuineReplies'
    BY <1>20, <1>f DEF ReceiveUnsubscribe, Arrives, Kinds
  <2>. QED BY <1>20, <1>a, <2>1 DEF ReceiveUnsubscribe
<1>21. ASSUME NEW p \in Peers, SendReply(p) PROVE Provenance'
  <2>1. PICK m \in replying[p] :
          /\ replying' = [replying EXCEPT ![p] = {}]
          /\ Wire(p, <<m>>)
          /\ calls' = SetFate(calls, Other(p), m.serial, Unless(Reaches(p), "served"))
    BY <1>21 DEF SendReply
  <2>2. m \in Message /\ m.serial \in Serials /\ Other(p) \in Peers
    BY <1>0, OtherPeer DEF TypeOK, Message
  <2>3. SameKinds
    <3>1. Unless(Reaches(p), "served") \in Fates
      BY UnlessType DEF Fates, Reaches
    <3>. QED BY <1>0, <2>1, <2>2, <3>1, SetFateSame
  <2>4. KindsKept
    BY <2>3 DEF SameKinds, KindsKept
  <2>5. m \in Genuine(Other(p))'
    BY <2>4, GenuineFrame
  <2>6. GenuineChan'
    BY <2>1, <2>2, <2>4, <2>5, WireGenuine
  <2>7. \A q \in Peers : replying'[q] \subseteq Genuine(Other(q))'
    BY <1>0, <2>1, <2>4, GenuineFrame DEF TypeOK
  <2>8. GenuineReplies'
    BY <2>7 DEF GenuineReplies
  <2>. QED BY <1>21, <1>a, <2>3, <2>6, <2>8 DEF SendReply
<1>22. ASSUME NEW p \in Peers, DropResponse(p) PROVE Provenance'
  <2>1. SameKinds
    BY <1>0, <1>22, HeadType, SetFateSame DEF DropResponse, Arrives, Fates
  <2>2. GenuineChan'
    BY <1>22, <2>1, ConsumeGenuine DEF DropResponse, Arrives, SameKinds, KindsKept
  <2>. QED BY <1>22, <1>a, <2>1, <2>2 DEF DropResponse
(* A response that runs the callback of entry r.                            *)
<1>g. ASSUME NEW p \in Peers, NEW r \in outstanding[p], Completes(p, Head(chan[p]), r),
             outstanding' = [outstanding EXCEPT ![p] = @ \ {r}],
             calls' = SetFate(calls, p, r.serial, "answered")
      PROVE  SameKinds /\ GenuineChan' /\ GenuineEntries'
  <2>1. r.serial \in Serials
    BY <1>0 DEF TypeOK, Outstanding
  <2>2. SameKinds
    BY <1>0, <1>g, <2>1, SetFateSame DEF Fates
  <2>3. KindsKept
    BY <2>2 DEF SameKinds, KindsKept
  <2>4. GenuineChan'
    BY <1>g, <2>3, ConsumeGenuine DEF Completes, Arrives
  <2>5. \A q \in Peers : outstanding'[q] \subseteq outstanding[q]
    BY <1>0, <1>g DEF TypeOK
  <2>6. GenuineEntries'
    BY <2>3, <2>5, GenuineFrame DEF GenuineEntries
  <2>. QED BY <2>2, <2>4, <2>6
<1>23. ASSUME NEW p \in Peers, CompleteCall(p) PROVE Provenance'
  <2>1. SameKinds /\ GenuineChan' /\ GenuineEntries'
    BY <1>23, <1>g DEF CompleteCall
  <2>. QED BY <1>23, <1>a, <2>1 DEF CompleteCall
<1>24. ASSUME NEW p \in Peers, CompleteSubscribe(p) PROVE Provenance'
  <2>1. SameKinds /\ GenuineChan' /\ GenuineEntries'
    BY <1>24, <1>g DEF CompleteSubscribe
  <2>. QED BY <1>24, <1>a, <2>1 DEF CompleteSubscribe
<1>25. ASSUME NEW p \in Peers, DiscardHandle(p) PROVE Provenance'
  <2>. DEFINE m == Head(chan[p])  n == baked[p] + 1
              u == Msg("unsubscribe_request", m.op, n, "success")
              c == [kind |-> u.type, fate |-> Unless(Reaches(p), "issued")]
  <2>1. PICK r \in outstanding[p] :
          /\ Arrives(p, Replies) /\ baked[p] < Budget[p]
          /\ baked' = [baked EXCEPT ![p] = n]
          /\ calls' = [calls EXCEPT ![p][r.serial].fate = "answered", ![p][n] = c]
          /\ outstanding' = [outstanding EXCEPT ![p] = Insert(@ \ {r}, Entry(u))]
          /\ chan' = IF Reaches(p)
                     THEN [chan EXCEPT ![p] = Tail(@), ![Other(p)] = Append(@, u)]
                     ELSE [chan EXCEPT ![p] = Tail(@)]
    BY <1>25 DEF DiscardHandle
  <2>2. chan[p] # <<>> /\ m.op \in Opcodes
    BY <1>0, <2>1, HeadType DEF Arrives
  <2>3. /\ baked \in [Peers -> 0..MaxSerial] /\ MaxSerial \in Nat
        /\ calls \in [Peers -> [Serials -> Call]]
        /\ chan \in [Peers -> Seq(Message)]
        /\ outstanding \in [Peers -> SUBSET Outstanding]
    BY <1>0, BoundsAssumption DEF TypeOK
  <2>4. n \in Serials /\ n > baked[p]
    <3>1. Budget[p] \in 0..MaxSerial
      BY BoundsAssumption
    <3>2. baked[p] \in 0..MaxSerial /\ baked[p] < Budget[p]
      BY <2>1, <2>3
    <3>. QED BY <2>3, <3>1, <3>2 DEF Serials
  <2>5. calls[p][n].kind = "none"
    BY <2>4 DEF Provenance, Fresh
  <2>6. /\ u \in Message /\ u.type = "unsubscribe_request"
        /\ u.serial = n /\ u.cid = Cookie(n) /\ u.type \in Kinds /\ u.type \notin Replies
    BY <2>2, <2>4, MsgType DEF Msg, Kinds, Replies
  <2>7. c.kind = u.type
    OBVIOUS
  <2>8. r.serial \in Serials /\ calls[p][r.serial].kind \in Kinds
    BY <2>3 DEF Outstanding, Provenance, GenuineEntries
  <2>9. r.serial # n
    BY <2>5, <2>8 DEF Kinds
  <2>. HIDE DEF m, n, u, c
  <2>10. /\ \A q \in Peers, k \in Serials :
              (q # p \/ k # n) => calls'[q][k].kind = calls[q][k].kind
         /\ calls'[p][n] = c
    <3>. DEFINE c1 == SetFate(calls, p, r.serial, "answered")
    <3>1. /\ c1 \in [Peers -> [Serials -> Call]]
          /\ \A q \in Peers, k \in Serials : c1[q][k].kind = calls[q][k].kind
      BY <2>3, <2>8, SetFateType, ZenonT(60) DEF Fates
    <3>2. calls' = [c1 EXCEPT ![p][n] = c]
      BY <2>1 DEF SetFate
    <3>. HIDE DEF c1
    <3>. QED BY <2>4, <3>1, <3>2
  <2>11. KindsKept
    BY <2>5, <2>10 DEF KindsKept
  <2>12. Fresh'
    <3>. SUFFICES ASSUME NEW q \in Peers, NEW k \in Serials, k > baked'[q]
                  PROVE  calls'[q][k].kind = "none"
      BY DEF Fresh
    <3>1. k > baked[q] /\ (q = p => k # n)
      BY <2>1, <2>3, <2>4 DEF Serials
    <3>. QED BY <2>10, <3>1 DEF Provenance, Fresh
  <2>13. u \in Genuine(Other(p))'
    <3>1. Other(Other(p)) = p
      BY OtherPeer
    <3>. QED BY <2>6, <2>7, <2>10, <3>1 DEF Genuine
  <2>14. GenuineChan'
    <3>1. \A q \in Peers : chan[q] \in Seq(Genuine(q)')
      BY <2>11, GenuineFrame
    <3>2. Tail(chan[p]) \in Seq(Genuine(p)')
      BY <2>2, <3>1, HeadTailProperties
    <3>3. Append(chan[Other(p)], u) \in Seq(Genuine(Other(p))')
      BY <2>13, <3>1, OtherPeer, AppendProperties
    <3>4. \A q \in Peers : chan'[q] \in Seq(Genuine(q)')
      BY <2>1, <2>3, <3>1, <3>2, <3>3, OtherPeer
    <3>. QED BY <3>4 DEF GenuineChan
  <2>15. GenuineEntries'
    <3>1. /\ Entry(u).cid = Cookie(Entry(u).serial)
          /\ calls'[p][Entry(u).serial].kind = Entry(u).kind
      BY <2>6, <2>7, <2>10 DEF Entry
    <3>. DEFINE e == Entry(u)
    <3>2. \A x \in Insert(outstanding[p] \ {r}, e) : x \in outstanding[p] \/ x = e
      BY DEF Insert
    <3>3. outstanding' = [outstanding EXCEPT ![p] = Insert(@ \ {r}, e)]
      BY <2>1
    <3>. HIDE DEF e
    <3>4. ASSUME NEW q \in Peers, NEW x \in outstanding'[q]
          PROVE  x.cid = Cookie(x.serial) /\ calls'[q][x.serial].kind = x.kind
      <4>1. x \in outstanding[q] \/ (q = p /\ x = e)
        BY <2>3, <3>2, <3>3, <3>4
      <4>2. CASE x \in outstanding[q]
        BY <2>11, <4>2, GenuineFrame
      <4>3. CASE q = p /\ x = e
        BY <3>1, <4>3 DEF e
      <4>. QED BY <4>1, <4>2, <4>3
    <3>. QED BY <3>4 DEF GenuineEntries
  <2>16. GenuineReplies' /\ GenuineHands'
    BY <1>25, <2>11, GenuineFrame DEF DiscardHandle, GenuineReplies, GenuineHands
  <2>. QED BY <1>0, <2>12, <2>14, <2>15, <2>16 DEF Provenance
<1>26. CASE UNCHANGED vars
  BY <1>26, <1>a DEF vars, SameKinds
<1>. QED BY <1>1, <1>2, <1>3, <1>4, <1>5, <1>6, <1>7, <1>8, <1>9, <1>10, <1>11, <1>12,
            <1>13, <1>14, <1>15, <1>16, <1>17, <1>18, <1>19, <1>20, <1>21, <1>22,
            <1>23, <1>24, <1>25, <1>26, <1>27, <1>28
         DEF Next, Receive, Application, Continue

LEMMA ProvenanceInit == Init => Provenance
<1>. SUFFICES ASSUME Init PROVE Provenance
  OBVIOUS
<1>1. TypeOK
  BY TypeInit
<1>2. GenuineChan
  BY DEF Init, GenuineChan
<1>. QED BY <1>1, <1>2 DEF Init, Provenance, Fresh, GenuineReplies, GenuineHands, GenuineEntries

(* Two ids of one round are the same only if they are of one conversation.  *)
LEMMA CookieWindow ==
  ASSUME NEW n \in Nat, NEW k \in Nat, NEW b \in Nat, n <= b, k <= b,
         n + CookieMod > b, k + CookieMod > b, Cookie(n) = Cookie(k)
  PROVE  n = k
<1>. DEFINE C == CookieMod  i == n \div C  j == k \div C
<1>1. C \in Nat /\ C > 0
  BY BoundsAssumption
<1>2. /\ i \in Int /\ j \in Int
      /\ n = C * i + (n % C) /\ k = C * j + (k % C)
  BY <1>1
<1>3. n - k < C /\ k - n < C
  BY <1>1
<1>4. n - k = C * i - C * j
  BY <1>1, <1>2 DEF Cookie
<1>. HIDE DEF i, j, C
<1>5. i = j
  <2>1. CASE i > j
    <3>1. C * i >= C * (j + 1)
      BY <1>1, <1>2, <2>1
    <3>2. C * (j + 1) = C * j + C
      BY <1>1, <1>2
    <3>. QED BY <1>1, <1>2, <1>3, <1>4, <3>1, <3>2
  <2>2. CASE j > i
    <3>1. C * j >= C * (i + 1)
      BY <1>1, <1>2, <2>2
    <3>2. C * (i + 1) = C * i + C
      BY <1>1, <1>2
    <3>. QED BY <1>1, <1>2, <1>3, <1>4, <3>1, <3>2
  <2>. QED BY <1>2, <2>1, <2>2
<1>. QED BY <1>1, <1>2, <1>4, <1>5

(* The entries of p and the responses to it are of conversations p began.   *)
LEMMA SerialsBaked ==
  ASSUME Provenance, NEW p \in Peers
  PROVE  /\ baked[p] \in Nat
         /\ \A r \in outstanding[p] : r.serial \in Nat /\ r.serial <= baked[p]
         /\ chan[p] # <<>> /\ Head(chan[p]).type \in Replies =>
              Head(chan[p]).serial \in Nat /\ Head(chan[p]).serial <= baked[p]
<1>1. baked[p] \in Nat /\ Serials \subseteq Nat
  BY BoundsAssumption DEF Provenance, TypeOK, Serials
<1>2. ASSUME NEW n \in Serials, calls[p][n].kind \in Kinds PROVE n \in Nat /\ n <= baked[p]
  BY <1>1, <1>2 DEF Provenance, Fresh, Kinds
<1>3. \A r \in outstanding[p] : r.serial \in Serials /\ calls[p][r.serial].kind \in Kinds
  BY DEF Provenance, TypeOK, Outstanding, GenuineEntries
<1>4. ASSUME chan[p] # <<>>, Head(chan[p]).type \in Replies
      PROVE  Head(chan[p]).serial \in Serials /\ calls[p][Head(chan[p]).serial].kind \in Kinds
  BY <1>4, HeadGenuine DEF Genuine, Message
<1>. QED BY <1>1, <1>2, <1>3, <1>4

LEMMA ResponseOfCall == Provenance => NoCrossTalk
<1>. SUFFICES ASSUME Provenance, NEW p \in Peers,
                     chan[p] # <<>>, Head(chan[p]).type \in Replies,
                     NEW r \in outstanding[p], r.cid = Head(chan[p]).cid,
                     Recent(p, r.serial), Recent(p, Head(chan[p]).serial)
              PROVE  /\ r.serial = Head(chan[p]).serial
                     /\ Head(chan[p]).type = ReplyType[r.kind]
  BY DEF NoCrossTalk
<1>. DEFINE m == Head(chan[p])
<1>1. m \in Genuine(p)
  BY HeadGenuine
<1>2. /\ baked[p] \in Nat
      /\ m.serial \in Nat /\ m.serial <= baked[p]
      /\ r.serial \in Nat /\ r.serial <= baked[p]
  BY SerialsBaked
<1>3. Cookie(m.serial) = Cookie(r.serial) /\ calls[p][r.serial].kind = r.kind
  BY <1>1 DEF Genuine, Provenance, GenuineEntries
<1>4. m.serial + CookieMod > baked[p] /\ r.serial + CookieMod > baked[p]
  BY DEF Recent
<1>. HIDE DEF m
<1>5. m.serial = r.serial
  BY <1>2, <1>3, <1>4, CookieWindow
<1>. QED BY <1>1, <1>3, <1>5 DEF Genuine, m

(* NoCrossTalk: a response never runs the callback of another call, nor of *)
(* a call of another kind, although all responses are looked up by the id  *)
(* alone and ids are used again, for any number of conversations -- unless *)
(* the entry or the response is older than a whole round of ids.           *)
THEOREM ResponsesFindTheirCall == Spec => []NoCrossTalk
BY ResponseOfCall, ProvenanceInit, ProvenanceNext, PTL DEF Spec

(* As long as no id was handed out twice, nothing is older than a round.   *)
IdsApart ==
  \A p \in Peers : chan[p] # <<>> /\ Head(chan[p]).type \in Replies =>
    \A r \in outstanding[p] : r.cid = Head(chan[p]).cid =>
      r.serial = Head(chan[p]).serial /\ Head(chan[p]).type = ReplyType[r.kind]

LEMMA FewConversations ==
  ASSUME MaxSerial <= CookieMod, TypeOK
  PROVE  Unwrapped
BY BoundsAssumption DEF Unwrapped, TypeOK

LEMMA ResponseOfOnlyCall ==
  ASSUME Unwrapped, Provenance
  PROVE  IdsApart
<1>1. \A p \in Peers, n \in Serials : Recent(p, n)
  BY BoundsAssumption DEF Provenance, TypeOK, Serials, Recent, Unwrapped
<1>2. \A p \in Peers : /\ \A r \in outstanding[p] : r.serial \in Serials
                       /\ chan[p] # <<>> => Head(chan[p]).serial \in Serials
  BY HeadType DEF Provenance, TypeOK, Outstanding
<1>3. NoCrossTalk
  BY ResponseOfCall
<1>. QED BY <1>1, <1>2, <1>3 DEF NoCrossTalk, IdsApart
-----------------------------------------------------------------------------
(* No second answer.  A call is answered by taking its entry away; so what  *)
(* must be shown is that no other entry of the call is there, or on its way *)
(* into the table.                                                          *)

(* Entries differ in their id, which insert sees to, and are of ids baked.  *)
EntriesDiffer ==
  \A p \in Peers : \A r \in outstanding[p] :
    /\ r.serial <= baked[p]
    /\ \A e \in outstanding[p] : e.cid = r.cid => e = r

IsCall(h) == h.msg.type \in Kinds

(* A call whose callback is still to be entered: it is nobody else's.       *)
HandsOpen ==
  \A t \in Threads : \A h \in hand[t] : IsCall(h) =>
    /\ h.msg.serial <= baked[Home[t]]
    /\ calls[Home[t]][h.msg.serial].fate # "answered"
    /\ \A r \in outstanding[Home[t]] : r.serial # h.msg.serial
    /\ \A u \in Threads : \A g \in hand[u] :
         (IsCall(g) /\ Home[u] = Home[t] /\ g.msg.serial = h.msg.serial) => u = t

SettledOnce == EntriesDiffer /\ HandsOpen /\ NoSecondAnswer

(* No call is answered by the step.                                         *)
NoneAnswered ==
  \A p \in Peers, n \in Serials :
    calls'[p][n].fate = "answered" => calls[p][n].fate = "answered"

LEMMA LoseNone ==
  ASSUME TypeOK, NEW gone, LoseCalls(gone)
  PROVE  NoneAnswered
<1>. SUFFICES ASSUME NEW p \in Peers, NEW n \in Serials, calls'[p][n].fate = "answered"
              PROVE  calls[p][n].fate = "answered"
  BY DEF NoneAnswered
<1>. DEFINE lost(q, k) == \E x \in Peers : \E m \in gone[x] :
             m.type # "notification" /\ Caller(x, m) = q /\ m.serial = k
<1>1. calls' = [q \in Peers |-> [k \in Serials |->
                 IF lost(q, k) THEN [calls[q][k] EXCEPT !.fate = "lost"] ELSE calls[q][k]]]
  BY DEF LoseCalls
<1>2. calls[p][n] \in Call
  BY DEF TypeOK
<1>3. [calls[p][n] EXCEPT !.fate = "lost"].fate = "lost"
  BY <1>2 DEF Call
<1>. HIDE DEF lost
<1>4. calls'[p][n] = IF lost(p, n) THEN [calls[p][n] EXCEPT !.fate = "lost"] ELSE calls[p][n]
  BY <1>1
<1>. QED BY <1>3, <1>4

(* What SetFate does to each call.                                          *)
LEMMA SetFateIs ==
  ASSUME TypeOK, NEW p \in Peers, NEW n \in Serials, NEW f,
         calls' = SetFate(calls, p, n, f)
  PROVE  \A q \in Peers, k \in Serials :
           calls'[q][k].fate = IF q = p /\ k = n THEN f ELSE calls[q][k].fate
<1>. SUFFICES ASSUME NEW q \in Peers, NEW k \in Serials
              PROVE  calls'[q][k].fate = IF q = p /\ k = n THEN f ELSE calls[q][k].fate
  OBVIOUS
<1>. DEFINE c == [calls[p][n] EXCEPT !.fate = f]
<1>1. calls[p][n] \in Call
  BY DEF TypeOK
<1>2. c.fate = f
  BY <1>1 DEF Call
<1>. HIDE DEF c
<1>3. calls' = [calls EXCEPT ![p] = [calls[p] EXCEPT ![n] = c]]
  BY DEF SetFate, c
<1>. QED BY <1>2, <1>3 DEF TypeOK

LEMMA SetFateNone ==
  ASSUME TypeOK, NEW p \in Peers, NEW n \in Serials, NEW f, f # "answered",
         calls' = SetFate(calls, p, n, f)
  PROVE  NoneAnswered
BY SetFateIs DEF NoneAnswered

(* The sections that end in a reply or a loss.                              *)
LEMMA UnlessNone ==
  ASSUME NEW ok \in BOOLEAN, NEW f \in {"issued", "served"}
  PROVE  Unless(ok, f) # "answered"
BY DEF Unless

LEMMA SettledFrame ==
  ASSUME TypeOK, SettledOnce, NoneAnswered, UNCHANGED <<baked, outstanding, hand>>
  PROVE  SettledOnce'
<1>1. \A p \in Peers : \A r \in outstanding[p] : r.serial \in Serials
  BY DEF TypeOK, Outstanding
<1>2. \A t \in Threads : \A h \in hand[t] : Home[t] \in Peers /\ h.msg.serial \in Serials
  BY ThreadsAssumption DEF TypeOK, Hand, Message
<1>3. EntriesDiffer'
  BY DEF SettledOnce, EntriesDiffer
<1>4. HandsOpen'
  BY <1>2 DEF SettledOnce, HandsOpen, IsCall, NoneAnswered
<1>5. NoSecondAnswer'
  BY <1>1 DEF SettledOnce, NoSecondAnswer, NoneAnswered
<1>. QED BY <1>3, <1>4, <1>5 DEF SettledOnce

(* A thread whose hand is emptied, or filled with a notification.           *)
LEMMA SettledHand ==
  ASSUME TypeOK, SettledOnce, NEW t \in Threads, NEW H, \A h \in H : ~IsCall(h),
         hand' = [hand EXCEPT ![t] = H], UNCHANGED <<baked, calls, outstanding>>
  PROVE  SettledOnce'
<1>1. \A u \in Threads : hand'[u] = IF u = t THEN H ELSE hand[u]
  BY DEF TypeOK
<1>2. EntriesDiffer' /\ NoSecondAnswer'
  BY DEF SettledOnce, EntriesDiffer, NoSecondAnswer
<1>3. HandsOpen'
  BY <1>1 DEF SettledOnce, HandsOpen, IsCall
<1>. QED BY <1>2, <1>3 DEF SettledOnce

LEMMA SettledBake ==
  ASSUME TypeOK, SettledOnce, NEW t \in Threads, NEW type \in Kinds, NEW op \in Opcodes,
         Bake(t, type, op), UNCHANGED outstanding
  PROVE  SettledOnce'
<1>. DEFINE p == Home[t]  n == baked[p] + 1
            new == [at |-> "send", msg |-> Msg(type, op, n, "success")]
<1>1. p \in Peers /\ n \in Serials
  BY BakeType
<1>2. /\ baked' = [baked EXCEPT ![p] = n]
      /\ calls' = [calls EXCEPT ![p][n] = [kind |-> type, fate |-> "issued"]]
      /\ hand' = [hand EXCEPT ![t] = {new}]
  BY DEF Bake
<1>3. /\ baked \in [Peers -> Nat]
      /\ calls \in [Peers -> [Serials -> Call]]
      /\ hand \in [Threads -> SUBSET Hand]
  BY BoundsAssumption DEF TypeOK
<1>4. new.msg.serial = n
  BY DEF Msg
<1>5. \A q \in Peers : \A r \in outstanding[q] :
         r.serial \in Serials /\ r.serial \in Int /\ (q = p => r.serial # n)
  BY <1>1, <1>3 DEF TypeOK, Outstanding, SettledOnce, EntriesDiffer, Serials
<1>6. \A u \in Threads : \A h \in hand[u] :
         /\ Home[u] \in Peers /\ h.msg.serial \in Serials /\ h.msg.serial \in Int
         /\ (IsCall(h) /\ Home[u] = p) => h.msg.serial # n
  <2>. SUFFICES ASSUME NEW u \in Threads, NEW h \in hand[u]
                PROVE  /\ Home[u] \in Peers /\ h.msg.serial \in Serials /\ h.msg.serial \in Int
                       /\ (IsCall(h) /\ Home[u] = p) => h.msg.serial # n
    OBVIOUS
  <2>1. Home[u] \in Peers
    BY ThreadsAssumption
  <2>2. h.msg.serial \in Serials
    BY <1>3 DEF Hand, Message
  <2>3. IsCall(h) => h.msg.serial <= baked[Home[u]]
    BY DEF SettledOnce, HandsOpen
  <2>. QED BY <1>1, <1>3, <2>1, <2>2, <2>3 DEF Serials
<1>. HIDE DEF p, n, new
<1>7. baked'[p] = n /\ n = baked[p] + 1 /\ \A q \in Peers : q # p => baked'[q] = baked[q]
  BY <1>1, <1>2, <1>3 DEF n
<1>8. \A q \in Peers : baked[q] <= baked'[q] /\ baked[q] \in Nat /\ baked'[q] \in Nat
  BY <1>1, <1>3, <1>7
<1>9. \A q \in Peers, k \in Serials : calls'[q][k].fate =
         IF q = p /\ k = n THEN "issued" ELSE calls[q][k].fate
  <2>. DEFINE c == [kind |-> type, fate |-> "issued"]
  <2>1. c.fate = "issued"
    OBVIOUS
  <2>. HIDE DEF c
  <2>2. calls' = [calls EXCEPT ![p] = [calls[p] EXCEPT ![n] = c]]
    BY <1>2 DEF c
  <2>. QED BY <1>1, <1>3, <2>1, <2>2
<1>10. \A u \in Threads : hand'[u] = IF u = t THEN {new} ELSE hand[u]
  BY <1>2, <1>3
<1>11. EntriesDiffer'
  <2>. SUFFICES ASSUME NEW q \in Peers, NEW r \in outstanding[q]
                PROVE  /\ r.serial <= baked'[q]
                       /\ \A e \in outstanding[q] : e.cid = r.cid => e = r
    BY DEF EntriesDiffer
  <2>1. /\ r.serial <= baked[q]
        /\ \A e \in outstanding[q] : e.cid = r.cid => e = r
    BY DEF SettledOnce, EntriesDiffer
  <2>. QED BY <2>1, <1>5, <1>8
<1>12. NoSecondAnswer'
  BY <1>5, <1>9 DEF SettledOnce, NoSecondAnswer
<1>13. HandsOpen'
  <2>. SUFFICES ASSUME NEW u \in Threads, NEW h \in hand'[u], IsCall(h)
                PROVE  /\ h.msg.serial <= baked'[Home[u]]
                       /\ calls'[Home[u]][h.msg.serial].fate # "answered"
                       /\ \A r \in outstanding[Home[u]] : r.serial # h.msg.serial
                       /\ \A v \in Threads : \A g \in hand'[v] :
                            (IsCall(g) /\ Home[v] = Home[u] /\ g.msg.serial = h.msg.serial)
                              => v = u
    BY DEF HandsOpen, IsCall
  <2>1. CASE u = t
    <3>1. h = new /\ Home[u] = p /\ h.msg.serial = n
      BY <2>1, <1>4, <1>10 DEF p
    <3>2. n <= baked'[p]
      BY <1>1, <1>7, <1>8
    <3>3. calls'[p][n].fate # "answered"
      BY <1>1, <1>9
    <3>4. ASSUME NEW v \in Threads, NEW g \in hand'[v],
                 IsCall(g), Home[v] = p, g.msg.serial = n
          PROVE  v = t
      <4>1. CASE v # t
        <5>1. g \in hand[v]
          BY <4>1, <1>10
        <5>. QED BY <5>1, <3>4, <1>6
      <4>. QED BY <4>1
    <3>. QED BY <2>1, <3>1, <3>2, <3>3, <3>4, <1>1, <1>5
  <2>2. CASE u # t
    <3>1. h \in hand[u]
      BY <2>2, <1>10
    <3>2. /\ Home[u] \in Peers /\ h.msg.serial \in Serials /\ h.msg.serial \in Int
          /\ Home[u] = p => h.msg.serial # n
      BY <3>1, <1>6
    <3>3. /\ h.msg.serial <= baked[Home[u]]
          /\ calls[Home[u]][h.msg.serial].fate # "answered"
          /\ \A r \in outstanding[Home[u]] : r.serial # h.msg.serial
          /\ \A v \in Threads : \A g \in hand[v] :
               (IsCall(g) /\ Home[v] = Home[u] /\ g.msg.serial = h.msg.serial) => v = u
      BY <3>1 DEF SettledOnce, HandsOpen
    <3>4. h.msg.serial <= baked'[Home[u]]
      BY <3>2, <3>3, <1>8
    <3>5. calls'[Home[u]][h.msg.serial].fate # "answered"
      BY <3>2, <3>3, <1>9
    <3>6. ASSUME NEW v \in Threads, NEW g \in hand'[v],
                 IsCall(g), Home[v] = Home[u], g.msg.serial = h.msg.serial
          PROVE  v = u
      <4>1. CASE v = t
        <5>1. g.msg.serial = n /\ Home[v] = p
          BY <4>1, <1>4, <1>10 DEF p
        <5>. QED BY <5>1, <3>2, <3>6
      <4>2. CASE v # t
        <5>1. g \in hand[v]
          BY <4>2, <1>10
        <5>. QED BY <5>1, <3>3, <3>6
      <4>. QED BY <4>1, <4>2
    <3>. QED BY <3>3, <3>4, <3>5, <3>6
  <2>. QED BY <2>1, <2>2
<1>. QED BY <1>11, <1>12, <1>13 DEF SettledOnce

(* The callback enters the table, unless its id is in use there.            *)
LEMMA SettledRegister ==
  ASSUME TypeOK, SettledOnce, NEW t \in Threads, Register(t)
  PROVE  SettledOnce'
<1>. DEFINE p == Home[t]
<1>1. PICK h \in hand[t] :
        /\ h.at = "insert"
        /\ outstanding' = [outstanding EXCEPT ![p] = Insert(@, Entry(h.msg))]
        /\ hand' = [hand EXCEPT ![t] = {}]
        /\ UNCHANGED <<baked, calls>>
  BY DEF Register
<1>. DEFINE e == Entry(h.msg)
<1>2. p \in Peers /\ IsCall(h)
  <2>1. h \in Hand
    BY DEF TypeOK
  <2>2. \A x \in [at : {"send"}, msg : Message] : x.at = "send"
    OBVIOUS
  <2>3. h \in [at : {"insert"}, msg : {m \in Message : m.type \in Kinds}]
    BY <1>1, <2>1, <2>2 DEF Hand
  <2>4. h.msg \in {m \in Message : m.type \in Kinds}
    BY <2>3
  <2>. QED BY <2>4, ThreadsAssumption DEF IsCall
<1>3. e.serial = h.msg.serial
  BY DEF Entry
<1>4. /\ e.serial <= baked[p] /\ calls[p][e.serial].fate # "answered"
      /\ \A u \in Threads : \A g \in hand[u] :
           (IsCall(g) /\ Home[u] = p /\ g.msg.serial = e.serial) => u = t
  BY <1>2, <1>3 DEF SettledOnce, HandsOpen
<1>. HIDE DEF p, e
<1>5. \A q \in Peers : q # p => outstanding'[q] = outstanding[q]
  BY <1>1, <1>2 DEF TypeOK
<1>6. outstanding'[p] = Insert(outstanding[p], e)
  BY <1>1, <1>2 DEF TypeOK, e
<1>7. \A u \in Threads : hand'[u] = IF u = t THEN {} ELSE hand[u]
  BY <1>1 DEF TypeOK
<1>8. /\ \A r \in outstanding'[p] : r \in outstanding[p] \/ r = e
      /\ e \in outstanding'[p] /\ e \notin outstanding[p] =>
           \A r \in outstanding[p] : r.cid # e.cid
  BY <1>6 DEF Insert
<1>9. EntriesDiffer'
  <2>. SUFFICES ASSUME NEW q \in Peers, NEW r \in outstanding'[q]
                PROVE  /\ r.serial <= baked[q]
                       /\ \A x \in outstanding'[q] : x.cid = r.cid => x = r
    BY <1>1 DEF EntriesDiffer
  <2>1. CASE q = p
    BY <2>1, <1>4, <1>8 DEF SettledOnce, EntriesDiffer
  <2>2. CASE q # p
    BY <2>2, <1>5 DEF SettledOnce, EntriesDiffer
  <2>. QED BY <2>1, <2>2
<1>10. NoSecondAnswer'
  <2>. SUFFICES ASSUME NEW q \in Peers, NEW r \in outstanding'[q]
                PROVE  calls[q][r.serial].fate # "answered"
    BY <1>1 DEF NoSecondAnswer
  <2>1. CASE q = p
    BY <2>1, <1>4, <1>8 DEF SettledOnce, NoSecondAnswer
  <2>2. CASE q # p
    BY <2>2, <1>5 DEF SettledOnce, NoSecondAnswer
  <2>. QED BY <2>1, <2>2
<1>11. HandsOpen'
  <2>. SUFFICES ASSUME NEW u \in Threads, NEW g \in hand'[u], IsCall(g)
                PROVE  /\ g.msg.serial <= baked[Home[u]]
                       /\ calls[Home[u]][g.msg.serial].fate # "answered"
                       /\ \A r \in outstanding'[Home[u]] : r.serial # g.msg.serial
                       /\ \A v \in Threads : \A x \in hand'[v] :
                            (IsCall(x) /\ Home[v] = Home[u] /\ x.msg.serial = g.msg.serial)
                              => v = u
    BY <1>1 DEF HandsOpen, IsCall
  <2>1. u # t /\ g \in hand[u] /\ Home[u] \in Peers
    BY <1>7, ThreadsAssumption
  <2>2. /\ g.msg.serial <= baked[Home[u]]
        /\ calls[Home[u]][g.msg.serial].fate # "answered"
        /\ \A r \in outstanding[Home[u]] : r.serial # g.msg.serial
        /\ \A v \in Threads : \A x \in hand[v] :
             (IsCall(x) /\ Home[v] = Home[u] /\ x.msg.serial = g.msg.serial) => v = u
    BY <2>1 DEF SettledOnce, HandsOpen
  <2>3. \A r \in outstanding'[Home[u]] : r.serial # g.msg.serial
    <3>1. CASE Home[u] = p
      BY <3>1, <2>1, <2>2, <1>4, <1>8
    <3>2. CASE Home[u] # p
      BY <3>2, <2>1, <2>2, <1>5
    <3>. QED BY <3>1, <3>2
  <2>. QED BY <2>2, <2>3, <1>7
<1>. QED BY <1>9, <1>10, <1>11 DEF SettledOnce

(* Other entries, and calls that are still to be entered, are of another    *)
(* conversation than the one that is answered.                              *)
LEMMA OthersOpen ==
  ASSUME Provenance, SettledOnce, NEW p \in Peers, NEW r \in outstanding[p]
  PROVE  /\ \A e \in outstanding[p] \ {r} : e.serial # r.serial
         /\ \A t \in Threads : \A h \in hand[t] :
              IsCall(h) /\ Home[t] = p => h.msg.serial # r.serial
<1>1. \A e \in outstanding[p] : e.serial = r.serial => e.cid = r.cid
  BY DEF Provenance, GenuineEntries
<1>. QED BY <1>1 DEF SettledOnce, EntriesDiffer, HandsOpen

LEMMA SettledAnswer ==
  ASSUME Provenance, SettledOnce, NEW p \in Peers, NEW r \in outstanding[p],
         outstanding' = [outstanding EXCEPT ![p] = @ \ {r}],
         calls' = SetFate(calls, p, r.serial, "answered"), UNCHANGED <<baked, hand>>
  PROVE  SettledOnce'
<1>0. TypeOK
  BY DEF Provenance
<1>1. /\ \A q \in Peers : outstanding'[q] \subseteq outstanding[q]
      /\ outstanding'[p] = outstanding[p] \ {r}
  BY <1>0 DEF TypeOK
<1>2. \A q \in Peers : \A e \in outstanding[q] : e.serial \in Serials
  BY <1>0 DEF TypeOK, Outstanding
<1>3. \A q \in Peers, k \in Serials :
         calls'[q][k].fate = IF q = p /\ k = r.serial THEN "answered" ELSE calls[q][k].fate
  BY <1>0, <1>2, SetFateIs
<1>4. \A t \in Threads : \A h \in hand[t] : Home[t] \in Peers /\ h.msg.serial \in Serials
  BY <1>0, ThreadsAssumption DEF TypeOK, Hand, Message
<1>5. EntriesDiffer'
  BY <1>1 DEF SettledOnce, EntriesDiffer
<1>6. NoSecondAnswer'
  <2>. SUFFICES ASSUME NEW q \in Peers, NEW e \in outstanding'[q]
                PROVE  calls'[q][e.serial].fate # "answered"
    BY DEF NoSecondAnswer
  <2>1. e \in outstanding[q] /\ calls[q][e.serial].fate # "answered"
    BY <1>1 DEF SettledOnce, NoSecondAnswer
  <2>2. q = p => e.serial # r.serial
    BY <1>1, OthersOpen
  <2>. QED BY <2>1, <2>2, <1>2, <1>3
<1>7. HandsOpen'
  <2>. SUFFICES ASSUME NEW t \in Threads, NEW h \in hand[t], IsCall(h)
                PROVE  /\ h.msg.serial <= baked[Home[t]]
                       /\ calls'[Home[t]][h.msg.serial].fate # "answered"
                       /\ \A e \in outstanding'[Home[t]] : e.serial # h.msg.serial
                       /\ \A u \in Threads : \A g \in hand[u] :
                            (IsCall(g) /\ Home[u] = Home[t] /\ g.msg.serial = h.msg.serial)
                              => u = t
    BY DEF HandsOpen, IsCall
  <2>1. Home[t] = p => h.msg.serial # r.serial
    BY OthersOpen
  <2>2. calls'[Home[t]][h.msg.serial].fate = calls[Home[t]][h.msg.serial].fate
    BY <2>1, <1>3, <1>4
  <2>. QED BY <2>2, <1>1, <1>4 DEF SettledOnce, HandsOpen
<1>. QED BY <1>5, <1>6, <1>7 DEF SettledOnce

(* A handle that is dropped in its callback: one call is answered, another  *)
(* is baked, sent and entered.                                              *)
LEMMA SettledDiscard ==
  ASSUME Provenance, SettledOnce, NEW p \in Peers, DiscardHandle(p)
  PROVE  SettledOnce'
<1>. DEFINE m == Head(chan[p])  n == baked[p] + 1
            u == Msg("unsubscribe_request", m.op, n, "success")
            c == [kind |-> u.type, fate |-> Unless(Reaches(p), "issued")]
            e == Entry(u)
<1>0. TypeOK
  BY DEF Provenance
<1>1. PICK r \in outstanding[p] :
        /\ baked[p] < Budget[p]
        /\ baked' = [baked EXCEPT ![p] = n]
        /\ calls' = [calls EXCEPT ![p][r.serial].fate = "answered", ![p][n] = c]
        /\ outstanding' = [outstanding EXCEPT ![p] = Insert(@ \ {r}, e)]
        /\ hand' = hand
  BY DEF DiscardHandle
<1>2. n \in Serials /\ n = baked[p] + 1
  <2>1. baked[p] \in 0..MaxSerial /\ Budget[p] \in 0..MaxSerial /\ MaxSerial \in Nat
    BY <1>0, BoundsAssumption DEF TypeOK
  <2>. QED BY <1>1, <2>1 DEF Serials
<1>3. e.serial = n
  BY DEF Entry, Msg
<1>4. c.fate # "answered"
  BY DEF Unless
<1>. HIDE DEF m, n, u, c, e
<1>5. /\ \A q \in Peers : \A x \in outstanding[q] : x.serial \in Serials /\ x.serial \in Int
      /\ \A t \in Threads : \A h \in hand[t] :
           Home[t] \in Peers /\ h.msg.serial \in Serials /\ h.msg.serial \in Int
      /\ baked \in [Peers -> Nat]
  BY <1>0, ThreadsAssumption, BoundsAssumption DEF TypeOK, Outstanding, Hand, Message, Serials
<1>6. /\ \A x \in outstanding[p] : x.serial # n
      /\ \A t \in Threads : \A h \in hand[t] : IsCall(h) /\ Home[t] = p => h.msg.serial # n
  BY <1>2, <1>5 DEF SettledOnce, EntriesDiffer, HandsOpen
<1>7. \A q \in Peers, k \in Serials : calls'[q][k].fate =
         IF q = p /\ k = n THEN c.fate
         ELSE IF q = p /\ k = r.serial THEN "answered" ELSE calls[q][k].fate
  <2>. DEFINE c1 == SetFate(calls, p, r.serial, "answered")
              a == [calls[p][r.serial] EXCEPT !.fate = "answered"]
  <2>1. a.fate = "answered"
    BY <1>0, <1>5 DEF TypeOK, Call
  <2>. HIDE DEF a
  <2>2. c1 = [calls EXCEPT ![p] = [calls[p] EXCEPT ![r.serial] = a]]
    BY DEF SetFate, a
  <2>3. calls' = [c1 EXCEPT ![p] = [c1[p] EXCEPT ![n] = c]]
    BY <1>1 DEF SetFate
  <2>4. calls \in [Peers -> [Serials -> Call]]
    BY <1>0 DEF TypeOK
  <2>. HIDE DEF c1
  <2>5. \A q \in Peers, k \in Serials : c1[q][k] =
           IF q = p /\ k = r.serial THEN a ELSE calls[q][k]
    BY <1>5, <2>2, <2>4
  <2>6. c1 \in [Peers -> [Serials -> Call \cup {a}]]
    BY <1>5, <2>2, <2>4
  <2>7. \A q \in Peers, k \in Serials : calls'[q][k] = IF q = p /\ k = n THEN c ELSE c1[q][k]
    BY <1>2, <2>3, <2>6
  <2>. QED BY <2>1, <2>5, <2>7
<1>8. /\ \A q \in Peers : q # p => outstanding'[q] = outstanding[q]
      /\ outstanding'[p] = Insert(outstanding[p] \ {r}, e)
  BY <1>0, <1>1 DEF TypeOK
<1>9. /\ \A x \in outstanding'[p] : x \in outstanding[p] \ {r} \/ x = e
      /\ e \in outstanding'[p] => \A x \in outstanding[p] \ {r} : x = e \/ x.cid # e.cid
  BY <1>3, <1>6, <1>8 DEF Insert
<1>10. /\ \A q \in Peers : baked[q] <= baked'[q] /\ baked[q] \in Nat /\ baked'[q] \in Nat
       /\ n <= baked'[p]
  BY <1>1, <1>2, <1>5
<1>11. EntriesDiffer'
  <2>. SUFFICES ASSUME NEW q \in Peers, NEW x \in outstanding'[q]
                PROVE  /\ x.serial <= baked'[q]
                       /\ \A y \in outstanding'[q] : y.cid = x.cid => y = x
    BY DEF EntriesDiffer
  <2>1. \A y \in outstanding[q] :
           /\ y.serial <= baked'[q]
           /\ \A z \in outstanding[q] : z.cid = y.cid => z = y
    BY <1>5, <1>10 DEF SettledOnce, EntriesDiffer
  <2>2. CASE q = p
    BY <2>1, <2>2, <1>3, <1>9, <1>10
  <2>3. CASE q # p
    BY <2>1, <2>3, <1>8
  <2>. QED BY <2>2, <2>3
<1>12. NoSecondAnswer'
  <2>. SUFFICES ASSUME NEW q \in Peers, NEW x \in outstanding'[q]
                PROVE  calls'[q][x.serial].fate # "answered"
    BY DEF NoSecondAnswer
  <2>1. CASE q = p /\ x = e
    BY <2>1, <1>2, <1>3, <1>4, <1>7
  <2>2. CASE q = p /\ x # e
    <3>1. x \in outstanding[p] \ {r}
      BY <2>2, <1>9
    <3>2. x.serial # r.serial /\ x.serial # n /\ x.serial \in Serials
      BY <3>1, <1>5, <1>6, OthersOpen
    <3>. QED BY <2>2, <3>1, <3>2, <1>7 DEF SettledOnce, NoSecondAnswer
  <2>3. CASE q # p
    BY <2>3, <1>5, <1>7, <1>8 DEF SettledOnce, NoSecondAnswer
  <2>. QED BY <2>1, <2>2, <2>3
<1>13. HandsOpen'
  <2>. SUFFICES ASSUME NEW t \in Threads, NEW h \in hand[t], IsCall(h)
                PROVE  /\ h.msg.serial <= baked'[Home[t]]
                       /\ calls'[Home[t]][h.msg.serial].fate # "answered"
                       /\ \A x \in outstanding'[Home[t]] : x.serial # h.msg.serial
                       /\ \A v \in Threads : \A g \in hand[v] :
                            (IsCall(g) /\ Home[v] = Home[t] /\ g.msg.serial = h.msg.serial)
                              => v = t
    BY <1>1 DEF HandsOpen, IsCall
  <2>1. /\ Home[t] \in Peers /\ h.msg.serial \in Serials /\ h.msg.serial \in Int
        /\ Home[t] = p => h.msg.serial # n /\ h.msg.serial # r.serial
    BY <1>5, <1>6, OthersOpen
  <2>2. /\ h.msg.serial <= baked[Home[t]]
        /\ calls[Home[t]][h.msg.serial].fate # "answered"
        /\ \A x \in outstanding[Home[t]] : x.serial # h.msg.serial
        /\ \A v \in Threads : \A g \in hand[v] :
             (IsCall(g) /\ Home[v] = Home[t] /\ g.msg.serial = h.msg.serial) => v = t
    BY DEF SettledOnce, HandsOpen
  <2>3. h.msg.serial <= baked'[Home[t]]
    BY <2>1, <2>2, <1>10
  <2>4. calls'[Home[t]][h.msg.serial].fate # "answered"
    BY <2>1, <2>2, <1>7
  <2>5. \A x \in outstanding'[Home[t]] : x.serial # h.msg.serial
    BY <2>1, <2>2, <1>3, <1>8, <1>9
  <2>. QED BY <2>2, <2>3, <2>4, <2>5
<1>. QED BY <1>11, <1>12, <1>13 DEF SettledOnce

LEMMA SettledNext == Provenance /\ SettledOnce /\ [Next]_vars => SettledOnce'
<1>. SUFFICES ASSUME Provenance, SettledOnce, [Next]_vars PROVE SettledOnce'
  OBVIOUS
<1>0. TypeOK
  BY DEF Provenance
<1>a. ASSUME UNCHANGED <<baked, outstanding, hand>>, NoneAnswered PROVE SettledOnce'
  BY <1>0, <1>a, SettledFrame
<1>b. ASSUME UNCHANGED calls PROVE NoneAnswered
  BY <1>b DEF NoneAnswered
(* A message that is handled and answered in one section.                   *)
<1>c. ASSUME NEW p \in Peers, chan[p] # <<>>, NEW ms, Answer(p, Head(chan[p]), ms),
             UNCHANGED <<baked, outstanding, hand>>
      PROVE  SettledOnce'
  <2>1. Other(p) \in Peers /\ Head(chan[p]).serial \in Serials
    BY <1>0, <1>c, HeadType, OtherPeer
  <2>2. Unless(Reaches(p), "served") # "answered"
    BY UnlessNone DEF Reaches
  <2>3. calls' = SetFate(calls, Other(p), Head(chan[p]).serial, Unless(Reaches(p), "served"))
    BY <1>c DEF Answer
  <2>. QED BY <1>0, <1>a, <1>c, <2>1, <2>2, <2>3, SetFateNone
<1>1. ASSUME NEW p \in Peers, StartConnection(p) PROVE SettledOnce'
  BY <1>1, <1>a, <1>b DEF StartConnection
<1>2. ASSUME NEW p \in Peers, Listen(p) PROVE SettledOnce'
  BY <1>2, <1>a, <1>b DEF Listen
<1>3. ASSUME NEW p \in Peers, Stop(p) PROVE SettledOnce'
  BY <1>0, <1>3, <1>a, LoseNone DEF Stop
<1>4. ASSUME NEW p \in Peers, HangUp(p) PROVE SettledOnce'
  BY <1>4, <1>a, <1>b DEF HangUp
<1>5. ASSUME NEW t \in Threads, NEW op \in Opcodes, Request(t, op) PROVE SettledOnce'
  BY <1>0, <1>5, SettledBake DEF Request, Kinds
<1>6. ASSUME NEW t \in Threads, NEW op \in Opcodes, Subscribe(t, op) PROVE SettledOnce'
  BY <1>0, <1>6, SettledBake DEF Subscribe, Kinds
<1>7. ASSUME NEW t \in Threads, NEW h \in handles[Home[t]], NEW dropped \in BOOLEAN,
             Unsubscribe(t, h, dropped)
      PROVE  SettledOnce'
  <2>1. h.op \in Opcodes
    BY <1>0, ThreadsAssumption DEF TypeOK, Handle
  <2>. QED BY <1>0, <1>7, <2>1, SettledBake DEF Unsubscribe, Kinds
<1>8. ASSUME NEW t \in Threads, SendCall(t) PROVE SettledOnce'
  <2>. DEFINE p == Home[t]
  <2>1. PICK h \in hand[t] :
          /\ h.msg.type \in Kinds
          /\ calls' = SetFate(calls, p, h.msg.serial, Unless(Reaches(p), "issued"))
          /\ hand' = [hand EXCEPT ![t] = {[at |-> "insert", msg |-> h.msg]}]
          /\ UNCHANGED <<baked, outstanding>>
    BY <1>8 DEF SendCall
  <2>. DEFINE new == [at |-> "insert", msg |-> h.msg]
  <2>2. p \in Peers /\ h.msg.serial \in Serials
    BY <1>0, ThreadsAssumption DEF TypeOK, Hand, Message
  <2>3. Unless(Reaches(p), "issued") # "answered"
    BY UnlessNone DEF Reaches
  <2>4. NoneAnswered
    BY <1>0, <2>1, <2>2, <2>3, SetFateNone
  <2>5. new.msg = h.msg
    OBVIOUS
  <2>. HIDE DEF new
  <2>6. hand' = [hand EXCEPT ![t] = {new}]
    BY <2>1 DEF new
  <2>. HIDE DEF p
  <2>7. \A u \in Threads : hand'[u] = IF u = t THEN {new} ELSE hand[u]
    BY <1>0, <2>6 DEF TypeOK
(* The thread holds the same message as before.                             *)
  <2>8. \A u \in Threads : \A g \in hand'[u] : \E x \in hand[u] : x.msg = g.msg
    BY <2>5, <2>7
  <2>9. \A r \in Threads : Home[r] \in Peers
    BY ThreadsAssumption
  <2>10. \A u \in Threads : \A x \in hand[u] : x.msg.serial \in Serials
    BY <1>0 DEF TypeOK, Hand, Message
  <2>11. HandsOpen'
    <3>. SUFFICES ASSUME NEW u \in Threads, NEW g \in hand'[u], IsCall(g)
                  PROVE  /\ g.msg.serial <= baked[Home[u]]
                         /\ calls'[Home[u]][g.msg.serial].fate # "answered"
                         /\ \A r \in outstanding[Home[u]] : r.serial # g.msg.serial
                         /\ \A v \in Threads : \A y \in hand'[v] :
                              (IsCall(y) /\ Home[v] = Home[u] /\ y.msg.serial = g.msg.serial)
                                => v = u
      BY <2>1 DEF HandsOpen, IsCall
    <3>1. PICK x \in hand[u] : x.msg = g.msg
      BY <2>8
    <3>2. /\ x.msg.serial <= baked[Home[u]]
          /\ calls[Home[u]][x.msg.serial].fate # "answered"
          /\ \A r \in outstanding[Home[u]] : r.serial # x.msg.serial
          /\ \A v \in Threads : \A y \in hand[v] :
               (IsCall(y) /\ Home[v] = Home[u] /\ y.msg.serial = x.msg.serial) => v = u
      BY <3>1 DEF SettledOnce, HandsOpen, IsCall
    <3>3. calls'[Home[u]][x.msg.serial].fate # "answered"
      BY <3>2, <2>4, <2>9, <2>10 DEF NoneAnswered
    <3>4. ASSUME NEW v \in Threads, NEW y \in hand'[v],
                 IsCall(y), Home[v] = Home[u], y.msg.serial = g.msg.serial
          PROVE  v = u
      <4>1. PICK z \in hand[v] : z.msg = y.msg
        BY <2>8
      <4>. QED BY <4>1, <3>1, <3>2, <3>4 DEF IsCall
    <3>. QED BY <3>1, <3>2, <3>3, <3>4
  <2>12. \A q \in Peers : \A r \in outstanding[q] : r.serial \in Serials
    BY <1>0 DEF TypeOK, Outstanding
  <2>13. EntriesDiffer' /\ NoSecondAnswer'
    BY <2>1, <2>4, <2>12 DEF SettledOnce, EntriesDiffer, NoSecondAnswer, NoneAnswered
  <2>. QED BY <2>11, <2>13 DEF SettledOnce
<1>9. ASSUME NEW t \in Threads, Register(t) PROVE SettledOnce'
  BY <1>0, <1>9, SettledRegister
<1>10. ASSUME NEW t \in Threads, NEW s \in sinks[Home[t]], Produce(t, s) PROVE SettledOnce'
  <2>. DEFINE new == [at |-> "send", msg |-> Msg("notification", s.op, s.serial, "success")]
  <2>1. \A h \in {new} : ~IsCall(h)
    BY DEF IsCall, Msg, Kinds
  <2>2. hand' = [hand EXCEPT ![t] = {new}] /\ UNCHANGED <<baked, calls, outstanding>>
    BY <1>10 DEF Produce
  <2>. HIDE DEF new
  <2>. QED BY <1>0, <2>1, <2>2, SettledHand
<1>11. ASSUME NEW t \in Threads, SendNotification(t) PROVE SettledOnce'
  <2>1. hand' = [hand EXCEPT ![t] = {}] /\ UNCHANGED <<baked, calls, outstanding>>
    BY <1>11 DEF SendNotification
  <2>. QED BY <1>0, <2>1, SettledHand
<1>12. ASSUME NEW t \in Threads, NEW s \in sinks[Home[t]], Close(t, s) \/ DropSink(t, s)
       PROVE  SettledOnce'
  <2>1. /\ hand' = hand \/ hand' = [hand EXCEPT ![t] = Closing(s)]
        /\ UNCHANGED <<baked, calls, outstanding>>
    BY <1>12 DEF Close, DropSink
  <2>2. \A h \in Closing(s) : ~IsCall(h)
    BY <1>0, ClosingType DEF IsCall, Kinds
  <2>3. CASE hand' = hand
    BY <1>a, <1>b, <2>1, <2>3
  <2>4. CASE hand' = [hand EXCEPT ![t] = Closing(s)]
    BY <1>0, <2>1, <2>2, <2>4, SettledHand
  <2>. QED BY <2>1, <2>3, <2>4
<1>13. ASSUME NEW t \in Threads, FinishClose(t) PROVE SettledOnce'
  <2>1. hand' = [hand EXCEPT ![t] = {}] /\ UNCHANGED <<baked, calls, outstanding>>
    BY <1>13 DEF FinishClose
  <2>. QED BY <1>0, <2>1, SettledHand
<1>14. ASSUME NEW p \in Peers, ReceiveEarly(p) PROVE SettledOnce'
  BY <1>0, <1>14, <1>a, LoseNone DEF ReceiveEarly
<1>15. ASSUME NEW p \in Peers, ReceiveNotification(p) PROVE SettledOnce'
  BY <1>15, <1>a, <1>b DEF ReceiveNotification
<1>16. ASSUME NEW p \in Peers, ReceiveRequest(p) PROVE SettledOnce'
  BY <1>16, <1>c DEF ReceiveRequest, Arrives
<1>17. ASSUME NEW p \in Peers, RefuseSubscribe(p) PROVE SettledOnce'
  BY <1>17, <1>c DEF RefuseSubscribe, Arrives
<1>18. ASSUME NEW p \in Peers, DiscardSubscribe(p) PROVE SettledOnce'
  BY <1>18, <1>c DEF DiscardSubscribe, Arrives
<1>25. ASSUME NEW p \in Peers, AcceptClosed(p) PROVE SettledOnce'
  BY <1>25, <1>c DEF AcceptClosed, Arrives
<1>19. ASSUME NEW p \in Peers, AcceptSubscribe(p) \/ ReceiveUnsubscribe(p) PROVE SettledOnce'
  <2>1. /\ chan[p] # <<>> /\ UNCHANGED <<baked, outstanding, hand>>
        /\ calls' = SetFate(calls, Other(p), Head(chan[p]).serial, "served")
    BY <1>19 DEF AcceptSubscribe, ReceiveUnsubscribe, Arrives
  <2>2. NoneAnswered
    BY <1>0, <2>1, HeadType, OtherPeer, SetFateNone
  <2>. QED BY <1>a, <2>1, <2>2
<1>20. ASSUME NEW p \in Peers, SendReply(p) PROVE SettledOnce'
  <2>1. PICK m \in replying[p] :
          /\ calls' = SetFate(calls, Other(p), m.serial, Unless(Reaches(p), "served"))
          /\ UNCHANGED <<baked, outstanding, hand>>
    BY <1>20 DEF SendReply
  <2>2. m.serial \in Serials
    BY <1>0 DEF TypeOK, Message
  <2>3. Unless(Reaches(p), "served") # "answered"
    BY UnlessNone DEF Reaches
  <2>4. NoneAnswered
    BY <1>0, <2>1, <2>2, <2>3, OtherPeer, SetFateNone
  <2>. QED BY <1>a, <2>1, <2>4
<1>21. ASSUME NEW p \in Peers, DropResponse(p) PROVE SettledOnce'
  <2>1. /\ chan[p] # <<>> /\ UNCHANGED <<baked, outstanding, hand>>
        /\ calls' = SetFate(calls, p, Head(chan[p]).serial, "dropped")
    BY <1>21 DEF DropResponse, Arrives
  <2>2. NoneAnswered
    BY <1>0, <2>1, HeadType, SetFateNone
  <2>. QED BY <1>a, <2>1, <2>2
<1>22. ASSUME NEW p \in Peers, CompleteCall(p) \/ CompleteSubscribe(p) PROVE SettledOnce'
  <2>1. PICK r \in outstanding[p] :
          /\ outstanding' = [outstanding EXCEPT ![p] = @ \ {r}]
          /\ calls' = SetFate(calls, p, r.serial, "answered")
          /\ UNCHANGED <<baked, hand>>
    BY <1>22 DEF CompleteCall, CompleteSubscribe
  <2>. QED BY <2>1, SettledAnswer
<1>23. ASSUME NEW p \in Peers, DiscardHandle(p) PROVE SettledOnce'
  BY <1>23, SettledDiscard
<1>24. CASE UNCHANGED vars
  BY <1>24, <1>a, <1>b DEF vars
<1>. QED BY <1>1, <1>2, <1>3, <1>4, <1>5, <1>6, <1>7, <1>8, <1>9, <1>10, <1>11, <1>12,
            <1>13, <1>14, <1>15, <1>16, <1>17, <1>18, <1>19, <1>20, <1>21, <1>22,
            <1>23, <1>24, <1>25
         DEF Next, Receive, Application, Continue

(* NoSecondAnswer: a callback that ran is not run again, and its entry is   *)
(* gone, even when the ids have wrapped and insert found one in its place.  *)
THEOREM AnsweredOnce == Spec => []NoSecondAnswer
<1>1. Init => SettledOnce
  BY DEF Init, SettledOnce, EntriesDiffer, HandsOpen, NoSecondAnswer
<1>2. SettledOnce => NoSecondAnswer
  BY DEF SettledOnce
<1>. QED BY <1>1, <1>2, SettledNext, ProvenanceInit, ProvenanceNext, PTL DEF Spec

-----------------------------------------------------------------------------
(* The contract.  A call is one token: its request, on its way to the other *)
(* end while the call is issued, or its reply, on its way back while it is  *)
(* served.  Whatever serves, answers, drops or loses a call takes its token *)
(* away; so no call is served, or settled, twice.                           *)
Due(cs, q, m) ==
  /\ m.type \in Kinds => cs[Other(q)][m.serial].fate = "issued"
  /\ m.type \in Replies => cs[q][m.serial].fate = "served"

(* Two messages on their way to one end that are tokens of one call.        *)
Clash(m, k) ==
  /\ m.serial = k.serial
  /\ \/ m.type \in Kinds /\ k.type \in Kinds
     \/ m.type \in Replies /\ k.type \in Replies

(* The message m to q is the token of a call in L.                          *)
Token(q, m, L) == m.type # "notification" /\ <<Caller(q, m), m.serial>> \in L

(* Two histories that differ in the fate of the calls in L at most.         *)
Only(cs, ds, L) ==
  \A p \in Peers, k \in Serials : <<p, k>> \in L \/ ds[p][k].fate = cs[p][k].fate

Carriers(ch, rep, hd) ==
  /\ ch \in [Peers -> Seq(Message)]
  /\ rep \in [Peers -> SUBSET Message]
  /\ hd \in [Threads -> SUBSET Hand]

Sound(cs, q, s) ==
  /\ \A i \in 1..Len(s) : Due(cs, q, s[i])
  /\ \A i, j \in 1..Len(s) : Clash(s[i], s[j]) => i = j

(* No message of s, on the way to q, is one that m clashes with.            *)
Free(m, s) == \A i \in 1..Len(s) : ~Clash(m, s[i])

(* A reply the io thread has still to send to q, over the messages s there. *)
SoundReply(cs, q, m, s) == m.type \in Replies /\ Due(cs, q, m) /\ Free(m, s)

(* What a thread has in hand for q.                                         *)
SoundHand(cs, q, h, s) ==
  /\ h.msg.type \notin Replies
  /\ h.at = "send" => Due(cs, q, h.msg) /\ Free(h.msg, s)

(* Where the tokens are: in the channels ch, in the replies rep and in the  *)
(* hands hd.                                                                *)
Tokens(cs, ch, rep, hd) ==
  /\ Carriers(ch, rep, hd)
  /\ \A q \in Peers : Sound(cs, q, ch[q])
  /\ \A p \in Peers : \A m \in rep[p] :
       /\ SoundReply(cs, Other(p), m, ch[Other(p)])
       /\ \A k \in rep[p] : k = m
  /\ \A t \in Threads : \A h \in hd[t] :
       SoundHand(cs, Other(Home[t]), h, ch[Other(Home[t])])

(* None of them is of a call in L.                                          *)
Gone(ch, rep, hd, L) ==
  /\ \A q \in Peers : \A i \in 1..Len(ch[q]) : ~Token(q, ch[q][i], L)
  /\ \A p \in Peers : \A m \in rep[p] : ~Token(Other(p), m, L)
  /\ \A t \in Threads : \A h \in hd[t] : h.at = "send" => ~Token(Other(Home[t]), h.msg, L)

LEMMA ClashTwice ==
  ASSUME NEW m, NEW k, Clash(m, k)
  PROVE  Clash(k, m)
BY DEF Clash

LEMMA TypesApart ==
  /\ Kinds \cap Replies = {}
  /\ "notification" \notin Kinds /\ "notification" \notin Replies
  /\ \A m \in Message : m.type \in Kinds \/ m.type \in Replies \/ m.type = "notification"
BY DEF Kinds, Replies, Message

LEMMA CarrierTypes ==
  ASSUME NEW ch, NEW rep, NEW hd, Carriers(ch, rep, hd)
  PROVE  /\ \A q \in Peers : \A i \in 1..Len(ch[q]) : ch[q][i] \in Message
         /\ \A p \in Peers : Other(p) \in Peers /\ \A m \in rep[p] : m \in Message
         /\ \A t \in Threads : Home[t] \in Peers /\ Other(Home[t]) \in Peers
         /\ \A t \in Threads : \A h \in hd[t] : h.msg \in Message
<1>1. ASSUME NEW q \in Peers, NEW i \in 1..Len(ch[q]) PROVE ch[q][i] \in Message
  <2>1. ch[q] \in Seq(Message)
    BY DEF Carriers
  <2>. QED BY <2>1, ElementOfSeq
<1>2. \A t \in Threads : Home[t] \in Peers
  BY ThreadsAssumption
<1>3. \A t \in Threads : \A h \in hd[t] : h.msg \in Message
  BY DEF Carriers, Hand
<1>. QED BY <1>1, <1>2, <1>3, OtherPeer DEF Carriers

(* The token of a call is in one place.                                     *)
LEMMA OneToken ==
  ASSUME NEW cs, NEW p \in Peers, NEW q \in Peers, NEW m \in Message, NEW k \in Message,
         Due(cs, p, m), Due(cs, q, k), m.type # "notification", k.type # "notification",
         Caller(p, m) = Caller(q, k), m.serial = k.serial
  PROVE  p = q /\ Clash(m, k)
<1>1. CASE m.type \in Kinds /\ k.type \in Kinds
  <2>1. Other(p) = Other(q)
    BY <1>1 DEF Caller
  <2>. QED BY <1>1, <2>1, OtherPeer DEF Clash
<1>2. CASE m.type \in Replies /\ k.type \in Replies
  BY <1>2, TypesApart DEF Caller, Clash
<1>3. CASE m.type \in Kinds /\ k.type \in Replies
  <2>1. Other(p) = q
    BY <1>3, TypesApart DEF Caller
  <2>2. cs[q][m.serial].fate = "issued" /\ cs[q][m.serial].fate = "served"
    BY <1>3, <2>1 DEF Due
  <2>. QED BY <2>2
<1>4. CASE m.type \in Replies /\ k.type \in Kinds
  <2>1. p = Other(q)
    BY <1>4, TypesApart DEF Caller
  <2>2. cs[p][m.serial].fate = "issued" /\ cs[p][m.serial].fate = "served"
    BY <1>4, <2>1 DEF Due
  <2>. QED BY <2>2
<1>. QED BY <1>1, <1>2, <1>3, <1>4, TypesApart

LEMMA DueKept ==
  ASSUME NEW cs, NEW ds, NEW L, Only(cs, ds, L),
         NEW q \in Peers, NEW m \in Message, Due(cs, q, m), ~Token(q, m, L)
  PROVE  Due(ds, q, m)
<1>1. Other(q) \in Peers /\ m.serial \in Serials
  BY OtherPeer DEF Message
<1>2. CASE m.type \in Kinds
  <2>1. <<Other(q), m.serial>> \notin L
    BY <1>2, TypesApart DEF Token, Caller
  <2>. QED BY <1>1, <1>2, <2>1, TypesApart DEF Only, Due
<1>3. CASE m.type \in Replies
  <2>1. <<q, m.serial>> \notin L
    BY <1>3, TypesApart DEF Token, Caller
  <2>. QED BY <1>1, <1>3, <2>1, TypesApart DEF Only, Due
<1>4. CASE m.type = "notification"
  BY <1>4, TypesApart DEF Due
<1>. QED BY <1>2, <1>3, <1>4, TypesApart

(* Calls without a token may come to any fate.                              *)
LEMMA TokensMoved ==
  ASSUME NEW cs, NEW ds, NEW L, Only(cs, ds, L),
         NEW ch, NEW rep, NEW hd, Tokens(cs, ch, rep, hd), Gone(ch, rep, hd, L)
  PROVE  Tokens(ds, ch, rep, hd)
<1>0. Carriers(ch, rep, hd)
  BY DEF Tokens
<1>1. ASSUME NEW q \in Peers PROVE Sound(ds, q, ch[q])
  <2>1. Sound(cs, q, ch[q])
    BY DEF Tokens
  <2>2. ASSUME NEW i \in 1..Len(ch[q]) PROVE Due(ds, q, ch[q][i])
    BY <1>0, <2>1, CarrierTypes, DueKept DEF Sound, Gone
  <2>. QED BY <2>1, <2>2 DEF Sound
<1>2. ASSUME NEW p \in Peers, NEW m \in rep[p]
      PROVE  SoundReply(ds, Other(p), m, ch[Other(p)]) /\ \A k \in rep[p] : k = m
  <2>1. SoundReply(cs, Other(p), m, ch[Other(p)]) /\ \A k \in rep[p] : k = m
    BY DEF Tokens
  <2>2. m \in Message /\ Other(p) \in Peers /\ ~Token(Other(p), m, L)
    BY <1>0, CarrierTypes DEF Gone
  <2>. QED BY <2>1, <2>2, DueKept DEF SoundReply
<1>3. ASSUME NEW t \in Threads, NEW h \in hd[t]
      PROVE  SoundHand(ds, Other(Home[t]), h, ch[Other(Home[t])])
  <2>1. SoundHand(cs, Other(Home[t]), h, ch[Other(Home[t])])
    BY DEF Tokens
  <2>2. h.msg \in Message /\ Other(Home[t]) \in Peers
    BY <1>0, CarrierTypes
  <2>3. h.at = "send" => ~Token(Other(Home[t]), h.msg, L)
    BY DEF Gone
  <2>. QED BY <2>1, <2>2, <2>3, DueKept DEF SoundHand
<1>. QED BY <1>0, <1>1, <1>2, <1>3 DEF Tokens

(* A message without a token elsewhere clashes with none.                   *)
LEMMA GoneFree ==
  ASSUME NEW q \in Peers, NEW e, NEW s, NEW L,
         e.type # "notification" => <<Caller(q, e), e.serial>> \in L,
         \A i \in 1..Len(s) : s[i] \in Message /\ ~Token(q, s[i], L)
  PROVE  Free(e, s)
<1>. SUFFICES ASSUME NEW i \in 1..Len(s), Clash(e, s[i]) PROVE FALSE
  BY DEF Free
<1>1. e.type # "notification" /\ s[i].type # "notification" /\ s[i].serial = e.serial
  BY TypesApart DEF Clash
<1>2. Caller(q, s[i]) = Caller(q, e)
  BY TypesApart DEF Clash, Caller
<1>. QED BY <1>1, <1>2 DEF Token

(* s2 is s without what stands at D, which is the beginning or the end.     *)
Left(s2, s, D) ==
  \E d \in Nat : \A i \in 1..Len(s2) :
    i + d \in 1..Len(s) /\ i + d \notin D /\ s2[i] = s[i + d]

(* Of each channel what stands at D[q] was taken, tokens of the calls in L. *)
Taken(ch2, ch, D) ==
  \A q \in Peers : D[q] \subseteq 1..Len(ch[q]) /\ Left(ch2[q], ch[q], D[q])

TokensAt(L, ch, D) ==
  \A x \in L : \E q \in Peers : \E j \in D[q] :
    ch[q][j].type # "notification" /\ x = <<Caller(q, ch[q][j]), ch[q][j].serial>>

(* Messages, replies and calls in hand may disappear.                       *)
LEMMA TokensLess ==
  ASSUME NEW cs, NEW ch, NEW rep, NEW hd, Tokens(cs, ch, rep, hd),
         NEW ch2, NEW D, Taken(ch2, ch, D),
         NEW rep2, \A p \in Peers : rep2[p] \subseteq rep[p],
         NEW hd2, \A t \in Threads : \A h \in hd2[t] :
                    h \in hd[t] \/ (h.at = "insert" /\ h.msg.type \notin Replies),
         Carriers(ch2, rep2, hd2)
  PROVE  Tokens(cs, ch2, rep2, hd2)
<1>1. ASSUME NEW q \in Peers
      PROVE  Sound(cs, q, ch2[q]) /\ \A m : Free(m, ch[q]) => Free(m, ch2[q])
  <2>. DEFINE s == ch[q]  r == ch2[q]
  <2>1. Sound(cs, q, s) /\ Left(r, s, D[q])
    BY DEF Tokens, Taken
  <2>. HIDE DEF r, s
  <2>2. PICK d \in Nat : \A i \in 1..Len(r) : i + d \in 1..Len(s) /\ r[i] = s[i + d]
    BY <2>1 DEF Left
  <2>3. \A i \in 1..Len(r) : Due(cs, q, r[i])
    BY <2>2, <2>1 DEF Sound
  <2>4. ASSUME NEW i \in 1..Len(r), NEW j \in 1..Len(r), Clash(r[i], r[j]) PROVE i = j
    <3>1. i + d = j + d
      BY <2>2, <2>1, <2>4 DEF Sound
    <3>. QED BY <3>1
  <2>5. Sound(cs, q, r) /\ \A m : Free(m, s) => Free(m, r)
    BY <2>2, <2>3, <2>4 DEF Sound, Free
  <2>. QED BY <2>5 DEF r, s
<1>2. \A p \in Peers : Other(p) \in Peers
  BY OtherPeer
<1>3. ASSUME NEW p \in Peers, NEW m \in rep2[p]
      PROVE  SoundReply(cs, Other(p), m, ch2[Other(p)]) /\ \A k \in rep2[p] : k = m
  BY <1>1, <1>2 DEF Tokens, SoundReply
<1>4. ASSUME NEW t \in Threads, NEW h \in hd2[t]
      PROVE  SoundHand(cs, Other(Home[t]), h, ch2[Other(Home[t])])
  <2>1. Home[t] \in Peers
    BY ThreadsAssumption
  <2>2. CASE h \in hd[t]
    BY <1>1, <1>2, <2>1, <2>2 DEF Tokens, SoundHand
  <2>3. CASE h.at = "insert" /\ h.msg.type \notin Replies
    BY <2>3 DEF SoundHand
  <2>. QED BY <2>2, <2>3
<1>. QED BY <1>1, <1>3, <1>4 DEF Tokens

(* What was taken from the channels was the only token of its call.         *)
LEMMA TakenGone ==
  ASSUME NEW cs, NEW ch, NEW rep, NEW hd, Tokens(cs, ch, rep, hd),
         NEW ch2, NEW D, Taken(ch2, ch, D), NEW L, TokensAt(L, ch, D)
  PROVE  Gone(ch2, rep, hd, L)
<1>0. Carriers(ch, rep, hd)
  BY DEF Tokens
<1>1. ASSUME NEW q \in Peers, NEW m \in Message, Due(cs, q, m), Token(q, m, L)
      PROVE  \E j \in D[q] : Clash(m, ch[q][j])
  <2>1. PICK x \in Peers : \E j \in D[x] :
          /\ ch[x][j].type # "notification"
          /\ <<Caller(q, m), m.serial>> = <<Caller(x, ch[x][j]), ch[x][j].serial>>
    BY <1>1 DEF Token, TokensAt
  <2>2. PICK j \in D[x] :
          /\ ch[x][j].type # "notification"
          /\ <<Caller(q, m), m.serial>> = <<Caller(x, ch[x][j]), ch[x][j].serial>>
    BY <2>1
  <2>3. Caller(q, m) = Caller(x, ch[x][j]) /\ m.serial = ch[x][j].serial
    BY <2>2
  <2>4. j \in 1..Len(ch[x])
    BY DEF Taken
  <2>5. ch[x][j] \in Message /\ Due(cs, x, ch[x][j])
    BY <1>0, <2>4, CarrierTypes DEF Tokens, Sound
  <2>6. q = x /\ Clash(m, ch[x][j])
    BY <1>1, <2>2, <2>3, <2>5, OneToken DEF Token
  <2>. QED BY <2>6
<1>2. ASSUME NEW q \in Peers, NEW i \in 1..Len(ch2[q]) PROVE ~Token(q, ch2[q][i], L)
  <2>. SUFFICES ASSUME Token(q, ch2[q][i], L) PROVE FALSE
    OBVIOUS
  <2>1. PICK k \in 1..Len(ch[q]) : k \notin D[q] /\ ch2[q][i] = ch[q][k]
    BY DEF Taken, Left
  <2>2. ch[q][k] \in Message /\ Due(cs, q, ch[q][k])
    BY <1>0, CarrierTypes DEF Tokens, Sound
  <2>3. PICK j \in D[q] : Clash(ch[q][k], ch[q][j])
    BY <1>1, <2>1, <2>2
  <2>4. j \in 1..Len(ch[q])
    BY DEF Taken
  <2>5. k = j
    BY <2>3, <2>4 DEF Tokens, Sound
  <2>. QED BY <2>1, <2>5
<1>3. ASSUME NEW p \in Peers, NEW m \in rep[p] PROVE ~Token(Other(p), m, L)
  <2>1. m \in Message /\ Other(p) \in Peers
    BY <1>0, CarrierTypes
  <2>2. Due(cs, Other(p), m) /\ Free(m, ch[Other(p)])
    BY DEF Tokens, SoundReply
  <2>. QED BY <1>1, <2>1, <2>2 DEF Free, Taken
<1>4. ASSUME NEW t \in Threads, NEW h \in hd[t], h.at = "send"
      PROVE  ~Token(Other(Home[t]), h.msg, L)
  <2>1. h.msg \in Message /\ Other(Home[t]) \in Peers
    BY <1>0, CarrierTypes
  <2>2. Due(cs, Other(Home[t]), h.msg) /\ Free(h.msg, ch[Other(Home[t])])
    BY <1>4 DEF Tokens, SoundHand
  <2>. QED BY <1>1, <2>1, <2>2 DEF Free, Taken
<1>. QED BY <1>2, <1>3, <1>4 DEF Gone

(* The same for the reply of the io thread, and for a call in hand.         *)
LEMMA ReplyGone ==
  ASSUME NEW cs, NEW ch, NEW rep, NEW hd, Tokens(cs, ch, rep, hd),
         NEW p \in Peers, NEW m \in rep[p]
  PROVE  /\ m \in Message /\ m.type \in Replies /\ Due(cs, Other(p), m)
         /\ Gone(ch, [rep EXCEPT ![p] = {}], hd, {<<Other(p), m.serial>>})
<1>0. Carriers(ch, rep, hd)
  BY DEF Tokens
<1>1. m \in Message /\ Other(p) \in Peers /\ SoundReply(cs, Other(p), m, ch[Other(p)])
  BY <1>0, CarrierTypes DEF Tokens
<1>2. m.type \in Replies /\ Due(cs, Other(p), m) /\ Free(m, ch[Other(p)])
      /\ m.type # "notification" /\ Caller(Other(p), m) = Other(p)
  BY <1>1, TypesApart DEF SoundReply, Caller
<1>. DEFINE L == {<<Other(p), m.serial>>}
<1>3. ASSUME NEW q \in Peers, NEW k \in Message, Due(cs, q, k), Token(q, k, L)
      PROVE  q = Other(p) /\ Clash(m, k)
  <2>1. k.type # "notification" /\ Caller(q, k) = Caller(Other(p), m) /\ k.serial = m.serial
    BY <1>2, <1>3 DEF Token
  <2>. QED BY <1>1, <1>2, <1>3, <2>1, OneToken, ClashTwice
<1>. HIDE DEF L
<1>4. ASSUME NEW q \in Peers, NEW i \in 1..Len(ch[q]) PROVE ~Token(q, ch[q][i], L)
  <2>1. ch[q][i] \in Message /\ Due(cs, q, ch[q][i])
    BY <1>0, CarrierTypes DEF Tokens, Sound
  <2>. QED BY <1>2, <1>3, <2>1 DEF Free
<1>5. ASSUME NEW x \in Peers, NEW k \in [rep EXCEPT ![p] = {}][x]
      PROVE  ~Token(Other(x), k, L)
  <2>1. x # p /\ k \in rep[x]
    BY <1>0 DEF Carriers
  <2>2. k \in Message /\ Other(x) \in Peers /\ Due(cs, Other(x), k)
    BY <1>0, <2>1, CarrierTypes DEF Tokens, SoundReply
  <2>. QED BY <1>3, <2>1, <2>2, OtherPeer
<1>6. ASSUME NEW t \in Threads, NEW h \in hd[t], h.at = "send"
      PROVE  ~Token(Other(Home[t]), h.msg, L)
  <2>1. /\ h.msg \in Message /\ Other(Home[t]) \in Peers
        /\ Due(cs, Other(Home[t]), h.msg) /\ h.msg.type \notin Replies
    BY <1>0, <1>6, CarrierTypes DEF Tokens, SoundHand
  <2>. QED BY <1>2, <1>3, <2>1, TypesApart DEF Clash
<1>. QED BY <1>1, <1>2, <1>4, <1>5, <1>6 DEF Gone, L

LEMMA HandGone ==
  ASSUME NEW cs, NEW ch, NEW rep, NEW hd, Tokens(cs, ch, rep, hd),
         NEW t \in Threads, NEW h \in hd[t], h.at = "send", h.msg.type \in Kinds,
         NEW H, \A g \in H : g.at # "send",
         \A u \in Threads : \A g \in hd[u] :
           (IsCall(g) /\ Home[u] = Home[t] /\ g.msg.serial = h.msg.serial) => u = t
  PROVE  /\ Due(cs, Other(Home[t]), h.msg)
         /\ Gone(ch, rep, [hd EXCEPT ![t] = H], {<<Home[t], h.msg.serial>>})
<1>0. Carriers(ch, rep, hd)
  BY DEF Tokens
<1>. DEFINE p == Home[t]  m == h.msg  L == {<<p, m.serial>>}
<1>1. m \in Message /\ p \in Peers /\ Other(p) \in Peers /\ Other(Other(p)) = p
  BY <1>0, CarrierTypes, OtherPeer
<1>2. m.type \in Kinds /\ Due(cs, Other(p), m) /\ Free(m, ch[Other(p)])
      /\ m.type # "notification" /\ Caller(Other(p), m) = p
  BY <1>1, TypesApart DEF Tokens, SoundHand, Caller
<1>3. ASSUME NEW q \in Peers, NEW k \in Message, Due(cs, q, k), Token(q, k, L)
      PROVE  q = Other(p) /\ Clash(m, k)
  <2>1. k.type # "notification" /\ Caller(q, k) = Caller(Other(p), m) /\ k.serial = m.serial
    BY <1>2, <1>3 DEF Token
  <2>. QED BY <1>1, <1>2, <1>3, <2>1, OneToken, ClashTwice
<1>. HIDE DEF L
<1>4. ASSUME NEW q \in Peers, NEW i \in 1..Len(ch[q]) PROVE ~Token(q, ch[q][i], L)
  <2>1. ch[q][i] \in Message /\ Due(cs, q, ch[q][i])
    BY <1>0, CarrierTypes DEF Tokens, Sound
  <2>. QED BY <1>2, <1>3, <2>1 DEF Free
<1>5. ASSUME NEW x \in Peers, NEW k \in rep[x] PROVE ~Token(Other(x), k, L)
  <2>1. k \in Message /\ Other(x) \in Peers /\ Due(cs, Other(x), k) /\ k.type \in Replies
    BY <1>0, CarrierTypes DEF Tokens, SoundReply
  <2>. QED BY <1>2, <1>3, <2>1, TypesApart DEF Clash
<1>6. ASSUME NEW u \in Threads, NEW g \in [hd EXCEPT ![t] = H][u], g.at = "send"
      PROVE  ~Token(Other(Home[u]), g.msg, L)
  <2>1. u # t /\ g \in hd[u]
    BY <1>0, <1>6 DEF Carriers
  <2>2. /\ g.msg \in Message /\ Home[u] \in Peers /\ Other(Home[u]) \in Peers
        /\ Due(cs, Other(Home[u]), g.msg) /\ g.msg.type \notin Replies
    BY <1>0, <1>6, <2>1, CarrierTypes DEF Tokens, SoundHand
  <2>. SUFFICES ASSUME Token(Other(Home[u]), g.msg, L) PROVE FALSE
    OBVIOUS
  <2>3. Other(Home[u]) = Other(p) /\ Clash(m, g.msg)
    BY <1>3, <2>2
  <2>4. Home[u] = p /\ g.msg.serial = m.serial /\ IsCall(g)
    BY <1>1, <1>2, <2>2, <2>3, OtherPeer, TypesApart DEF Clash, IsCall
  <2>. QED BY <2>1, <2>4
<1>. QED BY <1>2, <1>4, <1>5, <1>6 DEF Gone, L

(* A call that was not begun has no token.                                  *)
LEMMA UnusedGone ==
  ASSUME NEW cs, NEW ch, NEW rep, NEW hd, Tokens(cs, ch, rep, hd),
         NEW p \in Peers, NEW n \in Serials, cs[p][n].fate = "unused"
  PROVE  Gone(ch, rep, hd, {<<p, n>>})
<1>0. Carriers(ch, rep, hd)
  BY DEF Tokens
<1>1. ASSUME NEW q \in Peers, NEW m \in Message, Due(cs, q, m)
      PROVE  ~Token(q, m, {<<p, n>>})
  <2>. SUFFICES ASSUME Token(q, m, {<<p, n>>}) PROVE FALSE
    OBVIOUS
  <2>1. Caller(q, m) = p /\ m.serial = n /\ m.type # "notification"
    BY DEF Token
  <2>2. cs[p][n].fate \in {"issued", "served"}
    BY <1>1, <2>1, TypesApart DEF Due, Caller
  <2>. QED BY <2>2
<1>2. ASSUME NEW q \in Peers, NEW i \in 1..Len(ch[q]) PROVE ~Token(q, ch[q][i], {<<p, n>>})
  BY <1>0, <1>1, CarrierTypes DEF Tokens, Sound
<1>3. ASSUME NEW x \in Peers, NEW m \in rep[x] PROVE ~Token(Other(x), m, {<<p, n>>})
  BY <1>0, <1>1, CarrierTypes DEF Tokens, SoundReply
<1>4. ASSUME NEW t \in Threads, NEW h \in hd[t], h.at = "send"
      PROVE  ~Token(Other(Home[t]), h.msg, {<<p, n>>})
  BY <1>0, <1>1, <1>4, CarrierTypes DEF Tokens, SoundHand
<1>. QED BY <1>2, <1>3, <1>4 DEF Gone

(* A call whose token is nowhere may be given one.                          *)
LEMMA TokensSent ==
  ASSUME NEW cs, NEW ch, NEW rep, NEW hd, Tokens(cs, ch, rep, hd),
         NEW q \in Peers, NEW e \in Message, Due(cs, q, e),
         NEW L, Gone(ch, rep, hd, L),
         e.type # "notification" => <<Caller(q, e), e.serial>> \in L
  PROVE  Tokens(cs, [ch EXCEPT ![q] = Append(@, e)], rep, hd)
<1>0. Carriers(ch, rep, hd)
  BY DEF Tokens
<1>. DEFINE s == ch[q]  r == Append(s, e)  ch2 == [ch EXCEPT ![q] = r]
<1>1. /\ s \in Seq(Message) /\ r \in Seq(Message)
      /\ Len(s) \in Nat /\ Len(r) = Len(s) + 1 /\ r[Len(s) + 1] = e
      /\ \A i \in 1..Len(s) : r[i] = s[i]
  <2>1. s \in Seq(Message)
    BY <1>0 DEF Carriers
  <2>. QED BY <2>1, AppendProperties, LenProperties
<1>2. \A x \in Peers : ch2[x] = IF x = q THEN r ELSE ch[x]
  BY <1>0 DEF Carriers
<1>3. Carriers(ch2, rep, hd)
  BY <1>0, <1>1 DEF Carriers
<1>4. Sound(cs, q, s) /\ Free(e, s)
  <2>1. \A i \in 1..Len(s) : s[i] \in Message /\ ~Token(q, s[i], L)
    BY <1>0, CarrierTypes DEF Gone
  <2>. QED BY <2>1, GoneFree DEF Tokens
<1>. HIDE DEF s, r, ch2
<1>5. \A i \in 1..Len(r) : i \in 1..Len(s) \/ i = Len(s) + 1
  BY <1>1
<1>6. Sound(cs, q, r)
  <2>1. \A i \in 1..Len(r) : Due(cs, q, r[i])
    BY <1>1, <1>4, <1>5 DEF Sound
  <2>2. ASSUME NEW i \in 1..Len(r), NEW j \in 1..Len(r), Clash(r[i], r[j]) PROVE i = j
    <3>1. CASE i \in 1..Len(s) /\ j \in 1..Len(s)
      BY <3>1, <1>1, <1>4, <2>2 DEF Sound
    <3>2. CASE i \in 1..Len(s) /\ j = Len(s) + 1
      BY <3>2, <1>1, <1>4, <2>2, ClashTwice DEF Free
    <3>3. CASE i = Len(s) + 1 /\ j \in 1..Len(s)
      BY <3>3, <1>1, <1>4, <2>2 DEF Free
    <3>. QED BY <3>1, <3>2, <3>3, <1>5
  <2>. QED BY <2>1, <2>2 DEF Sound
<1>7. ASSUME NEW x \in Peers PROVE Sound(cs, x, ch2[x])
  BY <1>2, <1>6 DEF Tokens
(* Whatever is still to be sent there does not clash with e.                *)
<1>8. ASSUME NEW x \in Peers, NEW m \in Message, Free(m, ch[x]), ~Token(x, m, L)
      PROVE  Free(m, ch2[x])
  <2>1. CASE x # q
    BY <2>1, <1>2, <1>8
  <2>2. CASE x = q
    <3>1. ~Clash(m, e)
      <4>. SUFFICES ASSUME Clash(m, e) PROVE FALSE
        OBVIOUS
      <4>1. /\ m.type # "notification" /\ e.type # "notification"
            /\ Caller(q, m) = Caller(q, e) /\ m.serial = e.serial
        BY TypesApart DEF Clash, Caller
      <4>. QED BY <4>1, <2>2, <1>8 DEF Token
    <3>2. Free(m, s)
      BY <1>8, <2>2 DEF s
    <3>3. Free(m, r)
      BY <3>1, <3>2, <1>1, <1>5 DEF Free
    <3>. QED BY <3>3, <2>2, <1>2
  <2>. QED BY <2>1, <2>2
<1>9. ASSUME NEW p \in Peers, NEW m \in rep[p]
      PROVE  SoundReply(cs, Other(p), m, ch2[Other(p)]) /\ \A k \in rep[p] : k = m
  <2>1. SoundReply(cs, Other(p), m, ch[Other(p)]) /\ \A k \in rep[p] : k = m
    BY DEF Tokens
  <2>2. m \in Message /\ Other(p) \in Peers /\ ~Token(Other(p), m, L)
    BY <1>0, CarrierTypes DEF Gone
  <2>. QED BY <1>8, <2>1, <2>2 DEF SoundReply
<1>10. ASSUME NEW t \in Threads, NEW h \in hd[t]
       PROVE  SoundHand(cs, Other(Home[t]), h, ch2[Other(Home[t])])
  <2>1. SoundHand(cs, Other(Home[t]), h, ch[Other(Home[t])])
    BY DEF Tokens
  <2>2. h.msg \in Message /\ Other(Home[t]) \in Peers
    BY <1>0, CarrierTypes
  <2>3. h.at = "send" => ~Token(Other(Home[t]), h.msg, L)
    BY DEF Gone
  <2>. QED BY <1>8, <2>1, <2>2, <2>3 DEF SoundHand
<1>11. Tokens(cs, ch2, rep, hd)
  BY <1>3, <1>7, <1>9, <1>10 DEF Tokens
<1>. QED BY <1>11 DEF ch2, r, s

LEMMA TokensReplying ==
  ASSUME NEW cs, NEW ch, NEW rep, NEW hd, Tokens(cs, ch, rep, hd),
         NEW p \in Peers, NEW e \in Message, e.type \in Replies, Due(cs, Other(p), e),
         NEW L, Gone(ch, rep, hd, L), <<Caller(Other(p), e), e.serial>> \in L
  PROVE  Tokens(cs, ch, [rep EXCEPT ![p] = {e}], hd)
<1>0. Carriers(ch, rep, hd)
  BY DEF Tokens
<1>. DEFINE rep2 == [rep EXCEPT ![p] = {e}]
<1>1. Carriers(ch, rep2, hd) /\ \A x \in Peers : rep2[x] = IF x = p THEN {e} ELSE rep[x]
  BY <1>0 DEF Carriers
<1>2. Other(p) \in Peers
  BY OtherPeer
<1>3. Free(e, ch[Other(p)])
  <2>1. \A i \in 1..Len(ch[Other(p)]) :
          ch[Other(p)][i] \in Message /\ ~Token(Other(p), ch[Other(p)][i], L)
    BY <1>0, <1>2, CarrierTypes DEF Gone
  <2>. QED BY <1>2, <2>1, GoneFree
<1>. HIDE DEF rep2
<1>4. ASSUME NEW x \in Peers, NEW m \in rep2[x]
      PROVE  SoundReply(cs, Other(x), m, ch[Other(x)]) /\ \A k \in rep2[x] : k = m
  <2>1. CASE x = p
    BY <1>1, <1>3, <2>1 DEF SoundReply
  <2>2. CASE x # p
    BY <1>1, <2>2 DEF Tokens
  <2>. QED BY <2>1, <2>2
<1>5. Tokens(cs, ch, rep2, hd)
  BY <1>1, <1>4 DEF Tokens
<1>. QED BY <1>5 DEF rep2

LEMMA TokensHeld ==
  ASSUME NEW cs, NEW ch, NEW rep, NEW hd, Tokens(cs, ch, rep, hd),
         NEW t \in Threads, NEW h \in Hand, h.msg.type \notin Replies,
         Due(cs, Other(Home[t]), h.msg), NEW L, Gone(ch, rep, hd, L),
         h.msg.type # "notification" => <<Caller(Other(Home[t]), h.msg), h.msg.serial>> \in L
  PROVE  Tokens(cs, ch, rep, [hd EXCEPT ![t] = {h}])
<1>0. Carriers(ch, rep, hd)
  BY DEF Tokens
<1>. DEFINE hd2 == [hd EXCEPT ![t] = {h}]  q == Other(Home[t])
<1>1. Carriers(ch, rep, hd2) /\ \A u \in Threads : hd2[u] = IF u = t THEN {h} ELSE hd[u]
  BY <1>0 DEF Carriers
<1>2. q \in Peers
  BY <1>0, CarrierTypes
<1>3. Free(h.msg, ch[q])
  <2>1. \A i \in 1..Len(ch[q]) : ch[q][i] \in Message /\ ~Token(q, ch[q][i], L)
    BY <1>0, <1>2, CarrierTypes DEF Gone
  <2>. QED BY <1>2, <2>1, GoneFree
<1>. HIDE DEF hd2
<1>4. ASSUME NEW u \in Threads, NEW g \in hd2[u]
      PROVE  SoundHand(cs, Other(Home[u]), g, ch[Other(Home[u])])
  <2>1. CASE u = t
    BY <1>1, <1>3, <2>1 DEF SoundHand
  <2>2. CASE u # t
    BY <1>1, <2>2 DEF Tokens
  <2>. QED BY <2>1, <2>2
<1>5. Tokens(cs, ch, rep, hd2)
  BY <1>1, <1>4 DEF Tokens
<1>. QED BY <1>5 DEF hd2

(* How a step moves the calls: along the contract, and none from its start  *)
(* unless it is begun in this step.                                         *)
Advance == \A p \in Peers, n \in Serials :
  \/ calls'[p][n].fate = calls[p][n].fate
  \/ <<calls[p][n].fate, calls'[p][n].fate>> \in Contract!Advances

Unbegun == \A p \in Peers, n \in Serials : n > baked[p] => calls[p][n].fate = "unused"

Underway == Tokens(calls, chan, replying, hand) /\ Unbegun

Moves(f, g) == \/ f = g
               \/ f = "issued" /\ g \in {"served", "lost"}
               \/ f = "served" /\ g \in {"answered", "dropped", "lost"}

Stride == \A p \in Peers, n \in Serials : Moves(calls[p][n].fate, calls'[p][n].fate)

LEMMA StrideAdvances ==
  ASSUME Unbegun, Stride, baked' = baked
  PROVE  Unbegun' /\ Advance
<1>1. Unbegun'
  BY DEF Unbegun, Stride, Moves
<1>2. Advance
  BY DEF Advance, Stride, Moves, Contract!Advances
<1>. QED BY <1>1, <1>2

(* One call moves, whose token was taken away.                              *)
LEMMA FateMoves ==
  ASSUME TypeOK, Unbegun, baked' = baked, NEW p \in Peers, NEW n \in Serials, NEW f,
         calls' = SetFate(calls, p, n, f), Moves(calls[p][n].fate, f),
         NEW ch, NEW rep, NEW hd, Tokens(calls, ch, rep, hd), Gone(ch, rep, hd, {<<p, n>>})
  PROVE  Tokens(calls', ch, rep, hd) /\ Unbegun' /\ Advance /\ calls'[p][n].fate = f
<1>1. \A q \in Peers, k \in Serials :
        calls'[q][k].fate = IF q = p /\ k = n THEN f ELSE calls[q][k].fate
  BY SetFateIs
<1>2. Only(calls, calls', {<<p, n>>})
  BY <1>1 DEF Only
<1>3. Stride
  BY <1>1 DEF Stride, Moves
<1>. QED BY <1>1, <1>2, <1>3, TokensMoved, StrideAdvances

(* The message at the head of a channel is taken.                           *)
LEMMA HeadLeft ==
  ASSUME TypeOK, NEW p \in Peers, chan[p] # <<>>, NEW ch, ch = [chan EXCEPT ![p] = Tail(@)],
         NEW D, D = [q \in Peers |-> IF q = p THEN {1} ELSE {}]
  PROVE  Taken(ch, chan, D) /\ 1 \in 1..Len(chan[p]) /\ chan[p][1] = Head(chan[p])
<1>. DEFINE s == chan[p]
<1>1. s \in Seq(Message) /\ chan \in [Peers -> Seq(Message)]
  BY DEF TypeOK
<1>2. /\ Len(s) \in Nat /\ 1 \in 1..Len(s) /\ Head(s) = s[1]
      /\ Len(Tail(s)) = Len(s) - 1
      /\ \A i \in 1..Len(Tail(s)) : Tail(s)[i] = s[i + 1]
  <2>1. Len(s) \in Nat /\ Len(s) # 0
    BY <1>1, LenProperties, EmptySeq
  <2>2. /\ Head(s) = s[1] /\ Len(Tail(s)) = Len(s) - 1
        /\ \A i \in 1..Len(Tail(s)) : Tail(s)[i] = s[i + 1]
    BY <1>1, HeadTailProperties
  <2>. QED BY <2>1, <2>2
<1>3. ASSUME NEW q \in Peers
      PROVE  Left(ch[q], chan[q], D[q]) /\ D[q] \subseteq 1..Len(chan[q])
  <2>1. CASE q = p
    <3>. DEFINE r == Tail(s)
    <3>. HIDE DEF r, s
    <3>1. Len(r) = Len(s) - 1 /\ Len(s) \in Nat /\ \A i \in 1..Len(r) : r[i] = s[i + 1]
      BY <1>2 DEF r
    <3>2. \A i \in 1..Len(r) : i + 1 \in 1..Len(s) /\ i + 1 \notin {1} /\ r[i] = s[i + 1]
      BY <3>1
    <3>3. Left(r, s, {1})
      BY <3>2 DEF Left
    <3>4. ch[q] = r /\ chan[q] = s /\ D[q] = {1}
      BY <1>1, <2>1 DEF r, s
    <3>. QED BY <3>3, <3>4, <1>2
  <2>2. CASE q # p
    <3>1. ch[q] = chan[q] /\ D[q] = {} /\ chan[q] \in Seq(Message)
      BY <1>1, <2>2
    <3>2. Len(chan[q]) \in Nat
      BY <3>1, LenProperties
    <3>3. \A i \in 1..Len(chan[q]) : i + 0 = i
      BY <3>2
    <3>. QED BY <3>1, <3>3 DEF Left
  <2>. QED BY <2>1, <2>2
<1>. QED BY <1>2, <1>3 DEF Taken

LEMMA HeadTaken ==
  ASSUME TypeOK, Underway, NEW p \in Peers, chan[p] # <<>>,
         NEW m, m = Head(chan[p]), NEW ch, ch = [chan EXCEPT ![p] = Tail(@)]
  PROVE  /\ m \in Message /\ m.serial \in Serials /\ Due(calls, p, m)
         /\ Tokens(calls, ch, replying, hand)
         /\ m.type # "notification" =>
              Gone(ch, replying, hand, {<<Caller(p, m), m.serial>>})
<1>. DEFINE D == [q \in Peers |-> IF q = p THEN {1} ELSE {}]
<1>1. Taken(ch, chan, D) /\ 1 \in 1..Len(chan[p]) /\ chan[p][1] = m /\ 1 \in D[p]
  BY HeadLeft
<1>. HIDE DEF D
<1>2. Carriers(ch, replying, hand) /\ Carriers(chan, replying, hand)
  <2>1. Tail(chan[p]) \in Seq(Message)
    BY HeadTailProperties DEF TypeOK
  <2>. QED BY <2>1 DEF TypeOK, Carriers
<1>3. Tokens(calls, chan, replying, hand)
  BY DEF Underway
<1>4. Tokens(calls, ch, replying, hand)
  <2>1. \A q \in Peers : replying[q] \subseteq replying[q]
    OBVIOUS
  <2>2. \A t \in Threads : \A h \in hand[t] :
          h \in hand[t] \/ (h.at = "insert" /\ h.msg.type \notin Replies)
    OBVIOUS
  <2>. QED BY <1>1, <1>2, <1>3, <2>1, <2>2, TokensLess
<1>5. m \in Message /\ m.serial \in Serials /\ Due(calls, p, m)
  <2>1. m \in Message
    BY <1>1, <1>2, CarrierTypes
  <2>2. m.serial \in Serials
    BY <2>1 DEF Message
  <2>. QED BY <1>1, <1>3, <2>1, <2>2 DEF Tokens, Sound
<1>6. ASSUME m.type # "notification"
      PROVE  Gone(ch, replying, hand, {<<Caller(p, m), m.serial>>})
  <2>. DEFINE L == {<<Caller(p, m), m.serial>>}
  <2>1. TokensAt(L, chan, D)
    BY <1>1, <1>6 DEF TokensAt
  <2>. HIDE DEF L
  <2>2. Gone(ch, replying, hand, L)
    BY <1>1, <1>3, <2>1, TakenGone
  <2>. QED BY <2>2 DEF L
<1>. QED BY <1>4, <1>5, <1>6

Onward == Underway' /\ Advance

LEMMA CallsStill ==
  ASSUME Unbegun, UNCHANGED <<calls, baked>>
  PROVE  Unbegun' /\ Advance
BY StrideAdvances DEF Stride, Moves

LEMMA AppendOne ==
  ASSUME NEW S, NEW s \in Seq(S), NEW a \in S
  PROVE  s \o <<a>> = Append(s, a) /\ Append(s, a) \in Seq(S)
<1>1. <<a>> \in Seq(S) /\ Len(<<a>>) = 1 /\ <<a>>[1] = a
  OBVIOUS
<1>. DEFINE u == <<a>>  r == s \o u  t == Append(s, a)
<1>. HIDE DEF u
<1>2. /\ Len(s) \in Nat /\ r \in Seq(S) /\ t \in Seq(S)
      /\ Len(r) = Len(s) + 1 /\ Len(t) = Len(s) + 1
      /\ \A i \in 1..(Len(s) + 1) : r[i] = IF i <= Len(s) THEN s[i] ELSE u[i - Len(s)]
      /\ \A i \in 1..Len(s) : t[i] = s[i]
      /\ t[Len(s) + 1] = a
  BY <1>1, LenProperties, ConcatProperties, AppendProperties DEF u
<1>. HIDE DEF r, t
<1>3. \A i \in 1..Len(r) : r[i] = t[i]
  BY <1>1, <1>2 DEF u
<1>4. r = t
  BY <1>2, <1>3, SeqEqual
<1>. QED BY <1>2, <1>4 DEF r, t, u

LEMMA AppendTwo ==
  ASSUME NEW S, NEW s \in Seq(S), NEW a \in S, NEW b \in S
  PROVE  s \o <<a, b>> = Append(Append(s, a), b)
<1>1. <<a>> \in Seq(S) /\ <<b>> \in Seq(S) /\ <<a, b>> = <<a>> \o <<b>>
  <2>. DEFINE u == <<a>>
  <2>1. u \in Seq(S) /\ <<b>> \in Seq(S) /\ <<a, b>> = Append(u, b)
    OBVIOUS
  <2>. HIDE DEF u
  <2>2. u \o <<b>> = Append(u, b)
    BY <2>1, AppendOne
  <2>3. u \in Seq(S) /\ <<b>> \in Seq(S) /\ <<a, b>> = u \o <<b>>
    BY <2>1, <2>2
  <2>. QED BY <2>3 DEF u
<1>2. s \o <<a, b>> = (s \o <<a>>) \o <<b>>
  BY <1>1, ConcatAssociative
<1>. QED BY <1>2, AppendOne

(* A notification is nobody's token.                                        *)
LEMMA NoteSent ==
  ASSUME NEW cs, NEW ch, NEW rep, NEW hd, Tokens(cs, ch, rep, hd),
         NEW q \in Peers, NEW e \in Message, e.type = "notification",
         NEW L, Gone(ch, rep, hd, L)
  PROVE  /\ Tokens(cs, [ch EXCEPT ![q] = Append(@, e)], rep, hd)
         /\ Gone([ch EXCEPT ![q] = Append(@, e)], rep, hd, L)
<1>. DEFINE s == ch[q]  r == Append(s, e)  ch2 == [ch EXCEPT ![q] = r]
<1>0. Carriers(ch, rep, hd)
  BY DEF Tokens
<1>1. Due(cs, q, e)
  BY TypesApart DEF Due
<1>2. Tokens(cs, ch2, rep, hd)
  BY <1>1, TokensSent
<1>3. /\ Len(s) \in Nat /\ Len(r) = Len(s) + 1 /\ r[Len(s) + 1] = e
      /\ \A i \in 1..Len(s) : r[i] = s[i]
  <2>1. s \in Seq(Message)
    BY <1>0 DEF Carriers
  <2>. QED BY <2>1, AppendProperties, LenProperties
<1>4. \A x \in Peers : ch2[x] = IF x = q THEN r ELSE ch[x]
  BY <1>0 DEF Carriers
<1>. HIDE DEF ch2, r, s
<1>5. \A i \in 1..Len(r) : i \in 1..Len(s) \/ i = Len(s) + 1
  BY <1>3
<1>6. ~Token(q, e, L)
  BY DEF Token
<1>7. \A i \in 1..Len(r) : ~Token(q, r[i], L)
  BY <1>3, <1>5, <1>6 DEF Gone, s
<1>8. Gone(ch2, rep, hd, L)
  BY <1>4, <1>7 DEF Gone
<1>. QED BY <1>2, <1>8 DEF ch2, r, s

LEMMA NothingGone ==
  ASSUME NEW ch, NEW rep, NEW hd
  PROVE  Gone(ch, rep, hd, {})
BY DEF Gone, Token

LEMMA WireNote ==
  ASSUME TypeOK, Unbegun, NEW p \in Peers, NEW e \in Message, e.type = "notification",
         Wire(p, <<e>>) \/ UNCHANGED chan, UNCHANGED <<baked, calls, replying>>,
         Tokens(calls, chan, replying, hand')
  PROVE  Onward
<1>1. Unbegun' /\ Advance
  BY CallsStill
<1>2. Tokens(calls, chan', replying, hand')
  <2>1. CASE chan' = chan
    BY <2>1
  <2>2. CASE chan' # chan
    <3>1. Other(p) \in Peers /\ chan[Other(p)] \in Seq(Message)
      BY OtherPeer DEF TypeOK
    <3>2. chan' = [chan EXCEPT ![Other(p)] = Append(@, e)]
      BY <2>2, <3>1, AppendOne DEF Wire
    <3>. QED BY <3>1, <3>2, NothingGone, NoteSent
  <2>. QED BY <2>1, <2>2
<1>. QED BY <1>1, <1>2 DEF Onward, Underway

(* The sections of the code that move a call.                               *)
LEMMA BakeOnward ==
  ASSUME TypeOK, Underway, NEW t \in Threads, NEW type \in Kinds, NEW op \in Opcodes,
         Bake(t, type, op), UNCHANGED <<chan, replying>>
  PROVE  Onward
<1>. DEFINE p == Home[t]  n == baked[p] + 1  u == Msg(type, op, n, "success")
            h == [at |-> "send", msg |-> u]  c == [kind |-> type, fate |-> "issued"]
            L == {<<p, n>>}
<1>1. /\ p \in Peers /\ n \in Serials /\ baked[p] \in Nat
      /\ baked' = [baked EXCEPT ![p] = n] /\ baked \in [Peers -> Nat]
      /\ calls' = [calls EXCEPT ![p] = [calls[p] EXCEPT ![n] = c]]
      /\ hand' = [hand EXCEPT ![t] = {h}]
  <2>1. p \in Peers /\ n \in Serials
    BY BakeType
  <2>2. baked \in [Peers -> Nat]
    BY BoundsAssumption DEF TypeOK
  <2>3. /\ baked' = [baked EXCEPT ![p] = n] /\ hand' = [hand EXCEPT ![t] = {h}]
        /\ calls' = [calls EXCEPT ![p][n] = c]
    BY DEF Bake
  <2>. HIDE DEF p, n, h, c
  <2>4. calls' = [calls EXCEPT ![p] = [calls[p] EXCEPT ![n] = c]]
    BY <2>3
  <2>. QED BY <2>1, <2>2, <2>3, <2>4
<1>2. u \in Message /\ h \in Hand /\ h.msg = u /\ c.fate = "issued"
  BY <1>1, MsgType DEF Hand
<1>3. u.type = type /\ u.serial = n
  BY DEF Msg
<1>4. n > baked[p] /\ calls[p][n].fate = "unused"
  BY <1>1 DEF Underway, Unbegun
<1>5. Tokens(calls, chan, replying, hand) /\ Gone(chan, replying, hand, L)
  BY <1>1, <1>4, UnusedGone DEF Underway
<1>. HIDE DEF u, h, c, n
<1>6. \A q \in Peers, k \in Serials :
        calls'[q][k].fate = IF q = p /\ k = n THEN "issued" ELSE calls[q][k].fate
  BY <1>1, <1>2 DEF TypeOK
<1>7. Only(calls, calls', L)
  BY <1>6 DEF Only
<1>8. Tokens(calls', chan, replying, hand)
  BY <1>5, <1>7, TokensMoved
<1>9. Other(p) \in Peers /\ Other(Other(p)) = p
  BY <1>1, OtherPeer
<1>10. Due(calls', Other(p), u) /\ Caller(Other(p), u) = p /\ u.type \notin Replies
  BY <1>1, <1>3, <1>6, <1>9, TypesApart DEF Due, Caller
<1>11. <<Caller(Other(Home[t]), h.msg), h.msg.serial>> \in L
  BY <1>2, <1>3, <1>10
<1>. HIDE DEF L
<1>12. Tokens(calls', chan, replying, [hand EXCEPT ![t] = {h}])
  BY <1>2, <1>5, <1>8, <1>10, <1>11, TokensHeld
<1>13. Unbegun'
  <2>. SUFFICES ASSUME NEW q \in Peers, NEW k \in Serials, k > baked'[q]
                PROVE  calls'[q][k].fate = "unused"
    BY DEF Unbegun
  <2>1. k \in Nat /\ baked[q] \in Nat
    BY <1>1 DEF Serials
  <2>2. baked'[q] = IF q = p THEN n ELSE baked[q]
    BY <1>1
  <2>3. k > baked[q] /\ ~(q = p /\ k = n)
    BY <2>1, <2>2, <1>1, <1>4 DEF n
  <2>. QED BY <2>3, <1>6 DEF Underway, Unbegun
<1>14. Advance
  BY <1>4, <1>6 DEF Advance, Contract!Advances
<1>. QED BY <1>1, <1>12, <1>13, <1>14 DEF Onward, Underway

LEMMA SendCallOnward ==
  ASSUME TypeOK, Underway, HandsOpen, NEW t \in Threads, SendCall(t)
  PROVE  Onward
<1>. DEFINE p == Home[t]
<1>1. PICK h \in hand[t] :
        /\ h.at = "send" /\ h.msg.type \in Kinds
        /\ Wire(p, <<h.msg>>)
        /\ calls' = SetFate(calls, p, h.msg.serial, Unless(Reaches(p), "issued"))
        /\ hand' = [hand EXCEPT ![t] = {[at |-> "insert", msg |-> h.msg]}]
        /\ UNCHANGED <<baked, replying>>
  BY DEF SendCall
<1>. DEFINE m == h.msg  f == Unless(Reaches(p), "issued")
            H == {[at |-> "insert", msg |-> m]}
            hd == [hand EXCEPT ![t] = H]  L == {<<p, m.serial>>}
<1>2. /\ p \in Peers /\ Other(p) \in Peers /\ Other(Other(p)) = p
      /\ m \in Message /\ m.serial \in Serials
      /\ Caller(Other(p), m) = p /\ m.type \notin Replies
  <2>1. p \in Peers /\ Other(p) \in Peers /\ Other(Other(p)) = p
    BY ThreadsAssumption, OtherPeer
  <2>2. m \in Message
    BY DEF TypeOK, Hand
  <2>3. m.serial \in Serials
    BY <2>2 DEF Message
  <2>. QED BY <1>1, <2>1, <2>2, <2>3, TypesApart DEF Caller
<1>3. H \in SUBSET Hand /\ \A g \in H : g.at = "insert" /\ g.msg = m
  BY <1>1, <1>2 DEF Hand
<1>. HIDE DEF H
<1>4. \A u \in Threads : \A g \in hand[u] :
        (IsCall(g) /\ Home[u] = Home[t] /\ g.msg.serial = h.msg.serial) => u = t
  BY <1>1 DEF HandsOpen, IsCall
<1>5. Due(calls, Other(p), m) /\ Gone(chan, replying, hd, L)
  <2>1. \A g \in H : g.at # "send"
    BY <1>3
  <2>. QED BY <1>1, <1>4, <2>1, HandGone DEF Underway
<1>6. Tokens(calls, chan, replying, hd)
  <2>1. Carriers(chan, replying, hd) /\ \A u \in Threads : hd[u] = IF u = t THEN H ELSE hand[u]
    BY <1>3 DEF TypeOK, Carriers
  <2>2. \A u \in Threads : \A g \in hd[u] :
          g \in hand[u] \/ (g.at = "insert" /\ g.msg.type \notin Replies)
    BY <1>2, <1>3, <2>1
  <2>3. Taken(chan, chan, [q \in Peers |-> {}])
    <3>1. \A q \in Peers : \A i \in 1..Len(chan[q]) : i + 0 = i
      <4>1. \A q \in Peers : Len(chan[q]) \in Nat
        BY LenProperties DEF TypeOK
      <4>. QED BY <4>1
    <3>. QED BY <3>1 DEF Taken, Left
  <2>4. \A q \in Peers : replying[q] \subseteq replying[q]
    OBVIOUS
  <2>. HIDE DEF hd
  <2>. QED BY <2>1, <2>2, <2>3, <2>4, TokensLess DEF Underway
<1>7. calls[p][m.serial].fate = "issued" /\ Moves("issued", f)
  BY <1>1, <1>2, <1>5 DEF Due, Moves, Unless
<1>8. calls' = SetFate(calls, p, m.serial, f) /\ hand' = hd /\ Wire(p, <<m>>)
  BY <1>1 DEF H
<1>. HIDE DEF hd
<1>9. Tokens(calls', chan, replying, hd) /\ Unbegun' /\ Advance /\ calls'[p][m.serial].fate = f
  BY <1>1, <1>2, <1>5, <1>6, <1>7, <1>8, FateMoves DEF Underway
<1>10. Tokens(calls', chan', replying, hd)
  <2>1. CASE Reaches(p)
    <3>1. Due(calls', Other(p), m)
      BY <1>1, <1>2, <1>9, <2>1, TypesApart DEF Due, Unless
    <3>2. chan' = [chan EXCEPT ![Other(p)] = Append(@, m)]
      BY <1>2, <1>8, <2>1, AppendOne DEF Wire, TypeOK
    <3>3. <<Caller(Other(p), m), m.serial>> \in L
      BY <1>2
    <3>. QED BY <1>2, <1>5, <1>9, <3>1, <3>2, <3>3, TokensSent
  <2>2. CASE ~Reaches(p)
    BY <1>8, <1>9, <2>2 DEF Wire
  <2>. QED BY <2>1, <2>2
<1>. QED BY <1>1, <1>8, <1>9, <1>10 DEF Onward, Underway

LEMMA SendReplyOnward ==
  ASSUME TypeOK, Underway, NEW p \in Peers, SendReply(p)
  PROVE  Onward
<1>1. PICK m \in replying[p] :
        /\ replying' = [replying EXCEPT ![p] = {}]
        /\ Wire(p, <<m>>)
        /\ calls' = SetFate(calls, Other(p), m.serial, Unless(Reaches(p), "served"))
        /\ UNCHANGED <<baked, hand>>
  BY DEF SendReply
<1>. DEFINE q == Other(p)  f == Unless(Reaches(p), "served")
            rep == [replying EXCEPT ![p] = {}]  L == {<<q, m.serial>>}
<1>2. /\ q \in Peers /\ m \in Message /\ m.type \in Replies
      /\ Due(calls, q, m) /\ Gone(chan, rep, hand, L)
  BY OtherPeer, ReplyGone DEF Underway
<1>3. m.serial \in Serials /\ Caller(q, m) = q /\ calls[q][m.serial].fate = "served"
  BY <1>2, TypesApart DEF Message, Caller, Due
<1>4. Tokens(calls, chan, rep, hand)
  <2>1. Carriers(chan, rep, hand) /\ \A x \in Peers : rep[x] \subseteq replying[x]
    BY DEF TypeOK, Carriers
  <2>2. Taken(chan, chan, [x \in Peers |-> {}])
    <3>1. \A x \in Peers : \A i \in 1..Len(chan[x]) : i + 0 = i
      <4>1. \A x \in Peers : Len(chan[x]) \in Nat
        BY LenProperties DEF TypeOK
      <4>. QED BY <4>1
    <3>. QED BY <3>1 DEF Taken, Left
  <2>3. \A t \in Threads : \A h \in hand[t] :
          h \in hand[t] \/ (h.at = "insert" /\ h.msg.type \notin Replies)
    OBVIOUS
  <2>. HIDE DEF rep
  <2>. QED BY <2>1, <2>2, <2>3, TokensLess DEF Underway
<1>5. Moves("served", f)
  BY DEF Moves, Unless
<1>6. replying' = rep /\ calls' = SetFate(calls, q, m.serial, f)
  BY <1>1
<1>. HIDE DEF rep
<1>7. Tokens(calls', chan, rep, hand) /\ Unbegun' /\ Advance /\ calls'[q][m.serial].fate = f
  BY <1>1, <1>2, <1>3, <1>4, <1>5, <1>6, FateMoves DEF Underway
<1>8. Tokens(calls', chan', rep, hand)
  <2>1. CASE Reaches(p)
    <3>1. Due(calls', q, m)
      BY <1>2, <1>7, <2>1, TypesApart DEF Due, Unless
    <3>2. chan' = [chan EXCEPT ![q] = Append(@, m)]
      BY <1>1, <1>2, <2>1, AppendOne DEF Wire, TypeOK
    <3>3. <<Caller(q, m), m.serial>> \in L
      BY <1>3
    <3>. QED BY <1>2, <1>7, <3>1, <3>2, <3>3, TokensSent
  <2>2. CASE ~Reaches(p)
    BY <1>1, <1>7, <2>2 DEF Wire
  <2>. QED BY <2>1, <2>2
<1>. QED BY <1>1, <1>6, <1>7, <1>8 DEF Onward, Underway

(* A request that is handled: its token is exchanged for that of the reply. *)
LEMMA ServeOnward ==
  ASSUME TypeOK, Underway, NEW p \in Peers, chan[p] # <<>>,
         NEW m, m = Head(chan[p]), m.type \in Kinds,
         NEW f \in {"served", "lost"}, calls' = SetFate(calls, Other(p), m.serial, f),
         baked' = baked, NEW ch, ch = [chan EXCEPT ![p] = Tail(@)]
  PROVE  /\ m \in Message /\ m.serial \in Serials
         /\ Tokens(calls', ch, replying, hand) /\ Unbegun' /\ Advance
         /\ Gone(ch, replying, hand, {<<Other(p), m.serial>>})
         /\ \A e \in Message : e.type \in Replies /\ e.serial = m.serial /\ f = "served" =>
              /\ Due(calls', Other(p), e)
              /\ <<Caller(Other(p), e), e.serial>> \in {<<Other(p), m.serial>>}
<1>. DEFINE q == Other(p)  L == {<<q, m.serial>>}
<1>1. q \in Peers /\ m.type # "notification" /\ Caller(p, m) = q
  BY OtherPeer, TypesApart DEF Caller
<1>2. /\ m \in Message /\ m.serial \in Serials /\ Due(calls, p, m)
      /\ Tokens(calls, ch, replying, hand) /\ Gone(ch, replying, hand, L)
  BY <1>1, HeadTaken
<1>3. calls[q][m.serial].fate = "issued" /\ Moves("issued", f)
  BY <1>2 DEF Due, Moves
<1>4. /\ Tokens(calls', ch, replying, hand) /\ Unbegun' /\ Advance
      /\ calls'[q][m.serial].fate = f
  BY <1>1, <1>2, <1>3, FateMoves DEF Underway
<1>5. ASSUME NEW e \in Message, e.type \in Replies, e.serial = m.serial, f = "served"
      PROVE  Due(calls', q, e) /\ <<Caller(q, e), e.serial>> \in L
  BY <1>4, <1>5, TypesApart DEF Due, Caller
<1>. QED BY <1>2, <1>4, <1>5

(* Handled and answered in one section, perhaps after an abort.             *)
LEMMA AnswerOnward ==
  ASSUME TypeOK, Underway, NEW p \in Peers, chan[p] # <<>>, Head(chan[p]).type \in Kinds,
         NEW e \in Message, e.type \in Replies, e.serial = Head(chan[p]).serial,
         NEW a \in Message, a.type = "notification", NEW ms, ms = <<e>> \/ ms = <<a, e>>,
         Answer(p, Head(chan[p]), ms), UNCHANGED <<baked, replying, hand>>
  PROVE  Onward
<1>. DEFINE m == Head(chan[p])  q == Other(p)  ch == [chan EXCEPT ![p] = Tail(@)]
            f == Unless(Reaches(p), "served")  L == {<<q, m.serial>>}
<1>1. q \in Peers /\ q # p
  BY OtherPeer
<1>2. f \in {"served", "lost"} /\ calls' = SetFate(calls, q, m.serial, f)
  BY DEF Answer, Unless
<1>3. /\ m \in Message /\ Tokens(calls', ch, replying, hand) /\ Unbegun' /\ Advance
      /\ Gone(ch, replying, hand, L)
      /\ \A x \in Message : x.type \in Replies /\ x.serial = m.serial /\ f = "served" =>
           Due(calls', q, x) /\ <<Caller(q, x), x.serial>> \in L
  BY <1>2, ServeOnward
<1>. DEFINE s == chan[q]
<1>4. /\ chan \in [Peers -> Seq(Message)] /\ s \in Seq(Message)
      /\ e.type \in Replies /\ e.serial = m.serial
  BY <1>1 DEF TypeOK
<1>5. Tokens(calls', chan', replying, hand)
  <2>1. CASE ~Reaches(p)
    BY <1>3, <2>1 DEF Answer
  <2>2. CASE Reaches(p)
    <3>1. f = "served"
      BY <2>2 DEF Unless
    <3>2. chan' = [chan EXCEPT ![p] = Tail(@), ![q] = @ \o ms]
      BY <2>2 DEF Answer
    <3>. HIDE DEF f
    <3>3. Due(calls', q, e) /\ <<Caller(q, e), e.serial>> \in L
      BY <1>3, <1>4, <3>1
    <3>4. ch[q] = s
      BY <1>1, <1>4
    <3>. HIDE DEF L, s
    <3>5. CASE ms = <<e>>
      <4>1. s \o ms = Append(s, e)
        BY <1>4, <3>5, AppendOne
      <4>2. chan' = [ch EXCEPT ![q] = Append(ch[q], e)]
        BY <1>1, <1>4, <3>2, <3>4, <4>1 DEF s
      <4>. HIDE DEF ch, m, q
      <4>. QED BY <1>1, <1>3, <1>4, <3>3, <4>2, TokensSent
    <3>6. CASE ms = <<a, e>>
      <4>. DEFINE ch1 == [ch EXCEPT ![q] = Append(ch[q], a)]
      <4>1. s \o ms = Append(Append(s, a), e)
        BY <1>4, <3>6, AppendTwo
      <4>2. ch1[q] = Append(s, a)
        BY <1>1, <1>4, <3>4
      <4>3. chan' = [ch1 EXCEPT ![q] = Append(ch1[q], e)]
        BY <1>1, <1>4, <3>2, <3>4, <4>1, <4>2 DEF s
      <4>. HIDE DEF ch, m, q
      <4>4. Tokens(calls', ch1, replying, hand) /\ Gone(ch1, replying, hand, L)
        BY <1>1, <1>3, NoteSent
      <4>. HIDE DEF ch1
      <4>. QED BY <1>1, <1>4, <3>3, <4>3, <4>4, TokensSent
    <3>. QED BY <3>5, <3>6
  <2>. QED BY <2>1, <2>2
<1>. QED BY <1>3, <1>5 DEF Onward, Underway

(* Handled, and the reply left to the io thread.                            *)
LEMMA AcceptOnward ==
  ASSUME TypeOK, Underway, NEW p \in Peers, Arrives(p, Kinds), Consume(p),
         calls' = SetFate(calls, Other(p), Head(chan[p]).serial, "served"),
         replying' = [replying EXCEPT ![p] = {Reply(Head(chan[p]), "success")}],
         UNCHANGED <<baked, hand>>
  PROVE  Onward
<1>. DEFINE m == Head(chan[p])  q == Other(p)  ch == [chan EXCEPT ![p] = Tail(@)]
            e == Reply(m, "success")  L == {<<q, m.serial>>}
<1>1. chan[p] # <<>> /\ m.type \in Kinds /\ chan' = ch
  BY DEF Arrives, Consume
<1>2. /\ m \in Message /\ Tokens(calls', ch, replying, hand) /\ Unbegun' /\ Advance
      /\ Gone(ch, replying, hand, L)
      /\ \A x \in Message : x.type \in Replies /\ x.serial = m.serial =>
           Due(calls', q, x) /\ <<Caller(q, x), x.serial>> \in L
  BY <1>1, ServeOnward
<1>3. e \in Message /\ e.type \in Replies /\ e.serial = m.serial
  BY <1>1, <1>2, ReplyIsMessage
<1>4. Due(calls', q, e) /\ <<Caller(q, e), e.serial>> \in L
  BY <1>2, <1>3
<1>. HIDE DEF e, L, ch, m
<1>5. Tokens(calls', ch, [replying EXCEPT ![p] = {e}], hand)
  BY <1>2, <1>3, <1>4, TokensReplying
<1>. QED BY <1>1, <1>2, <1>5 DEF Onward, Underway, e, m

(* A reply that is handled settles its call.                                *)
LEMMA SettleOnward ==
  ASSUME TypeOK, Underway, NEW p \in Peers, Arrives(p, Replies), Consume(p),
         NEW f \in {"answered", "dropped"},
         calls' = SetFate(calls, p, Head(chan[p]).serial, f),
         UNCHANGED <<baked, replying, hand>>
  PROVE  Onward
<1>. DEFINE m == Head(chan[p])  ch == [chan EXCEPT ![p] = Tail(@)]
<1>1. /\ chan[p] # <<>> /\ m.type \in Replies /\ chan' = ch
      /\ m.type # "notification" /\ Caller(p, m) = p
  BY TypesApart DEF Arrives, Consume, Caller
<1>2. /\ m \in Message /\ m.serial \in Serials /\ Due(calls, p, m)
      /\ Tokens(calls, ch, replying, hand)
      /\ Gone(ch, replying, hand, {<<p, m.serial>>})
  BY <1>1, HeadTaken
<1>3. calls[p][m.serial].fate = "served" /\ Moves("served", f)
  BY <1>1, <1>2 DEF Due, Moves
<1>. HIDE DEF ch, m
<1>4. Tokens(calls', ch, replying, hand) /\ Unbegun' /\ Advance
  BY <1>2, <1>3, FateMoves DEF Underway, m
<1>. QED BY <1>1, <1>4 DEF Onward, Underway

(* Calls are lost with their tokens.                                        *)
LostAt(gone, ch, D) == \A q \in Peers : \A m \in gone[q] : \E j \in D[q] : m = ch[q][j]

LEMMA LoseOnward ==
  ASSUME TypeOK, Underway, NEW gone, LoseCalls(gone), chan' \in [Peers -> Seq(Message)],
         NEW D, Taken(chan', chan, D), LostAt(gone, chan, D),
         UNCHANGED <<baked, replying, hand>>
  PROVE  Onward
<1>. DEFINE lost(p, n) == \E q \in Peers : \E m \in gone[q] :
              m.type # "notification" /\ Caller(q, m) = p /\ m.serial = n
            L == {x \in Peers \X Serials : lost(x[1], x[2])}
<1>1. \A p \in Peers, n \in Serials : <<p, n>> \in L <=> lost(p, n)
  OBVIOUS
<1>. HIDE DEF L, lost
<1>2. \A p \in Peers, n \in Serials :
        calls'[p][n].fate = IF <<p, n>> \in L THEN "lost" ELSE calls[p][n].fate
  <2>. SUFFICES ASSUME NEW p \in Peers, NEW n \in Serials
                PROVE  calls'[p][n].fate = IF lost(p, n) THEN "lost" ELSE calls[p][n].fate
    BY <1>1
  <2>1. calls' = [q \in Peers |-> [k \in Serials |->
                   IF lost(q, k) THEN [calls[q][k] EXCEPT !.fate = "lost"] ELSE calls[q][k]]]
    BY DEF LoseCalls, lost
  <2>2. [calls[p][n] EXCEPT !.fate = "lost"].fate = "lost"
    BY DEF TypeOK, Call
  <2>3. calls'[p][n] = IF lost(p, n) THEN [calls[p][n] EXCEPT !.fate = "lost"] ELSE calls[p][n]
    BY <2>1
  <2>. QED BY <2>2, <2>3
<1>3. Tokens(calls, chan, replying, hand)
  BY DEF Underway
<1>4. ASSUME NEW x \in L
      PROVE  \E q \in Peers : \E j \in D[q] :
               /\ chan[q][j].type # "notification"
               /\ x = <<Caller(q, chan[q][j]), chan[q][j].serial>>
  <2>1. x = <<x[1], x[2]>> /\ lost(x[1], x[2])
    BY DEF L
  <2>2. PICK q \in Peers : \E m \in gone[q] :
          m.type # "notification" /\ Caller(q, m) = x[1] /\ m.serial = x[2]
    BY <2>1 DEF lost
  <2>3. PICK m \in gone[q] : m.type # "notification" /\ Caller(q, m) = x[1] /\ m.serial = x[2]
    BY <2>2
  <2>4. PICK j \in D[q] : m = chan[q][j]
    BY DEF LostAt
  <2>. QED BY <2>1, <2>3, <2>4
<1>5. TokensAt(L, chan, D)
  BY <1>4 DEF TokensAt
<1>6. Tokens(calls, chan', replying, hand)
  <2>1. Carriers(chan', replying, hand)
    BY DEF TypeOK, Carriers
  <2>2. \A q \in Peers : replying[q] \subseteq replying[q]
    OBVIOUS
  <2>3. \A t \in Threads : \A h \in hand[t] :
          h \in hand[t] \/ (h.at = "insert" /\ h.msg.type \notin Replies)
    OBVIOUS
  <2>. QED BY <1>3, <2>1, <2>2, <2>3, TokensLess
<1>7. Tokens(calls', chan', replying, hand)
  <2>1. Gone(chan', replying, hand, L)
    BY <1>3, <1>5, TakenGone
  <2>2. Only(calls, calls', L)
    BY <1>2 DEF Only
  <2>. QED BY <1>6, <2>1, <2>2, TokensMoved
<1>8. ASSUME NEW p \in Peers, NEW n \in Serials, <<p, n>> \in L
      PROVE  calls[p][n].fate \in {"issued", "served"}
  <2>1. PICK q \in Peers : \E j \in D[q] :
          /\ chan[q][j].type # "notification"
          /\ <<p, n>> = <<Caller(q, chan[q][j]), chan[q][j].serial>>
    BY <1>5, <1>8 DEF TokensAt
  <2>2. PICK j \in D[q] :
          /\ chan[q][j].type # "notification"
          /\ <<p, n>> = <<Caller(q, chan[q][j]), chan[q][j].serial>>
    BY <2>1
  <2>3. p = Caller(q, chan[q][j]) /\ n = chan[q][j].serial
    BY <2>2
  <2>4. j \in 1..Len(chan[q])
    BY DEF Taken
  <2>5. chan[q][j] \in Message /\ Due(calls, q, chan[q][j])
    BY <1>3, <2>4, CarrierTypes DEF Tokens, Sound
  <2>. QED BY <2>2, <2>3, <2>5, TypesApart DEF Due, Caller
<1>9. Unbegun' /\ Advance
  <2>1. Stride
    BY <1>2, <1>8 DEF Stride, Moves
  <2>. QED BY <2>1, StrideAdvances DEF Underway
<1>. QED BY <1>7, <1>9 DEF Onward, Underway

LEMMA Prefix ==
  ASSUME NEW S, NEW s \in Seq(S), NEW n \in 0..Len(s)
  PROVE  /\ SubSeq(s, 1, n) \in Seq(S) /\ Len(SubSeq(s, 1, n)) = n
         /\ \A i \in 1..n : SubSeq(s, 1, n)[i] = s[i]
<1>1. Len(s) \in Nat /\ n \in Int /\ n \in Nat /\ 1 \in Int
  BY LenProperties
<1>2. \A i \in 1..n : s[i] \in S
  BY <1>1, ElementOfSeq
<1>3. SubSeq(s, 1, n) \in Seq(S)
  BY <1>1, <1>2, SubSeqProperties
<1>4. Len(SubSeq(s, 1, n)) = n
  BY <1>1
<1>5. \A i \in 1..n : SubSeq(s, 1, n)[i] = s[i]
  BY <1>1
<1>. QED BY <1>3, <1>4, <1>5

LEMMA StopOnward ==
  ASSUME TypeOK, Underway, NEW p \in Peers, Stop(p)
  PROVE  Onward
<1>1. PICK k \in 0..Len(chan[Other(p)]), j \in 0..Len(chan[p]) :
        /\ chan' = [chan EXCEPT ![Other(p)] = SubSeq(@, 1, k), ![p] = SubSeq(@, 1, j)]
        /\ LoseCalls([q \in Peers |-> TailSet(chan[q], IF q = p THEN j ELSE k)])
  BY DEF Stop
<1>. DEFINE cut(q) == IF q = p THEN j ELSE k
            D == [q \in Peers |-> (cut(q) + 1)..Len(chan[q])]
            gone == [q \in Peers |-> TailSet(chan[q], cut(q))]
<1>2. Other(p) \in Peers /\ Other(p) # p /\ \A q \in Peers : q = p \/ q = Other(p)
  BY OtherPeer
<1>3. \A q \in Peers : chan[q] \in Seq(Message) /\ Len(chan[q]) \in Nat
  BY LenProperties DEF TypeOK
<1>4. \A q \in Peers : cut(q) \in 0..Len(chan[q]) /\ cut(q) \in Nat
  BY <1>2, <1>3
<1>5. \A q \in Peers : chan'[q] = SubSeq(chan[q], 1, cut(q))
  BY <1>1, <1>2 DEF TypeOK
<1>. HIDE DEF cut
<1>6. ASSUME NEW q \in Peers
      PROVE  /\ Left(chan'[q], chan[q], D[q]) /\ D[q] \subseteq 1..Len(chan[q])
             /\ chan'[q] \in Seq(Message)
  <2>. DEFINE s == chan[q]  n == cut(q)  r == SubSeq(s, 1, n)
  <2>1. s \in Seq(Message) /\ Len(s) \in Nat /\ n \in 0..Len(s) /\ n \in Nat
    BY <1>3, <1>4
  <2>2. Len(r) = n /\ r \in Seq(Message) /\ \A i \in 1..n : r[i] = s[i]
    BY <2>1, Prefix
  <2>3. D[q] = (n + 1)..Len(s) /\ chan'[q] = r
    BY <1>5
  <2>. HIDE DEF s, n, r, D
  <2>4. \A i \in 1..Len(r) : i + 0 \in 1..Len(s) /\ i + 0 \notin D[q] /\ r[i] = s[i + 0]
    BY <2>1, <2>2, <2>3
  <2>5. Left(r, s, D[q])
    BY <2>4 DEF Left
  <2>6. D[q] \subseteq 1..Len(s)
    BY <2>1, <2>3
  <2>. QED BY <2>2, <2>3, <2>5, <2>6 DEF s
<1>7. LostAt(gone, chan, D)
  BY DEF LostAt, TailSet
<1>8. LoseCalls(gone)
  BY <1>1 DEF cut
<1>. HIDE DEF D, gone
<1>9. Taken(chan', chan, D)
  BY <1>6 DEF Taken
<1>10. chan' \in [Peers -> Seq(Message)]
  BY <1>1, <1>6 DEF TypeOK
<1>11. UNCHANGED <<baked, replying, hand>>
  BY DEF Stop
<1>. QED BY <1>7, <1>8, <1>9, <1>10, <1>11, LoseOnward

LEMMA EarlyOnward ==
  ASSUME TypeOK, Underway, NEW p \in Peers, ReceiveEarly(p)
  PROVE  Onward
<1>. DEFINE gone == [q \in Peers |-> IF q = p THEN {Head(chan[p])} ELSE {}]
            D == [q \in Peers |-> IF q = p THEN {1} ELSE {}]
<1>1. /\ chan[p] # <<>> /\ chan' = [chan EXCEPT ![p] = Tail(@)]
      /\ LoseCalls(gone) /\ UNCHANGED <<baked, replying, hand>>
  BY DEF ReceiveEarly, Consume
<1>2. Taken(chan', chan, D) /\ chan[p][1] = Head(chan[p])
  BY <1>1, HeadLeft
<1>3. LostAt(gone, chan, D)
  BY <1>2 DEF LostAt
<1>4. chan' \in [Peers -> Seq(Message)]
  BY <1>1, ConsumeChan DEF TypeOK, Consume
<1>. HIDE DEF gone, D
<1>. QED BY <1>1, <1>2, <1>3, <1>4, LoseOnward

(* A handle that is dropped in its callback: one call is answered, another  *)
(* is begun.                                                                *)
LEMMA DiscardOnward ==
  ASSUME TypeOK, IdsApart, Underway, NEW p \in Peers, DiscardHandle(p)
  PROVE  Onward
<1>. DEFINE m == Head(chan[p])  n == baked[p] + 1  q == Other(p)
            u == Msg("unsubscribe_request", m.op, n, "success")
            c == [kind |-> u.type, fate |-> Unless(Reaches(p), "issued")]
            ch == [chan EXCEPT ![p] = Tail(@)]  L == {<<p, m.serial>>, <<p, n>>}
<1>1. PICK r \in outstanding[p] :
        /\ Arrives(p, Replies) /\ r.cid = m.cid /\ baked[p] < Budget[p]
        /\ baked' = [baked EXCEPT ![p] = n]
        /\ calls' = [calls EXCEPT ![p][r.serial].fate = "answered", ![p][n] = c]
        /\ chan' = IF Reaches(p) THEN [chan EXCEPT ![p] = Tail(@), ![q] = Append(@, u)] ELSE ch
        /\ UNCHANGED <<replying, hand>>
  BY DEF DiscardHandle
<1>2. /\ n \in Serials /\ n \in Nat /\ n = baked[p] + 1
      /\ baked \in [Peers -> Nat] /\ \A k \in Serials : k \in Nat
  <2>1. baked[p] \in 0..MaxSerial /\ Budget[p] \in 0..MaxSerial /\ MaxSerial \in Nat
    BY BoundsAssumption DEF TypeOK
  <2>. QED BY <1>1, <2>1 DEF Serials, TypeOK
<1>3. /\ chan[p] # <<>> /\ m.type \in Replies /\ m.type # "notification"
      /\ Caller(p, m) = p /\ r.serial = m.serial
  BY <1>1, TypesApart DEF Arrives, Caller, IdsApart
<1>4. /\ m \in Message /\ m.serial \in Serials /\ Due(calls, p, m)
      /\ Tokens(calls, ch, replying, hand)
      /\ Gone(ch, replying, hand, {<<p, m.serial>>})
  BY <1>3, HeadTaken
<1>5. /\ u \in Message /\ u.type = "unsubscribe_request" /\ u.serial = n
  <2>1. m.op \in Opcodes
    BY <1>4 DEF Message
  <2>. QED BY <1>2, <2>1, MsgType DEF Msg, Kinds
<1>6. q \in Peers /\ q # p /\ Other(q) = p
  BY OtherPeer
<1>7. c.fate = Unless(Reaches(p), "issued")
  OBVIOUS
<1>. HIDE DEF n, u, c, ch, m
<1>8. calls[p][m.serial].fate = "served" /\ calls[p][n].fate = "unused"
  <2>1. n > baked[p]
    BY <1>2
  <2>. QED BY <1>2, <1>3, <1>4, <2>1 DEF Due, Underway, Unbegun
<1>9. Gone(ch, replying, hand, L)
  <2>1. Gone(ch, replying, hand, {<<p, n>>})
    BY <1>2, <1>4, <1>8, UnusedGone
  <2>. QED BY <1>4, <2>1 DEF Gone, Token
<1>10. \A x \in Peers, k \in Serials : calls'[x][k].fate =
          IF x = p /\ k = n THEN c.fate
          ELSE IF x = p /\ k = m.serial THEN "answered" ELSE calls[x][k].fate
  <2>. DEFINE c1 == SetFate(calls, p, r.serial, "answered")
              a == [calls[p][r.serial] EXCEPT !.fate = "answered"]
  <2>1. a.fate = "answered" /\ r.serial = m.serial
    BY <1>3, <1>4 DEF TypeOK, Call
  <2>. HIDE DEF a
  <2>2. c1 = [calls EXCEPT ![p] = [calls[p] EXCEPT ![r.serial] = a]]
    BY DEF SetFate, a
  <2>3. calls' = [c1 EXCEPT ![p] = [c1[p] EXCEPT ![n] = c]]
    BY <1>1 DEF SetFate
  <2>4. calls \in [Peers -> [Serials -> Call]]
    BY DEF TypeOK
  <2>. HIDE DEF c1
  <2>5. \A x \in Peers, k \in Serials : c1[x][k] =
           IF x = p /\ k = r.serial THEN a ELSE calls[x][k]
    BY <1>4, <2>1, <2>2, <2>4
  <2>6. c1 \in [Peers -> [Serials -> Call \cup {a}]]
    BY <1>4, <2>1, <2>2, <2>4
  <2>7. \A x \in Peers, k \in Serials : calls'[x][k] = IF x = p /\ k = n THEN c ELSE c1[x][k]
    BY <1>2, <2>3, <2>6
  <2>. QED BY <2>1, <2>5, <2>7
<1>11. Tokens(calls', ch, replying, hand)
  <2>1. Only(calls, calls', L)
    BY <1>10 DEF Only
  <2>. HIDE DEF L
  <2>. QED BY <1>4, <1>9, <2>1, TokensMoved
<1>12. Tokens(calls', chan', replying, hand)
  <2>1. CASE Reaches(p)
    <3>1. Due(calls', q, u) /\ <<Caller(q, u), u.serial>> \in L
      BY <1>2, <1>5, <1>6, <1>7, <1>10, <2>1, TypesApart
         DEF Due, Caller, Unless, Kinds
    <3>2. chan' = [ch EXCEPT ![q] = Append(@, u)]
      BY <1>1, <1>6, <2>1 DEF ch
    <3>. HIDE DEF L
    <3>. QED BY <1>5, <1>6, <1>9, <1>11, <3>1, <3>2, TokensSent
  <2>2. CASE ~Reaches(p)
    BY <1>1, <1>11, <2>2
  <2>. QED BY <2>1, <2>2
<1>13. Unbegun'
  <2>. SUFFICES ASSUME NEW x \in Peers, NEW k \in Serials, k > baked'[x]
                PROVE  calls'[x][k].fate = "unused"
    BY DEF Unbegun
  <2>1. k \in Nat /\ baked[x] \in Nat /\ baked'[x] = IF x = p THEN n ELSE baked[x]
    BY <1>1, <1>2
  <2>2. k > baked[x] /\ ~(x = p /\ k = n)
    BY <2>1, <1>2
  <2>3. calls[x][k].fate = "unused"
    BY <2>2 DEF Underway, Unbegun
  <2>4. ~(x = p /\ k = m.serial)
    BY <1>8, <2>3
  <2>. QED BY <2>2, <2>3, <2>4, <1>10
<1>14. Advance
  BY <1>7, <1>8, <1>10 DEF Advance, Contract!Advances, Unless
<1>. QED BY <1>1, <1>12, <1>13, <1>14 DEF Onward, Underway

(* What a thread lets go of, or takes up that is no call.                   *)
LEMMA HandEmptied ==
  ASSUME TypeOK, Underway, NEW t \in Threads, hand' = [hand EXCEPT ![t] = {}]
  PROVE  Tokens(calls, chan, replying, hand')
<1>1. Carriers(chan, replying, hand') /\ \A u \in Threads : hand'[u] \subseteq hand[u]
  BY DEF TypeOK, Carriers
<1>2. Taken(chan, chan, [q \in Peers |-> {}])
  <2>1. \A q \in Peers : \A i \in 1..Len(chan[q]) : i + 0 = i
    <3>1. \A q \in Peers : Len(chan[q]) \in Nat
      BY LenProperties DEF TypeOK
    <3>. QED BY <3>1
  <2>. QED BY <2>1 DEF Taken, Left
<1>3. \A q \in Peers : replying[q] \subseteq replying[q]
  OBVIOUS
<1>4. \A u \in Threads : \A h \in hand'[u] :
        h \in hand[u] \/ (h.at = "insert" /\ h.msg.type \notin Replies)
  BY <1>1
<1>. QED BY <1>1, <1>2, <1>3, <1>4, TokensLess DEF Underway

LEMMA ProduceOnward ==
  ASSUME TypeOK, Underway, NEW t \in Threads, NEW s \in sinks[Home[t]], Produce(t, s)
  PROVE  Onward
<1>. DEFINE e == Msg("notification", s.op, s.serial, "success")
            h == [at |-> "send", msg |-> e]
<1>1. hand' = [hand EXCEPT ![t] = {h}] /\ UNCHANGED <<calls, baked, chan, replying>>
  BY DEF Produce
<1>2. Tokens(calls, chan, replying, hand) /\ Unbegun' /\ Advance
  BY <1>1, CallsStill DEF Underway
<1>3. e \in Message /\ e.type = "notification"
  <2>1. s.op \in Opcodes /\ s.serial \in Serials
    BY ThreadsAssumption DEF TypeOK, Sink
  <2>. QED BY <2>1, MsgType DEF Msg
<1>4. h \in Hand /\ h.msg = e
  BY <1>3 DEF Hand
<1>. HIDE DEF h, e
<1>5. h.msg.type \notin Replies /\ Due(calls, Other(Home[t]), h.msg)
  BY <1>3, <1>4, TypesApart DEF Due
<1>6. Tokens(calls, chan, replying, [hand EXCEPT ![t] = {h}])
  BY <1>2, <1>3, <1>4, <1>5, NothingGone, TokensHeld
<1>. QED BY <1>1, <1>2, <1>6 DEF Onward, Underway

(* What a sink that is closed or goes leaves to be done, and the doing.      *)
LEMMA ClosingOnward ==
  ASSUME TypeOK, Underway, NEW t \in Threads, NEW s \in sinks[Home[t]],
         hand' = [hand EXCEPT ![t] = Closing(s)], UNCHANGED <<calls, baked, chan, replying>>
  PROVE  Onward
<1>1. PICK h : Closing(s) = {h}
  BY DEF Closing
<1>2. h \in Hand /\ h.msg.type = "notification"
  BY <1>1, ClosingType
<1>3. Tokens(calls, chan, replying, hand) /\ Unbegun' /\ Advance
  BY CallsStill DEF Underway
<1>4. h.msg.type \notin Replies /\ Due(calls, Other(Home[t]), h.msg)
  BY <1>2, TypesApart DEF Due
<1>5. Tokens(calls, chan, replying, [hand EXCEPT ![t] = {h}])
  BY <1>2, <1>3, <1>4, NothingGone, TokensHeld
<1>6. hand' = [hand EXCEPT ![t] = {h}]
  BY <1>1
<1>. QED BY <1>3, <1>5, <1>6 DEF Onward, Underway

(* A notification that is sent, or not after all, and leaves the hand.      *)
LEMMA NoteOnward ==
  ASSUME TypeOK, Underway, NEW t \in Threads, NEW h \in hand[t],
         h.msg.type = "notification", Wire(Home[t], <<h.msg>>) \/ UNCHANGED chan,
         hand' = [hand EXCEPT ![t] = {}], UNCHANGED <<calls, baked, replying>>
  PROVE  Onward
<1>1. h.msg \in Message /\ Home[t] \in Peers
  BY HandType
<1>2. Tokens(calls, chan, replying, hand') /\ Unbegun
  BY HandEmptied DEF Underway
<1>. QED BY <1>1, <1>2, WireNote

LEMMA OnwardNext ==
  ASSUME TypeOK, IdsApart, HandsOpen, Underway, [Next]_vars
  PROVE  Onward
<1>a. ASSUME UNCHANGED <<calls, baked, chan, replying, hand>> PROVE Onward
  BY <1>a, CallsStill DEF Onward, Underway
<1>b. ASSUME NEW p \in Peers, Arrives(p, Kinds)
      PROVE  /\ chan[p] # <<>> /\ Head(chan[p]) \in Message /\ Head(chan[p]).op \in Opcodes
             /\ Head(chan[p]).serial \in Serials /\ Head(chan[p]).type \in Kinds
  BY <1>b, HeadType DEF Arrives
<1>c. ASSUME NEW p \in Peers, Arrives(p, Kinds), NEW err \in {"success", "failure"},
             NEW ms, LET m == Head(chan[p]) IN
               \/ ms = <<Reply(m, err)>>
               \/ ms = <<Msg("notification", m.op, m.serial, "aborted"), Reply(m, err)>>,
             Answer(p, Head(chan[p]), ms), UNCHANGED <<baked, replying, hand>>
      PROVE  Onward
  <2>. DEFINE m == Head(chan[p])  e == Reply(m, err)
              a == Msg("notification", m.op, m.serial, "aborted")
  <2>1. chan[p] # <<>> /\ m.type \in Kinds
    BY <1>b, <1>c
  <2>2. e \in Message /\ e.type \in Replies /\ e.serial = m.serial
    BY <1>b, <1>c, ReplyIsMessage
  <2>3. a \in Message /\ a.type = "notification"
    BY <1>b, <1>c, MsgType DEF Msg
  <2>4. ms = <<e>> \/ ms = <<a, e>>
    BY <1>c
  <2>. HIDE DEF e, a
  <2>. QED BY <1>c, <2>1, <2>2, <2>3, <2>4, AnswerOnward
<1>1. ASSUME NEW p \in Peers, StartConnection(p) \/ Listen(p) \/ HangUp(p) PROVE Onward
  BY <1>1, <1>a DEF StartConnection, Listen, HangUp
<1>2. ASSUME NEW p \in Peers, Stop(p) PROVE Onward
  BY <1>2, StopOnward
<1>3. ASSUME NEW t \in Threads, NEW op \in Opcodes, Request(t, op) \/ Subscribe(t, op)
      PROVE  Onward
  <2>1. PICK type \in Kinds : Bake(t, type, op)
    BY <1>3 DEF Request, Subscribe, Kinds
  <2>. QED BY <1>3, <2>1, BakeOnward DEF Request, Subscribe
<1>4. ASSUME NEW t \in Threads, NEW h \in handles[Home[t]], NEW dropped \in BOOLEAN,
             Unsubscribe(t, h, dropped)
      PROVE  Onward
  <2>1. h.op \in Opcodes
    BY ThreadsAssumption DEF TypeOK, Handle
  <2>. QED BY <1>4, <2>1, BakeOnward DEF Unsubscribe, Kinds
<1>5. ASSUME NEW t \in Threads, SendCall(t) PROVE Onward
  BY <1>5, SendCallOnward
<1>6. ASSUME NEW t \in Threads, Register(t) PROVE Onward
  <2>1. hand' = [hand EXCEPT ![t] = {}] /\ UNCHANGED <<calls, baked, chan, replying>>
    BY <1>6 DEF Register
  <2>. QED BY <2>1, HandEmptied, CallsStill DEF Onward, Underway
<1>7. ASSUME NEW t \in Threads, SendNotification(t) \/ FinishClose(t) PROVE Onward
  <2>1. PICK h \in hand[t] : /\ h.msg.type = "notification"
                             /\ Wire(Home[t], <<h.msg>>) \/ UNCHANGED chan
                             /\ hand' = [hand EXCEPT ![t] = {}]
                             /\ UNCHANGED <<calls, baked, replying>>
    <3>1. CASE SendNotification(t)
      BY <3>1 DEF SendNotification
    <3>2. CASE FinishClose(t)
      BY <3>2, HandType DEF FinishClose, CloseProduction
    <3>. QED BY <1>7, <3>1, <3>2
  <2>. QED BY <2>1, NoteOnward
<1>8. ASSUME NEW t \in Threads, NEW s \in sinks[Home[t]], Produce(t, s) PROVE Onward
  BY <1>8, ProduceOnward
<1>9. ASSUME NEW t \in Threads, NEW s \in sinks[Home[t]], Close(t, s) \/ DropSink(t, s)
      PROVE  Onward
  <2>1. /\ hand' = hand \/ hand' = [hand EXCEPT ![t] = Closing(s)]
        /\ UNCHANGED <<calls, baked, chan, replying>>
    BY <1>9 DEF Close, DropSink
  <2>. QED BY <1>a, <2>1, ClosingOnward
<1>10. ASSUME NEW p \in Peers, ReceiveEarly(p) PROVE Onward
  BY <1>10, EarlyOnward
<1>11. ASSUME NEW p \in Peers, ReceiveNotification(p) PROVE Onward
  <2>1. /\ chan[p] # <<>> /\ chan' = [chan EXCEPT ![p] = Tail(@)]
        /\ UNCHANGED <<baked, calls, replying, hand>>
    BY <1>11 DEF ReceiveNotification, Arrives, Consume
  <2>. QED BY <2>1, HeadTaken, CallsStill DEF Onward, Underway
<1>12. ASSUME NEW p \in Peers, ReceiveRequest(p) PROVE Onward
  <2>1. PICK err \in {"success", "failure"} :
          Answer(p, Head(chan[p]), <<Reply(Head(chan[p]), err)>>)
    BY <1>12 DEF ReceiveRequest
  <2>2. Arrives(p, Kinds) /\ UNCHANGED <<baked, replying, hand>>
    BY <1>12 DEF ReceiveRequest, Arrives, Kinds
  <2>. QED BY <1>c, <2>1, <2>2
<1>13. ASSUME NEW p \in Peers, RefuseSubscribe(p) PROVE Onward
  <2>1. Arrives(p, Kinds) /\ UNCHANGED <<baked, replying, hand>>
        /\ Answer(p, Head(chan[p]), <<Reply(Head(chan[p]), "failure")>>)
    BY <1>13 DEF RefuseSubscribe, Arrives, Kinds
  <2>. QED BY <1>c, <2>1
<1>14. ASSUME NEW p \in Peers, DiscardSubscribe(p) PROVE Onward
  <2>. DEFINE m == Head(chan[p])
  <2>1. Arrives(p, Kinds) /\ UNCHANGED <<baked, replying, hand>>
        /\ Answer(p, m, <<Msg("notification", m.op, m.serial, "aborted"), Reply(m, "success")>>)
    BY <1>14 DEF DiscardSubscribe, Arrives, Kinds
  <2>. QED BY <1>c, <2>1
<1>21. ASSUME NEW p \in Peers, AcceptClosed(p) PROVE Onward
  <2>1. Arrives(p, Kinds) /\ UNCHANGED <<baked, replying, hand>>
        /\ Answer(p, Head(chan[p]), <<Reply(Head(chan[p]), "success")>>)
    BY <1>21 DEF AcceptClosed, Arrives, Kinds
  <2>. QED BY <1>c, <2>1
<1>15. ASSUME NEW p \in Peers, AcceptSubscribe(p) \/ ReceiveUnsubscribe(p) PROVE Onward
  <2>1. /\ Arrives(p, Kinds) /\ Consume(p) /\ UNCHANGED <<baked, hand>>
        /\ calls' = SetFate(calls, Other(p), Head(chan[p]).serial, "served")
        /\ replying' = [replying EXCEPT ![p] = {Reply(Head(chan[p]), "success")}]
    BY <1>15 DEF AcceptSubscribe, ReceiveUnsubscribe, Arrives, Kinds
  <2>. QED BY <2>1, AcceptOnward
<1>16. ASSUME NEW p \in Peers, SendReply(p) PROVE Onward
  BY <1>16, SendReplyOnward
<1>17. ASSUME NEW p \in Peers, DropResponse(p) PROVE Onward
  BY <1>17, SettleOnward DEF DropResponse
<1>18. ASSUME NEW p \in Peers, CompleteCall(p) \/ CompleteSubscribe(p) PROVE Onward
  <2>1. PICK r \in outstanding[p] :
          /\ Completes(p, Head(chan[p]), r)
          /\ calls' = SetFate(calls, p, r.serial, "answered")
          /\ UNCHANGED <<baked, replying, hand>>
    BY <1>18 DEF CompleteCall, CompleteSubscribe
  <2>2. Arrives(p, Replies) /\ Consume(p) /\ r.serial = Head(chan[p]).serial
    BY <2>1 DEF Completes, Arrives, IdsApart
  <2>. QED BY <2>1, <2>2, SettleOnward
<1>19. ASSUME NEW p \in Peers, DiscardHandle(p) PROVE Onward
  BY <1>19, DiscardOnward
<1>20. CASE UNCHANGED vars
  BY <1>20, <1>a DEF vars
<1>. QED BY <1>1, <1>2, <1>3, <1>4, <1>5, <1>6, <1>7, <1>8, <1>9, <1>10, <1>11, <1>12,
            <1>13, <1>14, <1>15, <1>16, <1>17, <1>18, <1>19, <1>20, <1>21
         DEF Next, Receive, Application, Continue

LEMMA UnderwayInit == Init => Underway /\ SettledOnce
<1>1. Init => Underway
  <2>. SUFFICES ASSUME Init PROVE Underway
    OBVIOUS
  <2>1. /\ chan = [p \in Peers |-> <<>>] /\ replying = [p \in Peers |-> {}]
        /\ hand = [t \in Threads |-> {}]
    BY DEF Init
  <2>2. \A p \in Peers : Len(chan[p]) = 0 /\ chan[p] \in Seq(Message)
    BY <2>1
  <2>3. Carriers(chan, replying, hand)
    BY <2>1, <2>2 DEF Carriers
  <2>4. \A q \in Peers : Sound(calls, q, chan[q])
    BY <2>2 DEF Sound
  <2>5. Tokens(calls, chan, replying, hand)
    BY <2>1, <2>3, <2>4 DEF Tokens
  <2>6. Unbegun
    BY DEF Init, Unbegun
  <2>. QED BY <2>5, <2>6 DEF Underway
<1>2. Init => SettledOnce
  BY DEF Init, SettledOnce, EntriesDiffer, HandsOpen, NoSecondAnswer
<1>. QED BY <1>1, <1>2

(* CallsAdvance: with ids that do not wrap, the passers implement the       *)
(* contract: each call is issued, served and settled at most once and in    *)
(* that order, whatever is lost, dropped or closed meanwhile.               *)
THEOREM CallsKeepContract ==
  ASSUME MaxSerial <= CookieMod
  PROVE  Spec => CallsAdvance
<1>1. Init => Underway /\ SettledOnce
  BY UnderwayInit
<1>2. Provenance /\ SettledOnce /\ Underway /\ [Next]_vars => Onward
  <2>1. Provenance => TypeOK /\ IdsApart
    BY FewConversations, ResponseOfOnlyCall DEF Provenance
  <2>. QED BY <2>1, OnwardNext DEF SettledOnce
<1>3. Onward => Underway'
  BY DEF Onward
<1>4. Init => Contract!Init
  BY DEF Init, Contract!Init
<1>5. TypeOK' /\ Onward => Contract!Next
  <2>. SUFFICES ASSUME TypeOK', Onward PROVE Contract!Next
    OBVIOUS
  <2>1. [p \in Peers |-> [n \in Serials |-> calls'[p][n].fate]] \in
          [Peers -> [Serials -> Contract!Fates]]
    <3>1. \A p \in Peers, n \in Serials : calls'[p][n].fate \in Contract!Fates
      BY DEF TypeOK, Call, Fates, Contract!Fates, Contract!Open, Contract!Settled
    <3>. QED BY <3>1
  <2>2. Advance
    BY DEF Onward
  <2>. QED BY <2>1, <2>2 DEF Contract!Next, Advance
<1>6. Provenance => TypeOK
  BY DEF Provenance
<1>7. Spec => [][Contract!Next]_[p \in Peers |-> [n \in Serials |-> calls[p][n].fate]]
  BY <1>1, <1>2, <1>3, <1>5, <1>6, ProvenanceInit, ProvenanceNext, SettledNext, PTL DEF Spec
<1>. QED BY <1>4, <1>7, PTL DEF Spec, CallsAdvance, Contract!Safe
-----------------------------------------------------------------------------
(* Aborts.  A request of a subscription is a claim on the sink that will be *)
(* made for it.  Of every claim, sink and abort at most one is of a         *)
(* conversation; a sink only comes when its claim goes, and an abort when   *)
(* its sink closes.                                                         *)
Claim(m) == m.type = "subscribe_request"
Abort(m) == m.type = "notification" /\ m.err = "aborted"
Plain(m) == m.type # "subscribe_request" /\ m.err # "aborted"

(* The thread with h in hand is about to send the claim for n.              *)
Asks(h, n) == h.at = "send" /\ Claim(h.msg) /\ h.msg.serial = n

ClaimAt(s, i, n) == Claim(s[i]) /\ s[i].serial = n
AbortAt(s, i, n) == Abort(s[i]) /\ s[i].serial = n

(* A claim for n is on its way to p.                                        *)
Claimed(p, n) ==
  \/ \E i \in 1..Len(chan[p]) : ClaimAt(chan[p], i, n)
  \/ \E t \in Threads : Home[t] = Other(p) /\ \E h \in hand[t] : Asks(h, n)

(* The claim for n came and went: it never comes again.                     *)
Spent(p, n) == n <= baked[Other(p)] /\ ~Claimed(p, n)

Honest ==
  /\ \A q \in Peers : \A i \in 1..Len(chan[q]) :
       chan[q][i].err = "aborted" => chan[q][i].type = "notification"
  /\ \A p \in Peers : \A m \in replying[p] : Plain(m)
  /\ \A t \in Threads : \A h \in hand[t] : h.at # "close" => h.msg.err # "aborted"

ClaimsApart ==
  /\ \A p \in Peers, n \in Serials : \A i, j \in 1..Len(chan[p]) :
       ClaimAt(chan[p], i, n) /\ ClaimAt(chan[p], j, n) => i = j
  /\ \A t \in Threads, n \in Serials : \A h \in hand[t] : Asks(h, n) =>
       /\ \A i \in 1..Len(chan[Other(Home[t])]) : ~ClaimAt(chan[Other(Home[t])], i, n)
       /\ \A u \in Threads : \A g \in hand[u] : Home[u] = Home[t] /\ Asks(g, n) => u = t

ClaimsBaked == \A p \in Peers, n \in Serials : Claimed(p, n) => n <= baked[Other(p)]

SinksSpent ==
  \A p \in Peers : \A s \in sinks[p] :
    Spent(p, s.serial) /\ \A r \in sinks[p] : r.serial = s.serial => r = s

AbortsSpent ==
  \A p \in Peers, n \in Serials : \A i \in 1..Len(chan[Other(p)]) :
    AbortAt(chan[Other(p)], i, n) =>
      /\ Spent(p, n)
      /\ \A s \in sinks[p] : s.serial = n => s.closed
      /\ \A j \in 1..Len(chan[Other(p)]) : AbortAt(chan[Other(p)], j, n) => j = i

Claims == Honest /\ ClaimsApart /\ ClaimsBaked

(* A thread is on its way to close the production of n.                     *)
Shuts(h, n) == h.at = "close" /\ h.msg.serial = n

(* No abort of n was sent, and no sink of n is open.                        *)
Shut(p, n) == /\ \A s \in sinks[p] : s.serial = n => s.closed
              /\ \A i \in 1..Len(chan[Other(p)]) : ~AbortAt(chan[Other(p)], i, n)

OneShuts ==
  \A t, u \in Threads, n \in Serials : \A h \in hand[t], g \in hand[u] :
    Home[t] = Home[u] /\ Shuts(h, n) /\ Shuts(g, n) => t = u

ClosesSpent ==
  /\ OneShuts
  /\ \A t \in Threads, n \in Serials : \A h \in hand[t] :
       Shuts(h, n) => Spent(Home[t], n) /\ Shut(Home[t], n)

Aborting == Claims /\ SinksSpent /\ AbortsSpent /\ ClosesSpent

(* s2 is what is left of s, and messages that are neither claims nor aborts *)
(* and at most one, e, that may be.                                         *)
KeptSeq(s2, s, e) ==
  \E d, k \in Nat : \A i \in 1..Len(s2) :
    \/ Plain(s2[i])
    \/ i = k /\ s2[i] = e
    \/ i + d \in 1..Len(s) /\ s2[i] = s[i + d]

Kept(E) == \A q \in Peers : KeptSeq(chan'[q], chan[q], E[q])

SpentStays == \A p \in Peers, n \in Serials : Spent(p, n) => Spent(p, n)'

(* What a step leaves in hand: nothing that claims and was not there.       *)
HandsLess ==
  \A t \in Threads : \A h \in hand'[t] :
    h \in hand[t] \/ /\ h.at # "close" /\ h.msg.err # "aborted"
                     /\ ~(h.at = "send" /\ Claim(h.msg))

(* The same, but for what close and the destructor of a sink leave to do.   *)
HandsCalm ==
  \A t \in Threads : \A h \in hand'[t] :
    h \in hand[t] \/ h.at = "close" \/ (h.msg.err # "aborted" /\ ~(h.at = "send" /\ Claim(h.msg)))

Grows == \A p \in Peers : baked'[p] \in Nat /\ baked[p] \in Nat /\ baked[p] <= baked'[p]

LEMMA ClaimsLess ==
  ASSUME Claims, NEW E, Kept(E), \A q \in Peers : Plain(E[q]) \/ Abort(E[q]),
         HandsCalm, \A p \in Peers : \A m \in replying'[p] : Plain(m), Grows
  PROVE  Claims' /\ SpentStays
<1>1. \A m : Abort(m) \/ Plain(m) => ~Claim(m) /\ (m.err = "aborted" => m.type = "notification")
  BY DEF Abort, Plain, Claim
<1>2. ASSUME NEW p \in Peers
      PROVE  /\ \A i \in 1..Len(chan'[p]) :
                  chan'[p][i].err = "aborted" => chan'[p][i].type = "notification"
             /\ \A n \in Serials : \A i \in 1..Len(chan'[p]) : ClaimAt(chan'[p], i, n) =>
                  \E j \in 1..Len(chan[p]) : ClaimAt(chan[p], j, n)
             /\ \A n \in Serials : \A i, j \in 1..Len(chan'[p]) :
                  ClaimAt(chan'[p], i, n) /\ ClaimAt(chan'[p], j, n) => i = j
  <2>. DEFINE s == chan[p]  r == chan'[p]
  <2>1. PICK d \in Nat, k \in Nat : \A i \in 1..Len(r) :
          Plain(r[i]) \/ (i = k /\ r[i] = E[p]) \/ (i + d \in 1..Len(s) /\ r[i] = s[i + d])
    BY DEF Kept, KeptSeq
  <2>2. Plain(E[p]) \/ Abort(E[p])
    OBVIOUS
  <2>3. /\ \A i \in 1..Len(s) : s[i].err = "aborted" => s[i].type = "notification"
        /\ \A n \in Serials : \A i, j \in 1..Len(s) : ClaimAt(s, i, n) /\ ClaimAt(s, j, n) => i = j
    BY DEF Claims, Honest, ClaimsApart
  <2>. HIDE DEF s, r
  <2>4. \A i \in 1..Len(r) : r[i].err = "aborted" => r[i].type = "notification"
    BY <1>1, <2>1, <2>2, <2>3
  <2>5. ASSUME NEW n \in Serials, NEW i \in 1..Len(r), ClaimAt(r, i, n)
        PROVE  i + d \in 1..Len(s) /\ ClaimAt(s, i + d, n)
    BY <1>1, <2>1, <2>2, <2>5 DEF ClaimAt
  <2>6. ASSUME NEW n \in Serials, NEW i \in 1..Len(r), NEW j \in 1..Len(r),
               ClaimAt(r, i, n), ClaimAt(r, j, n)
        PROVE  i = j
    <3>1. i + d = j + d
      BY <2>3, <2>5, <2>6
    <3>. QED BY <3>1
  <2>7. \A n \in Serials : \A i \in 1..Len(r) : ClaimAt(r, i, n) =>
          \E j \in 1..Len(s) : ClaimAt(s, j, n)
    BY <2>5
  <2>. QED BY <2>4, <2>6, <2>7 DEF r, s
<1>3. ASSUME NEW t \in Threads, NEW h \in hand'[t], NEW n, Asks(h, n) PROVE h \in hand[t]
  BY <1>3 DEF HandsCalm, Asks
<1>4. \A p \in Peers, n \in Serials : Claimed(p, n)' => Claimed(p, n)
  BY <1>2, <1>3 DEF Claimed
<1>5. Honest'
  BY <1>2 DEF Honest, Claims, HandsCalm
<1>6. \A t \in Threads : Other(Home[t]) \in Peers
  BY ThreadsAssumption, OtherPeer
<1>7. ClaimsApart'
  <2>1. ASSUME NEW t \in Threads, NEW n \in Serials, NEW h \in hand'[t], Asks(h, n)
        PROVE  /\ \A i \in 1..Len(chan'[Other(Home[t])]) : ~ClaimAt(chan'[Other(Home[t])], i, n)
               /\ \A u \in Threads : \A g \in hand'[u] : Home[u] = Home[t] /\ Asks(g, n) => u = t
    <3>1. h \in hand[t] /\ ClaimsApart
      BY <1>3, <2>1 DEF Claims
    <3>. QED BY <1>2, <1>3, <1>6, <2>1, <3>1 DEF ClaimsApart
  <2>. QED BY <1>2, <2>1 DEF ClaimsApart
<1>8. ClaimsBaked'
  <2>. SUFFICES ASSUME NEW p \in Peers, NEW n \in Serials, Claimed(p, n)'
                PROVE  n <= baked'[Other(p)]
    BY DEF ClaimsBaked
  <2>1. n <= baked[Other(p)] /\ n \in Nat /\ Other(p) \in Peers
    BY <1>4, OtherPeer DEF Claims, ClaimsBaked, Serials
  <2>. QED BY <2>1 DEF Grows
<1>9. SpentStays
  <2>. SUFFICES ASSUME NEW p \in Peers, NEW n \in Serials, Spent(p, n) PROVE Spent(p, n)'
    BY DEF SpentStays
  <2>1. n <= baked[Other(p)] /\ n \in Nat /\ Other(p) \in Peers /\ ~Claimed(p, n)
    BY OtherPeer DEF Spent, Serials
  <2>. QED BY <1>4, <2>1 DEF Grows, Spent
<1>. QED BY <1>5, <1>7, <1>8, <1>9 DEF Claims

(* A new conversation is of no claim that was ever made.                    *)
LEMMA ClaimsBake ==
  ASSUME TypeOK, Claims, NEW t \in Threads, NEW type \in Kinds, NEW op \in Opcodes,
         Bake(t, type, op), UNCHANGED <<chan, replying>>
  PROVE  Claims' /\ SpentStays
<1>. DEFINE c == Home[t]  m == baked[c] + 1  u == Msg(type, op, m, "success")
            g == [at |-> "send", msg |-> u]
<1>1. /\ c \in Peers /\ m \in Serials /\ baked \in [Peers -> Nat]
      /\ baked' = [baked EXCEPT ![c] = m]
      /\ hand' = [hand EXCEPT ![t] = {g}] /\ hand \in [Threads -> SUBSET Hand]
  <2>1. c \in Peers /\ m \in Serials
    BY BakeType
  <2>2. baked \in [Peers -> Nat] /\ hand \in [Threads -> SUBSET Hand]
    BY BoundsAssumption DEF TypeOK
  <2>. QED BY <2>1, <2>2 DEF Bake
<1>2. g.msg.err # "aborted" /\ \A n : Asks(g, n) => n = m
  BY DEF Asks, Msg
<1>. HIDE DEF g
<1>3. \A x \in Threads : \A h \in hand'[x] : (x = t /\ h = g) \/ (x # t /\ h \in hand[x])
  BY <1>1
<1>4. \A p \in Peers, n \in Serials : n <= baked[Other(p)] => n <= baked'[Other(p)]
  <2>1. \A p \in Peers : baked'[p] = IF p = c THEN baked[p] + 1 ELSE baked[p]
    BY <1>1
  <2>. QED BY <1>1, <2>1, OtherPeer DEF Serials
<1>5. \A p \in Peers, n \in Serials : Claimed(p, n)' =>
        Claimed(p, n) \/ (Other(p) = c /\ n = m)
  BY <1>2, <1>3 DEF Claimed
<1>6. ~(m <= baked[c]) /\ m <= baked'[c] /\ c = Other(Other(c)) /\ Other(c) \in Peers
  BY <1>1, OtherPeer
<1>7. Honest'
  BY <1>2, <1>3 DEF Claims, Honest
<1>8. ~Claimed(Other(c), m)
  BY <1>1, <1>6 DEF Claims, ClaimsBaked
<1>9. ClaimsApart'
  <2>. SUFFICES ASSUME NEW x \in Threads, NEW n \in Serials, NEW h \in hand'[x], Asks(h, n)
                PROVE  /\ \A i \in 1..Len(chan[Other(Home[x])]) : ~ClaimAt(chan[Other(Home[x])], i, n)
                       /\ \A y \in Threads : \A k \in hand'[y] :
                            Home[y] = Home[x] /\ Asks(k, n) => y = x
    BY DEF Claims, ClaimsApart
  <2>0. Home[x] \in Peers /\ Other(Home[x]) \in Peers /\ Other(Other(Home[x])) = Home[x]
    BY ThreadsAssumption, OtherPeer
  <2>1. CASE x = t
    <3>1. n = m
      BY <1>2, <1>3, <2>1
    <3>2. \A i \in 1..Len(chan[Other(c)]) : ~ClaimAt(chan[Other(c)], i, n)
      BY <1>8, <3>1 DEF Claimed
    <3>3. ASSUME NEW y \in Threads, NEW k \in hand'[y], Home[y] = c, Asks(k, n), y # t
          PROVE  FALSE
      <4>1. k \in hand[y]
        BY <1>3, <3>3
      <4>. QED BY <1>6, <1>8, <3>1, <3>3, <4>1 DEF Claimed
    <3>. QED BY <2>1, <3>2, <3>3
  <2>2. CASE x # t
    <3>1. h \in hand[x] /\ ClaimsApart
      BY <1>3, <2>2 DEF Claims
    <3>2. \A i \in 1..Len(chan[Other(Home[x])]) : ~ClaimAt(chan[Other(Home[x])], i, n)
      BY <3>1 DEF ClaimsApart
    <3>3. Claimed(Other(Home[x]), n)
      BY <2>0, <3>1 DEF Claimed
    <3>4. Home[x] = c => n # m
      BY <1>8, <3>3
    <3>5. ASSUME NEW y \in Threads, NEW k \in hand'[y], Home[y] = Home[x], Asks(k, n)
          PROVE  y = x
      <4>1. k \in hand[y]
        BY <1>2, <1>3, <3>4, <3>5
      <4>. QED BY <3>1, <3>5, <4>1 DEF ClaimsApart
    <3>. QED BY <3>2, <3>5
  <2>. QED BY <2>1, <2>2
<1>10. ClaimsBaked'
  BY <1>4, <1>5, <1>6 DEF Claims, ClaimsBaked
<1>11. SpentStays
  <2>. SUFFICES ASSUME NEW p \in Peers, NEW n \in Serials, Spent(p, n) PROVE Spent(p, n)'
    BY DEF SpentStays
  <2>1. ~(Other(p) = c /\ n = m)
    BY <1>6 DEF Spent
  <2>. QED BY <1>4, <1>5, <2>1 DEF Spent
<1>. QED BY <1>7, <1>9, <1>10, <1>11 DEF Claims

(* A claim leaves the hand for the channel, or goes down.                   *)
LEMMA ClaimsSend ==
  ASSUME TypeOK, Claims, NEW t \in Threads, SendCall(t)
  PROVE  Claims' /\ SpentStays
<1>1. PICK h \in hand[t] :
        /\ h.at = "send" /\ h.msg.type \in Kinds /\ Wire(Home[t], <<h.msg>>)
        /\ hand' = [hand EXCEPT ![t] = {[at |-> "insert", msg |-> h.msg]}]
        /\ UNCHANGED <<baked, replying>>
  BY DEF SendCall
<1>. DEFINE c == Home[t]  q == Other(c)  s == chan[q]  r == Append(s, h.msg)
            g == [at |-> "insert", msg |-> h.msg]
<1>2. /\ c \in Peers /\ q \in Peers /\ Other(q) = c /\ s \in Seq(Message) /\ h.msg \in Message
      /\ hand \in [Threads -> SUBSET Hand] /\ baked \in [Peers -> Nat] /\ h.msg.serial \in Serials
      /\ chan \in [Peers -> Seq(Message)]
  <2>1. c \in Peers /\ q \in Peers /\ Other(q) = c
    BY ThreadsAssumption, OtherPeer
  <2>2. chan \in [Peers -> Seq(Message)] /\ hand \in [Threads -> SUBSET Hand]
        /\ baked \in [Peers -> 0..MaxSerial]
    BY DEF TypeOK
  <2>3. baked \in [Peers -> Nat]
    BY <2>2, BoundsAssumption
  <2>4. h.msg \in Message
    BY <2>2 DEF Hand
  <2>5. h.msg.serial \in Serials
    BY <2>4 DEF Message
  <2>. QED BY <2>1, <2>2, <2>3, <2>4, <2>5
<1>3. h.msg.err # "aborted"
  BY <1>1 DEF Claims, Honest
<1>4. \A x \in Threads : \A k \in hand'[x] :
        \/ k \in hand[x] /\ x # t
        \/ x = t /\ k = g
  BY <1>1, <1>2
<1>5. g.at = "insert" /\ g.msg = h.msg
  OBVIOUS
<1>6. s \o <<h.msg>> = r
  BY <1>2, AppendOne
<1>7. /\ Len(s) \in Nat /\ Len(r) = Len(s) + 1 /\ r[Len(s) + 1] = h.msg
      /\ \A i \in 1..Len(s) : r[i] = s[i]
  BY <1>2, AppendProperties, LenProperties
<1>8. chan' = chan \/ chan' = [chan EXCEPT ![q] = r]
  BY <1>1, <1>6 DEF Wire
<1>. HIDE DEF g, r
<1>9. \A x \in Peers : chan'[x] = chan[x] \/ (x = q /\ chan'[x] = r)
  BY <1>2, <1>8
<1>10. \A i \in 1..Len(r) : (i \in 1..Len(s) /\ r[i] = s[i]) \/ (i = Len(s) + 1 /\ r[i] = h.msg)
  BY <1>7
<1>. DEFINE n == h.msg.serial
<1>11. Claim(h.msg) => Asks(h, n)
  BY <1>1 DEF Asks
<1>12. ASSUME NEW p \in Peers, NEW k \in Serials, NEW i \in 1..Len(chan'[p]), ClaimAt(chan'[p], i, k)
       PROVE  \/ i \in 1..Len(chan[p]) /\ ClaimAt(chan[p], i, k)
              \/ p = q /\ i = Len(s) + 1 /\ k = n /\ Asks(h, n)
  BY <1>9, <1>10, <1>11, <1>12 DEF ClaimAt
<1>13. ASSUME NEW x \in Threads, NEW k \in hand'[x], NEW m, Asks(k, m)
       PROVE  x # t /\ k \in hand[x]
  BY <1>4, <1>5, <1>13 DEF Asks
<1>. HIDE DEF n
<1>14. \A p \in Peers, k \in Serials : Claimed(p, k)' => Claimed(p, k)
  <2>. SUFFICES ASSUME NEW p \in Peers, NEW k \in Serials, Claimed(p, k)' PROVE Claimed(p, k)
    OBVIOUS
  <2>1. CASE \E i \in 1..Len(chan'[p]) : ClaimAt(chan'[p], i, k)
    BY <1>2, <1>12, <2>1 DEF Claimed
  <2>2. CASE \E x \in Threads : Home[x] = Other(p) /\ \E m \in hand'[x] : Asks(m, k)
    BY <1>13, <2>2 DEF Claimed
  <2>. QED BY <2>1, <2>2 DEF Claimed
<1>15. Honest'
  <2>1. \A p \in Peers : \A i \in 1..Len(chan'[p]) :
          chan'[p][i].err = "aborted" => chan'[p][i].type = "notification"
    BY <1>3, <1>9, <1>10 DEF Claims, Honest
  <2>2. \A x \in Threads : \A k \in hand'[x] : k.at # "close" => k.msg.err # "aborted"
    BY <1>3, <1>4, <1>5 DEF Claims, Honest
  <2>. QED BY <1>1, <2>1, <2>2 DEF Claims, Honest
<1>16. ClaimsApart
  BY DEF Claims
<1>17. ASSUME NEW i \in 1..Len(s), Asks(h, n), ClaimAt(s, i, n) PROVE FALSE
  BY <1>2, <1>16, <1>17 DEF ClaimsApart, n
<1>18. ASSUME NEW p \in Peers, NEW k \in Serials, NEW i \in 1..Len(chan'[p]),
              NEW j \in 1..Len(chan'[p]), ClaimAt(chan'[p], i, k), ClaimAt(chan'[p], j, k)
       PROVE  i = j
  BY <1>12, <1>16, <1>17, <1>18 DEF ClaimsApart
<1>19. ASSUME NEW x \in Threads, NEW k \in Serials, NEW m \in hand'[x], Asks(m, k)
       PROVE  /\ \A i \in 1..Len(chan'[Other(Home[x])]) : ~ClaimAt(chan'[Other(Home[x])], i, k)
              /\ \A y \in Threads : \A l \in hand'[y] : Home[y] = Home[x] /\ Asks(l, k) => y = x
  <2>1. m \in hand[x] /\ x # t /\ Home[x] \in Peers /\ Other(Home[x]) \in Peers
        /\ Other(Other(Home[x])) = Home[x]
    BY <1>13, <1>19, ThreadsAssumption, OtherPeer
  <2>2. ASSUME NEW i \in 1..Len(chan'[Other(Home[x])]), ClaimAt(chan'[Other(Home[x])], i, k)
        PROVE  FALSE
    <3>1. CASE i \in 1..Len(chan[Other(Home[x])]) /\ ClaimAt(chan[Other(Home[x])], i, k)
      BY <1>16, <1>19, <2>1, <3>1 DEF ClaimsApart
    <3>2. CASE Other(Home[x]) = q /\ k = n /\ Asks(h, n)
      <4>1. Home[x] = Home[t]
        BY <1>2, <2>1, <3>2
      <4>. QED BY <1>16, <1>19, <2>1, <3>2, <4>1 DEF ClaimsApart
    <3>. QED BY <1>12, <2>1, <2>2, <3>1, <3>2
  <2>3. \A y \in Threads : \A l \in hand'[y] : Home[y] = Home[x] /\ Asks(l, k) => y = x
    BY <1>13, <1>16, <1>19, <2>1 DEF ClaimsApart
  <2>. QED BY <2>2, <2>3
<1>20. ClaimsApart'
  BY <1>18, <1>19 DEF ClaimsApart
<1>21. ClaimsBaked' /\ SpentStays
  BY <1>1, <1>14 DEF Claims, ClaimsBaked, SpentStays, Spent
<1>. QED BY <1>15, <1>20, <1>21 DEF Claims

-----------------------------------------------------------------------------
(* Which sections of the code keep what travels.                            *)
Nothing == [type |-> "none", err |-> "none"]

LEMMA NothingIsPlain == Plain(Nothing)
BY DEF Plain, Nothing

LEMMA KeptLeft ==
  ASSUME NEW s2, NEW s, NEW D, Left(s2, s, D), NEW e
  PROVE  KeptSeq(s2, s, e)
<1>1. PICK d \in Nat : \A i \in 1..Len(s2) : i + d \in 1..Len(s) /\ s2[i] = s[i + d]
  BY DEF Left
<1>. QED BY <1>1 DEF KeptSeq

LEMMA KeptTaken ==
  ASSUME NEW D, Taken(chan', chan, D), NEW E
  PROVE  Kept(E)
BY KeptLeft DEF Kept, Taken

LEMMA KeptSame ==
  ASSUME NEW s \in Seq(Message), NEW e
  PROVE  KeptSeq(s, s, e)
<1>1. Len(s) \in Nat
  BY LenProperties
<1>2. \A i \in 1..Len(s) : i + 0 = i
  BY <1>1
<1>. QED BY <1>2 DEF KeptSeq

(* A plain message may always follow, e once.                               *)
LEMMA KeptPlain ==
  ASSUME NEW s2 \in Seq(Message), NEW s, NEW e, KeptSeq(s2, s, e), NEW m \in Message, Plain(m)
  PROVE  KeptSeq(Append(s2, m), s, e)
<1>. DEFINE r == Append(s2, m)
<1>1. /\ Len(s2) \in Nat /\ Len(r) = Len(s2) + 1 /\ r[Len(s2) + 1] = m
      /\ \A i \in 1..Len(s2) : r[i] = s2[i]
  BY AppendProperties, LenProperties
<1>. HIDE DEF r
<1>2. \A i \in 1..Len(r) : i \in 1..Len(s2) \/ i = Len(s2) + 1
  BY <1>1
<1>3. PICK d \in Nat, k \in Nat : \A i \in 1..Len(s2) :
        Plain(s2[i]) \/ (i = k /\ s2[i] = e) \/ (i + d \in 1..Len(s) /\ s2[i] = s[i + d])
  BY DEF KeptSeq
<1>4. \A i \in 1..Len(r) :
        Plain(r[i]) \/ (i = k /\ r[i] = e) \/ (i + d \in 1..Len(s) /\ r[i] = s[i + d])
  BY <1>1, <1>2, <1>3
<1>5. KeptSeq(r, s, e)
  BY <1>4 DEF KeptSeq
<1>. QED BY <1>5 DEF r

LEMMA KeptOne ==
  ASSUME NEW s2 \in Seq(Message), NEW s, NEW D, Left(s2, s, D), NEW m \in Message
  PROVE  KeptSeq(Append(s2, m), s, m)
<1>. DEFINE r == Append(s2, m)
<1>1. /\ Len(s2) \in Nat /\ Len(r) = Len(s2) + 1 /\ r[Len(s2) + 1] = m
      /\ \A i \in 1..Len(s2) : r[i] = s2[i]
  BY AppendProperties, LenProperties
<1>. HIDE DEF r
<1>2. \A i \in 1..Len(r) : i \in 1..Len(s2) \/ i = Len(s2) + 1
  BY <1>1
<1>3. PICK d \in Nat : \A i \in 1..Len(s2) : i + d \in 1..Len(s) /\ s2[i] = s[i + d]
  BY DEF Left
<1>. DEFINE k == Len(s2) + 1
<1>4. \A i \in 1..Len(r) :
        Plain(r[i]) \/ (i = k /\ r[i] = m) \/ (i + d \in 1..Len(s) /\ r[i] = s[i + d])
  BY <1>1, <1>2, <1>3
<1>5. k \in Nat
  BY <1>1
<1>. HIDE DEF k
<1>6. KeptSeq(r, s, m)
  BY <1>4, <1>5 DEF KeptSeq
<1>. QED BY <1>6 DEF r

LEMMA LeftSame ==
  ASSUME NEW s \in Seq(Message)
  PROVE  Left(s, s, {})
<1>1. Len(s) \in Nat
  BY LenProperties
<1>2. \A i \in 1..Len(s) : i + 0 = i
  BY <1>1
<1>. QED BY <1>2 DEF Left

(* m is sent to q, and to nobody else.                                      *)
To(q, m) == [x \in Peers |-> IF x = q THEN m ELSE Nothing]

LEMMA WireKept ==
  ASSUME TypeOK, NEW p \in Peers, NEW m \in Message, Wire(p, <<m>>) \/ UNCHANGED chan
  PROVE  Kept(To(Other(p), m))
<1>1. \A q \in Peers : chan[q] \in Seq(Message)
  BY DEF TypeOK
<1>2. Other(p) \in Peers
  BY OtherPeer
<1>. DEFINE E == To(Other(p), m)
<1>3. \A q \in Peers : KeptSeq(chan[q], chan[q], E[q])
  BY <1>1, KeptSame
<1>4. KeptSeq(Append(chan[Other(p)], m), chan[Other(p)], m) /\ E[Other(p)] = m
  BY <1>1, <1>2, KeptOne, LeftSame DEF To
<1>5. chan[Other(p)] \o <<m>> = Append(chan[Other(p)], m)
  BY <1>1, <1>2, AppendOne
<1>6. \A q \in Peers : chan'[q] = chan[q] \/ (q = Other(p) /\ chan'[q] = Append(chan[q], m))
  BY <1>2, <1>5 DEF Wire, TypeOK
<1>. HIDE DEF E
<1>7. Kept(E)
  BY <1>3, <1>4, <1>6 DEF Kept
<1>. QED BY <1>7 DEF E

LEMMA StillKept ==
  ASSUME TypeOK, NEW q \in Peers, UNCHANGED chan
  PROVE  Kept(To(q, Nothing))
<1>1. \A x \in Peers : chan[x] \in Seq(Message)
  BY DEF TypeOK
<1>. QED BY <1>1, KeptSame DEF Kept

LEMMA ConsumeKept ==
  ASSUME TypeOK, NEW p \in Peers, NEW q \in Peers, chan[p] # <<>>, Consume(p)
  PROVE  Kept(To(q, Nothing))
<1>1. chan' = [chan EXCEPT ![p] = Tail(@)]
  BY DEF Consume
<1>. QED BY <1>1, HeadLeft, KeptTaken

LEMMA StopKept ==
  ASSUME TypeOK, NEW p \in Peers, NEW q \in Peers, Stop(p)
  PROVE  Kept(To(q, Nothing))
<1>1. PICK k \in 0..Len(chan[Other(p)]), j \in 0..Len(chan[p]) :
        chan' = [chan EXCEPT ![Other(p)] = SubSeq(@, 1, k), ![p] = SubSeq(@, 1, j)]
  BY DEF Stop
<1>2. Other(p) \in Peers /\ Other(p) # p /\ \A x \in Peers : x = p \/ x = Other(p)
  BY OtherPeer
<1>. DEFINE cut(x) == IF x = p THEN j ELSE k
<1>3. \A x \in Peers : /\ chan[x] \in Seq(Message) /\ cut(x) \in 0..Len(chan[x])
                       /\ chan'[x] = SubSeq(chan[x], 1, cut(x))
  BY <1>1, <1>2 DEF TypeOK
<1>. HIDE DEF cut
<1>4. ASSUME NEW x \in Peers PROVE Left(chan'[x], chan[x], {})
  <2>. DEFINE s == chan[x]  n == cut(x)  r == SubSeq(s, 1, n)
  <2>1. s \in Seq(Message) /\ n \in 0..Len(s) /\ Len(s) \in Nat /\ chan'[x] = r
    BY <1>3, LenProperties
  <2>2. Len(r) = n /\ \A i \in 1..n : r[i] = s[i]
    BY <2>1, Prefix
  <2>. HIDE DEF s, n, r
  <2>3. \A i \in 1..Len(r) : i + 0 \in 1..Len(s) /\ i + 0 \notin {} /\ r[i] = s[i + 0]
    BY <2>1, <2>2
  <2>4. Left(r, s, {})
    BY <2>3 DEF Left
  <2>. QED BY <2>1, <2>4 DEF s
<1>. QED BY <1>4, KeptLeft DEF Kept

(* The head of p's channel is taken and ms sent back.                       *)
Exchanges(p, ms) ==
  chan' = IF Reaches(p) THEN [chan EXCEPT ![p] = Tail(@), ![Other(p)] = @ \o ms]
          ELSE [chan EXCEPT ![p] = Tail(@)]

(* The head of a channel is handled and messages sent back: plain ones, and *)
(* before them perhaps one that is not.                                     *)
LEMMA AnswerKept ==
  ASSUME TypeOK, NEW p \in Peers, chan[p] # <<>>,
         NEW a \in Message, NEW e \in Message, Plain(e),
         NEW ms, ms = <<e>> \/ ms = <<a, e>>, Exchanges(p, ms)
  PROVE  Kept(To(Other(p), a)) /\ (ms = <<e>> => Kept(To(Other(p), Nothing)))
<1>. DEFINE q == Other(p)  s == chan[q]  ch == [chan EXCEPT ![p] = Tail(@)]
<1>1. /\ q \in Peers /\ q # p /\ \A x \in Peers : x = p \/ x = q
      /\ s \in Seq(Message) /\ chan \in [Peers -> Seq(Message)]
  BY OtherPeer DEF TypeOK
<1>2. \A x \in Peers : Left(ch[x], chan[x], IF x = p THEN {1} ELSE {})
  <2>1. Taken(ch, chan, [x \in Peers |-> IF x = p THEN {1} ELSE {}])
    BY HeadLeft
  <2>. QED BY <2>1 DEF Taken
<1>3. ASSUME NEW E PROVE \A x \in Peers : KeptSeq(ch[x], chan[x], E[x])
  BY <1>2, KeptLeft
<1>4. ch[p] = Tail(chan[p]) /\ ch[q] = s
  BY <1>1
<1>5. CASE ~Reaches(p)
  <2>1. chan' = ch
    BY <1>5 DEF Exchanges
  <2>. HIDE DEF ch
  <2>. QED BY <1>3, <2>1 DEF Kept
<1>6. CASE Reaches(p)
  <2>1. chan'[p] = ch[p] /\ chan'[q] = s \o ms
    BY <1>1, <1>4, <1>6 DEF Exchanges
  <2>2. /\ KeptSeq(Append(s, e), s, Nothing) /\ KeptSeq(Append(s, e), s, a)
        /\ s \o <<e>> = Append(s, e)
    BY <1>1, KeptSame, KeptPlain, AppendOne
  <2>3. KeptSeq(Append(Append(s, a), e), s, a) /\ s \o <<a, e>> = Append(Append(s, a), e)
    <3>1. Left(s, s, {})
      BY <1>1, LeftSame
    <3>2. KeptSeq(Append(s, a), s, a)
      BY <1>1, <3>1, KeptOne
    <3>3. Append(s, a) \in Seq(Message)
      BY <1>1, AppendOne
    <3>4. s \o <<a, e>> = Append(Append(s, a), e)
      BY <1>1, AppendTwo
    <3>. DEFINE u == Append(s, a)
    <3>. HIDE DEF u
    <3>5. KeptSeq(Append(u, e), s, a)
      BY <3>2, <3>3, KeptPlain DEF u
    <3>. QED BY <3>4, <3>5 DEF u
  <2>4. KeptSeq(chan'[q], s, a)
    BY <2>1, <2>2, <2>3
  <2>5. ms = <<e>> => KeptSeq(chan'[q], s, Nothing)
    BY <2>1, <2>2
  <2>6. \A E : KeptSeq(chan'[p], chan[p], E[p])
    BY <1>3, <2>1
  <2>. DEFINE A == To(q, a)  N == To(q, Nothing)
  <2>7. A[q] = a /\ N[q] = Nothing
    BY <1>1 DEF To
  <2>. HIDE DEF A, N
  <2>8. Kept(A) /\ (ms = <<e>> => Kept(N))
    BY <1>1, <2>4, <2>5, <2>6, <2>7 DEF Kept
  <2>. QED BY <2>8 DEF A, N
<1>. QED BY <1>5, <1>6

-----------------------------------------------------------------------------
(* A sink is one there was, and as open at most, or is of a claim that was  *)
(* pending before the step and is not any more; no two are of one claim.    *)
SinksFrom ==
  \A p \in Peers : \A s \in sinks'[p] :
    /\ \/ \E r \in sinks[p] : r.serial = s.serial /\ (r.closed => s.closed)
       \/ ~Spent(p, s.serial) /\ Spent(p, s.serial)'
    /\ \A r \in sinks'[p] : r.serial = s.serial => r = s

(* An abort of n may be sent to q.                                          *)
Abortable(q, n) ==
  /\ n \in Serials /\ Spent(Other(q), n)'
  /\ \A i \in 1..Len(chan[q]) : ~AbortAt(chan[q], i, n)
  /\ \A s \in sinks'[Other(q)] : s.serial = n => s.closed

(* The closes under way after a step that sends m to q are of the same      *)
(* threads, or new; the abort of none of them is sent.                      *)
ClosesFrom(q, m) ==
  /\ OneShuts'
  /\ \A t \in Threads, n \in Serials : \A h \in hand'[t] : Shuts(h, n) =>
       /\ ~(Abort(m) /\ m.serial = n /\ q = Other(Home[t]))
       /\ \/ h \in hand[t]
          \/ /\ Spent(Home[t], n)'
             /\ \A s \in sinks'[Home[t]] : s.serial = n => s.closed
             /\ \A i \in 1..Len(chan[Other(Home[t])]) : ~AbortAt(chan[Other(Home[t])], i, n)

LEMMA NoneShutAnew ==
  ASSUME Aborting, NEW q \in Peers, NEW m,
         \A t \in Threads : \A h \in hand'[t] : h.at = "close" => h \in hand[t],
         \A t \in Threads : \A h \in hand'[t] :
           Abort(m) /\ Shuts(h, m.serial) => q # Other(Home[t])
  PROVE  ClosesFrom(q, m)
BY DEF ClosesFrom, Aborting, ClosesSpent, OneShuts, Shuts

LEMMA AbortingStep ==
  ASSUME TypeOK, Aborting, Claims', SpentStays, SinksFrom, NEW q \in Peers, NEW m,
         Kept(To(q, m)), Abort(m) => Abortable(q, m.serial), ClosesFrom(q, m)
  PROVE  Aborting'
<1>1. \A p \in Peers : \A s \in sinks[p] : s.serial \in Serials
  BY DEF TypeOK, Sink
<1>2. SinksSpent'
  BY <1>1 DEF SinksSpent, SinksFrom, SpentStays, Aborting
<1>3. ~Abort(Nothing) /\ \A x : Plain(x) => ~Abort(x)
  BY DEF Abort, Nothing, Plain
<1>4. AbortsSpent'
  <2>. SUFFICES ASSUME NEW p \in Peers, NEW n \in Serials,
                       NEW i \in 1..Len(chan'[Other(p)]), AbortAt(chan'[Other(p)], i, n)
                PROVE  /\ Spent(p, n)'
                       /\ \A s \in sinks'[p] : s.serial = n => s.closed
                       /\ \A j \in 1..Len(chan'[Other(p)]) : AbortAt(chan'[Other(p)], j, n) => j = i
    BY DEF AbortsSpent
  <2>. DEFINE x == Other(p)  s == chan[x]  r == chan'[x]  e == To(q, m)[x]
  <2>1. x \in Peers /\ Other(x) = p
    BY OtherPeer
  <2>2. PICK d \in Nat, k \in Nat : \A j \in 1..Len(r) :
          Plain(r[j]) \/ (j = k /\ r[j] = e) \/ (j + d \in 1..Len(s) /\ r[j] = s[j + d])
    BY <2>1 DEF Kept, KeptSeq
  <2>3. e = IF x = q THEN m ELSE Nothing
    BY <2>1 DEF To
  <2>. HIDE DEF e, r, s
  <2>4. ASSUME NEW j \in 1..Len(r), AbortAt(r, j, n)
        PROVE  \/ j = k /\ Abort(m) /\ x = q /\ m.serial = n
               \/ j + d \in 1..Len(s) /\ AbortAt(s, j + d, n)
    BY <1>3, <2>2, <2>3, <2>4 DEF AbortAt
  <2>5. \A j \in 1..Len(s) : AbortAt(s, j, n) =>
          /\ Spent(p, n) /\ \A y \in sinks[p] : y.serial = n => y.closed
          /\ \A l \in 1..Len(s) : AbortAt(s, l, n) => l = j
    BY DEF Aborting, AbortsSpent, s
  <2>6. Abort(m) /\ x = q /\ m.serial = n =>
          /\ Spent(p, n)' /\ \A y \in sinks'[p] : y.serial = n => y.closed
          /\ \A j \in 1..Len(s) : ~AbortAt(s, j, n)
    BY <2>1 DEF Abortable, s
  <2>7. i \in 1..Len(r) /\ AbortAt(r, i, n)
    BY DEF r
  <2>. HIDE DEF x
  <2>8. CASE i = k /\ Abort(m) /\ x = q /\ m.serial = n
    BY <2>4, <2>6, <2>7, <2>8 DEF r, x
  <2>9. CASE i + d \in 1..Len(s) /\ AbortAt(s, i + d, n)
    <3>1. Spent(p, n) /\ \A y \in sinks[p] : y.serial = n => y.closed
      BY <2>5, <2>9
    <3>2. \A y \in sinks'[p] : y.serial = n => y.closed
      BY <3>1 DEF SinksFrom
    <3>3. ASSUME NEW j \in 1..Len(r), AbortAt(r, j, n) PROVE j = i
      <4>1. j + d \in 1..Len(s) /\ AbortAt(s, j + d, n)
        BY <2>4, <2>6, <2>9, <3>3
      <4>2. j + d = i + d
        BY <2>5, <2>9, <4>1
      <4>. QED BY <2>7, <4>2
    <3>4. Spent(p, n)'
      BY <3>1 DEF SpentStays
    <3>. QED BY <3>2, <3>3, <3>4 DEF r, x
  <2>. QED BY <2>4, <2>7, <2>8, <2>9
<1>5. ASSUME NEW t \in Threads, NEW n \in Serials, NEW h \in hand'[t], Shuts(h, n)
      PROVE  Spent(Home[t], n)' /\ Shut(Home[t], n)'
  <2>. DEFINE p == Home[t]  x == Other(p)  s == chan[x]  r == chan'[x]  e == To(q, m)[x]
  <2>1. x \in Peers /\ p \in Peers
    BY ThreadsAssumption, OtherPeer
  <2>2. PICK d \in Nat, k \in Nat : \A j \in 1..Len(r) :
          Plain(r[j]) \/ (j = k /\ r[j] = e) \/ (j + d \in 1..Len(s) /\ r[j] = s[j + d])
    BY <2>1 DEF Kept, KeptSeq
  <2>3. e = IF x = q THEN m ELSE Nothing
    BY <2>1 DEF To
  <2>4. ~(Abort(m) /\ m.serial = n /\ q = x)
    BY <1>5 DEF ClosesFrom
  <2>5. /\ \A i \in 1..Len(s) : ~AbortAt(s, i, n)
        /\ Spent(p, n)' /\ \A y \in sinks'[p] : y.serial = n => y.closed
    <3>1. CASE h \in hand[t]
      <4>1. Spent(p, n) /\ Shut(p, n)
        BY <1>5, <3>1 DEF Aborting, ClosesSpent
      <4>2. Spent(p, n)'
        BY <2>1, <4>1 DEF SpentStays
      <4>3. \A y \in sinks'[p] : y.serial = n => y.closed
        BY <2>1, <4>1 DEF SinksFrom, Shut
      <4>. QED BY <4>1, <4>2, <4>3 DEF Shut
    <3>2. CASE h \notin hand[t]
      BY <1>5, <3>2 DEF ClosesFrom
    <3>. QED BY <3>1, <3>2
  <2>. HIDE DEF e, r, s
  <2>6. \A j \in 1..Len(r) : ~AbortAt(r, j, n)
    BY <1>3, <2>2, <2>3, <2>4, <2>5 DEF AbortAt
  <2>. QED BY <2>5, <2>6 DEF Shut, r
<1>6. ClosesSpent'
  BY <1>5 DEF ClosesSpent, ClosesFrom
<1>. QED BY <1>2, <1>4, <1>6 DEF Aborting

LEMMA SinksFewer ==
  ASSUME Aborting, \A p \in Peers : sinks'[p] \subseteq sinks[p]
  PROVE  SinksFrom
BY DEF Aborting, SinksSpent, SinksFrom

(* A claim that is handled is spent; it was not before.                     *)
LEMMA ClaimHandled ==
  ASSUME TypeOK, Claims, NEW p \in Peers, chan[p] # <<>>, Claim(Head(chan[p])),
         NEW n, n = Head(chan[p]).serial,
         chan'[p] = Tail(chan[p]), UNCHANGED <<baked, hand>>
  PROVE  n \in Serials /\ ~Spent(p, n) /\ Spent(p, n)'
<1>. DEFINE s == chan[p]
<1>1. /\ s \in Seq(Message) /\ n \in Serials
  BY HeadType DEF TypeOK
<1>2. /\ Len(s) \in Nat /\ 1 \in 1..Len(s) /\ Head(s) = s[1]
      /\ Len(Tail(s)) = Len(s) - 1 /\ \A i \in 1..Len(Tail(s)) : Tail(s)[i] = s[i + 1]
  <2>1. Len(s) \in Nat /\ Len(s) # 0
    BY <1>1, LenProperties, EmptySeq
  <2>2. /\ Head(s) = s[1] /\ Len(Tail(s)) = Len(s) - 1
        /\ \A i \in 1..Len(Tail(s)) : Tail(s)[i] = s[i + 1]
    BY <1>1, HeadTailProperties
  <2>. QED BY <2>1, <2>2
<1>3. ClaimAt(s, 1, n)
  BY <1>2 DEF ClaimAt
<1>4. Claimed(p, n)
  BY <1>2, <1>3 DEF Claimed
<1>5. n <= baked[Other(p)]
  BY <1>1, <1>4 DEF Claims, ClaimsBaked
<1>6. \A i \in 1..Len(Tail(s)) : ~ClaimAt(Tail(s), i, n)
  <2>. SUFFICES ASSUME NEW i \in 1..Len(Tail(s)), ClaimAt(Tail(s), i, n) PROVE FALSE
    OBVIOUS
  <2>. DEFINE r == Tail(s)
  <2>. HIDE DEF r, s
  <2>1. i + 1 \in 1..Len(s) /\ ClaimAt(s, i + 1, n)
    BY <1>2 DEF ClaimAt, r
  <2>2. i + 1 = 1
    BY <1>1, <1>2, <1>3, <2>1 DEF Claims, ClaimsApart, s
  <2>. QED BY <1>2, <2>2 DEF r
<1>7. \A t \in Threads : Home[t] = Other(p) => \A h \in hand[t] : ~Asks(h, n)
  <2>. SUFFICES ASSUME NEW t \in Threads, Home[t] = Other(p), NEW h \in hand[t], Asks(h, n)
                PROVE  FALSE
    OBVIOUS
  <2>1. Other(Home[t]) = p
    BY OtherPeer
  <2>. QED BY <1>1, <1>2, <1>3, <2>1 DEF Claims, ClaimsApart
<1>8. ~Claimed(p, n)'
  <2>1. ~\E i \in 1..Len(chan'[p]) : ClaimAt(chan'[p], i, n)
    BY <1>6
  <2>. QED BY <1>7, <2>1 DEF Claimed
<1>. QED BY <1>1, <1>4, <1>5, <1>8 DEF Spent

LEMMA LessIsCalm ==
  ASSUME HandsLess
  PROVE  /\ HandsCalm
         /\ \A t \in Threads : \A h \in hand'[t] : h.at = "close" => h \in hand[t]
BY DEF HandsLess, HandsCalm

(* A step that sends q at most one message, m, and leaves no claim in hand  *)
(* that was not there.                                                      *)
LEMMA QuietStep ==
  ASSUME TypeOK, Aborting, NEW q \in Peers, NEW m, Kept(To(q, m)), Plain(m) \/ Abort(m),
         HandsCalm, \A p \in Peers : \A x \in replying'[p] : Plain(x), Grows
  PROVE  Claims' /\ SpentStays
<1>. DEFINE E == To(q, m)
<1>1. \A p \in Peers : Plain(E[p]) \/ Abort(E[p])
  BY NothingIsPlain DEF To
<1>. HIDE DEF E
<1>2. Kept(E)
  BY DEF E
<1>. QED BY <1>1, <1>2, ClaimsLess DEF Aborting

LEMMA PlainStep ==
  ASSUME TypeOK, Aborting, NEW q \in Peers, NEW m, Kept(To(q, m)), Plain(m),
         HandsLess, \A p \in Peers : \A x \in replying'[p] : Plain(x), Grows,
         \A p \in Peers : sinks'[p] \subseteq sinks[p]
  PROVE  Aborting'
<1>1. ~Abort(m)
  BY DEF Abort, Plain
<1>2. HandsCalm /\ ClosesFrom(q, m)
  BY <1>1, LessIsCalm, NoneShutAnew
<1>. QED BY <1>1, <1>2, QuietStep, SinksFewer, AbortingStep

LEMMA BakedStill ==
  ASSUME TypeOK, UNCHANGED baked
  PROVE  Grows
<1>1. \A p \in Peers : baked[p] \in 0..MaxSerial /\ MaxSerial \in Nat
  BY BoundsAssumption DEF TypeOK
<1>. QED BY <1>1 DEF Grows

LEMMA SinksStill ==
  ASSUME UNCHANGED sinks
  PROVE  \A p \in Peers : sinks'[p] \subseteq sinks[p]
OBVIOUS

LEMMA ReplyPlain ==
  ASSUME NEW m \in Message, m.type \in Kinds, NEW err \in {"success", "failure"}
  PROVE  Reply(m, err) \in Message /\ Plain(Reply(m, err))
<1>1. Reply(m, err) \in Message /\ Reply(m, err).type \in Replies /\ Reply(m, err).err = err
  BY ReplyIsMessage
<1>. QED BY <1>1 DEF Plain, Replies

LEMMA BakeAborting ==
  ASSUME TypeOK, Aborting, NEW t \in Threads, NEW type \in Kinds, NEW op \in Opcodes,
         Bake(t, type, op), UNCHANGED <<chan, replying, sinks>>
  PROVE  Aborting'
<1>1. Claims' /\ SpentStays
  BY ClaimsBake DEF Aborting
<1>2. Home[t] \in Peers
  BY ThreadsAssumption
<1>3. Kept(To(Home[t], Nothing)) /\ ~Abort(Nothing)
  BY <1>2, StillKept DEF Abort, Nothing
<1>4. \A u \in Threads : \A h \in hand'[u] : h.at = "close" => h \in hand[u]
  BY DEF Bake, TypeOK
<1>5. ClosesFrom(Home[t], Nothing)
  BY <1>2, <1>3, <1>4, NoneShutAnew
<1>. QED BY <1>1, <1>2, <1>3, <1>5, SinksStill, SinksFewer, AbortingStep

LEMMA SendCallAborting ==
  ASSUME TypeOK, Aborting, NEW t \in Threads, SendCall(t)
  PROVE  Aborting'
<1>1. Claims' /\ SpentStays
  BY ClaimsSend DEF Aborting
<1>2. PICK h \in hand[t] : /\ Wire(Home[t], <<h.msg>>) /\ h.at = "send" /\ UNCHANGED sinks
                           /\ hand' = [hand EXCEPT ![t] = {[at |-> "insert", msg |-> h.msg]}]
  BY DEF SendCall
<1>3. Home[t] \in Peers /\ Other(Home[t]) \in Peers /\ h.msg \in Message
  BY ThreadsAssumption, OtherPeer, HandType
<1>4. ~Abort(h.msg)
  BY <1>2 DEF Aborting, Claims, Honest, Abort
<1>5. Kept(To(Other(Home[t]), h.msg))
  BY <1>2, <1>3, WireKept
<1>6. \A u \in Threads : \A g \in hand'[u] : g.at = "close" => g \in hand[u]
  BY <1>2 DEF TypeOK
<1>7. ClosesFrom(Other(Home[t]), h.msg)
  BY <1>3, <1>4, <1>6, NoneShutAnew
<1>. QED BY <1>1, <1>2, <1>3, <1>4, <1>5, <1>7, SinksStill, SinksFewer, AbortingStep

(* A sink that is closed or dropped leaves its abort to be sent, unless it  *)
(* was closed before.                                                       *)
LEMMA CloseAborting ==
  ASSUME TypeOK, Aborting, NEW t \in Threads, NEW s \in sinks[Home[t]],
         Close(t, s) \/ DropSink(t, s)
  PROVE  Aborting'
<1>. DEFINE p == Home[t]  q == Other(p)
<1>1. p \in Peers /\ q \in Peers /\ Other(q) = p
  BY ThreadsAssumption, OtherPeer
<1>2. UNCHANGED <<baked, replying, chan>>
  BY DEF Close, DropSink
<1>3. s \in Sink /\ s.serial \in Serials /\ s.op \in Opcodes /\ sinks \in [Peers -> SUBSET Sink]
  BY <1>1 DEF TypeOK, Sink
<1>. DEFINE c == [s EXCEPT !.closed = TRUE]  g == Msg("notification", s.op, s.serial, "aborted")
            x == [at |-> "close", msg |-> g]
<1>4. c.serial = s.serial /\ c.closed /\ c \in Sink
  BY <1>3 DEF Sink
<1>14. x.at = "close" /\ x.msg.serial = s.serial
  BY DEF Msg
<1>15. hand' = hand \/ (~s.closed /\ hand' = [hand EXCEPT ![t] = {x}])
  BY DEF Close, DropSink, Closing
<1>. HIDE DEF c, x
<1>5. \/ sinks' = [sinks EXCEPT ![p] = (@ \ {s}) \cup {c}]
      \/ sinks' = [sinks EXCEPT ![p] = @ \ {s}]
  BY DEF Close, DropSink, c
<1>. HIDE DEF p, q
<1>6. \A y \in Peers : \A r \in sinks'[y] : r \in sinks[y] \/ (y = p /\ r = c)
  BY <1>1, <1>3, <1>5
<1>7. \A r \in sinks'[p] : r # s \/ r = c
  BY <1>1, <1>3, <1>5
<1>8. \A y \in Peers : \A r, u \in sinks[y] : r.serial = u.serial => r = u
  BY DEF Aborting, SinksSpent
<1>9. SinksFrom
  <2>1. \A y \in Peers : \A r \in sinks'[y] :
          \E u \in sinks[y] : u.serial = r.serial /\ (u.closed => r.closed)
    BY <1>4, <1>6 DEF p
  <2>2. \A y \in Peers : \A r, u \in sinks'[y] : r.serial = u.serial => r = u
    BY <1>4, <1>6, <1>7, <1>8 DEF p
  <2>. QED BY <2>1, <2>2 DEF SinksFrom
<1>10. \A r \in sinks'[p] : r.serial = s.serial => r.closed
  BY <1>1, <1>4, <1>6, <1>7, <1>8 DEF p
<1>16. \A u \in Threads : \A h \in hand'[u] : h \in hand[u] \/ (u = t /\ h = x /\ ~s.closed)
  BY <1>15 DEF TypeOK
<1>11. HandsCalm /\ Grows /\ \A y \in Peers : \A m \in replying'[y] : Plain(m)
  <2>1. HandsCalm
    BY <1>14, <1>16 DEF HandsCalm
  <2>. QED BY <1>2, <2>1, BakedStill DEF Aborting, Claims, Honest
<1>12. Kept(To(q, Nothing)) /\ Plain(Nothing) /\ ~Abort(Nothing)
  BY <1>1, <1>2, StillKept, NothingIsPlain DEF Abort, Nothing
<1>13. Claims' /\ SpentStays
  BY <1>1, <1>11, <1>12, QuietStep
(* While the sink is open nobody has closed it, and no abort was sent.      *)
<1>17. ASSUME ~s.closed
       PROVE  /\ \A i \in 1..Len(chan[q]) : ~AbortAt(chan[q], i, s.serial)
              /\ \A u \in Threads : \A h \in hand[u] : Home[u] = p => ~Shuts(h, s.serial)
  <2>1. \A i \in 1..Len(chan[q]) : ~AbortAt(chan[q], i, s.serial)
    BY <1>1, <1>3, <1>17 DEF Aborting, AbortsSpent, p, q
  <2>2. \A u \in Threads : \A h \in hand[u] : Home[u] = p => ~Shuts(h, s.serial)
    BY <1>3, <1>17 DEF Aborting, ClosesSpent, Shut, p
  <2>. QED BY <2>1, <2>2
<1>18. Spent(p, s.serial)'
  BY <1>1, <1>3, <1>13 DEF Aborting, SinksSpent, SpentStays, p
<1>19. OneShuts'
  <2>. SUFFICES ASSUME NEW u \in Threads, NEW v \in Threads, NEW n \in Serials,
                       NEW h \in hand'[u], NEW k \in hand'[v],
                       Home[u] = Home[v], Shuts(h, n), Shuts(k, n), u # v
                PROVE  FALSE
    BY DEF OneShuts, Shuts
  <2>1. CASE h \in hand[u] /\ k \in hand[v]
    BY <2>1 DEF Aborting, ClosesSpent, OneShuts
  <2>2. CASE u = t /\ h = x /\ ~s.closed
    BY <1>14, <1>16, <1>17, <2>2 DEF Shuts, p
  <2>3. CASE v = t /\ k = x /\ ~s.closed
    BY <1>14, <1>16, <1>17, <2>3 DEF Shuts, p
  <2>. QED BY <1>16, <2>1, <2>2, <2>3
<1>20. ClosesFrom(q, Nothing)
  <2>. SUFFICES ASSUME NEW u \in Threads, NEW n \in Serials, NEW h \in hand'[u], Shuts(h, n),
                       h \notin hand[u]
                PROVE  /\ Spent(Home[u], n)'
                       /\ \A r \in sinks'[Home[u]] : r.serial = n => r.closed
                       /\ \A i \in 1..Len(chan[Other(Home[u])]) :
                            ~AbortAt(chan[Other(Home[u])], i, n)
    BY <1>12, <1>19 DEF ClosesFrom
  <2>1. u = t /\ ~s.closed /\ n = s.serial
    BY <1>14, <1>16 DEF Shuts
  <2>. QED BY <1>10, <1>17, <1>18, <2>1 DEF p, q
<1>. QED BY <1>1, <1>9, <1>12, <1>13, <1>20, AbortingStep

(* The production is erased and the abort sent: of its sink only now.       *)
LEMMA FinishAborting ==
  ASSUME TypeOK, Aborting, NEW t \in Threads, FinishClose(t)
  PROVE  Aborting'
<1>. DEFINE p == Home[t]  q == Other(p)
<1>1. PICK h \in hand[t] : /\ h.at = "close" /\ CloseProduction(p, h.msg)
                           /\ hand' = [hand EXCEPT ![t] = {}]
                           /\ UNCHANGED <<baked, sinks, replying>>
  BY DEF FinishClose
<1>2. /\ p \in Peers /\ q \in Peers /\ Other(q) = p
      /\ h.msg \in Message /\ h.msg.serial \in Serials /\ h.msg.type = "notification"
  BY <1>1, HandType, ThreadsAssumption, OtherPeer DEF Message
<1>. DEFINE m == h.msg  n == m.serial
<1>3. Shuts(h, n) /\ (Plain(m) \/ Abort(m))
  BY <1>1, <1>2 DEF Shuts, Plain, Abort
<1>4. \A u \in Threads : \A g \in hand'[u] : u # t /\ g \in hand[u]
  BY <1>1 DEF TypeOK
<1>5. HandsCalm /\ Grows /\ \A y \in Peers : \A x \in replying'[y] : Plain(x)
  BY <1>1, <1>4, BakedStill DEF HandsCalm, Aborting, Claims, Honest
<1>6. Wire(p, <<m>>) \/ UNCHANGED chan
  BY <1>1 DEF CloseProduction
<1>. HIDE DEF m, n
<1>7. Kept(To(q, m))
  BY <1>2, <1>6, WireKept DEF m
<1>8. Claims' /\ SpentStays
  BY <1>2, <1>3, <1>5, <1>7, QuietStep
<1>9. Spent(p, n) /\ Shut(p, n) /\ n \in Serials
  BY <1>2, <1>3 DEF Aborting, ClosesSpent, m, n
<1>10. Abortable(q, n)
  BY <1>1, <1>2, <1>8, <1>9 DEF Abortable, Shut, SpentStays
<1>11. ASSUME NEW u \in Threads, NEW g \in hand'[u], Shuts(g, n), q = Other(Home[u])
       PROVE  FALSE
  <2>1. Home[u] = p /\ u # t /\ g \in hand[u]
    BY <1>2, <1>4, <1>11, ThreadsAssumption, OtherPeer
  <2>. QED BY <1>3, <1>9, <1>11, <2>1 DEF Aborting, ClosesSpent, OneShuts
<1>12. ClosesFrom(q, m)
  BY <1>2, <1>4, <1>11, NoneShutAnew DEF n
<1>13. SinksFrom
  BY <1>1, SinksStill, SinksFewer
<1>. QED BY <1>2, <1>7, <1>8, <1>10, <1>12, <1>13, AbortingStep DEF n

(* A claim that is granted is a sink from then on, open or closed.          *)
LEMMA AcceptAborting ==
  ASSUME TypeOK, Aborting, NEW p \in Peers, NEW m, m = Head(chan[p]),
         chan[p] # <<>>, m.type = "subscribe_request", NEW R,
         NEW closed \in BOOLEAN,
         sinks' = [sinks EXCEPT ![p] =
           (@ \ R) \cup {[op |-> m.op, serial |-> m.serial, closed |-> closed]}],
         NEW q \in Peers, Kept(To(q, Nothing)), chan'[p] = Tail(chan[p]),
         \A x \in Peers : \A e \in replying'[x] : Plain(e), UNCHANGED <<baked, hand>>
  PROVE  Aborting'
<1>1. sinks \in [Peers -> SUBSET Sink]
  BY DEF TypeOK
<1>2. PICK n : n = m.serial
  OBVIOUS
<1>3. n \in Serials /\ ~Spent(p, n) /\ Spent(p, n)'
  <2>1. Claim(m)
    BY DEF Claim
  <2>. QED BY <1>2, <2>1, ClaimHandled DEF Aborting
<1>. DEFINE s == [op |-> m.op, serial |-> n, closed |-> closed]
<1>4. s.serial = n
  OBVIOUS
<1>5. \A x \in Peers : \A r \in sinks'[x] : r \in sinks[x] \/ (x = p /\ r = s)
  BY <1>1, <1>2
<1>6. HandsLess /\ HandsCalm /\ Grows
  BY BakedStill DEF HandsLess, HandsCalm
<1>7. Plain(Nothing) /\ ~Abort(Nothing)
  BY NothingIsPlain DEF Abort, Nothing
<1>8. Claims' /\ SpentStays
  BY <1>6, <1>7, QuietStep
<1>. HIDE DEF s
<1>9. \A x \in Peers : \A r \in sinks[x] :
        Spent(x, r.serial) /\ \A u \in sinks[x] : u.serial = r.serial => u = r
  BY DEF Aborting, SinksSpent
<1>10. \A r \in sinks[p] : r.serial # n
  BY <1>3, <1>9
<1>11. SinksFrom
  BY <1>3, <1>4, <1>5, <1>9, <1>10 DEF SinksFrom
<1>12. ClosesFrom(q, Nothing)
  BY <1>6, <1>7, LessIsCalm, NoneShutAnew
<1>. QED BY <1>7, <1>8, <1>11, <1>12, AbortingStep

LEMMA AcceptOpenAborting ==
  ASSUME TypeOK, Aborting, NEW p \in Peers, AcceptSubscribe(p)
  PROVE  Aborting'
<1>. DEFINE m == Head(chan[p])
            R == IF m.op \in SimpleOps THEN {r \in sinks[p] : r.op = m.op} ELSE {}
<1>1. /\ chan[p] # <<>> /\ m.type = "subscribe_request" /\ m \in Message
      /\ sinks' = [sinks EXCEPT ![p] =
           (@ \ R) \cup {[op |-> m.op, serial |-> m.serial, closed |-> FALSE]}]
      /\ replying' = [replying EXCEPT ![p] = {Reply(m, "success")}]
      /\ Consume(p) /\ UNCHANGED <<baked, hand>>
  BY HeadType DEF AcceptSubscribe, Arrives
<1>. HIDE DEF R
<1>2. Plain(Reply(m, "success"))
  BY <1>1, ReplyPlain DEF Kinds
<1>3. \A x \in Peers : \A e \in replying'[x] : Plain(e)
  BY <1>1, <1>2 DEF Aborting, Claims, Honest, TypeOK
<1>4. Kept(To(p, Nothing)) /\ chan'[p] = Tail(chan[p])
  BY <1>1, ConsumeKept DEF Consume, TypeOK
<1>. QED BY <1>1, <1>3, <1>4, AcceptAborting

LEMMA AcceptClosedAborting ==
  ASSUME TypeOK, Aborting, NEW p \in Peers, AcceptClosed(p)
  PROVE  Aborting'
<1>. DEFINE m == Head(chan[p])  e == Reply(m, "success")
<1>1. /\ chan[p] # <<>> /\ m.type = "subscribe_request" /\ m \in Message
      /\ sinks' = [sinks EXCEPT ![p] =
           @ \cup {[op |-> m.op, serial |-> m.serial, closed |-> TRUE]}]
      /\ Answer(p, m, <<e>>) /\ UNCHANGED <<baked, hand, replying>>
  BY HeadType DEF AcceptClosed, Arrives
<1>2. e \in Message /\ Plain(e)
  BY <1>1, ReplyPlain DEF Kinds
<1>3. Other(p) \in Peers /\ Other(p) # p
  BY OtherPeer
<1>4. Exchanges(p, <<e>>)
  BY <1>1 DEF Answer, Exchanges
<1>5. chan'[p] = Tail(chan[p])
  BY <1>3, <1>4 DEF TypeOK, Exchanges
<1>. HIDE DEF e
<1>6. Kept(To(Other(p), Nothing))
  BY <1>1, <1>2, <1>4, AnswerKept
<1>7. sinks' = [sinks EXCEPT ![p] =
        (@ \ {}) \cup {[op |-> m.op, serial |-> m.serial, closed |-> TRUE]}]
  BY <1>1
<1>. QED BY <1>1, <1>3, <1>5, <1>6, <1>7, AcceptAborting DEF Aborting, Claims, Honest

(* A request that is answered at once, perhaps with an abort before.        *)
LEMMA AnswerAborting ==
  ASSUME TypeOK, Aborting, NEW p \in Peers, chan[p] # <<>>, NEW m, m = Head(chan[p]),
         m.type \in Kinds, NEW err \in {"success", "failure"}, NEW ms,
         \/ ms = <<Reply(m, err)>>
         \/ m.type = "subscribe_request" /\
            ms = <<Msg("notification", m.op, m.serial, "aborted"), Reply(m, err)>>,
         Answer(p, m, ms), UNCHANGED <<baked, sinks, replying, hand>>
  PROVE  Aborting'
<1>. DEFINE q == Other(p)  e == Reply(m, err)  a == Msg("notification", m.op, m.serial, "aborted")
<1>1. m \in Message /\ m.op \in Opcodes /\ m.serial \in Serials /\ q \in Peers /\ Other(q) = p
      /\ q # p
  BY HeadType, OtherPeer
<1>2. e \in Message /\ Plain(e)
  BY <1>1, ReplyPlain
<1>3. a \in Message /\ Abort(a) /\ a.serial = m.serial
  BY <1>1, MsgType DEF Abort, Msg
<1>4. (ms = <<e>>) \/ (m.type = "subscribe_request" /\ ms = <<a, e>>)
  OBVIOUS
<1>5. Exchanges(p, ms)
  BY DEF Answer, Exchanges
<1>. HIDE DEF e, a
<1>6. Kept(To(q, a)) /\ (ms = <<e>> => Kept(To(q, Nothing)))
  BY <1>2, <1>3, <1>4, <1>5, AnswerKept
<1>7. HandsLess /\ Grows /\ \A x \in Peers : \A r \in replying'[x] : Plain(r)
  BY BakedStill DEF HandsLess, Aborting, Claims, Honest
<1>8. CASE ms = <<e>>
  BY <1>1, <1>6, <1>7, <1>8, NothingIsPlain, SinksStill, PlainStep
<1>9. CASE m.type = "subscribe_request" /\ ms = <<a, e>>
  <2>1. Claims' /\ SpentStays
    BY <1>1, <1>3, <1>6, <1>7, LessIsCalm, QuietStep
  <2>2. chan'[p] = Tail(chan[p])
    BY <1>1, <1>5 DEF TypeOK, Exchanges
  <2>3. ~Spent(p, m.serial) /\ Spent(p, m.serial)'
    BY <1>9, <2>2, ClaimHandled DEF Aborting, Claim
  <2>4. \A i \in 1..Len(chan[q]) : ~AbortAt(chan[q], i, m.serial)
    BY <1>1, <2>3 DEF Aborting, AbortsSpent
  <2>5. \A s \in sinks[p] : s.serial # m.serial
    BY <2>3 DEF Aborting, SinksSpent
  <2>6. Abortable(q, m.serial)
    BY <1>1, <2>3, <2>4, <2>5 DEF Abortable
  <2>7. ASSUME NEW t \in Threads, NEW h \in hand'[t], Shuts(h, m.serial), q = Other(Home[t])
        PROVE  FALSE
    <3>1. Home[t] = p /\ h \in hand[t]
      BY <1>1, <2>7, ThreadsAssumption, OtherPeer
    <3>. QED BY <1>1, <2>3, <2>7, <3>1 DEF Aborting, ClosesSpent
  <2>8. ClosesFrom(q, a)
    BY <1>1, <1>3, <2>7, NoneShutAnew
  <2>. QED BY <1>1, <1>3, <1>6, <2>1, <2>6, <2>8, SinksStill, SinksFewer, AbortingStep
<1>. QED BY <1>4, <1>8, <1>9

LEMMA DiscardAborting ==
  ASSUME TypeOK, Aborting, NEW p \in Peers, DiscardHandle(p)
  PROVE  Aborting'
<1>. DEFINE m == Head(chan[p])  n == baked[p] + 1  q == Other(p)
            u == Msg("unsubscribe_request", m.op, n, "success")
<1>1. /\ chan[p] # <<>> /\ baked[p] < Budget[p] /\ baked' = [baked EXCEPT ![p] = n]
      /\ chan' = IF Reaches(p) THEN [chan EXCEPT ![p] = Tail(@), ![q] = Append(@, u)]
                 ELSE [chan EXCEPT ![p] = Tail(@)]
      /\ UNCHANGED <<sinks, replying, hand>>
  BY DEF DiscardHandle, Arrives
<1>2. n \in Serials /\ baked \in [Peers -> Nat]
  <2>1. baked[p] \in 0..MaxSerial /\ Budget[p] \in 0..MaxSerial /\ MaxSerial \in Nat
    BY BoundsAssumption DEF TypeOK
  <2>. QED BY <1>1, <2>1 DEF Serials, TypeOK
<1>3. u \in Message /\ Plain(u) /\ q \in Peers /\ q # p
  <2>1. m.op \in Opcodes
    BY <1>1, HeadType
  <2>. QED BY <1>2, <2>1, MsgType, OtherPeer DEF Msg, Plain, Kinds
<1>4. Grows
  BY <1>1, <1>2 DEF Grows
<1>. HIDE DEF u, n
<1>5. chan[q] \o <<u>> = Append(chan[q], u)
  BY <1>3, AppendOne DEF TypeOK
<1>6. Exchanges(p, <<u>>)
  BY <1>1, <1>3, <1>5 DEF Exchanges
<1>7. Kept(To(q, Nothing))
  BY <1>1, <1>3, <1>6, AnswerKept
<1>8. HandsLess /\ \A x \in Peers : \A r \in replying'[x] : Plain(r)
  BY <1>1 DEF HandsLess, Aborting, Claims, Honest
<1>. QED BY <1>1, <1>3, <1>4, <1>7, <1>8, NothingIsPlain, SinksStill, PlainStep

LEMMA AbortingNext == TypeOK /\ Aborting /\ [Next]_vars => Aborting'
<1>. SUFFICES ASSUME TypeOK, Aborting, [Next]_vars PROVE Aborting'
  OBVIOUS
<1>a. \A p \in Peers : \A m \in replying[p] : Plain(m)
  BY DEF Aborting, Claims, Honest
(* No more in hand and in the reply than before, and the channels shorter.  *)
<1>b. ASSUME NEW q \in Peers, Kept(To(q, Nothing)),
             UNCHANGED <<baked, sinks, replying, hand>>
      PROVE  Aborting'
  <2>1. HandsLess /\ Grows /\ \A p \in Peers : \A m \in replying'[p] : Plain(m)
    BY <1>a, <1>b, BakedStill DEF HandsLess
  <2>. QED BY <1>b, <2>1, NothingIsPlain, SinksStill, PlainStep
<1>c. ASSUME NEW p \in Peers, UNCHANGED <<baked, sinks, replying, hand, chan>>
      PROVE  Aborting'
  BY <1>b, <1>c, StillKept
<1>d. ASSUME NEW p \in Peers, chan[p] # <<>>, Consume(p), UNCHANGED <<baked, sinks, replying, hand>>
      PROVE  Aborting'
  BY <1>b, <1>d, ConsumeKept
<1>e. ASSUME NEW t \in Threads, HandsLess, UNCHANGED <<baked, sinks, replying, chan>>
      PROVE  Aborting'
  <2>1. Home[t] \in Peers
    BY ThreadsAssumption
  <2>. QED BY <1>a, <1>e, <2>1, StillKept, BakedStill, NothingIsPlain, SinksStill, PlainStep
<1>1. ASSUME NEW p \in Peers, StartConnection(p) \/ Listen(p) \/ HangUp(p) PROVE Aborting'
  BY <1>1, <1>c DEF StartConnection, Listen, HangUp
<1>2. ASSUME NEW p \in Peers, Stop(p) PROVE Aborting'
  BY <1>2, <1>b, StopKept DEF Stop
<1>3. ASSUME NEW t \in Threads, NEW op \in Opcodes, Request(t, op) \/ Subscribe(t, op)
      PROVE  Aborting'
  BY <1>3, BakeAborting DEF Request, Subscribe, Kinds
<1>4. ASSUME NEW t \in Threads, NEW h \in handles[Home[t]], NEW dropped \in BOOLEAN,
             Unsubscribe(t, h, dropped)
      PROVE  Aborting'
  <2>1. h.op \in Opcodes
    BY ThreadsAssumption DEF TypeOK, Handle
  <2>. QED BY <1>4, <2>1, BakeAborting DEF Unsubscribe, Kinds
<1>5. ASSUME NEW t \in Threads, SendCall(t) PROVE Aborting'
  BY <1>5, SendCallAborting
<1>6. ASSUME NEW t \in Threads, Register(t) PROVE Aborting'
  <2>1. hand' = [hand EXCEPT ![t] = {}] /\ UNCHANGED <<baked, sinks, replying, chan>>
    BY <1>6 DEF Register
  <2>2. HandsLess
    BY <2>1 DEF HandsLess, TypeOK
  <2>. QED BY <1>e, <2>1, <2>2
<1>7. ASSUME NEW t \in Threads, SendNotification(t) PROVE Aborting'
  <2>1. PICK h \in hand[t] : /\ h.msg.type = "notification" /\ Wire(Home[t], <<h.msg>>)
                             /\ hand' = [hand EXCEPT ![t] = {}] /\ h.at = "send"
                             /\ UNCHANGED <<baked, sinks, replying>>
    BY <1>7 DEF SendNotification
  <2>2. h.msg \in Message /\ Home[t] \in Peers /\ Other(Home[t]) \in Peers
    BY ThreadsAssumption, OtherPeer, HandType
  <2>3. Plain(h.msg)
    BY <2>1 DEF Aborting, Claims, Honest, Plain
  <2>4. HandsLess
    BY <2>1 DEF HandsLess, TypeOK
  <2>5. Kept(To(Other(Home[t]), h.msg))
    BY <2>1, <2>2, WireKept
  <2>6. Grows /\ \A p \in Peers : \A m \in replying'[p] : Plain(m)
    BY <1>a, <2>1, BakedStill
  <2>. QED BY <2>1, <2>2, <2>3, <2>4, <2>5, <2>6, SinksStill, PlainStep
<1>8. ASSUME NEW t \in Threads, NEW s \in sinks[Home[t]], Produce(t, s) PROVE Aborting'
  <2>. DEFINE h == [at |-> "send", msg |-> Msg("notification", s.op, s.serial, "success")]
  <2>1. hand' = [hand EXCEPT ![t] = {h}] /\ UNCHANGED <<baked, sinks, replying, chan>>
    BY <1>8 DEF Produce
  <2>2. h.at # "close" /\ h.msg.err # "aborted" /\ ~Claim(h.msg)
    BY DEF Msg, Claim
  <2>. HIDE DEF h
  <2>3. HandsLess
    BY <2>1, <2>2 DEF HandsLess, TypeOK
  <2>. QED BY <1>e, <2>1, <2>3
<1>9. ASSUME NEW t \in Threads, NEW s \in sinks[Home[t]], Close(t, s) \/ DropSink(t, s)
      PROVE  Aborting'
  BY <1>9, CloseAborting
<1>20. ASSUME NEW t \in Threads, FinishClose(t) PROVE Aborting'
  BY <1>20, FinishAborting
<1>10. ASSUME NEW p \in Peers, ReceiveEarly(p) \/ ReceiveNotification(p) PROVE Aborting'
  BY <1>10, <1>d DEF ReceiveEarly, ReceiveNotification, Arrives
<1>11. ASSUME NEW p \in Peers, ReceiveRequest(p) PROVE Aborting'
  <2>1. PICK err \in {"success", "failure"} :
          Answer(p, Head(chan[p]), <<Reply(Head(chan[p]), err)>>)
    BY <1>11 DEF ReceiveRequest
  <2>2. chan[p] # <<>> /\ Head(chan[p]).type \in Kinds
        /\ UNCHANGED <<baked, sinks, replying, hand>>
    BY <1>11 DEF ReceiveRequest, Arrives, Kinds
  <2>. QED BY <2>1, <2>2, AnswerAborting
<1>12. ASSUME NEW p \in Peers, RefuseSubscribe(p) PROVE Aborting'
  <2>1. /\ chan[p] # <<>> /\ Head(chan[p]).type \in Kinds
        /\ Answer(p, Head(chan[p]), <<Reply(Head(chan[p]), "failure")>>)
        /\ UNCHANGED <<baked, sinks, replying, hand>>
    BY <1>12 DEF RefuseSubscribe, Arrives, Kinds
  <2>. QED BY <2>1, AnswerAborting
<1>13. ASSUME NEW p \in Peers, DiscardSubscribe(p) PROVE Aborting'
  <2>. DEFINE m == Head(chan[p])
  <2>1. /\ chan[p] # <<>> /\ m.type = "subscribe_request" /\ m.type \in Kinds
        /\ Answer(p, m, <<Msg("notification", m.op, m.serial, "aborted"), Reply(m, "success")>>)
        /\ UNCHANGED <<baked, sinks, replying, hand>>
    BY <1>13 DEF DiscardSubscribe, Arrives, Kinds
  <2>. QED BY <2>1, AnswerAborting
<1>14. ASSUME NEW p \in Peers, AcceptSubscribe(p) PROVE Aborting'
  BY <1>14, AcceptOpenAborting
<1>21. ASSUME NEW p \in Peers, AcceptClosed(p) PROVE Aborting'
  BY <1>21, AcceptClosedAborting
<1>15. ASSUME NEW p \in Peers, ReceiveUnsubscribe(p) PROVE Aborting'
  <2>1. /\ chan[p] # <<>> /\ Head(chan[p]).type \in Kinds /\ Consume(p)
        /\ replying' = [replying EXCEPT ![p] = {Reply(Head(chan[p]), "success")}]
        /\ UNCHANGED <<baked, sinks, hand>>
    BY <1>15 DEF ReceiveUnsubscribe, Arrives, Kinds
  <2>2. Plain(Reply(Head(chan[p]), "success"))
    BY <2>1, HeadType, ReplyPlain
  <2>3. HandsLess /\ Grows /\ \A q \in Peers : \A m \in replying'[q] : Plain(m)
    BY <1>a, <2>1, <2>2, BakedStill DEF HandsLess, TypeOK
  <2>. QED BY <2>1, <2>3, ConsumeKept, NothingIsPlain, SinksStill, PlainStep
<1>16. ASSUME NEW p \in Peers, SendReply(p) PROVE Aborting'
  <2>1. PICK m \in replying[p] : /\ Wire(p, <<m>>) /\ replying' = [replying EXCEPT ![p] = {}]
                                 /\ UNCHANGED <<baked, sinks, hand>>
    BY <1>16 DEF SendReply
  <2>2. m \in Message /\ Plain(m) /\ Other(p) \in Peers
    BY <1>a, OtherPeer DEF TypeOK
  <2>3. HandsLess /\ Grows /\ \A q \in Peers : \A x \in replying'[q] : Plain(x)
    BY <1>a, <2>1, BakedStill DEF HandsLess, TypeOK
  <2>. QED BY <2>1, <2>2, <2>3, WireKept, SinksStill, PlainStep
<1>17. ASSUME NEW p \in Peers, DropResponse(p) \/ CompleteCall(p) \/ CompleteSubscribe(p)
       PROVE  Aborting'
  BY <1>17, <1>d DEF DropResponse, CompleteCall, CompleteSubscribe, Completes, Arrives
<1>18. ASSUME NEW p \in Peers, DiscardHandle(p) PROVE Aborting'
  BY <1>18, DiscardAborting
<1>19. CASE UNCHANGED vars
  <2>1. \E p \in Peers : TRUE
    BY PeersAssumption
  <2>. QED BY <1>19, <1>c, <2>1 DEF vars
<1>. QED BY <1>1, <1>2, <1>3, <1>4, <1>5, <1>6, <1>7, <1>8, <1>9, <1>10, <1>11, <1>12,
            <1>13, <1>14, <1>15, <1>16, <1>17, <1>18, <1>19, <1>20, <1>21
         DEF Next, Receive, Application, Continue

LEMMA AbortingInit == Init => Aborting
<1>. SUFFICES ASSUME Init PROVE Aborting
  OBVIOUS
<1>1. \A p \in Peers : Len(chan[p]) = 0 /\ replying[p] = {} /\ sinks[p] = {} /\ Other(p) \in Peers
  BY OtherPeer DEF Init
<1>2. \A t \in Threads : hand[t] = {} /\ Other(Home[t]) \in Peers
  BY ThreadsAssumption, OtherPeer DEF Init
<1>3. \A p \in Peers, n \in Serials : ~Claimed(p, n)
  BY <1>1, <1>2 DEF Claimed
<1>4. Claims
  BY <1>1, <1>2, <1>3 DEF Claims, Honest, ClaimsApart, ClaimsBaked
<1>5. SinksSpent /\ AbortsSpent /\ ClosesSpent
  BY <1>1, <1>2 DEF SinksSpent, AbortsSpent, ClosesSpent, OneShuts
<1>. QED BY <1>4, <1>5 DEF Aborting

(* AbortedSinkClosed: whichever thread closes or drops a sink, and in       *)
(* whatever order, a sink whose abort is on its way is closed or gone, and  *)
(* no second abort of its subscription follows -- even when ids wrap.       *)
THEOREM AbortsSpeakTrue == Spec => []AbortedSinkClosed
<1>1. TypeOK /\ Aborting => AbortedSinkClosed
  <2>. SUFFICES ASSUME TypeOK, Aborting, NEW q \in Peers, NEW i \in 1..Len(chan[q]),
                       Abort(chan[q][i])
                PROVE  /\ \A s \in sinks[Other(q)] : s.serial = chan[q][i].serial => s.closed
                       /\ \A j \in 1..Len(chan[q]) :
                            j # i /\ chan[q][j].serial = chan[q][i].serial
                              => chan[q][j].err # "aborted"
    BY DEF AbortedSinkClosed, Abort
  <2>. DEFINE p == Other(q)  n == chan[q][i].serial
  <2>1. p \in Peers /\ Other(p) = q
    BY OtherPeer
  <2>2. n \in Serials
    <3>1. chan[q] \in Seq(Message)
      BY DEF TypeOK
    <3>2. chan[q][i] \in Message
      BY <3>1, ElementOfSeq
    <3>. QED BY <3>2 DEF Message
  <2>3. AbortAt(chan[q], i, n)
    BY DEF AbortAt
  <2>. HIDE DEF p, n
  <2>4. /\ \A s \in sinks[p] : s.serial = n => s.closed
        /\ \A j \in 1..Len(chan[q]) : AbortAt(chan[q], j, n) => j = i
    BY <2>1, <2>2, <2>3 DEF Aborting, AbortsSpent
  <2>5. \A j \in 1..Len(chan[q]) : chan[q][j].err = "aborted" => Abort(chan[q][j])
    BY DEF Aborting, Claims, Honest, Abort
  <2>. QED BY <2>4, <2>5 DEF AbortAt, p, n
<1>. QED BY <1>1, AbortingInit, AbortingNext, TypeCorrect, PTL DEF Spec
-----------------------------------------------------------------------------
(* Orphans.  A production whose subscriber was answered has a subscription  *)
(* at the other end, or an unsubscribe request on its way that ends it; the *)
(* subscriber must not have been refused, so every reply on its way that is *)
(* of a production accepts it.                                              *)
Items(s) == {s[i] : i \in 1..Len(s)}

Undoes(m, o) == m.type = "unsubscribe_request" /\ m.op = o

(* An unsubscribe request for o is on its way to p.                         *)
Undone(p, o) ==
  \/ \E m \in Items(chan[p]) : Undoes(m, o)
  \/ \E t \in Threads : Home[t] = Other(p) /\ \E h \in hand[t] :
       h.at = "send" /\ Undoes(h.msg, o)

Stopped == \E p \in Peers : conn[p] = "stopped"

(* If m answers the request of the production o has, it is as accepted.     *)
Accepts(m, o, n) ==
  m.type \in Replies /\ m.serial = n =>
    m.type = "subscribe_response" /\ m.err = "success" /\ m.op = o

Connected == \A p \in Peers : chan[p] # <<>> => conn[Other(p)] # "created"

Produced == \A p \in Peers, o \in Opcodes : productions[p][o] # 0 =>
  /\ listening[p] /\ conn[Other(p)] # "created"
  /\ calls[Other(p)][productions[p][o]].fate \notin {"unused", "issued"}

RepliesAccept == \A p \in Peers, o \in Opcodes : productions[p][o] # 0 =>
  \A m \in Items(chan[Other(p)]) \cup replying[p] : Accepts(m, o, productions[p][o])

Followed == \A p \in Peers, o \in Opcodes :
  productions[p][o] # 0 /\ calls[Other(p)][productions[p][o]].fate = "answered" /\ ~Stopped
    => subscriptions[Other(p)][o] # 0 \/ Undone(p, o)

Orphanless == OneInHand /\ Connected /\ Produced /\ RepliesAccept /\ Followed
(* e is sent, and a perhaps before it.                                      *)
Sends(ms, a, e) == ms = <<e>> \/ ms = <<a, e>>

LEMMA ItemsType ==
  ASSUME NEW s \in Seq(Message)
  PROVE  Items(s) \subseteq Message /\ (s # <<>> => Items(s) # {})
<1>1. \A i \in 1..Len(s) : s[i] \in Message
  BY ElementOfSeq
<1>2. s # <<>> => 1 \in 1..Len(s)
  BY LenProperties, EmptySeq
<1>. QED BY <1>1, <1>2 DEF Items

LEMMA ItemsEmpty == Items(<<>>) = {}
BY DEF Items

LEMMA ItemsAppend ==
  ASSUME NEW s \in Seq(Message), NEW m \in Message
  PROVE  Items(Append(s, m)) = Items(s) \cup {m}
<1>. DEFINE r == Append(s, m)
<1>1. /\ Len(s) \in Nat /\ Len(r) = Len(s) + 1 /\ r[Len(s) + 1] = m
      /\ \A i \in 1..Len(s) : r[i] = s[i]
  BY AppendProperties, LenProperties
<1>. HIDE DEF r
<1>2. \A i : i \in 1..Len(r) <=> i \in 1..Len(s) \/ i = Len(s) + 1
  BY <1>1
<1>3. Items(r) = Items(s) \cup {m}
  BY <1>1, <1>2 DEF Items
<1>. QED BY <1>3 DEF r

LEMMA ItemsTail ==
  ASSUME NEW s \in Seq(Message), s # <<>>
  PROVE  Head(s) \in Message /\ Tail(s) \in Seq(Message) /\ Items(s) = Items(Tail(s)) \cup {Head(s)}
<1>. DEFINE r == Tail(s)
<1>1. /\ Len(s) \in Nat /\ Len(r) = Len(s) - 1 /\ Head(s) = s[1]
      /\ \A i \in 1..Len(r) : r[i] = s[i + 1]
      /\ Head(s) \in Message /\ r \in Seq(Message)
  BY HeadTailProperties, LenProperties
<1>2. Len(s) # 0
  BY EmptySeq
<1>. HIDE DEF r
<1>3. \A m \in Items(s) : m = s[1] \/ m \in Items(r)
  <2>. SUFFICES ASSUME NEW i \in 1..Len(s), i # 1 PROVE s[i] \in Items(r)
    BY DEF Items
  <2>1. i - 1 \in 1..Len(r) /\ r[i - 1] = s[(i - 1) + 1] /\ (i - 1) + 1 = i
    BY <1>1
  <2>. QED BY <2>1 DEF Items
<1>4. \A m \in Items(r) : m \in Items(s)
  <2>. SUFFICES ASSUME NEW i \in 1..Len(r) PROVE r[i] \in Items(s)
    BY DEF Items
  <2>1. i + 1 \in 1..Len(s)
    BY <1>1
  <2>. QED BY <1>1, <2>1 DEF Items
<1>5. s[1] \in Items(s)
  BY <1>1, <1>2 DEF Items
<1>6. Items(s) = Items(r) \cup {Head(s)}
  BY <1>1, <1>3, <1>4, <1>5
<1>. QED BY <1>1, <1>6 DEF r

LEMMA ItemsPrefix ==
  ASSUME NEW s \in Seq(Message), NEW n \in 0..Len(s)
  PROVE  Items(SubSeq(s, 1, n)) \subseteq Items(s)
<1>. DEFINE r == SubSeq(s, 1, n)
<1>1. Len(r) = n /\ \A i \in 1..n : r[i] = s[i]
  BY Prefix
<1>. HIDE DEF r
<1>2. \A i \in 1..n : i \in 1..Len(s)
  BY LenProperties
<1>3. Items(r) \subseteq Items(s)
  BY <1>1, <1>2 DEF Items
<1>. QED BY <1>3 DEF r

(* What a message put on its way, or taken off it, does to the channels.    *)
LEMMA WireItems ==
  ASSUME TypeOK, NEW p \in Peers, NEW m \in Message, Wire(p, <<m>>)
  PROVE  /\ \A q \in Peers : Items(chan'[q]) =
              Items(chan[q]) \cup IF Reaches(p) /\ q = Other(p) THEN {m} ELSE {}
         /\ \A q \in Peers : chan'[q] # <<>> => chan[q] # <<>> \/ Reaches(Other(q))
<1>1. Other(p) \in Peers /\ Other(Other(p)) = p /\ chan \in [Peers -> Seq(Message)]
  BY OtherPeer DEF TypeOK
<1>2. chan[Other(p)] \o <<m>> = Append(chan[Other(p)], m)
  BY <1>1, AppendOne
<1>3. Items(Append(chan[Other(p)], m)) = Items(chan[Other(p)]) \cup {m}
  BY <1>1, ItemsAppend
<1>4. CASE Reaches(p)
  <2>1. \A q \in Peers : chan'[q] = IF q = Other(p) THEN Append(chan[q], m) ELSE chan[q]
    BY <1>1, <1>2, <1>4 DEF Wire
  <2>. QED BY <1>1, <1>3, <1>4, <2>1
<1>5. CASE ~Reaches(p)
  <2>1. chan' = chan
    BY <1>5 DEF Wire
  <2>. QED BY <1>5, <2>1
<1>. QED BY <1>4, <1>5

LEMMA ConsumeItems ==
  ASSUME TypeOK, NEW p \in Peers, chan[p] # <<>>, Consume(p)
  PROVE  /\ Head(chan[p]) \in Items(chan[p])
         /\ Items(chan[p]) = Items(chan'[p]) \cup {Head(chan[p])}
         /\ \A q \in Peers : q # p => chan'[q] = chan[q]
<1>1. chan \in [Peers -> Seq(Message)] /\ chan'[p] = Tail(chan[p])
  BY DEF TypeOK, Consume
<1>. QED BY <1>1, ItemsTail DEF Consume

(* The same when messages are sent back for the one taken off.              *)
LEMMA AnswerItems ==
  ASSUME TypeOK, NEW p \in Peers, chan[p] # <<>>, NEW a \in Message, NEW e \in Message,
         NEW ms, Sends(ms, a, e), Exchanges(p, ms)
  PROVE  /\ Items(chan[p]) = Items(chan'[p]) \cup {Head(chan[p])}
         /\ Items(chan[Other(p)]) \subseteq Items(chan'[Other(p)])
         /\ \A m \in Items(chan'[Other(p)]) :
              m \in Items(chan[Other(p)]) \/ (Reaches(p) /\ m \in {a, e})
         /\ chan'[p] # <<>> => chan[p] # <<>>
         /\ chan'[Other(p)] # <<>> => chan[Other(p)] # <<>> \/ Reaches(p)
         /\ Reaches(p) => e \in Items(chan'[Other(p)])
<1>. DEFINE q == Other(p)  s == chan[q]
<1>1. q \in Peers /\ q # p /\ chan \in [Peers -> Seq(Message)] /\ s \in Seq(Message)
  BY OtherPeer DEF TypeOK
<1>2. chan'[p] = Tail(chan[p]) /\ chan'[q] = IF Reaches(p) THEN s \o ms ELSE s
  BY <1>1 DEF Exchanges
<1>3. Items(chan[p]) = Items(chan'[p]) \cup {Head(chan[p])}
  BY <1>1, <1>2, ItemsTail
<1>4. Items(s \o <<e>>) = Items(s) \cup {e}
  <2>1. s \o <<e>> = Append(s, e)
    BY <1>1, AppendOne
  <2>. QED BY <1>1, <2>1, ItemsAppend
<1>5. Items(s \o <<a, e>>) = Items(s) \cup {a} \cup {e}
  <2>. DEFINE u == Append(s, a)
  <2>1. s \o <<a, e>> = Append(u, e) /\ u \in Seq(Message)
    BY <1>1, AppendOne, AppendTwo
  <2>2. Items(u) = Items(s) \cup {a}
    BY <1>1, ItemsAppend
  <2>. HIDE DEF u
  <2>3. Items(Append(u, e)) = Items(u) \cup {e}
    BY <2>1, ItemsAppend
  <2>. QED BY <2>1, <2>2, <2>3
<1>6. /\ Items(s) \subseteq Items(chan'[q])
      /\ \A m \in Items(chan'[q]) : m \in Items(s) \/ (Reaches(p) /\ m \in {a, e})
      /\ Reaches(p) => e \in Items(chan'[q])
  <2>1. CASE ms = <<e>>
    BY <1>2, <1>4, <2>1
  <2>2. CASE ms = <<a, e>>
    BY <1>2, <1>5, <2>2
  <2>. QED BY <2>1, <2>2 DEF Sends
<1>7. chan'[q] # <<>> => s # <<>> \/ Reaches(p)
  BY <1>2
<1>. QED BY <1>3, <1>6, <1>7

(* The request DiscardHandle sends.                                         *)
LEMMA DiscardMessage ==
  ASSUME TypeOK, NEW p \in Peers, chan[p] # <<>>, baked[p] < Budget[p]
  PROVE  /\ Msg("unsubscribe_request", Head(chan[p]).op, baked[p] + 1, "success") \in Message
         /\ baked[p] + 1 \in Serials
<1>1. baked[p] \in 0..MaxSerial /\ Budget[p] \in 0..MaxSerial /\ MaxSerial \in Nat
  BY BoundsAssumption DEF TypeOK
<1>2. baked[p] + 1 \in Serials /\ Head(chan[p]).op \in Opcodes
  BY <1>1, HeadType DEF Serials
<1>. QED BY <1>2, MsgType DEF Kinds

LEMMA HeadDue ==
  ASSUME TypeOK, Underway, NEW p \in Peers, chan[p] # <<>>
  PROVE  /\ Head(chan[p]).type \in Kinds =>
              calls[Other(p)][Head(chan[p]).serial].fate = "issued"
         /\ Head(chan[p]).type \in Replies =>
              calls[p][Head(chan[p]).serial].fate = "served"
<1>. DEFINE ch == [chan EXCEPT ![p] = Tail(@)]
<1>. HIDE DEF ch
<1>1. Due(calls, p, Head(chan[p]))
  BY HeadTaken DEF ch
<1>. QED BY <1>1 DEF Due

LEMMA DiscardSends ==
  ASSUME TypeOK, NEW p \in Peers, DiscardHandle(p)
  PROVE  \E u \in Message : /\ u.type = "unsubscribe_request" /\ u.op = Head(chan[p]).op
                            /\ Exchanges(p, <<u>>)
<1>. DEFINE q == Other(p)  u == Msg("unsubscribe_request", Head(chan[p]).op, baked[p] + 1, "success")
<1>1. /\ chan[p] # <<>> /\ baked[p] < Budget[p]
      /\ chan' = IF Reaches(p) THEN [chan EXCEPT ![p] = Tail(@), ![q] = Append(@, u)]
                 ELSE [chan EXCEPT ![p] = Tail(@)]
  BY DEF DiscardHandle, Arrives
<1>2. u \in Message /\ u.type = "unsubscribe_request" /\ u.op = Head(chan[p]).op
  BY <1>1, DiscardMessage DEF Msg
<1>. HIDE DEF u
<1>3. q \in Peers /\ q # p /\ chan[q] \o <<u>> = Append(chan[q], u)
  BY <1>2, OtherPeer, AppendOne DEF TypeOK
<1>4. Exchanges(p, <<u>>)
  BY <1>1, <1>3 DEF Exchanges
<1>. QED BY <1>2, <1>4

(* A connection is never created again, and a slot never disconnected.      *)
ConnGrows == \A p \in Peers :
  /\ conn[p] # "created" => conn'[p] # "created"
  /\ conn[p] = "stopped" => conn'[p] = "stopped"
  /\ listening[p] => listening'[p]

LEMMA ConnNext == TypeOK /\ [Next]_vars => ConnGrows
<1>. SUFFICES ASSUME TypeOK, [Next]_vars PROVE ConnGrows
  OBVIOUS
<1>1. ASSUME UNCHANGED <<conn, listening>> PROVE ConnGrows
  BY <1>1 DEF ConnGrows
<1>2. ASSUME NEW p \in Peers, StartConnection(p) PROVE ConnGrows
  BY <1>2 DEF ConnGrows, StartConnection, TypeOK
<1>3. ASSUME NEW p \in Peers, Listen(p) PROVE ConnGrows
  BY <1>3 DEF ConnGrows, Listen, TypeOK
<1>4. ASSUME NEW p \in Peers, Stop(p) \/ HangUp(p) PROVE ConnGrows
  <2>1. /\ conn[p] = "running" /\ conn' = [conn EXCEPT ![p] = "stopped"]
        /\ UNCHANGED listening
    BY <1>4 DEF Stop, HangUp
  <2>. QED BY <2>1 DEF ConnGrows, TypeOK
<1>. QED BY <1>1, <1>2, <1>3, <1>4, ZenonT(60)
         DEF Next, Receive, Application, Continue, vars, Request, Subscribe, Unsubscribe,
             SendCall, Register, Produce, SendNotification, Close, DropSink,
             ReceiveEarly, ReceiveNotification, ReceiveRequest, RefuseSubscribe,
             AcceptSubscribe, DiscardSubscribe, AcceptClosed, ReceiveUnsubscribe, SendReply,
             DropResponse, CompleteCall, CompleteSubscribe, DiscardHandle, FinishClose

(* Messages only travel between ends that were started, and a reply on its  *)
(* way or about to be is one there was, or of a call that was issued.       *)
Traffic == \A q \in Peers :
  /\ chan'[q] # <<>> => chan[q] # <<>> \/ Reaches(Other(q))
  /\ \A m \in Items(chan'[q]) \cup replying'[Other(q)] :
       \/ m \in Items(chan[q]) \cup replying[Other(q)]
       \/ m.type \notin Replies
       \/ calls[q][m.serial].fate = "issued"

LEMMA TrafficLess ==
  ASSUME \A q \in Peers : Items(chan'[q]) \subseteq Items(chan[q]) /\ (chan'[q] # <<>> => chan[q] # <<>>),
         UNCHANGED replying
  PROVE  Traffic
BY DEF Traffic

LEMMA TrafficWire ==
  ASSUME TypeOK, NEW p \in Peers, NEW m \in Message, Wire(p, <<m>>),
         m.type \notin Replies \/ m \in replying[p],
         \A q \in Peers : replying'[q] \subseteq replying[q]
  PROVE  Traffic
<1>1. Other(p) \in Peers /\ Other(Other(p)) = p /\ \A q \in Peers : Other(q) \in Peers
  BY OtherPeer
<1>. QED BY <1>1, WireItems DEF Traffic

LEMMA TrafficAnswer ==
  ASSUME TypeOK, Underway, NEW p \in Peers, chan[p] # <<>>,
         NEW a \in Message, a.type = "notification", NEW e \in Message,
         \/ e.type \notin Replies
         \/ Head(chan[p]).type \in Kinds /\ e.serial = Head(chan[p]).serial,
         NEW ms, Sends(ms, a, e), Exchanges(p, ms), UNCHANGED replying
  PROVE  Traffic
<1>1. Other(p) \in Peers /\ Other(Other(p)) = p /\ \A q \in Peers : q = p \/ q = Other(p)
  BY OtherPeer
<1>2. e.type \notin Replies \/ calls[Other(p)][e.serial].fate = "issued"
  BY HeadDue
<1>3. a.type \notin Replies
  BY TypesApart
<1>4. /\ Items(chan[p]) = Items(chan'[p]) \cup {Head(chan[p])}
      /\ \A m \in Items(chan'[Other(p)]) :
           m \in Items(chan[Other(p)]) \/ (Reaches(p) /\ m \in {a, e})
      /\ chan'[p] # <<>> => chan[p] # <<>>
      /\ chan'[Other(p)] # <<>> => chan[Other(p)] # <<>> \/ Reaches(p)
  BY AnswerItems
<1>5. Items(chan'[p]) \subseteq Items(chan[p])
  BY <1>4
<1>. QED BY <1>1, <1>2, <1>3, <1>4, <1>5 DEF Traffic

LEMMA TrafficNext == TypeOK /\ Underway /\ [Next]_vars => Traffic
<1>. SUFFICES ASSUME TypeOK, Underway, [Next]_vars PROVE Traffic
  OBVIOUS
<1>a. ASSUME UNCHANGED <<chan, replying>> PROVE Traffic
  BY <1>a, TrafficLess
<1>b. ASSUME NEW p \in Peers, chan[p] # <<>>, Consume(p), UNCHANGED replying PROVE Traffic
  BY <1>b, ConsumeItems, TrafficLess
(* A request that is served, its reply sent or about to be sent.            *)
<1>c. ASSUME NEW p \in Peers, chan[p] # <<>>, Head(chan[p]).type \in Kinds,
             NEW err \in {"success", "failure"}, NEW ms,
             \/ ms = <<Reply(Head(chan[p]), err)>>
             \/ ms = <<Msg("notification", Head(chan[p]).op, Head(chan[p]).serial, "aborted"),
                       Reply(Head(chan[p]), err)>>,
             Answer(p, Head(chan[p]), ms), UNCHANGED replying
      PROVE  Traffic
  <2>. DEFINE m == Head(chan[p])  e == Reply(m, err)
              a == Msg("notification", m.op, m.serial, "aborted")
  <2>1. m \in Message /\ m.op \in Opcodes /\ m.serial \in Serials
    BY <1>c, HeadType
  <2>2. e \in Message /\ e.serial = m.serial
    BY <1>c, <2>1, ReplyIsMessage
  <2>3. a \in Message /\ a.type = "notification"
    BY <2>1, MsgType DEF Msg
  <2>4. Sends(ms, a, e)
    BY <1>c DEF Sends
  <2>5. Exchanges(p, ms)
    BY <1>c DEF Answer, Exchanges
  <2>. HIDE DEF e, a
  <2>. QED BY <1>c, <2>2, <2>3, <2>4, <2>5, TrafficAnswer
<1>d. ASSUME NEW p \in Peers, chan[p] # <<>>, Head(chan[p]).type \in Kinds, Consume(p),
             replying' = [replying EXCEPT ![p] = {Reply(Head(chan[p]), "success")}]
      PROVE  Traffic
  <2>. DEFINE m == Head(chan[p])  e == Reply(m, "success")  q == Other(p)
  <2>1. e.serial = m.serial /\ q \in Peers /\ Other(q) = p /\ replying \in [Peers -> SUBSET Message]
    BY <1>d, HeadType, ReplyIsMessage, OtherPeer DEF TypeOK
  <2>2. calls[q][m.serial].fate = "issued"
    BY <1>d, HeadDue
  <2>. HIDE DEF e
  <2>3. \A x \in Peers : \A r \in replying'[x] : r \in replying[x] \/ (x = p /\ r = e)
    BY <1>d, <2>1 DEF e
  <2>4. \A x \in Peers : /\ Items(chan'[x]) \subseteq Items(chan[x])
                         /\ chan'[x] # <<>> => chan[x] # <<>>
    BY <1>d, ConsumeItems
  <2>5. \A x \in Peers : Other(x) \in Peers /\ (Other(x) = p => x = q)
    BY OtherPeer
  <2>. QED BY <2>1, <2>2, <2>3, <2>4, <2>5 DEF Traffic
<1>1. ASSUME NEW p \in Peers, StartConnection(p) \/ Listen(p) \/ HangUp(p) PROVE Traffic
  BY <1>1, <1>a DEF StartConnection, Listen, HangUp
<1>2. ASSUME NEW p \in Peers, Stop(p) PROVE Traffic
  <2>1. PICK k \in 0..Len(chan[Other(p)]), j \in 0..Len(chan[p]) :
          chan' = [chan EXCEPT ![Other(p)] = SubSeq(@, 1, k), ![p] = SubSeq(@, 1, j)]
    BY <1>2 DEF Stop
  <2>2. Other(p) \in Peers /\ Other(p) # p /\ \A q \in Peers : q = p \/ q = Other(p)
    BY OtherPeer
  <2>3. \A q \in Peers : chan[q] \in Seq(Message)
    BY DEF TypeOK
  <2>4. chan'[p] = SubSeq(chan[p], 1, j) /\ chan'[Other(p)] = SubSeq(chan[Other(p)], 1, k)
    BY <2>1, <2>2 DEF TypeOK
  <2>5. /\ Items(chan'[p]) \subseteq Items(chan[p])
        /\ Items(chan'[Other(p)]) \subseteq Items(chan[Other(p)])
    BY <2>2, <2>3, <2>4, ItemsPrefix
  <2>6. /\ chan[p] = <<>> => chan'[p] = <<>>
        /\ chan[Other(p)] = <<>> => chan'[Other(p)] = <<>>
    BY <2>4
  <2>7. UNCHANGED replying
    BY <1>2 DEF Stop
  <2>. QED BY <2>2, <2>5, <2>6, <2>7, TrafficLess
<1>3. ASSUME NEW t \in Threads, SendCall(t) PROVE Traffic
  <2>1. PICK h \in hand[t] : h.msg.type \in Kinds /\ Wire(Home[t], <<h.msg>>) /\ UNCHANGED replying
    BY <1>3 DEF SendCall
  <2>2. h.msg \in Message /\ Home[t] \in Peers
    BY HandType
  <2>. QED BY <2>1, <2>2, TypesApart, TrafficWire
<1>4. ASSUME NEW t \in Threads, SendNotification(t) PROVE Traffic
  <2>1. PICK h \in hand[t] : /\ h.msg.type = "notification" /\ Wire(Home[t], <<h.msg>>)
                             /\ UNCHANGED replying
    BY <1>4 DEF SendNotification
  <2>2. h.msg \in Message /\ Home[t] \in Peers
    BY HandType
  <2>. QED BY <2>1, <2>2, TypesApart, TrafficWire
<1>5. ASSUME NEW t \in Threads, FinishClose(t) PROVE Traffic
  <2>1. PICK h \in hand[t] : /\ h.at = "close" /\ UNCHANGED replying
                             /\ UNCHANGED chan \/ Wire(Home[t], <<h.msg>>)
    BY <1>5 DEF FinishClose, CloseProduction
  <2>2. h.msg \in Message /\ Home[t] \in Peers /\ h.msg.type = "notification"
    BY <2>1, HandType
  <2>. QED BY <1>a, <2>1, <2>2, TypesApart, TrafficWire
<1>6. ASSUME NEW p \in Peers, ReceiveEarly(p) \/ ReceiveNotification(p) PROVE Traffic
  BY <1>6, <1>b DEF ReceiveEarly, ReceiveNotification, Arrives
<1>7. ASSUME NEW p \in Peers, ReceiveRequest(p) PROVE Traffic
  <2>1. PICK err \in {"success", "failure"} :
          Answer(p, Head(chan[p]), <<Reply(Head(chan[p]), err)>>)
    BY <1>7 DEF ReceiveRequest
  <2>2. chan[p] # <<>> /\ Head(chan[p]).type \in Kinds /\ UNCHANGED replying
    BY <1>7 DEF ReceiveRequest, Arrives, Kinds
  <2>. QED BY <1>c, <2>1, <2>2
<1>8. ASSUME NEW p \in Peers, RefuseSubscribe(p) PROVE Traffic
  <2>1. /\ chan[p] # <<>> /\ Head(chan[p]).type \in Kinds /\ UNCHANGED replying
        /\ Answer(p, Head(chan[p]), <<Reply(Head(chan[p]), "failure")>>)
    BY <1>8 DEF RefuseSubscribe, Arrives, Kinds
  <2>. QED BY <1>c, <2>1
<1>9. ASSUME NEW p \in Peers, DiscardSubscribe(p) PROVE Traffic
  <2>. DEFINE m == Head(chan[p])
  <2>1. /\ chan[p] # <<>> /\ Head(chan[p]).type \in Kinds /\ UNCHANGED replying
        /\ Answer(p, m, <<Msg("notification", m.op, m.serial, "aborted"), Reply(m, "success")>>)
    BY <1>9 DEF DiscardSubscribe, Arrives, Kinds
  <2>. QED BY <1>c, <2>1
<1>15. ASSUME NEW p \in Peers, AcceptClosed(p) PROVE Traffic
  <2>1. /\ chan[p] # <<>> /\ Head(chan[p]).type \in Kinds /\ UNCHANGED replying
        /\ Answer(p, Head(chan[p]), <<Reply(Head(chan[p]), "success")>>)
    BY <1>15 DEF AcceptClosed, Arrives, Kinds
  <2>. QED BY <1>c, <2>1
<1>10. ASSUME NEW p \in Peers, AcceptSubscribe(p) \/ ReceiveUnsubscribe(p) PROVE Traffic
  <2>1. /\ chan[p] # <<>> /\ Head(chan[p]).type \in Kinds /\ Consume(p)
        /\ replying' = [replying EXCEPT ![p] = {Reply(Head(chan[p]), "success")}]
    BY <1>10 DEF AcceptSubscribe, ReceiveUnsubscribe, Arrives, Kinds
  <2>. QED BY <1>d, <2>1
<1>11. ASSUME NEW p \in Peers, SendReply(p) PROVE Traffic
  <2>1. PICK m \in replying[p] : Wire(p, <<m>>) /\ replying' = [replying EXCEPT ![p] = {}]
    BY <1>11 DEF SendReply
  <2>2. m \in Message /\ \A q \in Peers : replying'[q] \subseteq replying[q]
    BY <2>1 DEF TypeOK
  <2>. QED BY <2>1, <2>2, TrafficWire
<1>12. ASSUME NEW p \in Peers, DropResponse(p) \/ CompleteCall(p) \/ CompleteSubscribe(p)
       PROVE  Traffic
  BY <1>12, <1>b DEF DropResponse, CompleteCall, CompleteSubscribe, Completes, Arrives
<1>13. ASSUME NEW p \in Peers, DiscardHandle(p) PROVE Traffic
  <2>1. PICK u \in Message : u.type = "unsubscribe_request" /\ Exchanges(p, <<u>>)
    BY <1>13, DiscardSends
  <2>2. chan[p] # <<>> /\ UNCHANGED replying /\ u.type \notin Replies
    BY <1>13, <2>1 DEF DiscardHandle, Arrives, Replies
  <2>3. PICK a \in Message : a.type = "notification"
    <3>1. Head(chan[p]).op \in Opcodes /\ Head(chan[p]).serial \in Serials
      BY <2>2, HeadType
    <3>2. Msg("notification", Head(chan[p]).op, Head(chan[p]).serial, "success") \in Message
      BY <3>1, MsgType
    <3>. QED BY <3>2 DEF Msg
  <2>. QED BY <2>1, <2>2, <2>3, TrafficAnswer DEF Sends
<1>14. CASE UNCHANGED vars
  BY <1>14, <1>a DEF vars
<1>16. ASSUME NEW t \in Threads, Application(t) \/ Register(t) PROVE Traffic
  BY <1>16, <1>a DEF Application, Request, Subscribe, Unsubscribe, Bake, Register, Produce,
                     Close, DropSink
<1>. QED BY <1>1, <1>2, <1>3, <1>4, <1>5, <1>6, <1>7, <1>8, <1>9, <1>10, <1>11, <1>12,
            <1>13, <1>14, <1>15, <1>16
         DEF Next, Receive, Continue

(* p enters the production of o, for the request at the head of its channel. *)
Enters(p, o) ==
  /\ AcceptSubscribe(p) \/ AcceptClosed(p)
  /\ o = Head(chan[p]).op /\ productions'[p][o] = Head(chan[p]).serial

LEMMA ProductionsNext ==
  ASSUME TypeOK, [Next]_vars, NEW p \in Peers, NEW o \in Opcodes
  PROVE  productions'[p][o] \in {0, productions[p][o]} \/ Enters(p, o)
<1>. DEFINE Good == productions'[p][o] \in {0, productions[p][o]} \/ Enters(p, o)
<1>. SUFFICES Good
  OBVIOUS
<1>0. productions \in [Peers -> [Opcodes -> 0..MaxSerial]]
  BY DEF TypeOK
<1>1. ASSUME UNCHANGED productions PROVE Good
  BY <1>1
<1>2. ASSUME NEW t \in Threads, FinishClose(t) PROVE Good
  <2>1. \E op : productions' = [productions EXCEPT ![Home[t]][op] = 0]
    BY <1>2 DEF FinishClose, CloseProduction
  <2>. QED BY <1>0, <2>1
<1>3. ASSUME NEW q \in Peers, AcceptSubscribe(q) \/ AcceptClosed(q) PROVE Good
  <2>. DEFINE m == Head(chan[q])
  <2>1. productions' = [productions EXCEPT ![q][m.op] = m.serial] /\ m.op \in Opcodes
    BY <1>3, HeadType DEF AcceptSubscribe, AcceptClosed, Arrives
  <2>. HIDE DEF m
  <2>2. CASE p = q /\ o = m.op
    BY <1>0, <1>3, <2>1, <2>2 DEF Enters, m
  <2>3. CASE ~(p = q /\ o = m.op)
    BY <1>0, <2>1, <2>3
  <2>. QED BY <2>2, <2>3
<1>4. ASSUME NEW q \in Peers, ReceiveUnsubscribe(q) PROVE Good
  <2>1. productions' = [productions EXCEPT ![q][Head(chan[q]).op] = 0]
    BY <1>4 DEF ReceiveUnsubscribe
  <2>. QED BY <1>0, <2>1
<1>. HIDE DEF Good
<1>. QED BY <1>1, <1>2, <1>3, <1>4, ZenonT(60)
         DEF Next, Receive, Application, Continue, vars, StartConnection, Listen, Stop, HangUp,
             Request, Subscribe, Unsubscribe, SendCall, Register, Produce, SendNotification,
             ReceiveEarly, ReceiveNotification, ReceiveRequest, RefuseSubscribe,
             DiscardSubscribe, Close, DropSink, SendReply, DropResponse,
             CompleteCall, CompleteSubscribe, DiscardHandle

LEMMA EntersFacts ==
  ASSUME TypeOK, Underway, NEW p \in Peers, NEW o \in Opcodes, Enters(p, o),
         NEW n, n = productions'[p][o]
  PROVE  /\ n \in Serials /\ listening[p] /\ chan[p] # <<>>
         /\ calls[Other(p)][n].fate = "issued" /\ calls'[Other(p)][n].fate \in {"served", "lost"}
         /\ \A m \in Items(chan'[Other(p)]) : m \in Items(chan[Other(p)]) \/ Accepts(m, o, n)
         /\ \A r \in replying'[p] : r \in replying[p] \/ Accepts(r, o, n)
<1>. DEFINE m == Head(chan[p])  c == Other(p)  e == Reply(m, "success")
<1>1. /\ chan[p] # <<>> /\ listening[p] /\ m.type = "subscribe_request" /\ m.serial = n /\ m.op = o
      /\ \/ /\ replying' = [replying EXCEPT ![p] = {e}] /\ Consume(p)
            /\ calls' = SetFate(calls, c, m.serial, "served")
         \/ Answer(p, m, <<e>>) /\ UNCHANGED replying
  BY DEF Enters, AcceptSubscribe, AcceptClosed, Arrives
<1>2. m \in Message /\ n \in Serials /\ m.type \in Kinds /\ c \in Peers /\ c # p
  BY <1>1, HeadType, OtherPeer DEF Kinds
<1>3. e \in Message /\ e.type = "subscribe_response" /\ e.err = "success" /\ e.op = o
  BY <1>1, <1>2, ReplyIsMessage DEF ReplyType
<1>4. calls[c][n].fate = "issued"
  BY <1>1, <1>2, HeadDue
<1>5. Accepts(e, o, n)
  BY <1>3 DEF Accepts
<1>6. CASE /\ replying' = [replying EXCEPT ![p] = {e}] /\ Consume(p)
           /\ calls' = SetFate(calls, c, m.serial, "served")
  <2>1. chan'[c] = chan[c]
    BY <1>1, <1>2, <1>6, ConsumeItems
  <2>. HIDE DEF e, c, m
  <2>2. calls'[c][n].fate = "served"
    BY <1>1, <1>2, <1>6, SetFateIs DEF TypeOK
  <2>3. \A r \in replying'[p] : r = e
    BY <1>6 DEF TypeOK
  <2>. QED BY <1>1, <1>2, <1>4, <1>5, <2>1, <2>2, <2>3 DEF c
<1>7. CASE Answer(p, m, <<e>>) /\ UNCHANGED replying
  <2>1. Exchanges(p, <<e>>) /\ Sends(<<e>>, e, e)
    BY <1>7 DEF Answer, Exchanges, Sends
  <2>2. calls' = SetFate(calls, c, n, Unless(Reaches(p), "served"))
    BY <1>1, <1>7 DEF Answer
  <2>. DEFINE ms == <<e>>
  <2>3. \A x \in Items(chan'[c]) : x \in Items(chan[c]) \/ x = e
    <3>1. chan[p] # <<>> /\ e \in Message /\ Exchanges(p, ms) /\ Sends(ms, e, e)
      BY <1>1, <1>3, <2>1
    <3>. HIDE DEF e, m, ms
    <3>2. \A x \in Items(chan'[c]) : x \in Items(chan[c]) \/ (Reaches(p) /\ x \in {e, e})
      BY <3>1, AnswerItems
    <3>. QED BY <3>2
  <2>. HIDE DEF e, m, c
  <2>4. calls'[c][n].fate = Unless(Reaches(p), "served")
    BY <1>2, <2>2, SetFateIs DEF TypeOK
  <2>5. calls'[c][n].fate \in {"served", "lost"}
    BY <2>4 DEF Unless
  <2>. QED BY <1>1, <1>2, <1>4, <1>5, <1>7, <2>3, <2>5 DEF c
<1>. QED BY <1>1, <1>6, <1>7

LEMMA ProducedNext ==
  ASSUME TypeOK, Underway, Advance, Connected, Produced, RepliesAccept, [Next]_vars
  PROVE  Connected' /\ Produced' /\ RepliesAccept'
<1>1. ConnGrows /\ Traffic
  BY ConnNext, TrafficNext
<1>2. \A q \in Peers : Other(q) \in Peers /\ Other(Other(q)) = q
  BY OtherPeer
<1>3. Connected'
  BY <1>1, <1>2 DEF Connected, ConnGrows, Traffic, Reaches
<1>4. ASSUME NEW p \in Peers, NEW o \in Opcodes, NEW n, n = productions'[p][o], n # 0
      PROVE  /\ listening'[p] /\ conn'[Other(p)] # "created"
             /\ calls'[Other(p)][n].fate \notin {"unused", "issued"}
             /\ \A m \in Items(chan'[Other(p)]) \cup replying'[p] : Accepts(m, o, n)
  <2>. DEFINE c == Other(p)
  <2>1. CASE Enters(p, o)
    <3>1. /\ n \in Serials /\ listening[p] /\ chan[p] # <<>>
          /\ calls[c][n].fate = "issued" /\ calls'[c][n].fate \in {"served", "lost"}
          /\ \A m \in Items(chan'[c]) : m \in Items(chan[c]) \/ Accepts(m, o, n)
          /\ \A r \in replying'[p] : r \in replying[p] \/ Accepts(r, o, n)
      BY <1>4, <2>1, EntersFacts
    <3>2. ASSUME NEW m \in Items(chan[c]), m.type \in Replies, m.serial = n PROVE FALSE
      <4>1. Due(calls, c, m)
        BY <1>2, <3>2 DEF Underway, Tokens, Sound, Items
      <4>. QED BY <3>1, <3>2, <4>1 DEF Due
    <3>3. \A m \in Items(chan[c]) : Accepts(m, o, n)
      BY <3>2 DEF Accepts
    <3>4. replying[p] = {}
      BY <2>1 DEF Enters, AcceptSubscribe, AcceptClosed, Arrives
    <3>. QED BY <1>1, <1>2, <3>1, <3>3, <3>4 DEF Connected, ConnGrows
  <2>2. CASE ~Enters(p, o)
    <3>1. n = productions[p][o]
      BY <1>4, <2>2, ProductionsNext
    <3>2. n \in Serials
      BY <1>4, <3>1, BoundsAssumption DEF TypeOK, Serials
    <3>3. /\ listening[p] /\ conn[c] # "created" /\ calls[c][n].fate \notin {"unused", "issued"}
          /\ \A m \in Items(chan[c]) \cup replying[p] : Accepts(m, o, n)
      BY <1>4, <3>1 DEF Produced, RepliesAccept
    <3>4. calls'[c][n].fate \notin {"unused", "issued"}
      BY <1>2, <3>2, <3>3 DEF Advance, Contract!Advances
    <3>5. \A m \in Items(chan'[c]) \cup replying'[p] : Accepts(m, o, n)
      <4>1. ASSUME NEW m \in Items(chan'[c]) \cup replying'[p] PROVE Accepts(m, o, n)
        <5>1. \/ m \in Items(chan[c]) \cup replying[p]
              \/ m.type \notin Replies
              \/ calls[c][m.serial].fate = "issued"
          BY <1>1, <1>2, <4>1 DEF Traffic
        <5>. QED BY <3>3, <5>1 DEF Accepts
      <4>. QED BY <4>1
    <3>. QED BY <1>1, <1>2, <3>3, <3>4, <3>5 DEF ConnGrows
  <2>. QED BY <2>1, <2>2
<1>5. Produced'
  BY <1>4 DEF Produced
<1>6. RepliesAccept'
  BY <1>4 DEF RepliesAccept
<1>. QED BY <1>3, <1>5, <1>6

LEMMA ReachesOn ==
  ASSUME TypeOK, [Next]_vars, ~Stopped', NEW p \in Peers, conn[Other(p)] # "created"
  PROVE  ~Stopped /\ Reaches(Other(p))
<1>1. ~Stopped
  BY ConnNext DEF ConnGrows, Stopped
<1>2. conn[Other(p)] \in {"created", "running", "stopped"}
  BY OtherPeer DEF TypeOK
<1>. QED BY <1>1, <1>2, OtherPeer DEF Stopped, Reaches

(* An unsubscribe request goes on its way until it ends the production.     *)
LEMMA UndoneStays ==
  ASSUME TypeOK, OneInHand, Produced, [Next]_vars, ~Stopped', NEW p \in Peers, NEW o \in Opcodes,
         productions[p][o] # 0, productions'[p][o] # 0, Undone(p, o)
  PROVE  Undone(p, o)'
<1>. DEFINE c == Other(p)
            Keeps == \A m \in Items(chan[p]) : Undoes(m, o) => m \in Items(chan'[p])
            Holds == \A t \in Threads : Home[t] = c => \A h \in hand[t] :
              h.at = "send" /\ Undoes(h.msg, o) => h \in hand'[t] \/ h.msg \in Items(chan'[p])
<1>0. c \in Peers /\ Other(c) = p /\ c # p /\ listening[p] /\ Reaches(c)
  BY OtherPeer, ReachesOn DEF Produced
<1>. SUFFICES Keeps /\ Holds
  BY DEF Undone
<1>a. UNCHANGED chan => Keeps
  OBVIOUS
<1>b. UNCHANGED hand => Holds
  OBVIOUS
<1>c. ASSUME NEW q \in Peers, NEW m \in Message, Wire(q, <<m>>) PROVE Keeps
  BY <1>c, WireItems
<1>d. ASSUME NEW q \in Peers, chan[q] # <<>>, Consume(q), q = p => ~Undoes(Head(chan[q]), o)
      PROVE  Keeps
  BY <1>d, ConsumeItems
<1>e. ASSUME NEW q \in Peers, chan[q] # <<>>, q = p => ~Undoes(Head(chan[q]), o),
             NEW a \in Message, NEW e \in Message, NEW ms, Sends(ms, a, e), Exchanges(q, ms)
      PROVE  Keeps
  <2>1. /\ Items(chan[q]) = Items(chan'[q]) \cup {Head(chan[q])}
        /\ Items(chan[Other(q)]) \subseteq Items(chan'[Other(q)])
    BY <1>e, AnswerItems
  <2>2. p = q \/ p = Other(q)
    BY <1>e, OtherPeer
  <2>. QED BY <1>e, <2>1, <2>2
<1>f. ASSUME NEW q \in Peers, chan[q] # <<>>, Head(chan[q]).type \in {"request", "subscribe_request"},
             NEW err \in {"success", "failure"}, NEW ms,
             \/ ms = <<Reply(Head(chan[q]), err)>>
             \/ ms = <<Msg("notification", Head(chan[q]).op, Head(chan[q]).serial, "aborted"),
                       Reply(Head(chan[q]), err)>>,
             Answer(q, Head(chan[q]), ms)
      PROVE  Keeps
  <2>. DEFINE m == Head(chan[q])  e == Reply(m, err)
              a == Msg("notification", m.op, m.serial, "aborted")
  <2>1. m \in Message /\ m.op \in Opcodes /\ m.serial \in Serials /\ ~Undoes(m, o)
    BY <1>f, HeadType DEF Undoes
  <2>2. e \in Message /\ a \in Message
    BY <1>f, <2>1, ReplyIsMessage, MsgType DEF Kinds
  <2>3. Sends(ms, a, e) /\ Exchanges(q, ms)
    BY <1>f DEF Sends, Answer, Exchanges
  <2>. HIDE DEF e, a
  <2>. QED BY <1>f, <2>1, <2>2, <2>3, <1>e
<1>. HIDE DEF Keeps
<1>1. ASSUME NEW q \in Peers, StartConnection(q) \/ Listen(q) PROVE Keeps /\ Holds
  BY <1>1, <1>a, <1>b DEF StartConnection, Listen
<1>2. ASSUME NEW q \in Peers, Stop(q) \/ HangUp(q) PROVE Keeps /\ Holds
  <2>1. conn' = [conn EXCEPT ![q] = "stopped"]
    BY <1>2 DEF Stop, HangUp
  <2>2. Stopped'
    BY <2>1 DEF Stopped, TypeOK
  <2>. QED BY <2>2
<1>3. ASSUME NEW t \in Threads, NEW type, NEW op, Bake(t, type, op), UNCHANGED chan
      PROVE  Keeps /\ Holds
  <2>1. \E h : hand' = [hand EXCEPT ![t] = {h}]
    BY <1>3 DEF Bake
  <2>2. hand[t] = {}
    BY <1>3 DEF Bake, Idle
  <2>. QED BY <1>3, <1>a, <2>1, <2>2 DEF TypeOK
<1>4. ASSUME NEW t \in Threads, SendCall(t) PROVE Keeps /\ Holds
  <2>1. PICK h \in hand[t] : /\ Wire(Home[t], <<h.msg>>)
                             /\ \E g : hand' = [hand EXCEPT ![t] = {g}]
    BY <1>4 DEF SendCall
  <2>2. h.msg \in Message /\ Home[t] \in Peers
    BY HandType
  <2>3. Keeps
    BY <1>c, <2>1, <2>2
  <2>4. Home[t] = c => h.msg \in Items(chan'[p])
    BY <1>0, <2>1, <2>2, WireItems
  <2>5. \A u \in Threads : u # t => hand'[u] = hand[u]
    BY <2>1 DEF TypeOK
  <2>6. Holds
    BY <2>4, <2>5 DEF OneInHand
  <2>. QED BY <2>3, <2>6
<1>5. ASSUME NEW t \in Threads, Register(t) PROVE Keeps /\ Holds
  <2>1. PICK h \in hand[t] : h.at = "insert" /\ hand' = [hand EXCEPT ![t] = {}] /\ UNCHANGED chan
    BY <1>5 DEF Register
  <2>2. \A u \in Threads : u # t => hand'[u] = hand[u]
    BY <2>1 DEF TypeOK
  <2>. QED BY <1>a, <2>1, <2>2 DEF OneInHand
<1>6. ASSUME NEW t \in Threads, SendNotification(t) PROVE Keeps /\ Holds
  <2>1. PICK h \in hand[t] : /\ h.msg.type = "notification" /\ Wire(Home[t], <<h.msg>>)
                             /\ hand' = [hand EXCEPT ![t] = {}]
    BY <1>6 DEF SendNotification
  <2>2. h.msg \in Message /\ Home[t] \in Peers
    BY HandType
  <2>3. \A u \in Threads : u # t => hand'[u] = hand[u]
    BY <2>1 DEF TypeOK
  <2>. QED BY <1>c, <2>1, <2>2, <2>3 DEF OneInHand, Undoes
<1>7. ASSUME NEW t \in Threads, NEW s, Produce(t, s) PROVE Keeps /\ Holds
  <2>1. \E h : hand' = [hand EXCEPT ![t] = {h}]
    BY <1>7 DEF Produce
  <2>2. hand[t] = {} /\ UNCHANGED chan
    BY <1>7 DEF Produce, Idle
  <2>. QED BY <1>a, <2>1, <2>2 DEF TypeOK
<1>8. ASSUME NEW t \in Threads, NEW s, Close(t, s) \/ DropSink(t, s) PROVE Keeps /\ Holds
  <2>1. hand' = hand \/ \E x : hand' = [hand EXCEPT ![t] = x]
    BY <1>8 DEF Close, DropSink
  <2>2. hand[t] = {} /\ UNCHANGED chan
    BY <1>8 DEF Close, DropSink, Idle
  <2>. QED BY <1>a, <2>1, <2>2 DEF TypeOK
<1>18. ASSUME NEW t \in Threads, FinishClose(t) PROVE Keeps /\ Holds
  <2>1. PICK h \in hand[t] : /\ h.at = "close" /\ hand' = [hand EXCEPT ![t] = {}]
                             /\ UNCHANGED chan \/ Wire(Home[t], <<h.msg>>)
    BY <1>18 DEF FinishClose, CloseProduction
  <2>2. h.msg \in Message /\ Home[t] \in Peers
    BY HandType
  <2>3. \A u \in Threads : u # t => hand'[u] = hand[u]
    BY <2>1 DEF TypeOK
  <2>. QED BY <1>a, <1>c, <2>1, <2>2, <2>3 DEF OneInHand
<1>9. ASSUME NEW q \in Peers, ReceiveEarly(q) PROVE Keeps /\ Holds
  <2>1. q # p /\ chan[q] # <<>> /\ Consume(q) /\ UNCHANGED hand
    BY <1>0, <1>9 DEF ReceiveEarly
  <2>. QED BY <1>b, <1>d, <2>1
<1>10. ASSUME NEW q \in Peers, \/ ReceiveNotification(q) \/ AcceptSubscribe(q) \/ DropResponse(q)
                               \/ CompleteCall(q) \/ CompleteSubscribe(q)
       PROVE  Keeps /\ Holds
  <2>1. /\ chan[q] # <<>> /\ Consume(q) /\ UNCHANGED hand
        /\ Head(chan[q]).type # "unsubscribe_request"
    BY <1>10 DEF ReceiveNotification, AcceptSubscribe, DropResponse, CompleteCall,
                 CompleteSubscribe, Completes, Arrives, Replies
  <2>. QED BY <1>b, <1>d, <2>1 DEF Undoes
<1>11. ASSUME NEW q \in Peers, ReceiveRequest(q) PROVE Keeps /\ Holds
  <2>1. PICK err \in {"success", "failure"} :
          Answer(q, Head(chan[q]), <<Reply(Head(chan[q]), err)>>)
    BY <1>11 DEF ReceiveRequest
  <2>2. chan[q] # <<>> /\ Head(chan[q]).type = "request" /\ UNCHANGED hand
    BY <1>11 DEF ReceiveRequest, Arrives
  <2>. QED BY <1>b, <1>f, <2>1, <2>2
<1>12. ASSUME NEW q \in Peers, RefuseSubscribe(q) PROVE Keeps /\ Holds
  <2>1. /\ chan[q] # <<>> /\ Head(chan[q]).type = "subscribe_request" /\ UNCHANGED hand
        /\ Answer(q, Head(chan[q]), <<Reply(Head(chan[q]), "failure")>>)
    BY <1>12 DEF RefuseSubscribe, Arrives
  <2>. QED BY <1>b, <1>f, <2>1
<1>13. ASSUME NEW q \in Peers, DiscardSubscribe(q) PROVE Keeps /\ Holds
  <2>. DEFINE m == Head(chan[q])
  <2>1. /\ chan[q] # <<>> /\ m.type = "subscribe_request" /\ UNCHANGED hand
        /\ Answer(q, m, <<Msg("notification", m.op, m.serial, "aborted"), Reply(m, "success")>>)
    BY <1>13 DEF DiscardSubscribe, Arrives
  <2>. QED BY <1>b, <1>f, <2>1
<1>19. ASSUME NEW q \in Peers, AcceptClosed(q) PROVE Keeps /\ Holds
  <2>1. /\ chan[q] # <<>> /\ Head(chan[q]).type = "subscribe_request" /\ UNCHANGED hand
        /\ Answer(q, Head(chan[q]), <<Reply(Head(chan[q]), "success")>>)
    BY <1>19 DEF AcceptClosed, Arrives
  <2>. QED BY <1>b, <1>f, <2>1
<1>14. ASSUME NEW q \in Peers, ReceiveUnsubscribe(q) PROVE Keeps /\ Holds
  <2>1. /\ chan[q] # <<>> /\ Consume(q) /\ UNCHANGED hand
        /\ productions' = [productions EXCEPT ![q][Head(chan[q]).op] = 0]
    BY <1>14 DEF ReceiveUnsubscribe, Arrives
  <2>2. q = p => Head(chan[q]).op # o
    BY <2>1 DEF TypeOK
  <2>. QED BY <1>b, <1>d, <2>1, <2>2 DEF Undoes
<1>15. ASSUME NEW q \in Peers, SendReply(q) PROVE Keeps /\ Holds
  <2>1. PICK m \in replying[q] : Wire(q, <<m>>) /\ UNCHANGED hand
    BY <1>15 DEF SendReply
  <2>2. m \in Message
    BY DEF TypeOK
  <2>. QED BY <1>b, <1>c, <2>1, <2>2
<1>16. ASSUME NEW q \in Peers, DiscardHandle(q) PROVE Keeps /\ Holds
  <2>1. PICK u \in Message : Exchanges(q, <<u>>)
    BY <1>16, DiscardSends
  <2>2. /\ chan[q] # <<>> /\ Head(chan[q]).type # "unsubscribe_request" /\ UNCHANGED hand
    BY <1>16 DEF DiscardHandle, Arrives, Replies
  <2>. QED BY <1>b, <1>e, <2>1, <2>2 DEF Undoes, Sends
<1>17. CASE UNCHANGED vars
  BY <1>17, <1>a, <1>b DEF vars
<1>. HIDE DEF Holds
<1>. QED BY <1>1, <1>2, <1>3, <1>4, <1>5, <1>6, <1>7, <1>8, <1>9, <1>10, <1>11, <1>12,
            <1>13, <1>14, <1>15, <1>16, <1>17, <1>18, <1>19
         DEF Next, Receive, Application, Continue, Request, Subscribe, Unsubscribe

(* The steps that leave no call answered behind: all but three.             *)
LEMMA AnswersOnly ==
  ASSUME TypeOK, [Next]_vars,
         \A q \in Peers : ~CompleteCall(q) /\ ~CompleteSubscribe(q) /\ ~DiscardHandle(q)
  PROVE  NoneAnswered
<1>a. UNCHANGED calls => NoneAnswered
  BY DEF NoneAnswered
<1>b. ASSUME NEW t \in Threads, NEW type, NEW op, Bake(t, type, op) PROVE NoneAnswered
  <2>. DEFINE p == Home[t]  n == baked[p] + 1  c == [kind |-> type, fate |-> "issued"]
  <2>1. p \in Peers /\ c.fate = "issued"
    BY ThreadsAssumption
  <2>2. n \in Serials
    <3>1. baked[p] \in 0..MaxSerial /\ Budget[p] \in 0..MaxSerial /\ MaxSerial \in Nat
      BY <2>1, BoundsAssumption DEF TypeOK
    <3>. QED BY <1>b, <3>1 DEF Bake, Serials
  <2>3. calls' = [calls EXCEPT ![p] = [calls[p] EXCEPT ![n] = c]]
    BY <1>b DEF Bake
  <2>. HIDE DEF p, n, c
  <2>. QED BY <2>1, <2>2, <2>3 DEF NoneAnswered, TypeOK
<1>c. ASSUME NEW q \in Peers, NEW n \in Serials, NEW f, f # "answered",
             calls' = SetFate(calls, q, n, f)
      PROVE  NoneAnswered
  BY <1>c, SetFateNone
<1>d. ASSUME NEW q \in Peers, NEW types, Arrives(q, types) PROVE Head(chan[q]).serial \in Serials
  BY <1>d, HeadType DEF Arrives
<1>e. \A q \in Peers : /\ Reaches(q) \in BOOLEAN /\ Other(q) \in Peers
                       /\ Unless(Reaches(q), "served") # "answered"
                       /\ Unless(Reaches(q), "issued") # "answered"
  BY OtherPeer, UnlessNone DEF Reaches
<1>1. ASSUME NEW t \in Threads, NEW op \in Opcodes, Request(t, op) \/ Subscribe(t, op)
      PROVE  NoneAnswered
  BY <1>1, <1>b DEF Request, Subscribe
<1>2. ASSUME NEW t \in Threads, NEW h, NEW dropped, Unsubscribe(t, h, dropped) PROVE NoneAnswered
  BY <1>2, <1>b DEF Unsubscribe
<1>3. ASSUME NEW t \in Threads, SendCall(t) PROVE NoneAnswered
  <2>1. PICK h \in hand[t] :
          calls' = SetFate(calls, Home[t], h.msg.serial, Unless(Reaches(Home[t]), "issued"))
    BY <1>3 DEF SendCall
  <2>2. Home[t] \in Peers /\ h.msg.serial \in Serials
    BY HandType DEF Message
  <2>. QED BY <1>c, <1>e, <2>1, <2>2
<1>4. ASSUME NEW q \in Peers, Stop(q) PROVE NoneAnswered
  <2>1. \E gone : LoseCalls(gone)
    BY <1>4 DEF Stop
  <2>. QED BY <2>1, LoseNone
<1>5. ASSUME NEW q \in Peers, ReceiveEarly(q) PROVE NoneAnswered
  <2>1. \E gone : LoseCalls(gone)
    BY <1>5 DEF ReceiveEarly
  <2>. QED BY <2>1, LoseNone
<1>6. ASSUME NEW q \in Peers, \/ ReceiveRequest(q) \/ RefuseSubscribe(q) \/ DiscardSubscribe(q)
                              \/ AcceptClosed(q)
      PROVE  NoneAnswered
  <2>1. calls' = SetFate(calls, Other(q), Head(chan[q]).serial, Unless(Reaches(q), "served"))
    BY <1>6 DEF ReceiveRequest, RefuseSubscribe, DiscardSubscribe, AcceptClosed, Answer
  <2>2. Head(chan[q]).serial \in Serials
    BY <1>6, <1>d DEF ReceiveRequest, RefuseSubscribe, DiscardSubscribe, AcceptClosed
  <2>. QED BY <1>c, <1>e, <2>1, <2>2
<1>7. ASSUME NEW q \in Peers, AcceptSubscribe(q) \/ ReceiveUnsubscribe(q) PROVE NoneAnswered
  <2>1. calls' = SetFate(calls, Other(q), Head(chan[q]).serial, "served")
    BY <1>7 DEF AcceptSubscribe, ReceiveUnsubscribe
  <2>2. Head(chan[q]).serial \in Serials
    BY <1>7, <1>d DEF AcceptSubscribe, ReceiveUnsubscribe
  <2>. QED BY <1>c, <1>e, <2>1, <2>2
<1>8. ASSUME NEW q \in Peers, SendReply(q) PROVE NoneAnswered
  <2>1. PICK m \in replying[q] :
          calls' = SetFate(calls, Other(q), m.serial, Unless(Reaches(q), "served"))
    BY <1>8 DEF SendReply
  <2>2. m.serial \in Serials
    BY DEF TypeOK, Message
  <2>. QED BY <1>c, <1>e, <2>1, <2>2
<1>9. ASSUME NEW q \in Peers, DropResponse(q) PROVE NoneAnswered
  <2>1. calls' = SetFate(calls, q, Head(chan[q]).serial, "dropped")
    BY <1>9 DEF DropResponse
  <2>2. Head(chan[q]).serial \in Serials
    BY <1>9, <1>d DEF DropResponse
  <2>. QED BY <1>c, <2>1, <2>2
<1>. QED BY <1>a, <1>1, <1>2, <1>3, <1>4, <1>5, <1>6, <1>7, <1>8, <1>9
         DEF Next, Receive, Application, Continue, vars, StartConnection, Listen, HangUp,
             Register, Produce, SendNotification, Close, DropSink, FinishClose,
             ReceiveNotification

(* What DiscardHandle does to the calls.                                    *)
LEMMA DiscardAnswers ==
  ASSUME TypeOK, NEW p \in Peers, DiscardHandle(p)
  PROVE  \E r \in outstanding[p] :
           /\ r.cid = Head(chan[p]).cid /\ Head(chan[p]).type \in Replies
           /\ \A q \in Peers, k \in Serials : calls'[q][k].fate = "answered" =>
                calls[q][k].fate = "answered" \/ (q = p /\ k = r.serial)
<1>. DEFINE n == baked[p] + 1
            u == Msg("unsubscribe_request", Head(chan[p]).op, n, "success")
            c == [kind |-> u.type, fate |-> Unless(Reaches(p), "issued")]
<1>1. PICK r \in outstanding[p] :
        /\ Arrives(p, Replies) /\ r.cid = Head(chan[p]).cid /\ baked[p] < Budget[p]
        /\ calls' = [calls EXCEPT ![p][r.serial].fate = "answered", ![p][n] = c]
  BY DEF DiscardHandle
<1>2. n \in Serials
  BY <1>1, DiscardMessage DEF Arrives
<1>3. c.fate # "answered"
  BY DEF Unless
<1>. HIDE DEF n, c
<1>4. r.serial \in Serials
  BY DEF TypeOK, Outstanding
<1>. DEFINE c1 == SetFate(calls, p, r.serial, "answered")
            a == [calls[p][r.serial] EXCEPT !.fate = "answered"]
<1>5. c1 = [calls EXCEPT ![p] = [calls[p] EXCEPT ![r.serial] = a]]
  BY DEF SetFate
<1>6. calls' = [c1 EXCEPT ![p] = [c1[p] EXCEPT ![n] = c]]
  BY <1>1 DEF SetFate
<1>. HIDE DEF c1, a
<1>7. calls \in [Peers -> [Serials -> Call]]
  BY DEF TypeOK
<1>8. /\ c1 \in [Peers -> [Serials -> Call \cup {a}]]
      /\ \A q \in Peers, k \in Serials : c1[q][k] = IF q = p /\ k = r.serial THEN a ELSE calls[q][k]
  BY <1>4, <1>5, <1>7
<1>9. \A q \in Peers, k \in Serials : calls'[q][k] = IF q = p /\ k = n THEN c ELSE c1[q][k]
  BY <1>2, <1>6, <1>8
<1>10. \A q \in Peers, k \in Serials : calls'[q][k].fate = "answered" =>
         calls[q][k].fate = "answered" \/ (q = p /\ k = r.serial)
  BY <1>3, <1>8, <1>9
<1>. QED BY <1>1, <1>10 DEF Arrives

(* The reply to the request of a production enters the subscription, or     *)
(* sends the unsubscribe request after it.                                  *)
LEMMA AnswerFollowed ==
  ASSUME TypeOK, IdsApart, Produced, RepliesAccept, [Next]_vars, ~Stopped',
         NEW p \in Peers, NEW o \in Opcodes, NEW n, n = productions[p][o], n # 0,
         calls[Other(p)][n].fate # "answered", calls'[Other(p)][n].fate = "answered"
  PROVE  subscriptions'[Other(p)][o] # 0 \/ Undone(p, o)'
<1>. DEFINE c == Other(p)  m == Head(chan[c])
<1>1. c \in Peers /\ Other(c) = p /\ c # p /\ Reaches(c)
  BY OtherPeer, ReachesOn DEF Produced
<1>2. n \in Serials
  BY BoundsAssumption DEF TypeOK, Serials
<1>. HIDE DEF m
<1>3. ASSUME chan[c] # <<>>, NEW r \in outstanding[c], r.cid = m.cid, m.type \in Replies,
             r.serial = n
      PROVE  r.kind = "subscribe_request" /\ m.err = "success" /\ m.op = o
  <2>1. m \in Items(chan[c])
    <3>1. chan[c] \in Seq(Message)
      BY <1>1 DEF TypeOK
    <3>. QED BY <1>3, <3>1, ItemsTail DEF m
  <2>2. m.serial = n /\ m.type = ReplyType[r.kind]
    BY <1>1, <1>3 DEF IdsApart, m
  <2>3. m.type = "subscribe_response" /\ m.err = "success" /\ m.op = o
    BY <1>3, <2>1, <2>2 DEF RepliesAccept, Accepts
  <2>4. r.kind \in Kinds
    BY <1>1 DEF TypeOK, Outstanding
  <2>. QED BY <2>2, <2>3, <2>4 DEF Kinds, ReplyType
<1>4. ASSUME NEW q \in Peers, CompleteCall(q) PROVE FALSE
  <2>1. PICK r \in outstanding[q] :
          /\ Completes(q, Head(chan[q]), r)
          /\ r.kind = "subscribe_request" => Head(chan[q]).err # "success"
          /\ calls' = SetFate(calls, q, r.serial, "answered")
    BY <1>4 DEF CompleteCall
  <2>2. r.serial \in Serials
    BY DEF TypeOK, Outstanding
  <2>3. q = c /\ r.serial = n
    BY <1>1, <1>2, <2>1, <2>2, SetFateIs
  <2>. QED BY <1>3, <2>1, <2>3 DEF Completes, Arrives, m
<1>5. ASSUME NEW q \in Peers, CompleteSubscribe(q) PROVE subscriptions'[c][o] # 0
  <2>1. PICK r \in outstanding[q] :
          /\ Completes(q, Head(chan[q]), r)
          /\ calls' = SetFate(calls, q, r.serial, "answered")
          /\ subscriptions' = [subscriptions EXCEPT
               ![q][Head(chan[q]).op] = IF @ = 0 THEN r.serial ELSE @]
    BY <1>5 DEF CompleteSubscribe
  <2>2. r.serial \in Serials
    BY DEF TypeOK, Outstanding
  <2>3. q = c /\ r.serial = n
    BY <1>1, <1>2, <2>1, <2>2, SetFateIs
  <2>4. m.op = o
    BY <1>3, <2>1, <2>3 DEF Completes, Arrives, m
  <2>5. subscriptions' = [subscriptions EXCEPT ![c] = [subscriptions[c] EXCEPT ![o] =
           IF subscriptions[c][o] = 0 THEN n ELSE subscriptions[c][o]]]
    BY <2>1, <2>3, <2>4 DEF m
  <2>. QED BY <1>1, <2>5 DEF TypeOK
<1>6. ASSUME NEW q \in Peers, DiscardHandle(q) PROVE Undone(p, o)'
  <2>1. PICK r \in outstanding[q] :
          /\ r.cid = Head(chan[q]).cid /\ Head(chan[q]).type \in Replies
          /\ \A x \in Peers, k \in Serials : calls'[x][k].fate = "answered" =>
               calls[x][k].fate = "answered" \/ (x = q /\ k = r.serial)
    BY <1>6, DiscardAnswers
  <2>2. q = c /\ r.serial = n /\ chan[c] # <<>>
    BY <1>1, <1>2, <1>6, <2>1 DEF DiscardHandle, Arrives
  <2>3. m.op = o
    BY <1>3, <2>1, <2>2 DEF m
  <2>4. PICK u \in Message : u.type = "unsubscribe_request" /\ u.op = o /\ Exchanges(c, <<u>>)
    BY <1>6, <2>2, <2>3, DiscardSends DEF m
  <2>5. u \in Items(chan'[p])
    BY <1>1, <2>2, <2>4, AnswerItems DEF Sends
  <2>. QED BY <2>4, <2>5 DEF Undone, Undoes
<1>7. CASE \A q \in Peers : ~CompleteCall(q) /\ ~CompleteSubscribe(q) /\ ~DiscardHandle(q)
  BY <1>1, <1>2, <1>7, AnswersOnly DEF NoneAnswered
<1>. QED BY <1>4, <1>5, <1>6, <1>7

(* A subscription is only ended by an unsubscribe request.                  *)
LEMMA SubscriptionStays ==
  ASSUME TypeOK, Produced, [Next]_vars, ~Stopped',
         NEW p \in Peers, NEW o \in Opcodes, productions[p][o] # 0,
         subscriptions[Other(p)][o] # 0
  PROVE  subscriptions'[Other(p)][o] # 0 \/ Undone(p, o)'
<1>. DEFINE c == Other(p)  Goal == subscriptions'[c][o] # 0 \/ Undone(p, o)'
<1>. SUFFICES Goal
  OBVIOUS
<1>1. c \in Peers /\ Other(c) = p /\ c # p /\ Reaches(c)
  BY OtherPeer, ReachesOn DEF Produced
<1>2. subscriptions \in [Peers -> [Opcodes -> 0..MaxSerial]]
  BY DEF TypeOK
<1>3. ASSUME UNCHANGED subscriptions PROVE Goal
  BY <1>3
<1>4. ASSUME NEW t \in Threads, NEW h \in handles[Home[t]], NEW dropped, Unsubscribe(t, h, dropped)
      PROVE  Goal
  <2>. DEFINE u == Msg("unsubscribe_request", h.op, baked[Home[t]] + 1, "success")
              g == [at |-> "send", msg |-> u]
  <2>1. /\ subscriptions' = [subscriptions EXCEPT ![Home[t]][h.op] = 0]
        /\ hand' = [hand EXCEPT ![t] = {g}]
    BY <1>4 DEF Unsubscribe, Bake
  <2>2. CASE Home[t] = c /\ h.op = o
    <3>1. g.at = "send" /\ Undoes(g.msg, o)
      BY <2>2 DEF Undoes, Msg
    <3>2. g \in hand'[t]
      BY <2>1 DEF TypeOK
    <3>. HIDE DEF g
    <3>. QED BY <2>2, <3>1, <3>2 DEF Undone
  <2>3. CASE ~(Home[t] = c /\ h.op = o)
    BY <1>1, <1>2, <2>1, <2>3
  <2>. QED BY <2>2, <2>3
<1>5. ASSUME NEW q \in Peers, CompleteSubscribe(q) PROVE Goal
  <2>1. PICK r \in outstanding[q] : subscriptions' = [subscriptions EXCEPT
               ![q][Head(chan[q]).op] = IF @ = 0 THEN r.serial ELSE @]
    BY <1>5 DEF CompleteSubscribe
  <2>2. subscriptions' = [subscriptions EXCEPT ![q] = [subscriptions[q] EXCEPT ![Head(chan[q]).op] =
           IF subscriptions[q][Head(chan[q]).op] = 0 THEN r.serial
           ELSE subscriptions[q][Head(chan[q]).op]]]
    BY <2>1
  <2>3. subscriptions'[c][o] # 0
    BY <1>1, <1>2, <2>2
  <2>. QED BY <2>3
<1>6. ASSUME NEW q \in Peers, DiscardHandle(q) PROVE Goal
  <2>1. /\ subscriptions' = [subscriptions EXCEPT ![q][Head(chan[q]).op] = 0]
        /\ chan[q] # <<>>
    BY <1>6 DEF DiscardHandle, Arrives
  <2>2. CASE q = c /\ Head(chan[q]).op = o
    <3>1. PICK u \in Message : u.type = "unsubscribe_request" /\ u.op = o /\ Exchanges(c, <<u>>)
      BY <1>6, <2>2, DiscardSends
    <3>2. u \in Items(chan'[p])
      BY <1>1, <2>1, <2>2, <3>1, AnswerItems DEF Sends
    <3>. QED BY <3>1, <3>2 DEF Undone, Undoes
  <2>3. CASE ~(q = c /\ Head(chan[q]).op = o)
    BY <1>1, <1>2, <2>1, <2>3
  <2>. QED BY <2>2, <2>3
<1>. HIDE DEF Goal
<1>. QED BY <1>3, <1>4, <1>5, <1>6
         DEF Next, Receive, Application, Continue, vars, StartConnection, Listen, Stop, HangUp,
             Request, Subscribe, SendCall, Register, Produce, SendNotification, Close, DropSink,
             ReceiveEarly, ReceiveNotification, ReceiveRequest, RefuseSubscribe,
             AcceptSubscribe, DiscardSubscribe, AcceptClosed, ReceiveUnsubscribe, SendReply,
             DropResponse, CompleteCall, FinishClose

LEMMA FollowedNext ==
  ASSUME TypeOK, Underway, IdsApart, Orphanless, [Next]_vars
  PROVE  Followed'
<1>. SUFFICES ASSUME ~Stopped', NEW p \in Peers, NEW o \in Opcodes,
                     NEW n, n = productions'[p][o], n # 0,
                     calls'[Other(p)][n].fate = "answered"
              PROVE  subscriptions'[Other(p)][o] # 0 \/ Undone(p, o)'
  BY DEF Followed
<1>1. ~Enters(p, o)
  BY EntersFacts
<1>2. n = productions[p][o]
  BY <1>1, ProductionsNext
<1>3. ~Stopped
  BY ConnNext DEF ConnGrows, Stopped
<1>4. CASE calls[Other(p)][n].fate # "answered"
  BY <1>2, <1>4, AnswerFollowed DEF Orphanless
<1>5. CASE calls[Other(p)][n].fate = "answered"
  <2>1. subscriptions[Other(p)][o] # 0 \/ Undone(p, o)
    BY <1>2, <1>3, <1>5 DEF Orphanless, Followed
  <2>2. CASE Undone(p, o)
    BY <1>2, <2>2, UndoneStays DEF Orphanless
  <2>3. CASE subscriptions[Other(p)][o] # 0
    BY <1>2, <2>3, SubscriptionStays DEF Orphanless
  <2>. QED BY <2>1, <2>2, <2>3
<1>. QED BY <1>4, <1>5

LEMMA OrphanlessNext ==
  ASSUME TypeOK, Underway, Advance, IdsApart, Orphanless, [Next]_vars
  PROVE  Orphanless'
<1>1. OneInHand' /\ Followed'
  BY OneInHandNext, FollowedNext DEF Orphanless
<1>2. Connected' /\ Produced' /\ RepliesAccept'
  BY ProducedNext DEF Orphanless
<1>. QED BY <1>1, <1>2 DEF Orphanless

LEMMA OrphanlessInit == Init => Orphanless
<1>. SUFFICES ASSUME Init PROVE Orphanless
  OBVIOUS
<1>1. /\ \A p \in Peers, o \in Opcodes : productions[p][o] = 0
      /\ \A p \in Peers : chan[p] = <<>>
      /\ \A t \in Threads : hand[t] = {}
  BY DEF Init
<1>2. OneInHand /\ Connected
  BY <1>1 DEF OneInHand, Connected
<1>3. Produced /\ RepliesAccept /\ Followed
  BY <1>1 DEF Produced, RepliesAccept, Followed
<1>. QED BY <1>2, <1>3 DEF Orphanless

(* An id that was handed out twice stays so.                               *)
LEMMA UnwrappedBefore == TypeOK /\ [Next]_vars /\ Unwrapped' => Unwrapped
<1>. SUFFICES ASSUME TypeOK, [Next]_vars, Unwrapped' PROVE Unwrapped
  OBVIOUS
<1>1. ASSUME UNCHANGED baked PROVE \A p \in Peers : baked[p] <= baked'[p]
  BY <1>1 DEF TypeOK
<1>2. ASSUME NEW t \in Threads, NEW type, NEW op, Bake(t, type, op)
      PROVE  \A p \in Peers : baked[p] <= baked'[p]
  BY <1>2, ThreadsAssumption DEF Bake, TypeOK
<1>3. ASSUME NEW q \in Peers, DiscardHandle(q)
      PROVE  \A p \in Peers : baked[p] <= baked'[p]
  BY <1>3 DEF DiscardHandle, TypeOK
<1>4. ASSUME NEW t \in Threads, NEW op, Request(t, op) \/ Subscribe(t, op)
      PROVE  \A p \in Peers : baked[p] <= baked'[p]
  BY <1>4, <1>2 DEF Request, Subscribe
<1>5. ASSUME NEW t \in Threads, NEW h, NEW dropped, Unsubscribe(t, h, dropped)
      PROVE  \A p \in Peers : baked[p] <= baked'[p]
  BY <1>5, <1>2 DEF Unsubscribe
<1>6. ASSUME NEW t \in Threads, NEW s, Produce(t, s) \/ Close(t, s) \/ DropSink(t, s)
      PROVE  UNCHANGED baked
  BY <1>6 DEF Produce, Close, DropSink
<1>7. ASSUME NEW t \in Threads, Application(t)
      PROVE  \A p \in Peers : baked[p] <= baked'[p]
  BY <1>7, <1>1, <1>4, <1>5, <1>6 DEF Application
<1>8. ASSUME NEW t \in Threads, Continue(t) PROVE UNCHANGED baked
  BY <1>8 DEF Continue, SendCall, Register, SendNotification, FinishClose
<1>9. ASSUME NEW q \in Peers, Receive(q), ~DiscardHandle(q) PROVE UNCHANGED baked
  BY <1>9 DEF Receive, ReceiveEarly, ReceiveNotification, ReceiveRequest, RefuseSubscribe,
              AcceptSubscribe, DiscardSubscribe, AcceptClosed, ReceiveUnsubscribe,
              DropResponse, CompleteCall, CompleteSubscribe
<1>10. ASSUME NEW q \in Peers,
              StartConnection(q) \/ Listen(q) \/ Stop(q) \/ HangUp(q) \/ SendReply(q)
       PROVE  UNCHANGED baked
  BY <1>10 DEF StartConnection, Listen, Stop, HangUp, SendReply
<1>11. UNCHANGED vars => UNCHANGED baked
  BY DEF vars
<1>12. \A p \in Peers : baked[p] <= baked'[p]
  BY <1>1, <1>3, <1>7, <1>8, <1>9, <1>10, <1>11 DEF Next
<1>13. TypeOK'
  BY TypeNext
<1>14. ASSUME NEW p \in Peers PROVE baked[p] <= CookieMod
  <2>1. baked[p] <= baked'[p] /\ baked'[p] <= CookieMod
    BY <1>12 DEF Unwrapped
  <2>2. baked[p] \in 0..MaxSerial /\ baked'[p] \in 0..MaxSerial
    BY <1>13 DEF TypeOK
  <2>. QED BY <2>1, <2>2, BoundsAssumption
<1>. QED BY <1>14 DEF Unwrapped

(* NoOrphanProduction: when nothing is on its way any more, an end only    *)
(* produces what the other end subscribes to, however subscriptions were   *)
(* made, given up, closed and made again meanwhile, and however many more  *)
(* conversations there are to come: until an id is handed out twice.       *)
THEOREM OrphansEnd == Spec => []NoOrphanProduction
<1>. DEFINE Held == Unwrapped => Underway /\ Orphanless
<1>1. Provenance /\ SettledOnce /\ Held /\ [Next]_vars => Held'
  <2>. SUFFICES ASSUME Provenance, SettledOnce, Held, [Next]_vars, Unwrapped'
                PROVE  Underway' /\ Orphanless'
    OBVIOUS
  <2>1. TypeOK /\ IdsApart /\ Underway /\ Orphanless
    BY UnwrappedBefore, ResponseOfOnlyCall DEF Provenance
  <2>2. Underway' /\ Advance
    BY <2>1, OnwardNext DEF SettledOnce, Onward
  <2>. QED BY <2>1, <2>2, OrphanlessNext
<1>2. Provenance /\ Held => NoOrphanProduction
  <2>. SUFFICES ASSUME Provenance, Followed, Quiet, NEW p \in Peers, NEW o \in Opcodes,
                       productions[p][o] # 0,
                       calls[Other(p)][productions[p][o]].fate = "answered"
                PROVE  subscriptions[Other(p)][o] # 0
    BY DEF Orphanless, NoOrphanProduction
  <2>1. ~Stopped /\ chan[p] = <<>> /\ \A t \in Threads : hand[t] = {}
    BY DEF Quiet, Stopped, Idle
  <2>2. ~Undone(p, o)
    BY <2>1, ItemsEmpty DEF Undone
  <2>. QED BY <2>1, <2>2 DEF Followed
<1>3. Init => Held /\ SettledOnce
  BY UnderwayInit, OrphanlessInit
<1>. QED BY <1>1, <1>2, <1>3, ProvenanceInit, ProvenanceNext, SettledNext, PTL DEF Spec
=============================================================================
