------------------------ MODULE TcpConnectionProofs ------------------------
(***************************************************************************)
(* Theorems about TcpConnection, for any sizes, limits and payloads: the   *)
(* reader keeps its place in whatever the other end sends, and a running   *)
(* connection has one read and at most one write under way.                *)
(***************************************************************************)
EXTENDS TcpConnection, SequenceTheorems, TLAPS

Items == [state : {"header", "payload"}, remains : Nat, len : Payloads]
Reads == [what : {"header", "payload", "ignore"}, len : Nat, remains : Nat, done : BOOLEAN]
Cells == [cell : {"header", "byte"}, len : Nat]

(* A stream s of which the reader is left cells away from the next header, *)
(* and of whose last frame o cells have still to come.                     *)
Framed(left, s, o) ==
  /\ \A j \in 1..Len(s) : j <= left => s[j].cell = "byte"
  /\ Len(s) > left => s[left + 1].cell = "header"
  /\ Len(s) <= left => o = left - Len(s)
  /\ \A j \in 1..Len(s) : s[j].cell = "header" =>
       /\ \A k \in 1..Len(s) : j < k /\ k <= j + s[j].len => s[k].cell = "byte"
       /\ Len(s) > j + s[j].len => s[j + s[j].len + 1].cell = "header"
       /\ Len(s) <= j + s[j].len => o = j + s[j].len - Len(s)

Left(r) == IF r.what = "header" THEN 0 ELSE r.remains

Asks(r) == r.len <= r.remains /\ (r.what = "header" => r.len = 1)

(* The read under way knows where it is; before there is one, the stream   *)
(* begins with a header.                                                   *)
InFrame ==
  /\ ~started => Framed(0, stream, owed)
  /\ \A i \in DOMAIN reading : Framed(Left(reading[i]), stream, owed) /\ Asks(reading[i])

(* Nothing is under way before start, and never more than one of a kind.   *)
Quiet == ~started => queue = <<>> /\ writing = <<>> /\ reading = <<>>
OneRead == Len(reading) <= 1

(* Every async_write is of no bytes: an item offers what is behind its     *)
(* remains, and nothing is written that would make them less.              *)
NothingWritten ==
  /\ \A i \in DOMAIN queue : queue[i].state = "header" /\ queue[i].remains = HeaderSize
  /\ \A i \in DOMAIN writing : writing[i] = 0

TcpInv == TypeOK /\ InFrame /\ Quiet /\ OneRead /\ OneWriter /\ NothingWritten
-----------------------------------------------------------------------------
(* Streams.                                                                *)
LEMMA Taken ==
  ASSUME NEW S, NEW s \in Seq(S), NEW n \in Nat, n <= Len(s)
  PROVE  /\ SubSeq(s, n + 1, Len(s)) \in Seq(S)
         /\ Len(SubSeq(s, n + 1, Len(s))) = Len(s) - n
         /\ \A i \in 1..(Len(s) - n) : SubSeq(s, n + 1, Len(s))[i] = s[i + n]
<1>1. Len(s) \in Nat /\ \A i \in (n + 1)..Len(s) : s[i] \in S
  <2>1. Len(s) \in Nat
    BY LenProperties
  <2>2. ASSUME NEW i \in (n + 1)..Len(s) PROVE s[i] \in S
    <3>1. i \in 1..Len(s)
      BY <2>1
    <3>. QED BY <3>1, ElementOfSeq
  <2>. QED BY <2>1, <2>2
<1>. DEFINE t == SubSeq(s, n + 1, Len(s))
<1>2. /\ t \in Seq(S)
      /\ Len(t) = IF n + 1 <= Len(s) THEN Len(s) - (n + 1) + 1 ELSE 0
      /\ \A i \in 1..(Len(s) - (n + 1) + 1) : t[i] = s[(n + 1) + i - 1]
  BY <1>1, SubSeqProperties
<1>. HIDE DEF t
<1>3. Len(t) = Len(s) - n
  BY <1>1, <1>2
<1>4. ASSUME NEW i \in 1..(Len(s) - n) PROVE t[i] = s[i + n]
  <2>1. i \in 1..(Len(s) - (n + 1) + 1) /\ (n + 1) + i - 1 = i + n
    BY <1>1
  <2>. QED BY <2>1, <1>2
<1>. QED BY <1>2, <1>3, <1>4 DEF t

LEMMA CellTypes ==
  ASSUME NEW s \in Seq(Cells)
  PROVE  Len(s) \in Nat /\ \A j \in 1..Len(s) : s[j].cell \in {"header", "byte"} /\ s[j].len \in Nat
<1>1. ASSUME NEW j \in 1..Len(s) PROVE s[j] \in Cells
  BY ElementOfSeq
<1>. QED BY <1>1, LenProperties DEF Cells

(* The reader takes n cells of the payload it is in.                       *)
LEMMA PayloadTaken ==
  ASSUME NEW s \in Seq(Cells), NEW o \in Nat, NEW left \in Nat, NEW n \in Nat,
         n <= left, n <= Len(s), Framed(left, s, o)
  PROVE  Framed(left - n, SubSeq(s, n + 1, Len(s)), o)
<1>. DEFINE t == SubSeq(s, n + 1, Len(s))
<1>1. Len(s) \in Nat /\ \A j \in 1..Len(s) : s[j].len \in Nat
  BY CellTypes
<1>2. Len(t) = Len(s) - n /\ \A i \in 1..Len(t) : t[i] = s[i + n] /\ i + n \in 1..Len(s)
  BY <1>1, Taken
<1>. HIDE DEF t
<1>3. \A j \in 1..Len(t) : j <= left - n => t[j].cell = "byte"
  BY <1>1, <1>2 DEF Framed
<1>4. Len(t) > left - n => t[left - n + 1].cell = "header"
  BY <1>1, <1>2 DEF Framed
<1>5. Len(t) <= left - n => o = left - n - Len(t)
  BY <1>1, <1>2 DEF Framed
<1>6. ASSUME NEW j \in 1..Len(t), t[j].cell = "header"
      PROVE  /\ \A k \in 1..Len(t) : j < k /\ k <= j + t[j].len => t[k].cell = "byte"
             /\ Len(t) > j + t[j].len => t[j + t[j].len + 1].cell = "header"
             /\ Len(t) <= j + t[j].len => o = j + t[j].len - Len(t)
  <2>. DEFINE i == j + n  m == s[j + n].len
  <2>1. i \in 1..Len(s) /\ t[j].len = m /\ m \in Nat /\ s[i].cell = "header" /\ i = j + n
    BY <1>1, <1>2, <1>6
  <2>2. /\ \A k \in 1..Len(s) : i < k /\ k <= i + m => s[k].cell = "byte"
        /\ Len(s) > i + m => s[i + m + 1].cell = "header"
        /\ Len(s) <= i + m => o = i + m - Len(s)
    BY <2>1 DEF Framed
  <2>. HIDE DEF i, m
  <2>3. ASSUME NEW k \in 1..Len(t), j < k /\ k <= j + m PROVE t[k].cell = "byte"
    <3>1. k + n \in 1..Len(s) /\ i < k + n /\ k + n <= i + m /\ t[k] = s[k + n]
      BY <1>1, <1>2, <2>1, <2>3
    <3>. QED BY <3>1, <2>2
  <2>4. Len(t) > j + m => t[j + m + 1].cell = "header"
    <3>. SUFFICES ASSUME Len(t) > j + m PROVE t[j + m + 1].cell = "header"
      OBVIOUS
    <3>1. j + m + 1 \in 1..Len(t) /\ j + m + 1 + n = i + m + 1 /\ Len(s) > i + m
      BY <1>1, <1>2, <2>1
    <3>2. t[j + m + 1] = s[j + m + 1 + n]
      BY <1>2, <3>1
    <3>. QED BY <3>1, <3>2, <2>2
  <2>5. Len(t) <= j + m => o = j + m - Len(t)
    BY <1>1, <1>2, <2>1, <2>2
  <2>. QED BY <2>1, <2>3, <2>4, <2>5
<1>. QED BY <1>3, <1>4, <1>5, <1>6 DEF Framed, t

(* The reader takes a header, and is in front of its payload.              *)
LEMMA HeaderTaken ==
  ASSUME NEW s \in Seq(Cells), NEW o \in Nat, Len(s) >= 1, Framed(0, s, o)
  PROVE  Framed(s[1].len, SubSeq(s, 2, Len(s)), o) /\ s[1].len \in Nat
<1>. DEFINE n == s[1].len  t == SubSeq(s, 2, Len(s))
<1>1. Len(s) \in Nat /\ 1 \in 1..Len(s) /\ n \in Nat /\ \A j \in 1..Len(s) : s[j].len \in Nat
  <2>1. Len(s) \in Nat /\ \A j \in 1..Len(s) : s[j].len \in Nat
    BY CellTypes
  <2>2. 1 \in 1..Len(s)
    BY <2>1
  <2>. QED BY <2>1, <2>2
<1>2. Len(t) = Len(s) - 1 /\ \A i \in 1..Len(t) : t[i] = s[i + 1] /\ i + 1 \in 1..Len(s)
  <2>1. 1 \in Nat /\ 1 <= Len(s) /\ 1 + 1 = 2
    BY <1>1
  <2>2. /\ Len(SubSeq(s, 1 + 1, Len(s))) = Len(s) - 1
        /\ \A i \in 1..(Len(s) - 1) : SubSeq(s, 1 + 1, Len(s))[i] = s[i + 1]
    BY <2>1, Taken
  <2>. QED BY <1>1, <2>1, <2>2
<1>3. s[1].cell = "header"
  <2>1. Len(s) > 0 /\ 0 + 1 = 1
    BY <1>1
  <2>. QED BY <2>1 DEF Framed
<1>4. /\ \A k \in 1..Len(s) : 1 < k /\ k <= 1 + n => s[k].cell = "byte"
      /\ Len(s) > 1 + n => s[1 + n + 1].cell = "header"
      /\ Len(s) <= 1 + n => o = 1 + n - Len(s)
  BY <1>1, <1>3 DEF Framed
<1>. HIDE DEF n, t
<1>5. \A j \in 1..Len(t) : j <= n => t[j].cell = "byte"
  BY <1>1, <1>2, <1>4
<1>6. Len(t) > n => t[n + 1].cell = "header"
  <2>. SUFFICES ASSUME Len(t) > n PROVE t[n + 1].cell = "header"
    OBVIOUS
  <2>1. n + 1 \in 1..Len(t) /\ n + 1 + 1 = 1 + n + 1 /\ Len(s) > 1 + n
    BY <1>1, <1>2
  <2>. QED BY <1>2, <1>4, <2>1
<1>7. Len(t) <= n => o = n - Len(t)
  BY <1>1, <1>2, <1>4
<1>8. ASSUME NEW j \in 1..Len(t), t[j].cell = "header"
      PROVE  /\ \A k \in 1..Len(t) : j < k /\ k <= j + t[j].len => t[k].cell = "byte"
             /\ Len(t) > j + t[j].len => t[j + t[j].len + 1].cell = "header"
             /\ Len(t) <= j + t[j].len => o = j + t[j].len - Len(t)
  <2>. DEFINE i == j + 1  m == s[j + 1].len
  <2>1. i \in 1..Len(s) /\ t[j].len = m /\ m \in Nat /\ s[i].cell = "header" /\ i = j + 1
    BY <1>1, <1>2, <1>8
  <2>2. /\ \A k \in 1..Len(s) : i < k /\ k <= i + m => s[k].cell = "byte"
        /\ Len(s) > i + m => s[i + m + 1].cell = "header"
        /\ Len(s) <= i + m => o = i + m - Len(s)
    BY <2>1 DEF Framed
  <2>. HIDE DEF i, m
  <2>3. ASSUME NEW k \in 1..Len(t), j < k /\ k <= j + m PROVE t[k].cell = "byte"
    <3>1. k + 1 \in 1..Len(s) /\ i < k + 1 /\ k + 1 <= i + m /\ t[k] = s[k + 1]
      BY <1>1, <1>2, <2>1, <2>3, SMTT(30)
    <3>. QED BY <3>1, <2>2
  <2>4. Len(t) > j + m => t[j + m + 1].cell = "header"
    <3>. SUFFICES ASSUME Len(t) > j + m PROVE t[j + m + 1].cell = "header"
      OBVIOUS
    <3>1. j + m + 1 \in 1..Len(t) /\ j + m + 1 + 1 = i + m + 1 /\ Len(s) > i + m
      BY <1>1, <1>2, <2>1
    <3>2. t[j + m + 1] = s[j + m + 1 + 1]
      BY <1>2, <3>1
    <3>. QED BY <3>1, <3>2, <2>2
  <2>5. Len(t) <= j + m => o = j + m - Len(t)
    BY <1>1, <1>2, <2>1, <2>2
  <2>. QED BY <2>1, <2>3, <2>4, <2>5
<1>. QED BY <1>1, <1>5, <1>6, <1>7, <1>8 DEF Framed, n, t

(* The other end begins a frame of n bytes.                                *)
LEMMA HeaderCame ==
  ASSUME NEW s \in Seq(Cells), NEW left \in Nat, NEW n \in Nat, Framed(left, s, 0)
  PROVE  Framed(left, Append(s, Header(n)), n)
<1>. DEFINE c == Header(n)  t == Append(s, c)  l == Len(s) + 1
<1>1. Len(s) \in Nat /\ \A j \in 1..Len(s) : s[j].len \in Nat
  BY CellTypes
<1>2. c.cell = "header" /\ c.len = n
  BY DEF Header
<1>3. Len(t) = l /\ t[l] = c /\ \A j \in 1..Len(s) : t[j] = s[j]
  BY <1>1
<1>4. /\ \A j \in 1..Len(s) : j <= left => s[j].cell = "byte"
      /\ Len(s) > left => s[left + 1].cell = "header"
      /\ left <= Len(s)
  BY <1>1 DEF Framed
<1>5. ASSUME NEW j \in 1..Len(s), s[j].cell = "header"
      PROVE  /\ \A k \in 1..Len(s) : j < k /\ k <= j + s[j].len => s[k].cell = "byte"
             /\ Len(s) > j + s[j].len => s[j + s[j].len + 1].cell = "header"
             /\ j + s[j].len <= Len(s)
  BY <1>1, <1>5 DEF Framed
<1>. HIDE DEF c, t
<1>6. \A j \in 1..l : j \in 1..Len(s) \/ j = l
  BY <1>1
<1>7. /\ \A j \in 1..l : j <= left => t[j].cell = "byte"
      /\ t[left + 1].cell = "header"
      /\ l > left
  BY <1>1, <1>2, <1>3, <1>4, <1>6
<1>8. ASSUME NEW j \in 1..l, t[j].cell = "header"
      PROVE  /\ \A k \in 1..l : j < k /\ k <= j + t[j].len => t[k].cell = "byte"
             /\ l > j + t[j].len => t[j + t[j].len + 1].cell = "header"
             /\ l <= j + t[j].len => n = j + t[j].len - l
  <2>1. CASE j = l
    BY <2>1, <1>1, <1>2, <1>3
  <2>2. CASE j \in 1..Len(s)
    <3>. DEFINE e == j + s[j].len
    <3>1. /\ t[j] = s[j] /\ s[j].cell = "header"
          /\ e \in Nat /\ t[j].len \in Nat /\ e = j + t[j].len
      BY <2>2, <1>1, <1>3, <1>8
    <3>2. /\ \A k \in 1..Len(s) : j < k /\ k <= e => s[k].cell = "byte"
          /\ Len(s) > e => s[e + 1].cell = "header"
          /\ e <= Len(s)
      BY <3>1, <2>2, <1>5
    <3>. HIDE DEF e
    <3>3. ASSUME NEW k \in 1..l, j < k /\ k <= e PROVE t[k].cell = "byte"
      <4>1. k \in 1..Len(s)
        BY <3>1, <3>2, <3>3, <1>1
      <4>. QED BY <4>1, <3>2, <3>3, <1>3
    <3>4. l > e
      BY <3>1, <3>2, <1>1
    <3>5. t[e + 1].cell = "header"
      <4>1. CASE e = Len(s)
        BY <4>1, <1>2, <1>3
      <4>2. CASE e < Len(s)
        <5>1. e + 1 \in 1..Len(s)
          BY <4>2, <3>1, <1>1
        <5>. QED BY <5>1, <4>2, <3>2, <1>3
      <4>. QED BY <4>1, <4>2, <3>1, <3>2, <1>1
    <3>. QED BY <3>1, <3>3, <3>4, <3>5, <1>1
  <2>. QED BY <2>1, <2>2, <1>6
<1>9. Len(t) \in Nat /\ ~(Len(t) <= left)
  BY <1>1, <1>3, <1>7
<1>10. Framed(left, t, n)
  BY <1>3, <1>7, <1>8, <1>9 DEF Framed
<1>. QED BY <1>10 DEF t, c

(* A byte of the payload the other end is in.                              *)
LEMMA ByteCame ==
  ASSUME NEW s \in Seq(Cells), NEW left \in Nat, NEW o \in Nat, o > 0, Framed(left, s, o)
  PROVE  Framed(left, Append(s, Byte), o - 1)
<1>. DEFINE t == Append(s, Byte)  l == Len(s) + 1
<1>1. Len(s) \in Nat /\ \A j \in 1..Len(s) : s[j].len \in Nat
  BY CellTypes
<1>2. Byte.cell = "byte"
  BY DEF Byte
<1>3. Len(t) = l /\ t[l] = Byte /\ \A j \in 1..Len(s) : t[j] = s[j]
  BY <1>1
<1>4. /\ \A j \in 1..Len(s) : j <= left => s[j].cell = "byte"
      /\ Len(s) > left => s[left + 1].cell = "header"
      /\ Len(s) <= left => o = left - Len(s)
  BY <1>1 DEF Framed
<1>5. ASSUME NEW j \in 1..Len(s), s[j].cell = "header"
      PROVE  /\ \A k \in 1..Len(s) : j < k /\ k <= j + s[j].len => s[k].cell = "byte"
             /\ Len(s) > j + s[j].len => s[j + s[j].len + 1].cell = "header"
             /\ Len(s) <= j + s[j].len => o = j + s[j].len - Len(s)
  BY <1>1, <1>5 DEF Framed
<1>. HIDE DEF t
<1>6. \A j \in 1..l : j \in 1..Len(s) \/ j = l
  BY <1>1
<1>7. /\ \A j \in 1..l : j <= left => t[j].cell = "byte"
      /\ l > left => t[left + 1].cell = "header"
      /\ l <= left => o - 1 = left - l
  BY <1>1, <1>2, <1>3, <1>4, <1>6, SMTT(30)
<1>8. ASSUME NEW j \in 1..l, t[j].cell = "header"
      PROVE  /\ \A k \in 1..l : j < k /\ k <= j + t[j].len => t[k].cell = "byte"
             /\ l > j + t[j].len => t[j + t[j].len + 1].cell = "header"
             /\ l <= j + t[j].len => o - 1 = j + t[j].len - l
  <2>1. j \in 1..Len(s)
    BY <1>2, <1>3, <1>6, <1>8
  <2>2. t[j] = s[j] /\ s[j].len \in Nat
    BY <2>1, <1>1, <1>3
  <2>3. /\ \A k \in 1..Len(s) : j < k /\ k <= j + s[j].len => s[k].cell = "byte"
        /\ Len(s) > j + s[j].len => s[j + s[j].len + 1].cell = "header"
        /\ Len(s) <= j + s[j].len => o = j + s[j].len - Len(s)
    BY <2>1, <2>2, <1>5, <1>8
  <2>4. \A k \in 1..l : j < k /\ k <= j + s[j].len => t[k].cell = "byte"
    BY <2>1, <2>2, <2>3, <1>1, <1>2, <1>3, <1>6
  <2>5. l > j + s[j].len => t[j + s[j].len + 1].cell = "header"
    BY <2>1, <2>2, <2>3, <1>1, <1>3, SMTT(30)
  <2>6. l <= j + s[j].len => o - 1 = j + s[j].len - l
    BY <2>1, <2>2, <2>3, <1>1
  <2>. QED BY <2>2, <2>4, <2>5, <2>6
<1>. QED BY <1>1, <1>3, <1>7, <1>8 DEF Framed, t
-----------------------------------------------------------------------------
(* One read at a time: the next takes the place of the one that completed. *)
LEMMA OneInPlace ==
  ASSUME NEW S, NEW q \in Seq(S), q # <<>>, Len(q) <= 1, NEW r \in S
  PROVE  /\ Tail(q) = <<>> /\ Len(q) = 1 /\ DOMAIN q = {1} /\ Head(q) = q[1] /\ q[1] \in S
         /\ Append(Tail(q), r) \in Seq(S)
         /\ Len(Append(Tail(q), r)) = 1
         /\ DOMAIN Append(Tail(q), r) = {1}
         /\ Append(Tail(q), r)[1] = r
<1>1. Len(q) \in Nat /\ Len(q) # 0
  BY LenProperties, EmptySeq
<1>2. Len(q) = 1
  BY <1>1
<1>3. DOMAIN q = {1} /\ q[1] \in S /\ Head(q) = q[1]
  <2>1. DOMAIN q = 1..1 /\ 1 \in 1..1
    BY <1>2, LenProperties
  <2>. QED BY <2>1, <1>2, ElementOfSeq, HeadTailProperties
<1>4. Tail(q) \in Seq(S) /\ Len(Tail(q)) = 0
  BY <1>2, HeadTailProperties
<1>5. Tail(q) = <<>>
  BY <1>4, EmptySeq
<1>6. /\ Append(Tail(q), r) \in Seq(S)
      /\ Len(Append(Tail(q), r)) = Len(Tail(q)) + 1
      /\ Append(Tail(q), r)[Len(Tail(q)) + 1] = r
  BY <1>4, AppendProperties
<1>7. DOMAIN Append(Tail(q), r) = 1..1 /\ 1..1 = {1}
  BY <1>4, <1>6, LenProperties
<1>. QED BY <1>2, <1>3, <1>4, <1>5, <1>6, <1>7

LEMMA ReadKinds ==
  /\ ReadHeader \in Reads /\ Left(ReadHeader) = 0 /\ Asks(ReadHeader)
  /\ \A n \in Nat : /\ Read("payload", n, n) \in Reads
                     /\ Left(Read("payload", n, n)) = n
                     /\ Asks(Read("payload", n, n))
                     /\ ReadIgnore(n) \in Reads
                     /\ Left(ReadIgnore(n)) = n
                     /\ Asks(ReadIgnore(n))
BY SizesAssumption DEF Asks, ReadHeader, ReadIgnore, Read, Reads, Left, Smaller

LEMMA TcpTypes ==
  TypeOK <=>
    /\ started \in BOOLEAN /\ stopped \in BOOLEAN /\ open \in BOOLEAN /\ eof \in BOOLEAN
    /\ limit \in Limits
    /\ queue \in Seq(Items) /\ writing \in Seq(Nat) /\ reading \in Seq(Reads)
    /\ delivered \in Nat /\ closing \in Nat /\ closed \in Nat /\ owed \in Nat
    /\ stream \in Seq(Cells)
    /\ sends \in 0..MaxSends /\ limits \in 0..MaxLimits
    /\ frames \in 0..MaxFrames /\ stops \in 0..MaxStops
BY DEF TypeOK, Items, Reads, Cells

LEMMA TcpInit == Init => TcpInv
<1>. SUFFICES ASSUME Init PROVE TcpInv
  OBVIOUS
<1>1. TypeOK
  <2>1. /\ queue \in Seq(Items) /\ writing \in Seq(Nat) /\ reading \in Seq(Reads)
        /\ stream \in Seq(Cells)
    BY DEF Init
  <2>2. limit \in Limits
    BY DEF Init
  <2>3. /\ sends \in 0..MaxSends /\ limits \in 0..MaxLimits
        /\ frames \in 0..MaxFrames /\ stops \in 0..MaxStops
    BY BoundsAssumption DEF Init
  <2>. QED BY <2>1, <2>2, <2>3, TcpTypes DEF Init
<1>2. Framed(0, <<>>, 0)
  <2>1. ASSUME NEW s, Len(s) = 0 PROVE Framed(0, s, 0)
    BY <2>1 DEF Framed
  <2>2. Len(<<>>) = 0
    BY EmptySeq
  <2>. QED BY <2>1, <2>2
<1>3. InFrame
  BY <1>2 DEF Init, InFrame
<1>. QED BY <1>1, <1>3 DEF Init, TcpInv, Quiet, OneRead, OneWriter, NothingWritten, Running

(* What the io thread does with a read that completed or failed: it takes  *)
(* n cells, and queues r instead, or nothing more.                         *)
LEMMA ReadNext ==
  ASSUME TcpInv, reading # <<>>, NEW r \in Reads, NextRead(r), Asks(r),
         stream' \in Seq(Cells), Framed(Left(r), stream', owed),
         UNCHANGED <<started, stopped, open, limit, queue, writing, delivered, closing, closed,
                     owed, eof, sends, limits, frames, stops>>
  PROVE  TcpInv'
<1>1. reading \in Seq(Reads) /\ TypeOK
  BY TcpTypes DEF TcpInv
<1>2. /\ Len(reading) = 1
      /\ reading' \in Seq(Reads) /\ Len(reading') = 1
      /\ DOMAIN reading' = {1} /\ reading'[1] = r
  BY <1>1, OneInPlace DEF TcpInv, OneRead, NextRead
<1>3. started
  BY <1>1 DEF TcpInv, Quiet, TypeOK
<1>4. TypeOK'
  BY <1>1, <1>2 DEF TypeOK, Reads, Cells
<1>5. InFrame'
  BY <1>2, <1>3 DEF InFrame
<1>. QED BY <1>2, <1>3, <1>4, <1>5
         DEF TcpInv, Quiet, OneRead, OneWriter, NothingWritten, Running

LEMMA ReadStops ==
  ASSUME TcpInv, reading # <<>>, SetStopped, reading' = Tail(reading),
         UNCHANGED <<started, open, limit, queue, writing, delivered, closed, stream, owed, eof,
                     sends, limits, frames, stops>>
  PROVE  TcpInv'
<1>1. reading \in Seq(Reads) /\ TypeOK
  BY TcpTypes DEF TcpInv
<1>2. reading' = <<>>
  <2>1. ReadHeader \in Reads
    BY ReadKinds
  <2>. QED BY <1>1, <2>1, OneInPlace DEF TcpInv, OneRead
<1>3. started
  BY <1>1 DEF TcpInv, Quiet, TypeOK
<1>4. TypeOK'
  BY <1>1, <1>2 DEF TypeOK, SetStopped
<1>. QED BY <1>2, <1>3, <1>4
         DEF TcpInv, InFrame, Quiet, OneRead, OneWriter, NothingWritten, Running, SetStopped

(* What the reader is in front of, whichever frame it is in.               *)
LEMMA ReaderAt ==
  ASSUME TcpInv, reading # <<>>
  PROVE  LET r == Head(reading) IN
         /\ r \in Reads /\ r.len \in Nat /\ r.remains \in Nat /\ Asks(r)
         /\ Framed(Left(r), stream, owed)
<1>1. reading \in Seq(Reads) /\ ReadHeader \in Reads
  BY TcpTypes, ReadKinds DEF TcpInv
<1>2. DOMAIN reading = {1} /\ Head(reading) = reading[1] /\ reading[1] \in Reads
  BY <1>1, OneInPlace DEF TcpInv, OneRead
<1>. QED BY <1>2 DEF TcpInv, InFrame, Reads

LEMMA HeaderNext ==
  ASSUME TcpInv, HandleHeader
  PROVE  TcpInv'
<1>. DEFINE n == Head(stream).len
            r == IF n = 0 THEN ReadHeader ELSE IF n > limit THEN ReadIgnore(n)
                 ELSE Read("payload", n, n)
<1>1. stream \in Seq(Cells) /\ owed \in Nat /\ limit \in Nat
  BY TcpTypes, SizesAssumption DEF TcpInv
<1>2. /\ reading # <<>> /\ Head(reading).what = "header" /\ Len(stream) >= Head(reading).len
      /\ NextRead(r) /\ stream' = SubSeq(stream, 2, Len(stream))
  <2>1. 1 + 1 = 2
    OBVIOUS
  <2>. QED BY <2>1 DEF HandleHeader, Complete, Take
<1>3. Framed(0, stream, owed) /\ Head(reading).len = 1
  BY <1>2, ReaderAt DEF Left, Asks
<1>4. Len(stream) >= 1 /\ Len(stream) \in Nat
  BY <1>1, <1>2, <1>3, LenProperties
<1>5. n = stream[1].len
  <2>1. stream # <<>>
    BY <1>4
  <2>. QED BY <1>1, <2>1, HeadTailProperties
<1>6. Framed(n, stream', owed) /\ n \in Nat
  BY <1>1, <1>2, <1>3, <1>4, <1>5, HeaderTaken
<1>7. stream' \in Seq(Cells)
  <2>1. 1 \in Nat /\ 1 + 1 = 2
    OBVIOUS
  <2>. QED BY <1>1, <1>2, <1>4, <2>1, Taken
<1>. HIDE DEF n
<1>8. r \in Reads /\ Left(r) = n /\ Asks(r)
  BY <1>6, ReadKinds
<1>. HIDE DEF r
<1>. QED BY <1>2, <1>6, <1>7, <1>8, ReadNext DEF HandleHeader

LEMMA IgnoreNext ==
  ASSUME TcpInv, HandleIgnore
  PROVE  TcpInv'
<1>. DEFINE a == Head(reading)  left == a.remains - a.len
            r == IF left = 0 THEN ReadHeader ELSE ReadIgnore(left)
<1>1. stream \in Seq(Cells) /\ owed \in Nat /\ Len(stream) \in Nat
  BY TcpTypes, LenProperties DEF TcpInv
<1>2. /\ reading # <<>> /\ a.what = "ignore" /\ Len(stream) >= a.len
      /\ NextRead(r) /\ stream' = SubSeq(stream, a.len + 1, Len(stream))
  BY DEF HandleIgnore, Complete, Take
<1>3. Framed(a.remains, stream, owed) /\ a.len \in Nat /\ a.remains \in Nat /\ a.len <= a.remains
  BY <1>2, ReaderAt DEF Left, Asks
<1>. HIDE DEF a
<1>4. left \in Nat
  BY <1>3
<1>5. Framed(left, stream', owed)
  BY <1>1, <1>2, <1>3, PayloadTaken
<1>6. stream' \in Seq(Cells)
  BY <1>1, <1>2, <1>3, Taken
<1>. HIDE DEF left
<1>7. r \in Reads /\ Left(r) = left /\ Asks(r)
  BY <1>4, ReadKinds
<1>. HIDE DEF r
<1>. QED BY <1>2, <1>5, <1>6, <1>7, ReadNext DEF HandleIgnore

(* A read of a payload fails, whatever has come.                           *)
LEMMA PayloadNext ==
  ASSUME TcpInv, HandlePayload
  PROVE  TcpInv'
<1>1. /\ reading # <<>> /\ SetStopped /\ reading' = Tail(reading)
      /\ UNCHANGED <<started, open, limit, queue, writing, delivered, closed, stream, owed, eof,
                     sends, limits, frames, stops>>
  BY DEF HandlePayload, GetData
<1>. QED BY <1>1, ReadStops

(* An item is never written, so the same item is offered again.            *)
LEMMA WriteNext ==
  ASSUME TcpInv, HandleWrite
  PROVE  TcpInv'
<1>1. /\ queue \in Seq(Items) /\ writing \in Seq(Nat) /\ TypeOK
      /\ Len(queue) \in Nat
  BY TcpTypes, LenProperties DEF TcpInv
<1>2. writing # <<>> /\ Head(writing) = 0 /\ started
  <2>1. writing # <<>>
    BY DEF HandleWrite
  <2>2. 1 \in DOMAIN writing /\ Head(writing) = writing[1]
    BY <1>1, <2>1, HeadTailProperties, EmptySeq, LenProperties
  <2>. QED BY <1>1, <2>1, <2>2 DEF TcpInv, NothingWritten, Quiet, TypeOK
<1>3. /\ queue' = queue
      /\ writing' = IF ~Running \/ queue = <<>> THEN Tail(writing)
                    ELSE Append(Tail(writing), BufferSize(Head(queue)))
      /\ UNCHANGED <<stopped, closing, started, open, limit, reading, delivered, closed, stream,
                     owed, eof, sends, limits, frames, stops>>
  BY <1>2 DEF HandleWrite, Consume
<1>4. /\ Tail(writing) \in Seq(Nat) /\ Len(Tail(writing)) = Len(writing) - 1
      /\ \A i \in DOMAIN Tail(writing) : Tail(writing)[i] = 0
  <2>1. /\ Tail(writing) \in Seq(Nat) /\ Len(Tail(writing)) = Len(writing) - 1
        /\ \A i \in 1..Len(Tail(writing)) : Tail(writing)[i] = writing[i + 1]
    BY <1>1, <1>2, HeadTailProperties
  <2>2. Len(writing) \in Nat /\ DOMAIN writing = 1..Len(writing)
        /\ DOMAIN Tail(writing) = 1..Len(Tail(writing))
    BY <1>1, <2>1, LenProperties
  <2>. QED BY <2>1, <2>2 DEF TcpInv, NothingWritten
<1>5. CASE ~Running \/ queue = <<>>
  <2>1. writing' = Tail(writing)
    BY <1>3, <1>5
  <2>2. ~Running
    BY <1>1, <1>2, <1>5, EmptySeq, LenProperties DEF TcpInv, OneWriter
  <2>. QED BY <1>1, <1>2, <1>3, <1>4, <2>1, <2>2
           DEF TcpInv, TypeOK, InFrame, Quiet, OneRead, OneWriter, NothingWritten, Running
<1>6. CASE Running /\ queue # <<>>
  <2>1. BufferSize(Head(queue)) = 0
    <3>1. 1 \in DOMAIN queue /\ Head(queue) = queue[1]
      BY <1>1, <1>6, HeadTailProperties, EmptySeq, LenProperties
    <3>. QED BY <3>1, SizesAssumption DEF TcpInv, NothingWritten, BufferSize
  <2>2. Len(writing) = 1
    BY <1>6 DEF TcpInv, OneWriter
  <2>3. writing' \in Seq(Nat) /\ Len(writing') = 1 /\ DOMAIN writing' = {1} /\ writing'[1] = 0
    <3>1. writing' = Append(Tail(writing), 0) /\ Len(writing) <= 1 /\ 0 \in Nat
      BY <1>3, <1>6, <2>1, <2>2
    <3>. QED BY <1>1, <1>2, <3>1, OneInPlace
  <2>. QED BY <1>1, <1>2, <1>3, <1>6, <2>3
           DEF TcpInv, TypeOK, InFrame, Quiet, OneRead, OneWriter, NothingWritten, Running
<1>. QED BY <1>5, <1>6

LEMMA CloseNext ==
  ASSUME TcpInv, Close
  PROVE  TcpInv'
<1>1. TypeOK /\ reading \in Seq(Reads) /\ closing > 0
  BY TcpTypes DEF TcpInv, Close
<1>2. PICK d \in BOOLEAN :
        reading' = [i \in DOMAIN reading |->
                      IF d /\ Len(stream) >= reading[i].len
                      THEN [reading[i] EXCEPT !.done = TRUE] ELSE reading[i]]
  BY DEF Close
<1>d. DOMAIN reading' = DOMAIN reading
  BY <1>2
<1>3. \A i \in DOMAIN reading : /\ reading'[i] \in Reads
                                /\ Left(reading'[i]) = Left(reading[i])
                                /\ Asks(reading[i]) => Asks(reading'[i])
  <2>. SUFFICES ASSUME NEW i \in DOMAIN reading
                PROVE  /\ reading'[i] \in Reads
                       /\ Left(reading'[i]) = Left(reading[i])
                       /\ Asks(reading[i]) => Asks(reading'[i])
    BY <1>2
  <2>1. reading[i] \in Reads
    BY <1>1, ElementOfSeq, LenProperties
  <2>. DEFINE x == [reading[i] EXCEPT !.done = TRUE]
  <2>2. x \in Reads /\ x.what = reading[i].what /\ x.len = reading[i].len
        /\ x.remains = reading[i].remains
    BY <2>1 DEF Reads
  <2>3. reading'[i] = x \/ reading'[i] = reading[i]
    BY <1>2
  <2>. HIDE DEF x
  <2>. QED BY <2>1, <2>2, <2>3 DEF Left, Asks
<1>4. /\ reading' \in Seq(Reads) /\ Len(reading') = Len(reading)
      /\ reading = <<>> => reading' = <<>>
  <2>1. Len(reading) \in Nat /\ DOMAIN reading = 1..Len(reading)
    BY <1>1, LenProperties
  <2>2. reading' = [i \in 1..Len(reading) |-> reading'[i]]
    BY <1>2, <1>d, <2>1
  <2>3. ASSUME NEW i \in 1..Len(reading) PROVE reading'[i] \in Reads
    <3>1. i \in DOMAIN reading
      BY <2>1
    <3>. QED BY <3>1, <1>3
  <2>4. [i \in 1..Len(reading) |-> reading'[i]] \in Seq(Reads)
        /\ Len([i \in 1..Len(reading) |-> reading'[i]]) = Len(reading)
    BY <2>1, <2>3, IsASeq
  <2>. QED BY <1>1, <2>2, <2>4, EmptySeq
<1>5. closing' \in Nat /\ closed' \in Nat /\ open' \in BOOLEAN
  <2>1. closing' = closing - 1 /\ closed' = closed + 1 /\ open' = FALSE
    BY DEF Close
  <2>2. closing \in Nat /\ closed \in Nat
    BY <1>1 DEF TypeOK
  <2>3. closing' \in Nat /\ closed' \in Nat
    BY <1>1, <2>1, <2>2
  <2>. QED BY <2>1, <2>3
<1>6. TypeOK'
  BY <1>1, <1>4, <1>5 DEF TypeOK, Close, Reads
<1>7. InFrame'
  <2>1. UNCHANGED <<started, stream, owed>>
    BY DEF Close
  <2>2. ASSUME NEW i \in DOMAIN reading'
        PROVE  Framed(Left(reading'[i]), stream, owed) /\ Asks(reading'[i])
    <3>1. i \in DOMAIN reading
      BY <1>d
    <3>2. Framed(Left(reading[i]), stream, owed) /\ Asks(reading[i])
      BY <3>1 DEF TcpInv, InFrame
    <3>. QED BY <3>1, <3>2, <1>3
  <2>. QED BY <2>1, <2>2 DEF TcpInv, InFrame
<1>. QED BY <1>1, <1>4, <1>6, <1>7
         DEF TcpInv, Quiet, OneRead, OneWriter, NothingWritten, Running, Close

LEMMA SendNext ==
  ASSUME TcpInv, NEW n \in Payloads, Send(n)
  PROVE  TcpInv'
<1>1. TypeOK /\ queue \in Seq(Items) /\ writing \in Seq(Nat) /\ sends < MaxSends /\ Running
  BY TcpTypes DEF TcpInv, Send
<1>. DEFINE it == Item(n)
<1>2. it \in Items /\ it.state = "header" /\ it.remains = HeaderSize
  BY SizesAssumption DEF Item, Items
<1>3. sends' \in 0..MaxSends
  BY <1>1, BoundsAssumption DEF TypeOK, Send
<1>4. queue' = Append(queue, it)
  BY DEF Send
<1>. HIDE DEF it
<1>5. /\ queue' \in Seq(Items) /\ Len(queue') = Len(queue) + 1 /\ Len(queue) \in Nat
      /\ queue'[Len(queue) + 1] = it
      /\ \A i \in 1..Len(queue) : queue'[i] = queue[i]
  BY <1>1, <1>2, <1>4, AppendProperties, LenProperties
<1>6. queue' # <<>>
  BY <1>5, EmptySeq
<1>7. \A i \in DOMAIN queue' : queue'[i].state = "header" /\ queue'[i].remains = HeaderSize
  <2>. SUFFICES ASSUME NEW i \in DOMAIN queue'
                PROVE  queue'[i].state = "header" /\ queue'[i].remains = HeaderSize
    OBVIOUS
  <2>1. DOMAIN queue' = 1..(Len(queue) + 1) /\ DOMAIN queue = 1..Len(queue)
    BY <1>1, <1>5, LenProperties
  <2>2. i \in 1..Len(queue) \/ i = Len(queue) + 1
    BY <1>5, <2>1
  <2>. QED BY <1>2, <1>5, <2>1, <2>2 DEF TcpInv, NothingWritten
<1>8. /\ writing' \in Seq(Nat) /\ Len(writing') = 1
      /\ \A i \in DOMAIN writing' : writing'[i] = 0
  <2>1. CASE queue # <<>>
    BY <2>1, <1>1 DEF TcpInv, OneWriter, NothingWritten, Send
  <2>2. CASE queue = <<>>
    <3>1. writing = <<>>
      BY <2>2, <1>1, EmptySeq DEF TcpInv, OneWriter
    <3>2. queue' = <<it>>
      BY <2>2, <1>4
    <3>3. BufferSize(Head(queue')) = 0
      BY <3>2, <1>2, SizesAssumption DEF BufferSize
    <3>4. writing' = Append(writing, 0)
      BY <2>2, <3>3 DEF Send, WriteFront
    <3>5. writing' = <<0>>
      BY <3>1, <3>4
    <3>. QED BY <3>5
  <2>. QED BY <2>1, <2>2
<1>9. TypeOK'
  BY <1>1, <1>3, <1>5, <1>8 DEF TypeOK, Send, Items
<1>. QED BY <1>1, <1>6, <1>7, <1>8, <1>9
         DEF TcpInv, InFrame, Quiet, OneRead, OneWriter, NothingWritten, Running, Send

(* What comes goes behind what came.                                       *)
LEMMA CameNext ==
  ASSUME TcpInv, stream' \in Seq(Cells), owed' \in Nat, frames' \in 0..MaxFrames,
         \A left \in Nat : Framed(left, stream, owed) => Framed(left, stream', owed'),
         UNCHANGED <<started, stopped, open, limit, queue, writing, reading, delivered, closing,
                     closed, eof, sends, limits, stops>>
  PROVE  TcpInv'
<1>1. TypeOK /\ reading \in Seq(Reads)
  BY TcpTypes DEF TcpInv
<1>2. \A i \in DOMAIN reading : Left(reading[i]) \in Nat
  <2>1. \A i \in DOMAIN reading : reading[i] \in Reads
    BY <1>1, ElementOfSeq, LenProperties
  <2>. QED BY <2>1 DEF Left, Reads
<1>3. InFrame'
  BY <1>2 DEF TcpInv, InFrame
<1>4. TypeOK'
  BY <1>1 DEF TypeOK, Cells
<1>. QED BY <1>3, <1>4 DEF TcpInv, Quiet, OneRead, OneWriter, NothingWritten, Running

LEMMA TcpNext == TcpInv /\ [Next]_vars => TcpInv'
<1>. SUFFICES ASSUME TcpInv, [Next]_vars PROVE TcpInv'
  OBVIOUS
<1>0. TypeOK /\ stream \in Seq(Cells) /\ owed \in Nat
  BY TcpTypes DEF TcpInv
<1>1. CASE Start
  <2>1. reading = <<>> /\ queue = <<>> /\ writing = <<>> /\ Framed(0, stream, owed)
    BY <1>1 DEF Start, TcpInv, Quiet, InFrame
  <2>2. reading' = <<ReadHeader>>
    BY <1>1, <2>1 DEF Start
  <2>3. ReadHeader \in Reads /\ Left(ReadHeader) = 0 /\ Asks(ReadHeader)
    BY ReadKinds
  <2>4. /\ reading' \in Seq(Reads) /\ Len(reading') = 1 /\ DOMAIN reading' = {1}
        /\ reading'[1] = ReadHeader
    <3>. HIDE DEF ReadHeader
    <3>. QED BY <2>2, <2>3
  <2>5. TypeOK'
    BY <1>0, <1>1, <2>4 DEF TypeOK, Start, Reads
  <2>6. InFrame'
    BY <1>1, <2>1, <2>3, <2>4 DEF InFrame, Start
  <2>7. Len(writing) = 0
    BY <2>1
  <2>. QED BY <1>1, <2>1, <2>4, <2>5, <2>6, <2>7
           DEF TcpInv, Quiet, OneRead, OneWriter, NothingWritten, Running, Start
<1>2. CASE Stop
  <2>1. TypeOK'
    BY <1>0, <1>2, BoundsAssumption DEF TypeOK, Stop, SetStopped
  <2>. QED BY <1>2, <2>1
           DEF TcpInv, InFrame, Quiet, OneRead, OneWriter, NothingWritten, Running, Stop, SetStopped
<1>3. CASE Close
  BY <1>3, CloseNext
<1>4. CASE HandleWrite
  BY <1>4, WriteNext
<1>5. CASE HandleHeader
  BY <1>5, HeaderNext
<1>6. CASE HandlePayload
  BY <1>6, PayloadNext
<1>7. CASE HandleIgnore
  BY <1>7, IgnoreNext
<1>8. CASE HandleReadError
  BY <1>8, ReadStops DEF HandleReadError
<1>9. ASSUME NEW n \in Payloads, Send(n) PROVE TcpInv'
  BY <1>9, SendNext
<1>10. ASSUME NEW n \in Payloads, PeerHeader(n) PROVE TcpInv'
  <2>1. /\ owed = 0 /\ owed' = n /\ n \in Nat
        /\ stream' = Append(stream, Header(n))
        /\ frames' \in 0..MaxFrames
    BY <1>0, <1>10, SizesAssumption, BoundsAssumption DEF PeerHeader, TypeOK
  <2>2. Header(n) \in Cells
    BY <2>1 DEF Header, Cells
  <2>3. stream' \in Seq(Cells)
    BY <1>0, <2>1, <2>2, AppendProperties
  <2>4. \A left \in Nat : Framed(left, stream, owed) => Framed(left, stream', owed')
    BY <1>0, <2>1, HeaderCame
  <2>. QED BY <1>10, <2>1, <2>3, <2>4, CameNext DEF PeerHeader
<1>11. CASE PeerByte
  <2>1. /\ owed > 0 /\ owed' = owed - 1 /\ stream' = Append(stream, Byte)
        /\ owed' \in Nat /\ frames' \in 0..MaxFrames
    BY <1>0, <1>11 DEF PeerByte, TypeOK
  <2>2. Byte \in Cells
    BY DEF Byte, Cells
  <2>3. stream' \in Seq(Cells)
    BY <1>0, <2>1, <2>2, AppendProperties
  <2>4. \A left \in Nat : Framed(left, stream, owed) => Framed(left, stream', owed')
    BY <1>0, <2>1, ByteCame
  <2>. QED BY <1>11, <2>1, <2>3, <2>4, CameNext DEF PeerByte
<1>12. ASSUME NEW n \in Limits, SetLimit(n) PROVE TcpInv'
  <2>1. TypeOK'
    BY <1>0, <1>12, BoundsAssumption DEF TypeOK, SetLimit
  <2>. QED BY <1>12, <2>1
           DEF TcpInv, InFrame, Quiet, OneRead, OneWriter, NothingWritten, Running, SetLimit
<1>13. CASE PeerClose
  <2>1. TypeOK'
    BY <1>0, <1>13 DEF TypeOK, PeerClose
  <2>. QED BY <1>13, <2>1
           DEF TcpInv, InFrame, Quiet, OneRead, OneWriter, NothingWritten, Running, PeerClose
<1>14. CASE UNCHANGED vars
  BY <1>14
  DEF TcpInv, TypeOK, InFrame, Quiet, OneRead, OneWriter, NothingWritten, Running, vars
<1>. QED BY <1>1, <1>2, <1>3, <1>4, <1>5, <1>6, <1>7, <1>8, <1>9, <1>10, <1>11, <1>12, <1>13,
            <1>14
         DEF Next, Handlers
-----------------------------------------------------------------------------
(* The inductive invariant of a tcp_connection.                            *)
THEOREM ConnectionInvariant == Spec => []TcpInv
BY TcpInit, TcpNext, PTL DEF Spec

(* TypeOK: the state of a connection is well formed, in particular no size *)
(* that is subtracted from becomes negative.                               *)
THEOREM ConnectionTyped == Spec => []TypeOK
<1>1. TcpInv => TypeOK
  BY DEF TcpInv
<1>. QED BY <1>1, ConnectionInvariant, PTL

(* OneWriter: a running connection has one read under way, and one write   *)
(* exactly when something is queued, whoever sends, stops or is answered.  *)
THEOREM OneWriteUnderWay == Spec => []OneWriter
<1>1. TcpInv => OneWriter
  BY DEF TcpInv
<1>. QED BY <1>1, ConnectionInvariant, PTL

(* FramingKept: the reader takes a header for a header and a payload for a *)
(* payload, for every length, limit and size of the ignore buffer; _limit  *)
(* may be changed or have any value to begin with.                         *)
THEOREM FramesKept == Spec => []FramingKept
<1>1. TcpInv => FramingKept
  <2>. SUFFICES ASSUME TcpInv, NEW i \in DOMAIN reading,
                       NEW left, left = Left(reading[i])
                PROVE  /\ \A j \in DOMAIN stream : j <= left => stream[j].cell = "byte"
                       /\ Len(stream) > left => stream[left + 1].cell = "header"
                       /\ reading[i].len <= reading[i].remains
                       /\ Len(stream) < left => owed = left - Len(stream)
    BY DEF FramingKept, Left
  <2>1. stream \in Seq(Cells) /\ reading \in Seq(Reads)
    BY TcpTypes DEF TcpInv
  <2>2. DOMAIN stream = 1..Len(stream) /\ Len(stream) \in Nat
    BY <2>1, LenProperties
  <2>3. reading[i] \in Reads
    BY <2>1, ElementOfSeq, LenProperties
  <2>4. left \in Nat
    BY <2>3 DEF Left, Reads
  <2>5. Framed(left, stream, owed) /\ reading[i].len <= reading[i].remains
    BY DEF TcpInv, InFrame, Asks
  <2>. QED BY <2>2, <2>4, <2>5 DEF Framed
<1>. QED BY <1>1, ConnectionInvariant, PTL
=============================================================================
