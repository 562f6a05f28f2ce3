-------------------------- MODULE DispatcherProofs --------------------------
(***************************************************************************)
(* Theorems about PayloadCodec and Dispatcher, for payloads of any items   *)
(* and values, any bytes that are lost and any functions.  What is written *)
(* and read is defined by recursion over sequences; that such a definition *)
(* has the function it says, and what that function is at n, is proved     *)
(* from the well-foundedness of the natural numbers (UpTo, Recursion).     *)
(***************************************************************************)
EXTENDS Dispatcher, FiniteSetTheorems, SequenceTheorems, WellFoundedInduction, TLAPS
-----------------------------------------------------------------------------
(* Induction up to N, from the well-foundedness of the natural numbers.     *)
Smaller == {c \in Nat \X Nat : c[1] < c[2]}

LEMMA UpTo ==
  ASSUME NEW N \in Nat, NEW S, 0 \in S, \A n \in 0..(N - 1) : n \in S => n + 1 \in S
  PROVE  0..N \subseteq S
<1>. DEFINE T == (0..N) \ S
<1>. SUFFICES ASSUME T # {} PROVE FALSE
  OBVIOUS
<1>1. IsWellFoundedOn(Smaller, Nat)
  BY NatLessThanWellFounded DEF OpToRel, Smaller
<1>2. T \subseteq Nat
  OBVIOUS
<1>3. PICK x \in T : \A y \in T : ~(<<y, x>> \in Smaller)
  BY <1>1, <1>2, WFMin
<1>4. x \in 0..N /\ x # 0
  OBVIOUS
<1>5. <<x - 1, x>> \in Smaller
  BY <1>4 DEF Smaller
<1>6. x - 1 \in S
  BY <1>3, <1>4, <1>5
<1>7. x - 1 \in 0..(N - 1) /\ (x - 1) + 1 = x
  BY <1>4
<1>. QED BY <1>6, <1>7
-----------------------------------------------------------------------------
(* Sequences run together.                                                  *)

(* g is what is joined of s on the way to FlattenSeq(s), up to n.           *)
Joins(s, n, g) == g = [i \in 1..n |-> IF i = 1 THEN s[i] ELSE g[i - 1] \o s[i]]

(* There is such a function, for a sequence of any length.                  *)
LEMMA JoinExists ==
  ASSUME NEW s, NEW N \in Nat
  PROVE  \E g : Joins(s, N, g)
<1>. DEFINE S == {n \in Nat : \E g : Joins(s, n, g)}
<1>1. 0 \in S
  <2>. DEFINE g == [i \in 1..0 |-> <<>>]
  <2>1. g = [i \in 1..0 |-> IF i = 1 THEN s[i] ELSE g[i - 1] \o s[i]]
    OBVIOUS
  <2>. HIDE DEF g
  <2>. QED BY <2>1 DEF Joins
<1>2. ASSUME NEW n \in Nat, n \in S PROVE n + 1 \in S
  <2>1. PICK g : Joins(s, n, g)
    BY <1>2
  <2>. DEFINE h == [i \in 1..(n + 1) |->
                      IF i = 1 THEN s[i] ELSE IF i = n + 1 THEN g[n] \o s[i] ELSE g[i]]
  <2>2. \A i \in 1..n : g[i] = IF i = 1 THEN s[i] ELSE g[i - 1] \o s[i]
    BY <2>1 DEF Joins
  <2>3. \A i \in 1..n : h[i] = g[i]
    BY <2>2
  <2>4. ASSUME NEW i \in 1..(n + 1) PROVE h[i] = IF i = 1 THEN s[i] ELSE h[i - 1] \o s[i]
    <3>1. CASE i = 1
      BY <3>1
    <3>2. CASE i # 1 /\ i = n + 1
      <4>1. i - 1 = n /\ n \in 1..n
        BY <3>2
      <4>. QED BY <2>3, <3>2, <4>1
    <3>3. CASE i # 1 /\ i # n + 1
      <4>1. i - 1 \in 1..n /\ i \in 1..n
        BY <3>3
      <4>. QED BY <2>2, <2>3, <3>3, <4>1
    <3>. QED BY <3>1, <3>2, <3>3
  <2>5. h = [i \in 1..(n + 1) |-> h[i]]
    OBVIOUS
  <2>. HIDE DEF h
  <2>6. Joins(s, n + 1, h)
    BY <2>4, <2>5 DEF Joins
  <2>. QED BY <2>6
<1>. HIDE DEF S
<1>3. 0..N \subseteq S
  BY <1>1, <1>2, UpTo
<1>4. N \in S
  BY <1>3
<1>. QED BY <1>4 DEF S

LEMMA JoinType ==
  ASSUME NEW X, NEW s \in Seq(Seq(X)), NEW g, Joins(s, Len(s), g)
  PROVE  \A i \in 1..Len(s) : g[i] \in Seq(X)
<1>. DEFINE N == Len(s)  S == {n \in Nat : n \in 1..N => g[n] \in Seq(X)}
<1>1. N \in Nat /\ \A i \in 1..N : s[i] \in Seq(X)
  BY LenProperties, ElementOfSeq
<1>2. \A i \in 1..N : g[i] = IF i = 1 THEN s[i] ELSE g[i - 1] \o s[i]
  BY DEF Joins
<1>. HIDE DEF N
<1>3. 0 \in S
  OBVIOUS
<1>4. ASSUME NEW n \in 0..(N - 1), n \in S PROVE n + 1 \in S
  <2>1. n + 1 \in 1..N /\ (n + 1) - 1 = n /\ n \in Nat /\ (n # 0 => n \in 1..N /\ n + 1 # 1)
    BY <1>1
  <2>2. s[n + 1] \in Seq(X) /\ g[n + 1] = IF n + 1 = 1 THEN s[n + 1] ELSE g[(n + 1) - 1] \o s[n + 1]
    BY <1>1, <1>2, <2>1
  <2>3. CASE n = 0
    BY <2>1, <2>2, <2>3
  <2>4. CASE n # 0
    <3>1. g[n] \in Seq(X) /\ g[n + 1] = g[n] \o s[n + 1]
      BY <1>4, <2>1, <2>2, <2>4
    <3>2. g[n] \o s[n + 1] \in Seq(X)
      BY <2>2, <3>1, ConcatProperties
    <3>3. g[n + 1] \in Seq(X) /\ n + 1 \in Nat
      BY <2>1, <3>1, <3>2
    <3>. QED BY <3>3
  <2>. QED BY <2>3, <2>4
<1>. HIDE DEF S
<1>5. 0..N \subseteq S
  BY <1>1, <1>3, <1>4, UpTo
<1>6. \A i \in 1..N : i \in S
  BY <1>1, <1>5
<1>. QED BY <1>6 DEF S, N

(* So what CHOOSE picks in FlattenSeq is one of them.                       *)
LEMMA FlatIs ==
  ASSUME NEW X, NEW s \in Seq(Seq(X)), s # <<>>
  PROVE  \E g : Joins(s, Len(s), g) /\ FlattenSeq(s) = g[Len(s)]
<1>. DEFINE f == CHOOSE g : g = [i \in 1..Len(s) |-> IF i = 1 THEN s[i] ELSE g[i - 1] \o s[i]]
<1>1. Len(s) # 0 /\ Len(s) \in Nat
  BY LenProperties, EmptySeq
<1>2. FlattenSeq(s) = f[Len(s)]
  BY <1>1 DEF FlattenSeq
<1>3. \E g : g = [i \in 1..Len(s) |-> IF i = 1 THEN s[i] ELSE g[i - 1] \o s[i]]
  BY <1>1, JoinExists DEF Joins
<1>4. f = [i \in 1..Len(s) |-> IF i = 1 THEN s[i] ELSE f[i - 1] \o s[i]]
  BY <1>3
<1>. HIDE DEF f
<1>. QED BY <1>2, <1>4 DEF Joins

LEMMA FlatEmpty == FlattenSeq(<<>>) = <<>>
<1>1. Len(<<>>) = 0
  OBVIOUS
<1>. QED BY <1>1 DEF FlattenSeq

(* Sequences of X run together are a sequence of X.                         *)
LEMMA FlatType ==
  ASSUME NEW X, NEW s \in Seq(Seq(X))
  PROVE  FlattenSeq(s) \in Seq(X)
<1>1. CASE s = <<>>
  <2>1. FlattenSeq(s) = <<>> /\ <<>> \in Seq(X)
    BY <1>1, FlatEmpty
  <2>. QED BY <2>1
<1>2. CASE s # <<>>
  <2>1. PICK g : Joins(s, Len(s), g) /\ FlattenSeq(s) = g[Len(s)]
    BY <1>2, FlatIs
  <2>2. Len(s) \in 1..Len(s)
    BY <1>2, LenProperties, EmptySeq
  <2>. QED BY <2>1, <2>2, JoinType
<1>. QED BY <1>1, <1>2

LEMMA FlatAppend ==
  ASSUME NEW X, NEW s \in Seq(Seq(X)), NEW x \in Seq(X)
  PROVE  FlattenSeq(Append(s, x)) = FlattenSeq(s) \o x
<1>. DEFINE r == Append(s, x)  N == Len(s)
<1>1. /\ r \in Seq(Seq(X)) /\ Len(r) = N + 1 /\ r[N + 1] = x /\ N \in Nat
      /\ \A i \in 1..N : r[i] = s[i]
  BY AppendProperties, LenProperties
<1>2. r # <<>>
  BY <1>1, EmptySeq
<1>3. s # <<>> => N # 0
  BY EmptySeq
<1>. HIDE DEF r, N
<1>4. PICK h : Joins(r, Len(r), h) /\ FlattenSeq(r) = h[Len(r)]
  BY <1>1, <1>2, FlatIs
<1>5. \A i \in 1..(N + 1) : h[i] = IF i = 1 THEN r[i] ELSE h[i - 1] \o r[i]
  BY <1>1, <1>4 DEF Joins
<1>6. CASE s = <<>>
  <2>1. N = 0
    BY <1>6 DEF N
  <2>2. h[1] = x
    BY <1>1, <1>5, <2>1
  <2>3. FlattenSeq(r) = x
    BY <1>1, <1>4, <2>1, <2>2
  <2>. QED BY <1>6, <2>3, FlatEmpty, ConcatEmptySeq DEF r
<1>7. CASE s # <<>>
  <2>1. PICK g : Joins(s, N, g) /\ FlattenSeq(s) = g[N]
    BY <1>7, FlatIs DEF N
  <2>2. \A i \in 1..N : g[i] = IF i = 1 THEN s[i] ELSE g[i - 1] \o s[i]
    BY <2>1 DEF Joins
  <2>. DEFINE S == {n \in Nat : n \in 1..N => g[n] = h[n]}
  <2>3. 0 \in S
    OBVIOUS
  <2>4. ASSUME NEW n \in 0..(N - 1), n \in S PROVE n + 1 \in S
    <3>1. n + 1 \in 1..N /\ n + 1 \in 1..(N + 1) /\ (n + 1) - 1 = n
          /\ (n # 0 => n \in 1..N /\ n + 1 # 1) /\ n \in Nat
      BY <1>1
    <3>2. /\ g[n + 1] = IF n + 1 = 1 THEN s[n + 1] ELSE g[(n + 1) - 1] \o s[n + 1]
          /\ h[n + 1] = IF n + 1 = 1 THEN r[n + 1] ELSE h[(n + 1) - 1] \o r[n + 1]
          /\ r[n + 1] = s[n + 1]
      BY <1>1, <1>5, <2>2, <3>1
    <3>3. n # 0 => g[n] = h[n]
      BY <2>4, <3>1
    <3>4. g[n + 1] = h[n + 1]
      BY <3>1, <3>2, <3>3
    <3>. QED BY <3>1, <3>4
  <2>. HIDE DEF S
  <2>5. 0..N \subseteq S
    BY <1>1, <2>3, <2>4, UpTo
  <2>6. N \in 1..N /\ N \in S
    BY <1>1, <1>3, <1>7, <2>5
  <2>7. g[N] = h[N]
    BY <2>6 DEF S
  <2>8. h[N + 1] = h[N] \o x
    <3>1. N + 1 \in 1..(N + 1) /\ N + 1 # 1 /\ (N + 1) - 1 = N
      BY <1>1, <2>6
    <3>. QED BY <1>1, <1>5, <3>1
  <2>. QED BY <1>1, <1>4, <2>1, <2>7, <2>8 DEF r
<1>. QED BY <1>6, <1>7

LEMMA NextBeginning ==
  ASSUME NEW X, NEW s \in Seq(X), NEW n \in 0..(Len(s) - 1)
  PROVE  /\ SubSeq(s, 1, n) \in Seq(X) /\ s[n + 1] \in X
         /\ SubSeq(s, 1, n + 1) = Append(SubSeq(s, 1, n), s[n + 1])
<1>1. Len(s) \in Nat /\ \A i \in 1..Len(s) : s[i] \in X
  BY LenProperties, ElementOfSeq
<1>2. n \in Int /\ 1 \in Int /\ n + 1 \in 1..Len(s) /\ (\A i \in 1..n : s[i] \in X)
      /\ (n + 1) - 1 = n
  BY <1>1
<1>3. SubSeq(s, 1, n) \in Seq(X) /\ s[n + 1] \in X
  BY <1>1, <1>2, SubSeqProperties
<1>4. 1 \in 1..Len(s) /\ n + 1 \in 1..Len(s)
  BY <1>1
<1>5. SubSeq(s, 1, n + 1) = SubSeq(s, 1, (n + 1) - 1) \o <<s[n + 1]>>
  BY <1>4, SubSeqRecursiveSecond
<1>6. SubSeq(s, 1, n + 1) = SubSeq(s, 1, n) \o <<s[n + 1]>>
  BY <1>2, <1>5
<1>7. Append(SubSeq(s, 1, n), s[n + 1]) = SubSeq(s, 1, n) \o <<s[n + 1]>>
  BY <1>3, AppendIsConcat
<1>. QED BY <1>3, <1>6, <1>7

(* What is the same at the start, and is joined the same way, is the same.  *)
LEMMA FlatBy ==
  ASSUME NEW X, NEW s \in Seq(Seq(X)), NEW g,
         g[0] = <<>>, \A n \in 1..Len(s) : g[n] = g[n - 1] \o s[n]
  PROVE  FlattenSeq(s) = g[Len(s)]
<1>. DEFINE S == {n \in Nat : FlattenSeq(SubSeq(s, 1, n)) = g[n]}
<1>1. 0 \in S
  <2>1. SubSeq(s, 1, 0) = <<>>
    BY SubSeqEmpty
  <2>. QED BY <2>1, FlatEmpty
<1>2. ASSUME NEW n \in 0..(Len(s) - 1), n \in S PROVE n + 1 \in S
  <2>0. Len(s) \in Nat
    BY LenProperties
  <2>1. n + 1 \in 1..Len(s) /\ (n + 1) - 1 = n /\ n + 1 \in Nat
    BY <2>0
  <2>. DEFINE u == SubSeq(s, 1, n)  x == s[n + 1]
  <2>2. FlattenSeq(SubSeq(s, 1, n + 1)) = FlattenSeq(u) \o x
    <3>1. u \in Seq(Seq(X)) /\ x \in Seq(X) /\ SubSeq(s, 1, n + 1) = Append(u, x)
      BY NextBeginning
    <3>. HIDE DEF u, x
    <3>. QED BY <3>1, FlatAppend
  <2>3. g[n + 1] = g[n] \o s[n + 1]
    BY <2>1
  <2>. QED BY <1>2, <2>1, <2>2, <2>3
<1>. HIDE DEF S
<1>3. Len(s) \in Nat
  BY LenProperties
<1>4. 0..Len(s) \subseteq S
  BY <1>1, <1>2, <1>3, UpTo
<1>5. Len(s) \in S
  BY <1>3, <1>4
<1>6. SubSeq(s, 1, Len(s)) = s
  BY SubSeqFull
<1>. QED BY <1>5, <1>6 DEF S

LEMMA Assoc ==
  ASSUME NEW X, NEW a \in Seq(X), NEW b \in Seq(X), NEW c \in Seq(X)
  PROVE  (a \o b) \o c = a \o (b \o c)
BY ConcatAssociative

LEMMA AppendMoves ==
  ASSUME NEW Y, NEW s \in Seq(Y), NEW u \in Seq(Y), NEW x \in Y
  PROVE  s \o Append(u, x) = Append(s \o u, x)
<1>. DEFINE l == <<x>>
<1>1. Append(u, x) = u \o l
  BY AppendIsConcat
<1>2. s \o u \in Seq(Y) /\ l \in Seq(Y)
  BY ConcatProperties
<1>3. Append(s \o u, x) = (s \o u) \o l
  BY <1>2, AppendIsConcat
<1>. HIDE DEF l
<1>4. (s \o u) \o l = s \o (u \o l)
  BY <1>2, Assoc
<1>. QED BY <1>1, <1>3, <1>4

(* To run two lists of sequences together is to run each of them together.  *)
LEMMA FlatConcat ==
  ASSUME NEW X, NEW s \in Seq(Seq(X)), NEW t \in Seq(Seq(X))
  PROVE  FlattenSeq(s \o t) = FlattenSeq(s) \o FlattenSeq(t)
<1>. DEFINE S == {n \in Nat : FlattenSeq(s \o SubSeq(t, 1, n)) =
                                FlattenSeq(s) \o FlattenSeq(SubSeq(t, 1, n))}
<1>1. 0 \in S
  <2>1. SubSeq(t, 1, 0) = <<>>
    BY SubSeqEmpty
  <2>2. s \o <<>> = s
    BY ConcatEmptySeq
  <2>3. FlattenSeq(s) \o <<>> = FlattenSeq(s)
    BY FlatType, ConcatEmptySeq
  <2>. QED BY <2>1, <2>2, <2>3, FlatEmpty
<1>2. ASSUME NEW n \in 0..(Len(t) - 1), n \in S PROVE n + 1 \in S
  <2>. DEFINE u == SubSeq(t, 1, n)  x == t[n + 1]
  <2>1. u \in Seq(Seq(X)) /\ x \in Seq(X) /\ SubSeq(t, 1, n + 1) = Append(u, x)
    BY NextBeginning
  <2>2. FlattenSeq(s \o u) = FlattenSeq(s) \o FlattenSeq(u)
    BY <1>2
  <2>3. n + 1 \in Nat
    OBVIOUS
  <2>. HIDE DEF u, x, S
  <2>4. s \o Append(u, x) = Append(s \o u, x)
    BY <2>1, AppendMoves, SMTT(30)
  <2>5. FlattenSeq(Append(s \o u, x)) = FlattenSeq(s \o u) \o x
    BY <2>1, ConcatProperties, FlatAppend
  <2>6. FlattenSeq(Append(u, x)) = FlattenSeq(u) \o x
    BY <2>1, FlatAppend
  <2>7. (FlattenSeq(s) \o FlattenSeq(u)) \o x = FlattenSeq(s) \o (FlattenSeq(u) \o x)
    <3>. DEFINE a == FlattenSeq(s)  b == FlattenSeq(u)
    <3>1. a \in Seq(X) /\ b \in Seq(X) /\ x \in Seq(X)
      BY <2>1, FlatType
    <3>. HIDE DEF a, b
    <3>2. (a \o b) \o x = a \o (b \o x)
      BY <3>1, Assoc, SMTT(30)
    <3>. QED BY <3>2 DEF a, b
  <2>8. FlattenSeq(s \o Append(u, x)) = FlattenSeq(s) \o FlattenSeq(Append(u, x))
    BY <2>2, <2>4, <2>5, <2>6, <2>7
  <2>. QED BY <2>1, <2>3, <2>8 DEF S
<1>. HIDE DEF S
<1>3. Len(t) \in Nat
  BY LenProperties
<1>4. 0..Len(t) \subseteq S
  BY <1>1, <1>2, <1>3, UpTo
<1>5. Len(t) \in S
  BY <1>3, <1>4
<1>6. SubSeq(t, 1, Len(t)) = t
  BY SubSeqFull
<1>. QED BY <1>5, <1>6 DEF S

LEMMA FlatOne ==
  ASSUME NEW X, NEW x \in Seq(X)
  PROVE  FlattenSeq(<<x>>) = x
<1>1. <<>> \in Seq(Seq(X)) /\ Append(<<>>, x) = <<x>>
  OBVIOUS
<1>2. FlattenSeq(Append(<<>>, x)) = FlattenSeq(<<>>) \o x
  BY <1>1, FlatAppend
<1>. QED BY <1>1, <1>2, FlatEmpty, ConcatEmptySeq

LEMMA PairAppended ==
  ASSUME NEW x, NEW y
  PROVE  Append(<<x>>, y) = <<x, y>>
<1>. DEFINE Q == {x, y}  a == Append(<<x>>, y)  b == <<x, y>>  o == <<x>>
<1>1. o \in Seq(Q) /\ Len(o) = 1 /\ o[1] = x /\ y \in Q
  OBVIOUS
<1>2. b \in Seq(Q) /\ Len(b) = 2 /\ b[1] = x /\ b[2] = y
  OBVIOUS
<1>. HIDE DEF Q, b, o
<1>3. a \in Seq(Q) /\ Len(a) = 2 /\ a[1] = x /\ a[2] = y
  BY <1>1, AppendProperties DEF o
<1>4. \A i \in 1..Len(a) : a[i] = b[i]
  BY <1>2, <1>3
<1>. HIDE DEF a
<1>5. a = b
  BY <1>2, <1>3, <1>4, SeqEqual
<1>. QED BY <1>5 DEF a, b

LEMMA FlatTwo ==
  ASSUME NEW X, NEW x \in Seq(X), NEW y \in Seq(X)
  PROVE  FlattenSeq(<<x, y>>) = x \o y
<1>1. <<x>> \in Seq(Seq(X))
  OBVIOUS
<1>3. Append(<<x>>, y) = <<x, y>>
  BY PairAppended
<1>2. FlattenSeq(Append(<<x>>, y)) = FlattenSeq(<<x>>) \o y
  BY <1>1, FlatAppend
<1>. QED BY <1>2, <1>3, FlatOne

(* Running together twice is running together what was run together.        *)
LEMMA FlatFlat ==
  ASSUME NEW X, NEW s \in Seq(Seq(Seq(X))), NEW c \in Seq(Seq(X)), NEW N \in Nat,
         Len(s) = N, Len(c) = N, \A i \in 1..N : c[i] = FlattenSeq(s[i])
  PROVE  FlattenSeq(FlattenSeq(s)) = FlattenSeq(c)
<1>. DEFINE g == [n \in 0..N |-> FlattenSeq(FlattenSeq(SubSeq(s, 1, n)))]
<1>4. \A n \in 0..N : g[n] = FlattenSeq(FlattenSeq(SubSeq(s, 1, n)))
  OBVIOUS
<1>. HIDE DEF g
<1>5. g[0] = <<>>
  <2>1. SubSeq(s, 1, 0) = <<>> /\ 0 \in 0..N
    BY SubSeqEmpty
  <2>. QED BY <1>4, <2>1, FlatEmpty
<1>6. ASSUME NEW n \in 1..N PROVE g[n] = g[n - 1] \o c[n]
  <2>. DEFINE u == SubSeq(s, 1, n - 1)
  <2>1. n - 1 \in 0..(Len(s) - 1) /\ (n - 1) + 1 = n /\ n \in 0..N /\ n - 1 \in 0..N
    OBVIOUS
  <2>2. u \in Seq(Seq(Seq(X))) /\ SubSeq(s, 1, n) = Append(u, s[n]) /\ s[n] \in Seq(Seq(X))
    <3>1. /\ SubSeq(s, 1, n - 1) \in Seq(Seq(Seq(X))) /\ s[(n - 1) + 1] \in Seq(Seq(X))
          /\ SubSeq(s, 1, (n - 1) + 1) = Append(SubSeq(s, 1, n - 1), s[(n - 1) + 1])
      BY <2>1, NextBeginning
    <3>. QED BY <2>1, <3>1
  <2>3. g[n - 1] = FlattenSeq(FlattenSeq(u)) /\ g[n] = FlattenSeq(FlattenSeq(Append(u, s[n])))
    BY <1>4, <2>1, <2>2
  <2>. HIDE DEF u
  <2>4. FlattenSeq(Append(u, s[n])) = FlattenSeq(u) \o s[n]
    BY <2>2, FlatAppend
  <2>5. FlattenSeq(u) \in Seq(Seq(X))
    BY <2>2, FlatType
  <2>6. FlattenSeq(FlattenSeq(u) \o s[n]) = FlattenSeq(FlattenSeq(u)) \o FlattenSeq(s[n])
    BY <2>2, <2>5, FlatConcat
  <2>7. c[n] = FlattenSeq(s[n])
    OBVIOUS
  <2>. QED BY <2>3, <2>4, <2>6, <2>7
<1>7. FlattenSeq(c) = g[N]
  <2>1. \A n \in 1..Len(c) : g[n] = g[n - 1] \o c[n]
    BY <1>6
  <2>. QED BY <1>5, <2>1, FlatBy
<1>8. g[N] = FlattenSeq(FlattenSeq(s))
  <2>. DEFINE r == SubSeq(s, 1, N)
  <2>1. r = s
    BY SubSeqFull
  <2>2. g[N] = FlattenSeq(FlattenSeq(r))
    BY <1>4
  <2>. HIDE DEF r
  <2>. QED BY <2>1, <2>2
<1>. QED BY <1>7, <1>8
-----------------------------------------------------------------------------
(* Sums.                                                                    *)

(* g is the sum of the numbers of l on the way to Total(l), up to the nth.  *)
Sums(l, N, g) == g = [n \in 0..N |-> IF n = 0 THEN 0 ELSE g[n - 1] + l[n]]

LEMMA SumExists ==
  ASSUME NEW l, NEW N \in Nat
  PROVE  \E g : Sums(l, N, g)
<1>. DEFINE S == {n \in Nat : \E g : Sums(l, n, g)}
<1>1. 0 \in S
  <2>. DEFINE g == [n \in 0..0 |-> 0]
  <2>1. g = [n \in 0..0 |-> IF n = 0 THEN 0 ELSE g[n - 1] + l[n]]
    OBVIOUS
  <2>. HIDE DEF g
  <2>. QED BY <2>1 DEF Sums
<1>2. ASSUME NEW m \in Nat, m \in S PROVE m + 1 \in S
  <2>1. PICK g : Sums(l, m, g)
    BY <1>2
  <2>. DEFINE h == [n \in 0..(m + 1) |-> IF n = m + 1 THEN g[m] + l[m + 1] ELSE g[n]]
  <2>2. \A n \in 0..m : g[n] = IF n = 0 THEN 0 ELSE g[n - 1] + l[n]
    BY <2>1 DEF Sums
  <2>3. \A n \in 0..m : h[n] = g[n]
    OBVIOUS
  <2>4. ASSUME NEW n \in 0..(m + 1) PROVE h[n] = IF n = 0 THEN 0 ELSE h[n - 1] + l[n]
    <3>1. CASE n = m + 1
      <4>1. n - 1 = m /\ m \in 0..m /\ n # 0
        BY <3>1
      <4>. QED BY <2>3, <3>1, <4>1
    <3>2. CASE n # m + 1
      <4>1. n \in 0..m /\ (n # 0 => n - 1 \in 0..m)
        BY <3>2
      <4>. QED BY <2>2, <2>3, <4>1
    <3>. QED BY <3>1, <3>2
  <2>5. h = [n \in 0..(m + 1) |-> h[n]]
    OBVIOUS
  <2>. HIDE DEF h
  <2>6. Sums(l, m + 1, h)
    BY <2>4, <2>5 DEF Sums
  <2>. QED BY <2>6
<1>. HIDE DEF S
<1>3. 0..N \subseteq S
  BY <1>1, <1>2, UpTo
<1>4. N \in S
  BY <1>3
<1>. QED BY <1>4 DEF S

(* Total is such a sum: its function exists.                                *)
LEMMA TotalIs ==
  ASSUME NEW l, Len(l) \in Nat
  PROVE  \E g : Sums(l, Len(l), g) /\ Total(l) = g[Len(l)]
<1>. DEFINE f == CHOOSE g : g = [n \in 0..Len(l) |-> IF n = 0 THEN 0 ELSE g[n - 1] + l[n]]
<1>1. Total(l) = f[Len(l)]
  BY DEF Total
<1>2. \E g : g = [n \in 0..Len(l) |-> IF n = 0 THEN 0 ELSE g[n - 1] + l[n]]
  BY SumExists DEF Sums
<1>3. f = [n \in 0..Len(l) |-> IF n = 0 THEN 0 ELSE f[n - 1] + l[n]]
  BY <1>2
<1>. HIDE DEF f
<1>. QED BY <1>1, <1>3 DEF Sums

(* What starts at nothing and grows by the same numbers is their sum.       *)
LEMMA TotalBy ==
  ASSUME NEW l, NEW N \in Nat, Len(l) = N, NEW g,
         g[0] = 0, \A n \in 1..N : g[n] = g[n - 1] + l[n]
  PROVE  Total(l) = g[N]
<1>1. PICK f : Sums(l, N, f) /\ Total(l) = f[N]
  BY TotalIs
<1>2. \A n \in 0..N : f[n] = IF n = 0 THEN 0 ELSE f[n - 1] + l[n]
  BY <1>1 DEF Sums
<1>. DEFINE S == {n \in Nat : f[n] = g[n]}
<1>3. 0 \in S
  BY <1>2
<1>4. ASSUME NEW n \in 0..(N - 1), n \in S PROVE n + 1 \in S
  <2>1. n + 1 \in 0..N /\ n + 1 \in 1..N /\ n + 1 # 0 /\ (n + 1) - 1 = n /\ n + 1 \in Nat
    OBVIOUS
  <2>2. f[n + 1] = f[n] + l[n + 1] /\ g[n + 1] = g[n] + l[n + 1]
    BY <1>2, <2>1
  <2>. QED BY <1>4, <2>1, <2>2
<1>. HIDE DEF S
<1>5. 0..N \subseteq S
  BY <1>3, <1>4, UpTo
<1>6. N \in S
  BY <1>5
<1>. QED BY <1>1, <1>6 DEF S

(* The sums on the way, as a function.                                      *)
LEMMA TotalHas ==
  ASSUME NEW l, NEW N \in Nat, Len(l) = N, \A n \in 1..N : l[n] \in Nat
  PROVE  \E g : /\ g[0] = 0 /\ \A n \in 1..N : g[n] = g[n - 1] + l[n]
                /\ \A n \in 0..N : g[n] \in Nat
                /\ Total(l) = g[N]
<1>1. PICK f : Sums(l, N, f) /\ Total(l) = f[N]
  BY TotalIs
<1>2. \A n \in 0..N : f[n] = IF n = 0 THEN 0 ELSE f[n - 1] + l[n]
  BY <1>1 DEF Sums
<1>. DEFINE S == {n \in Nat : f[n] \in Nat}
<1>3. 0 \in S
  BY <1>2
<1>4. ASSUME NEW n \in 0..(N - 1), n \in S PROVE n + 1 \in S
  <2>1. n + 1 \in 0..N /\ n + 1 \in 1..N /\ n + 1 # 0 /\ (n + 1) - 1 = n /\ n + 1 \in Nat
    OBVIOUS
  <2>2. f[n + 1] = f[n] + l[n + 1] /\ l[n + 1] \in Nat
    BY <1>2, <2>1
  <2>. QED BY <1>4, <2>1, <2>2
<1>. HIDE DEF S
<1>5. 0..N \subseteq S
  BY <1>3, <1>4, UpTo
<1>6. \A n \in 0..N : f[n] \in Nat
  BY <1>5 DEF S
<1>7. f[0] = 0 /\ \A n \in 1..N : f[n] = f[n - 1] + l[n]
  BY <1>2
<1>. QED BY <1>1, <1>6, <1>7

(* What is run together is as long as its pieces are together.              *)
LEMMA FlatLen ==
  ASSUME NEW X, NEW s \in Seq(Seq(X)), NEW l, NEW N \in Nat, Len(s) = N, Len(l) = N,
         \A n \in 1..N : l[n] = Len(s[n])
  PROVE  Len(FlattenSeq(s)) = Total(l)
<1>. DEFINE g == [n \in 0..N |-> Len(FlattenSeq(SubSeq(s, 1, n)))]
<1>1. \A n \in 0..N : g[n] = Len(FlattenSeq(SubSeq(s, 1, n)))
  OBVIOUS
<1>. HIDE DEF g
<1>2. g[0] = 0
  <2>1. SubSeq(s, 1, 0) = <<>> /\ Len(<<>>) = 0 /\ 0 \in 0..N
    BY SubSeqEmpty
  <2>. QED BY <1>1, <2>1, FlatEmpty
<1>3. ASSUME NEW n \in 1..N PROVE g[n] = g[n - 1] + l[n]
  <2>. DEFINE u == SubSeq(s, 1, n - 1)  x == s[n]
  <2>1. n - 1 \in 0..(Len(s) - 1) /\ (n - 1) + 1 = n /\ n \in 0..N /\ n - 1 \in 0..N
    OBVIOUS
  <2>2. u \in Seq(Seq(X)) /\ x \in Seq(X) /\ SubSeq(s, 1, n) = Append(u, x)
    <3>1. /\ SubSeq(s, 1, n - 1) \in Seq(Seq(X)) /\ s[(n - 1) + 1] \in Seq(X)
          /\ SubSeq(s, 1, (n - 1) + 1) = Append(SubSeq(s, 1, n - 1), s[(n - 1) + 1])
      BY <2>1, NextBeginning
    <3>. QED BY <2>1, <3>1
  <2>3. g[n - 1] = Len(FlattenSeq(u)) /\ g[n] = Len(FlattenSeq(Append(u, x))) /\ l[n] = Len(x)
    BY <1>1, <2>1, <2>2
  <2>. HIDE DEF u, x
  <2>4. FlattenSeq(Append(u, x)) = FlattenSeq(u) \o x /\ FlattenSeq(u) \in Seq(X)
    BY <2>2, FlatAppend, FlatType
  <2>5. Len(FlattenSeq(u) \o x) = Len(FlattenSeq(u)) + Len(x)
    BY <2>2, <2>4, ConcatProperties
  <2>. QED BY <2>3, <2>4, <2>5
<1>4. Total(l) = g[N]
  <2>1. \A n \in 1..N : g[n] = g[n - 1] + l[n]
    BY <1>3
  <2>2. \A k \in Nat : \A j : Len(j) = k =>
          \A f : f[0] = 0 /\ (\A n \in 1..k : f[n] = f[n - 1] + j[n]) => Total(j) = f[k]
    BY TotalBy, SMTT(60)
  <2>3. \A f : f[0] = 0 /\ (\A n \in 1..N : f[n] = f[n - 1] + l[n]) => Total(l) = f[N]
    BY <2>2
  <2>. QED BY <1>2, <2>1, <2>3
<1>. DEFINE r == SubSeq(s, 1, N)
<1>5. r = s
  BY SubSeqFull
<1>6. g[N] = Len(FlattenSeq(r))
  BY <1>1
<1>. HIDE DEF r
<1>. QED BY <1>4, <1>5, <1>6
-----------------------------------------------------------------------------
(* Types, prefixes and numbers.                                             *)

LEMMA TypesAre ==
  /\ Len(Types) = 13 /\ DOMAIN Types = 1..13 /\ Base \in Nat /\ Base >= 13
  /\ \A i, j \in 1..13 : Types[i] = Types[j] => i = j
<1>1. Len(Types) = 13 /\ DOMAIN Types = 1..13
  BY DEF Types
<1>2. \A i, j \in 1..13 : Types[i] = Types[j] => i = j
  BY DEF Types
<1>. QED BY <1>1, <1>2, BaseAssumption

LEMMA TypeKinds ==
  /\ ToSet(Types) = Integral \cup Vectors \cup {"string", "strings", "node_item"}
<1>1. ToSet(Types) = {Types[i] : i \in 1..13}
  BY TypesAre DEF ToSet
<1>. QED BY <1>1 DEF Types, Integral, Vectors

(* A type is told by its prefix, which fits a byte.                         *)
LEMMA PrefixBack ==
  ASSUME NEW t \in ToSet(Types)
  PROVE  /\ Prefix(t) \in 0..12 /\ Prefix(t) \in Byte /\ Types[Prefix(t) + 1] = t
<1>1. \E i \in 1..13 : Types[i] = t
  BY TypesAre DEF ToSet
<1>2. \E j \in DOMAIN Types : Types[j] = t
  BY <1>1, TypesAre
<1>3. Prefix(t) + 1 \in 1..13 /\ Types[Prefix(t) + 1] = t /\ Prefix(t) \in Int
  <2>. DEFINE c == CHOOSE k \in DOMAIN Types : Types[k] = t
  <2>1. c \in 1..13 /\ Types[c] = t
    BY <1>2, TypesAre
  <2>2. Prefix(t) = c - 1
    BY DEF Prefix
  <2>. HIDE DEF c
  <2>3. (c - 1) + 1 = c /\ c - 1 \in Int
    BY <2>1
  <2>. QED BY <2>1, <2>2, <2>3
<1>4. Prefix(t) \in 0..12 /\ Prefix(t) \in Byte
  BY <1>3, TypesAre DEF Byte
<1>. QED BY <1>3, <1>4

LEMMA WidthType ==
  ASSUME NEW t \in Integral \cup Vectors \cup {"node_item"}
  PROVE  Width(t) \in {1, 4, 8}
BY DEF Width, Integral, Vectors

LEMMA LittleType ==
  ASSUME NEW n \in Nat, NEW w \in {2, 4}
  PROVE  Little(n, w) \in Seq(Byte) /\ Len(Little(n, w)) = w
<1>1. \A i \in 1..4 : Place[i] \in Nat /\ Place[i] > 0
  <2>1. Base \in Nat /\ Base > 0
    BY TypesAre
  <2>2. Base * Base \in Nat /\ Base * Base > 0
    BY <2>1
  <2>3. Base * Base * Base \in Nat /\ Base * Base * Base > 0
    BY <2>1, <2>2
  <2>. QED BY <2>1, <2>2, <2>3 DEF Place
<1>2. \A i \in 1..w : (n \div Place[i]) % Base \in Byte
  <2>. SUFFICES ASSUME NEW i \in 1..w PROVE (n \div Place[i]) % Base \in Byte
    OBVIOUS
  <2>. DEFINE d == Place[i]  q == n \div d
  <2>1. d \in Nat /\ d > 0
    BY <1>1
  <2>. HIDE DEF d
  <2>2. q \in Nat
    BY <2>1
  <2>. HIDE DEF q
  <2>3. q % Base \in 0..(Base - 1)
    BY <2>2, TypesAre
  <2>. QED BY <2>3 DEF Byte, q, d
<1>. QED BY <1>2 DEF Little

(* Two bytes keep a number that fits them.                                  *)
LEMMA LittleBack ==
  ASSUME NEW n \in Nat, n < Base * Base
  PROVE  Number16(Little(n, 2)) = n
<1>1. Little(n, 2)[1] = (n \div 1) % Base /\ Little(n, 2)[2] = (n \div Base) % Base
  BY DEF Little, Place
<1>2. n \div 1 = n
  OBVIOUS
<1>3. (n % Base) + Base * ((n \div Base) % Base) = n
  BY TypesAre
<1>. QED BY <1>1, <1>2, <1>3 DEF Number16
-----------------------------------------------------------------------------
(* What is written of an item, and how long it is.                          *)

(* A prefix and what follows it.                                            *)
LEMMA FieldsWhole ==
  ASSUME NEW it, it.type \in ToSet(Types), NEW b \in Seq(Seq(Byte)),
         Fields(it) = <<<<Prefix(it.type)>>>> \o b
  PROVE  /\ Fields(it) \in Seq(Seq(Byte)) /\ FlattenSeq(b) \in Seq(Byte)
         /\ FlattenSeq(Fields(it)) = <<Prefix(it.type)>> \o FlattenSeq(b)
         /\ Len(FlattenSeq(Fields(it))) = 1 + Len(FlattenSeq(b))
<1>. DEFINE h == <<Prefix(it.type)>>
<1>1. h \in Seq(Byte) /\ Len(h) = 1
  BY PrefixBack
<1>2. Fields(it) = <<h>> \o b
  OBVIOUS
<1>. HIDE DEF h
<1>3. <<h>> \in Seq(Seq(Byte)) /\ FlattenSeq(<<h>>) = h
  BY <1>1, FlatOne
<1>4. FlattenSeq(b) \in Seq(Byte)
  BY FlatType
<1>. DEFINE hh == <<h>>
<1>. HIDE DEF hh
<1>5. hh \in Seq(Seq(Byte)) /\ FlattenSeq(hh) = h /\ Fields(it) = hh \o b
  BY <1>2, <1>3 DEF hh
<1>6. FlattenSeq(hh \o b) = h \o FlattenSeq(b) /\ hh \o b \in Seq(Seq(Byte))
  BY <1>5, FlatConcat, ConcatProperties
<1>7. Len(h \o FlattenSeq(b)) = Len(h) + Len(FlattenSeq(b))
  BY <1>1, <1>4, ConcatProperties
<1>8. Fields(it) \in Seq(Seq(Byte)) /\ FlattenSeq(Fields(it)) = h \o FlattenSeq(b)
  BY <1>5, <1>6
<1>. QED BY <1>1, <1>4, <1>7, <1>8 DEF h

(* An integer is as long as compute_size_visitor says, a vector as well.    *)
LEMMA IntegersLong ==
  ASSUME NEW it, IsItem(it), it.type \in Integral \cup {"node_item"}
  PROVE  /\ Fields(it) \in Seq(Seq(Byte)) /\ it.val \in Seq(Byte)
         /\ FlattenSeq(Fields(it)) = <<Prefix(it.type)>> \o it.val
         /\ Len(it.val) = Width(it.type)
         /\ ItemSize(it) = 1 + Width(it.type)
         /\ Len(FlattenSeq(Fields(it))) = ItemSize(it) /\ ItemSize(it) \in Nat
<1>1. it.val \in Seq(Byte) /\ Len(it.val) = Width(it.type) /\ Width(it.type) \in Nat
  <2>1. CASE it.type = "bool"
    <3>1. it.val \in {<<0>>, <<1>>} /\ Width(it.type) = 1
      BY <2>1 DEF IsItem, Values, Width, Integral, Vectors
    <3>2. 0 \in Byte /\ 1 \in Byte
      BY TypesAre DEF Byte
    <3>3. \A x \in Byte : <<x>> \in Seq(Byte) /\ Len(<<x>>) = 1
      OBVIOUS
    <3>4. it.val = <<0>> \/ it.val = <<1>>
      BY <3>1
    <3>5. it.val \in Seq(Byte) /\ Len(it.val) = 1
      BY <3>2, <3>3, <3>4
    <3>. QED BY <3>1, <3>5
  <2>2. CASE it.type # "bool"
    <3>1. it.val \in [1..Width(it.type) -> Byte]
      BY <2>2 DEF IsItem, Values, Integral, Vectors
    <3>2. Width(it.type) \in Nat
      BY WidthType
    <3>. QED BY <3>1, <3>2
  <2>. QED BY <2>1, <2>2
<1>2. Fields(it) = <<<<Prefix(it.type)>>>> \o <<it.val>>
  BY DEF Fields, Integral, Vectors
<1>3. <<it.val>> \in Seq(Seq(Byte)) /\ FlattenSeq(<<it.val>>) = it.val
  BY <1>1, FlatOne
<1>4. it.type \in ToSet(Types)
  BY DEF IsItem
<1>5. ItemSize(it) = 1 + Width(it.type)
  BY DEF ItemSize, Integral, Vectors
<1>. DEFINE b == <<it.val>>
<1>6. b \in Seq(Seq(Byte)) /\ Fields(it) = <<<<Prefix(it.type)>>>> \o b /\ FlattenSeq(b) = it.val
  BY <1>2, <1>3
<1>. HIDE DEF b
<1>7. /\ Fields(it) \in Seq(Seq(Byte))
      /\ FlattenSeq(Fields(it)) = <<Prefix(it.type)>> \o FlattenSeq(b)
      /\ Len(FlattenSeq(Fields(it))) = 1 + Len(FlattenSeq(b))
  BY <1>4, <1>6, FieldsWhole
<1>. DEFINE v == it.val
<1>8. v \in Seq(Byte) /\ Len(v) = Width(it.type) /\ Width(it.type) \in Nat /\ FlattenSeq(b) = v
  BY <1>1, <1>6
<1>. HIDE DEF v
<1>9. Len(FlattenSeq(Fields(it))) = ItemSize(it) /\ ItemSize(it) \in Nat
  BY <1>5, <1>7, <1>8
<1>10. FlattenSeq(Fields(it)) = <<Prefix(it.type)>> \o v
  BY <1>7, <1>8
<1>. QED BY <1>5, <1>7, <1>8, <1>9, <1>10 DEF v

LEMMA StringsLong ==
  ASSUME NEW it, IsItem(it), it.type = "string"
  PROVE  /\ Fields(it) \in Seq(Seq(Byte)) /\ it.val \in Seq(Byte)
         /\ FlattenSeq(Fields(it)) = <<Prefix(it.type)>> \o (Little(Len(it.val), 2) \o it.val)
         /\ ItemSize(it) = 3 + Len(it.val)
         /\ Len(FlattenSeq(Fields(it))) = ItemSize(it) /\ ItemSize(it) \in Nat
<1>. DEFINE v == it.val  l == Little(Len(v), 2)  b == <<l, v>>  f == FlattenSeq(Fields(it))
<1>1. v \in Seq(Byte) /\ Len(v) \in Nat
  BY DEF IsItem, Values, Integral, Vectors
<1>2. Fields(it) = <<<<Prefix(it.type)>>>> \o b
  BY DEF Fields, Integral, Vectors
<1>3. l \in Seq(Byte) /\ Len(l) = 2
  BY <1>1, LittleType
<1>4. it.type \in ToSet(Types)
  BY DEF IsItem
<1>5. ItemSize(it) = 3 + Len(v)
  BY <1>1 DEF ItemSize, Integral, Vectors
<1>. HIDE DEF l, v
<1>6. b \in Seq(Seq(Byte)) /\ FlattenSeq(b) = l \o v
  <2>1. <<l, v>> \in Seq(Seq(Byte))
    BY <1>1, <1>3
  <2>2. FlattenSeq(<<l, v>>) = l \o v
    BY <1>1, <1>3, FlatTwo
  <2>. QED BY <2>1, <2>2
<1>. HIDE DEF b
<1>7. /\ Fields(it) \in Seq(Seq(Byte)) /\ f = <<Prefix(it.type)>> \o FlattenSeq(b)
      /\ Len(f) = 1 + Len(FlattenSeq(b))
  BY <1>2, <1>4, <1>6, FieldsWhole
<1>. HIDE DEF f
<1>8. Len(l \o v) = 2 + Len(v)
  <2>1. Len(l \o v) = Len(l) + Len(v)
    BY <1>1, <1>3, ConcatProperties
  <2>. QED BY <1>3, <2>1
<1>9. Len(f) = ItemSize(it) /\ ItemSize(it) \in Nat
  BY <1>1, <1>5, <1>6, <1>7, <1>8
<1>10. f = <<Prefix(it.type)>> \o (l \o v)
  BY <1>6, <1>7
<1>. QED BY <1>1, <1>5, <1>7, <1>9, <1>10 DEF f, l, v

LEMMA TimesTotal ==
  ASSUME NEW N \in Nat, NEW w \in {1, 4, 8}, NEW l, Len(l) = N, \A n \in 1..N : l[n] = w
  PROVE  Total(l) = w * N
<1>. DEFINE g == [n \in 0..N |-> w * n]
<1>1. g[0] = 0 /\ g[N] = w * N
  <2>1. w * 0 = 0
    OBVIOUS
  <2>. QED BY <2>1
<1>2. \A n \in 1..N : g[n] = g[n - 1] + l[n]
  <2>. SUFFICES ASSUME NEW n \in 1..N PROVE g[n] = g[n - 1] + l[n]
    OBVIOUS
  <2>1. n \in 0..N /\ n - 1 \in 0..N /\ l[n] = w
    OBVIOUS
  <2>2. g[n] = w * n /\ g[n - 1] = w * (n - 1)
    BY <2>1
  <2>. HIDE DEF g
  <2>3. w * n = w * (n - 1) + w
    <3>1. CASE w = 1
      BY <3>1
    <3>2. CASE w = 4
      BY <3>2
    <3>3. CASE w = 8
      BY <3>3
    <3>. QED BY <3>1, <3>2, <3>3
  <2>. QED BY <2>1, <2>2, <2>3
<1>. HIDE DEF g
<1>3. Total(l) = g[N]
  BY <1>1, <1>2, TotalBy
<1>. QED BY <1>1, <1>3

LEMMA VectorsLong ==
  ASSUME NEW it, IsItem(it), it.type \in Vectors
  PROVE  /\ Fields(it) \in Seq(Seq(Byte))
         /\ Len(FlattenSeq(Fields(it))) = ItemSize(it) /\ ItemSize(it) \in Nat
<1>. DEFINE w == Width(it.type)  N == Len(it.val)  v == it.val  l == Little(Len(it.val), 4)
            ll == <<l>>
<1>1. w \in {1, 4, 8}
  BY WidthType
<1>2. v \in Seq([1..w -> Byte])
  BY DEF IsItem, Values, Integral, Vectors
<1>3. Fields(it) = <<<<Prefix(it.type)>>>> \o (ll \o v)
  BY DEF Fields, Integral, Vectors
<1>4. ItemSize(it) = 1 + 4 + w * N
  BY DEF ItemSize, Integral, Vectors
<1>5. it.type \in ToSet(Types)
  BY DEF IsItem
<1>6. N \in Nat /\ \A i \in 1..N : v[i] \in Seq(Byte) /\ Len(v[i]) = w
  <2>1. N \in Nat /\ \A i \in 1..N : v[i] \in [1..w -> Byte]
    BY <1>2, LenProperties, ElementOfSeq
  <2>2. \A x \in [1..w -> Byte] : x \in Seq(Byte) /\ Len(x) = w
    BY <1>1
  <2>. QED BY <2>1, <2>2
<1>7. v \in Seq(Seq(Byte)) /\ Len(v) = N
  <2>1. DOMAIN v = 1..N /\ v \in [1..N -> [1..w -> Byte]]
    BY <1>2, LenProperties
  <2>2. v \in [1..N -> Seq(Byte)]
    BY <1>6, <2>1
  <2>. QED BY <1>6, <2>2
<1>8. l \in Seq(Byte) /\ Len(l) = 4
  BY <1>6, LittleType
<1>. HIDE DEF w, N, v, l
<1>9. Len(FlattenSeq(v)) = w * N /\ w * N \in Nat
  <2>. DEFINE k == [n \in 1..N |-> w]
  <2>1. Len(k) = N /\ \A n \in 1..N : k[n] = w
    BY <1>6
  <2>2. \A n \in 1..N : k[n] = Len(v[n])
    BY <1>6, <2>1
  <2>. HIDE DEF k
  <2>3. Len(FlattenSeq(v)) = Total(k)
    BY <1>6, <1>7, <2>1, <2>2, FlatLen
  <2>4. Total(k) = w * N
    BY <1>1, <1>6, <2>1, TimesTotal
  <2>. QED BY <1>1, <1>6, <2>3, <2>4
<1>10. ll \in Seq(Seq(Byte)) /\ FlattenSeq(ll) = l
  BY <1>8, FlatOne
<1>. HIDE DEF ll
<1>11. ll \o v \in Seq(Seq(Byte)) /\ FlattenSeq(ll \o v) = l \o FlattenSeq(v)
  BY <1>7, <1>10, ConcatProperties, FlatConcat
<1>12. Len(l \o FlattenSeq(v)) = 4 + w * N
  <2>1. FlattenSeq(v) \in Seq(Byte)
    BY <1>7, FlatType
  <2>2. Len(l \o FlattenSeq(v)) = Len(l) + Len(FlattenSeq(v))
    BY <1>8, <2>1, ConcatProperties
  <2>. QED BY <1>8, <1>9, <2>2
<1>13. /\ Fields(it) \in Seq(Seq(Byte))
       /\ Len(FlattenSeq(Fields(it))) = 1 + Len(FlattenSeq(ll \o v))
  BY <1>3, <1>5, <1>11, FieldsWhole
<1>. QED BY <1>4, <1>9, <1>11, <1>12, <1>13

(* A vector of strings is longer by the count of its strings.               *)
LEMMA ListsLong ==
  ASSUME NEW it, IsItem(it), it.type = "strings"
  PROVE  /\ Fields(it) \in Seq(Seq(Byte))
         /\ Len(FlattenSeq(Fields(it))) = ItemSize(it) + 4 /\ ItemSize(it) \in Nat
<1>. DEFINE v == it.val  N == Len(v)  l == Little(N, 4)  ll == <<l>>
            f == [i \in DOMAIN v |-> <<Little(Len(v[i]), 2), v[i]>>]
            c == [i \in 1..N |-> FlattenSeq(f[i])]
            k == [i \in DOMAIN v |-> 2 + Len(v[i])]
<1>1. v \in Seq(Seq(Byte))
  BY DEF IsItem, Values, Integral, Vectors
<1>2. Fields(it) = <<<<Prefix(it.type)>>>> \o (ll \o FlattenSeq(f))
  BY DEF Fields, Integral, Vectors
<1>3. ItemSize(it) = 1 + Total(k)
  BY DEF ItemSize, Integral, Vectors
<1>4. it.type \in ToSet(Types)
  BY DEF IsItem
<1>. HIDE DEF v
<1>5. N \in Nat /\ DOMAIN v = 1..N /\ \A i \in 1..N : v[i] \in Seq(Byte) /\ Len(v[i]) \in Nat
  BY <1>1, LenProperties, ElementOfSeq
<1>6. l \in Seq(Byte) /\ Len(l) = 4
  BY <1>5, LittleType
<1>. HIDE DEF N, l
<1>7. ll \in Seq(Seq(Byte)) /\ FlattenSeq(ll) = l
  BY <1>6, FlatOne
<1>. HIDE DEF ll
<1>8. ASSUME NEW i \in 1..N
      PROVE  /\ f[i] \in Seq(Seq(Byte)) /\ FlattenSeq(f[i]) \in Seq(Byte)
             /\ Len(FlattenSeq(f[i])) = k[i] /\ k[i] \in Nat
  <2>. DEFINE a == Little(Len(v[i]), 2)  b == v[i]
  <2>1. f[i] = <<a, b>> /\ k[i] = 2 + Len(b)
    BY <1>5
  <2>2. a \in Seq(Byte) /\ Len(a) = 2 /\ b \in Seq(Byte) /\ Len(b) \in Nat
    BY <1>5, LittleType
  <2>. HIDE DEF a, b, f, k
  <2>3. <<a, b>> \in Seq(Seq(Byte))
    BY <2>2
  <2>4. FlattenSeq(<<a, b>>) = a \o b
    BY <2>2, FlatTwo
  <2>5. a \o b \in Seq(Byte) /\ Len(a \o b) = Len(a) + Len(b)
    BY <2>2, ConcatProperties
  <2>6. Len(a) + Len(b) = k[i] /\ k[i] \in Nat
    BY <2>1, <2>2
  <2>7. f[i] \in Seq(Seq(Byte)) /\ FlattenSeq(f[i]) = a \o b
    BY <2>1, <2>3, <2>4
  <2>. QED BY <2>5, <2>6, <2>7
<1>9. f = [i \in 1..N |-> f[i]] /\ k = [i \in 1..N |-> k[i]]
  BY <1>5
<1>10. f \in Seq(Seq(Seq(Byte))) /\ Len(k) = N
  <2>. HIDE DEF f, k
  <2>1. \A i \in 1..N : f[i] \in Seq(Seq(Byte))
    BY <1>8
  <2>2. f \in [1..N -> Seq(Seq(Byte))]
    BY <1>9, <2>1
  <2>3. f \in Seq(Seq(Seq(Byte)))
    BY <1>5, <2>2
  <2>4. Len(k) = N
    BY <1>5, <1>9
  <2>. QED BY <2>3, <2>4
<1>. HIDE DEF f, k
<1>11. c \in Seq(Seq(Byte)) /\ Len(c) = N
  <2>1. \A i \in 1..N : FlattenSeq(f[i]) \in Seq(Byte)
    BY <1>8
  <2>. QED BY <1>5, <2>1
<1>12. \A i \in 1..N : k[i] = Len(c[i])
  BY <1>8
<1>13. FlattenSeq(FlattenSeq(f)) = FlattenSeq(c)
  <2>1. \A i \in 1..N : c[i] = FlattenSeq(f[i])
    OBVIOUS
  <2>2. Len(f) = N
    BY <1>5, <1>9
  <2>. HIDE DEF c
  <2>. QED BY <1>5, <1>10, <1>11, <2>1, <2>2, FlatFlat, ZenonT(60)
<1>. HIDE DEF c
<1>14. Len(FlattenSeq(c)) = Total(k)
  <2>1. \A M \in Nat : \A s \in Seq(Seq(Byte)) : Len(s) = M =>
          \A j : Len(j) = M /\ (\A n \in 1..M : j[n] = Len(s[n])) => Len(FlattenSeq(s)) = Total(j)
    BY FlatLen
  <2>2. \A j : Len(j) = N /\ (\A n \in 1..N : j[n] = Len(c[n])) => Len(FlattenSeq(c)) = Total(j)
    BY <1>5, <1>11, <2>1
  <2>. QED BY <1>10, <1>12, <2>2
<1>15. Total(k) \in Nat
  <2>1. \A i \in 1..N : k[i] \in Nat
    BY <1>8
  <2>2. PICK g : Total(k) = g[N] /\ \A n \in 0..N : g[n] \in Nat
    BY <1>5, <1>10, <2>1, TotalHas
  <2>. QED BY <1>5, <2>2
<1>. DEFINE ff == FlattenSeq(f)
<1>16. ff \in Seq(Seq(Byte)) /\ FlattenSeq(ff) = FlattenSeq(c)
  BY <1>10, <1>13, FlatType
<1>17. Fields(it) = <<<<Prefix(it.type)>>>> \o (ll \o ff)
  BY <1>2
<1>. HIDE DEF ff
<1>18. ll \o ff \in Seq(Seq(Byte)) /\ FlattenSeq(ll \o ff) = l \o FlattenSeq(ff)
  BY <1>7, <1>16, ConcatProperties, FlatConcat
<1>19. Len(l \o FlattenSeq(ff)) = 4 + Total(k)
  <2>1. FlattenSeq(ff) \in Seq(Byte)
    BY <1>16, FlatType
  <2>2. Len(l \o FlattenSeq(ff)) = Len(l) + Len(FlattenSeq(ff))
    BY <1>6, <2>1, ConcatProperties
  <2>. QED BY <1>6, <1>14, <1>16, <2>2
<1>20. /\ Fields(it) \in Seq(Seq(Byte))
       /\ Len(FlattenSeq(Fields(it))) = 1 + Len(FlattenSeq(ll \o ff))
  BY <1>4, <1>17, <1>18, FieldsWhole
<1>. QED BY <1>3, <1>15, <1>18, <1>19, <1>20

(* What size leaves out of an item.                                         *)
Uncounted(it) == IF it.type = "strings" THEN 4 ELSE 0

(* How long an item of any type is.                                         *)
LEMMA ItemLong ==
  ASSUME NEW it, IsItem(it)
  PROVE  /\ Fields(it) \in Seq(Seq(Byte)) /\ FlattenSeq(Fields(it)) \in Seq(Byte)
         /\ Len(FlattenSeq(Fields(it))) = ItemSize(it) + Uncounted(it) /\ ItemSize(it) \in Nat
<1>. DEFINE t == it.type
<1>1. t \in Integral \cup Vectors \cup {"string", "strings", "node_item"}
  BY TypeKinds DEF IsItem
<1>2. "strings" \notin Integral \cup Vectors \cup {"string", "node_item"}
  BY DEF Integral, Vectors
<1>3. /\ Fields(it) \in Seq(Seq(Byte))
      /\ Len(FlattenSeq(Fields(it))) = ItemSize(it) + Uncounted(it) /\ ItemSize(it) \in Nat
  <2>1. CASE t = "strings"
    BY <2>1, ListsLong DEF Uncounted
  <2>2. CASE t # "strings"
    <3>1. Uncounted(it) = 0
      BY <2>2 DEF Uncounted
    <3>2. /\ Fields(it) \in Seq(Seq(Byte))
          /\ Len(FlattenSeq(Fields(it))) = ItemSize(it) /\ ItemSize(it) \in Nat
      <4>1. CASE t \in Integral \cup {"node_item"}
        BY <4>1, IntegersLong
      <4>2. CASE t \in Vectors
        BY <4>2, VectorsLong
      <4>3. CASE t = "string"
        BY <4>3, StringsLong
      <4>. QED BY <1>1, <2>2, <4>1, <4>2, <4>3
    <3>. QED BY <3>1, <3>2
  <2>. QED BY <2>1, <2>2
<1>4. FlattenSeq(Fields(it)) \in Seq(Byte)
  BY <1>3, FlatType
<1>. QED BY <1>3, <1>4
-----------------------------------------------------------------------------
(* What is written of a payload, and how long it is.                        *)

Chunks(q) == [i \in DOMAIN q |-> FlattenSeq(Fields(q[i]))]

(* The items of a payload, each run together.                               *)
LEMMA ChunksAre ==
  ASSUME NEW Q, \A it \in Q : IsItem(it), NEW q \in Seq(Q)
  PROVE  /\ Len(q) \in Nat /\ DOMAIN q = 1..Len(q) /\ \A i \in 1..Len(q) : IsItem(q[i])
         /\ Chunks(q) \in Seq(Seq(Byte)) /\ Len(Chunks(q)) = Len(q)
         /\ \A i \in 1..Len(q) : Chunks(q)[i] = FlattenSeq(Fields(q[i]))
<1>. DEFINE N == Len(q)  c == Chunks(q)
<1>1. N \in Nat /\ DOMAIN q = 1..N /\ \A i \in 1..N : IsItem(q[i])
  BY LenProperties, ElementOfSeq
<1>2. c = [i \in 1..N |-> FlattenSeq(Fields(q[i]))]
  BY <1>1 DEF Chunks
<1>. HIDE DEF N, c
<1>3. \A i \in 1..N : FlattenSeq(Fields(q[i])) \in Seq(Byte)
  BY <1>1, ItemLong
<1>4. c \in Seq(Seq(Byte)) /\ Len(c) = N
  BY <1>1, <1>2, <1>3
<1>5. \A i \in 1..N : c[i] = FlattenSeq(Fields(q[i]))
  BY <1>2
<1>. QED BY <1>1, <1>4, <1>5 DEF N, c

(* A message is the count and the items, one after another.                 *)
LEMMA WritesFlat ==
  ASSUME NEW Q, \A it \in Q : IsItem(it), NEW q \in Seq(Q)
  PROVE  /\ Writes(q) \in Seq(Seq(Byte))
         /\ FlattenSeq(Writes(q)) = Little(Len(q), 2) \o FlattenSeq(Chunks(q))
<1>. DEFINE N == Len(q)  c == Chunks(q)  l == Little(N, 2)  ll == <<l>>
            f == [i \in DOMAIN q |-> Fields(q[i])]
<1>1. N \in Nat /\ DOMAIN q = 1..N /\ \A i \in 1..N : IsItem(q[i])
  BY ChunksAre
<1>2. c \in Seq(Seq(Byte)) /\ Len(c) = N /\ \A i \in 1..N : c[i] = FlattenSeq(Fields(q[i]))
  BY ChunksAre
<1>3. Writes(q) = ll \o FlattenSeq(f)
  BY DEF Writes
<1>4. l \in Seq(Byte)
  BY <1>1, LittleType
<1>. HIDE DEF N, c, l
<1>5. ll \in Seq(Seq(Byte)) /\ FlattenSeq(ll) = l
  BY <1>4, FlatOne
<1>. HIDE DEF ll
<1>6. f = [i \in 1..N |-> Fields(q[i])] /\ \A i \in 1..N : f[i] = Fields(q[i])
  BY <1>1
<1>7. f \in Seq(Seq(Seq(Byte))) /\ Len(f) = N
  <2>. HIDE DEF f
  <2>1. \A i \in 1..N : Fields(q[i]) \in Seq(Seq(Byte))
    BY <1>1, ItemLong
  <2>2. f \in [1..N -> Seq(Seq(Byte))]
    BY <1>6, <2>1
  <2>3. f \in Seq(Seq(Seq(Byte)))
    BY <1>1, <2>2
  <2>4. Len(f) = N
    BY <1>1, <1>6
  <2>. QED BY <2>3, <2>4
<1>. HIDE DEF f
<1>8. FlattenSeq(FlattenSeq(f)) = FlattenSeq(c)
  <2>1. \A i \in 1..N : c[i] = FlattenSeq(f[i])
    BY <1>2, <1>6
  <2>. QED BY <1>1, <1>2, <1>7, <2>1, FlatFlat, ZenonT(60)
<1>. DEFINE ff == FlattenSeq(f)
<1>9. ff \in Seq(Seq(Byte)) /\ FlattenSeq(ff) = FlattenSeq(c) /\ Writes(q) = ll \o ff
  BY <1>3, <1>7, <1>8, FlatType
<1>. HIDE DEF ff
<1>10. ll \o ff \in Seq(Seq(Byte)) /\ FlattenSeq(ll \o ff) = l \o FlattenSeq(ff)
  BY <1>5, <1>9, ConcatProperties, FlatConcat
<1>11. Writes(q) \in Seq(Seq(Byte)) /\ FlattenSeq(Writes(q)) = l \o FlattenSeq(c)
  BY <1>9, <1>10
<1>. QED BY <1>11 DEF l, c, N

Lists(q) == {i \in DOMAIN q : q[i].type = "strings"}

(* What size leaves out of it.                                              *)
LEMMA WritesLong ==
  ASSUME NEW Q, \A it \in Q : IsItem(it), NEW q \in Seq(Q)
  PROVE  /\ Size(q) \in Nat /\ Cardinality(Lists(q)) \in Nat
         /\ Len(FlattenSeq(Writes(q))) = Size(q) + 2 + 4 * Cardinality(Lists(q))
<1>. DEFINE N == Len(q)  c == Chunks(q)  l == Little(N, 2)
            s == [i \in DOMAIN q |-> ItemSize(q[i])]
            k == [i \in DOMAIN q |-> ItemSize(q[i]) + Uncounted(q[i])]
            L(n) == {i \in 1..n : q[i].type = "strings"}
<1>1. N \in Nat /\ DOMAIN q = 1..N /\ \A i \in 1..N : IsItem(q[i])
  BY ChunksAre
<1>2. c \in Seq(Seq(Byte)) /\ Len(c) = N /\ \A i \in 1..N : c[i] = FlattenSeq(Fields(q[i]))
  BY ChunksAre
<1>3. Size(q) = Total(s)
  BY DEF Size
<1>4. FlattenSeq(Writes(q)) = l \o FlattenSeq(c)
  BY WritesFlat
<1>5. l \in Seq(Byte) /\ Len(l) = 2
  BY <1>1, LittleType
<1>6. Lists(q) = L(N)
  BY <1>1 DEF Lists
<1>. HIDE DEF N, c, l
<1>7. Len(s) = N /\ Len(k) = N
      /\ \A i \in 1..N : s[i] = ItemSize(q[i]) /\ k[i] = ItemSize(q[i]) + Uncounted(q[i])
  BY <1>1
<1>. HIDE DEF s, k
<1>8. \A i \in 1..N : s[i] \in Nat /\ k[i] = Len(c[i]) /\ k[i] = s[i] + Uncounted(q[i])
  <2>1. \A i \in 1..N : /\ Len(FlattenSeq(Fields(q[i]))) = ItemSize(q[i]) + Uncounted(q[i])
                        /\ ItemSize(q[i]) \in Nat
    BY <1>1, ItemLong
  <2>. QED BY <1>2, <1>7, <2>1
<1>9. Len(FlattenSeq(c)) = Total(k)
  <2>1. \A i \in 1..N : k[i] = Len(c[i])
    BY <1>8
  <2>. QED BY <1>1, <1>2, <1>7, <2>1, FlatLen
<1>10. PICK h : /\ h[0] = 0 /\ \A n \in 1..N : h[n] = h[n - 1] + s[n]
                /\ \A n \in 0..N : h[n] \in Nat
                /\ Total(s) = h[N]
  <2>1. \A n \in 1..N : s[n] \in Nat
    BY <1>8
  <2>. QED BY <1>1, <1>7, <2>1, TotalHas
<1>11. \A n \in 0..N : IsFiniteSet(L(n)) /\ Cardinality(L(n)) \in Nat
  <2>. SUFFICES ASSUME NEW n \in 0..N PROVE IsFiniteSet(L(n)) /\ Cardinality(L(n)) \in Nat
    OBVIOUS
  <2>0. 1 \in Int /\ n \in Int
    BY <1>1
  <2>1. IsFiniteSet(1..n) /\ L(n) \subseteq 1..n
    BY <2>0, FS_Interval
  <2>2. IsFiniteSet(L(n))
    BY <2>1, FS_Subset
  <2>. QED BY <2>2, FS_CardinalityType
<1>. DEFINE g == [n \in 0..N |-> h[n] + 4 * Cardinality(L(n))]
<1>12. \A n \in 0..N : g[n] = h[n] + 4 * Cardinality(L(n))
  OBVIOUS
<1>13. g[0] = 0
  <2>1. L(0) = {} /\ 0 \in 0..N
    BY <1>1
  <2>2. Cardinality(L(0)) = 0
    BY <2>1, FS_EmptySet
  <2>. QED BY <1>10, <1>12, <2>1, <2>2
<1>. HIDE DEF g
<1>14. ASSUME NEW n \in 1..N PROVE g[n] = g[n - 1] + k[n]
  <2>0. n \in 0..N /\ n - 1 \in 0..N
    BY <1>1
  <2>1. n \in 0..N /\ n - 1 \in 0..N /\ h[n] = h[n - 1] + s[n] /\ k[n] = s[n] + Uncounted(q[n])
    BY <1>8, <1>10, <2>0
  <2>2. 4 * Cardinality(L(n)) = 4 * Cardinality(L(n - 1)) + Uncounted(q[n])
    <3>1. CASE q[n].type = "strings"
      <4>1. L(n) = L(n - 1) \cup {n} /\ n \notin L(n - 1)
        BY <3>1
      <4>2. IsFiniteSet(L(n - 1)) /\ Cardinality(L(n - 1)) \in Nat
        BY <1>11, <2>1
      <4>3. Uncounted(q[n]) = 4
        BY <3>1 DEF Uncounted
      <4>. HIDE DEF L
      <4>4. Cardinality(L(n)) = Cardinality(L(n - 1)) + 1
        BY <4>1, <4>2, FS_AddElement
      <4>. QED BY <4>2, <4>3, <4>4
    <3>2. CASE q[n].type # "strings"
      <4>1. L(n) = L(n - 1)
        BY <3>2
      <4>2. Cardinality(L(n - 1)) \in Nat
        BY <1>11, <2>1
      <4>3. Uncounted(q[n]) = 0
        BY <3>2 DEF Uncounted
      <4>. HIDE DEF L
      <4>. QED BY <4>1, <4>2, <4>3
    <3>. QED BY <3>1, <3>2
  <2>3. /\ h[n - 1] \in Nat /\ s[n] \in Nat /\ Uncounted(q[n]) \in Nat
        /\ Cardinality(L(n - 1)) \in Nat /\ Cardinality(L(n)) \in Nat
    BY <1>8, <1>10, <1>11, <2>1 DEF Uncounted
  <2>4. g[n] = h[n] + 4 * Cardinality(L(n)) /\ g[n - 1] = h[n - 1] + 4 * Cardinality(L(n - 1))
    BY <1>12, <2>1
  <2>. HIDE DEF L
  <2>. QED BY <2>1, <2>2, <2>3, <2>4
<1>15. Total(k) = g[N]
  <2>1. \A n \in 1..N : g[n] = g[n - 1] + k[n]
    BY <1>14
  <2>. QED BY <1>1, <1>7, <1>13, <2>1, TotalBy
<1>16. g[N] = h[N] + 4 * Cardinality(L(N)) /\ h[N] \in Nat /\ Cardinality(L(N)) \in Nat
  <2>. HIDE DEF L
  <2>1. N \in 0..N
    BY <1>1
  <2>2. h[N] \in Nat
    BY <1>10, <2>1
  <2>3. Cardinality(L(N)) \in Nat
    BY <1>11, <2>1
  <2>. QED BY <1>12, <2>1, <2>2, <2>3
<1>17. Len(l \o FlattenSeq(c)) = 2 + Total(k)
  <2>1. FlattenSeq(c) \in Seq(Byte)
    BY <1>2, FlatType
  <2>2. Len(l \o FlattenSeq(c)) = Len(l) + Len(FlattenSeq(c))
    BY <1>5, <2>1, ConcatProperties
  <2>. QED BY <1>5, <1>9, <2>2
<1>. HIDE DEF L
<1>18. 2 + Total(k) = Size(q) + 2 + 4 * Cardinality(L(N))
  BY <1>3, <1>10, <1>15, <1>16
<1>. QED BY <1>3, <1>4, <1>6, <1>10, <1>16, <1>17, <1>18
-----------------------------------------------------------------------------
(* What was written is read, and what broke off is not.                     *)

(* The two parts of a sequence are found again by their lengths.            *)
LEMMA Parts ==
  ASSUME NEW X, NEW a \in Seq(X), NEW b \in Seq(X)
  PROVE  /\ a \o b \in Seq(X) /\ Len(a \o b) = Len(a) + Len(b)
         /\ Len(a) \in Nat /\ Len(b) \in Nat
         /\ SubSeq(a \o b, 1, Len(a)) = a
         /\ SubSeq(a \o b, Len(a) + 1, Len(a \o b)) = b
<1>. DEFINE s == a \o b  m == Len(a)  n == Len(b)
            u == SubSeq(s, 1, m)  v == SubSeq(s, m + 1, m + n)
<1>1. m \in Nat /\ n \in Nat
  BY LenProperties
<1>2. s \in Seq(X) /\ Len(s) = m + n
      /\ \A i \in 1..(m + n) : s[i] = IF i <= m THEN a[i] ELSE b[i - m]
  BY ConcatProperties
<1>3. \A i \in 1..(m + n) : s[i] \in X
  BY <1>2, ElementOfSeq
<1>. HIDE DEF s, m, n
<1>4. u \in Seq(X) /\ Len(u) = m /\ \A i \in 1..m : u[i] = s[i]
  <2>1. 1 \in Int /\ m \in Int /\ (\A i \in 1..m : s[i] \in X) /\ (m - 1) + 1 = m
    BY <1>1, <1>3
  <2>2. /\ u \in Seq(X) /\ Len(u) = (IF 1 <= m THEN (m - 1) + 1 ELSE 0)
        /\ \A i \in 1..((m - 1) + 1) : u[i] = s[(1 + i) - 1]
    BY <2>1, SubSeqProperties
  <2>3. \A i \in 1..m : (1 + i) - 1 = i
    BY <1>1
  <2>. HIDE DEF u
  <2>. QED BY <1>1, <2>1, <2>2, <2>3
<1>5. v \in Seq(X) /\ Len(v) = n /\ \A i \in 1..n : v[i] = s[m + i]
  <2>1. m + 1 \in Int /\ m + n \in Int /\ (\A i \in (m + 1)..(m + n) : s[i] \in X)
        /\ ((m + n) - (m + 1)) + 1 = n
    BY <1>1, <1>3
  <2>2. /\ v \in Seq(X) /\ Len(v) = (IF m + 1 <= m + n THEN ((m + n) - (m + 1)) + 1 ELSE 0)
        /\ \A i \in 1..(((m + n) - (m + 1)) + 1) : v[i] = s[((m + 1) + i) - 1]
    BY <2>1, SubSeqProperties
  <2>3. \A i \in 1..n : ((m + 1) + i) - 1 = m + i
    BY <1>1
  <2>. HIDE DEF v
  <2>4. Len(v) = n
    BY <1>1, <2>1, <2>2
  <2>5. \A i \in 1..n : v[i] = s[m + i]
    BY <2>1, <2>2, <2>3
  <2>. QED BY <2>2, <2>4, <2>5
<1>. HIDE DEF u, v
<1>6. \A i \in 1..m : u[i] = a[i]
  BY <1>1, <1>2, <1>4
<1>7. \A i \in 1..n : v[i] = b[i]
  <2>. SUFFICES ASSUME NEW i \in 1..n PROVE v[i] = b[i]
    OBVIOUS
  <2>1. m + i \in 1..(m + n) /\ ~(m + i <= m) /\ (m + i) - m = i
    BY <1>1
  <2>2. s[m + i] = b[i]
    BY <1>2, <2>1
  <2>. QED BY <1>5, <2>2
<1>8. u = a
  BY <1>4, <1>6, SeqEqual DEF m
<1>9. v = b
  BY <1>5, <1>7, SeqEqual DEF n
<1>. QED BY <1>1, <1>2, <1>8, <1>9 DEF s, m, n, u, v

LEMMA HeadPart ==
  ASSUME NEW X, NEW x \in X, NEW b \in Seq(X)
  PROVE  /\ <<x>> \o b \in Seq(X) /\ <<x>> \o b # <<>>
         /\ Head(<<x>> \o b) = x /\ Tail(<<x>> \o b) = b
<1>. DEFINE a == <<x>>  s == a \o b
<1>1. a \in Seq(X) /\ Len(a) = 1 /\ a[1] = x
  OBVIOUS
<1>. HIDE DEF a
<1>2. s \in Seq(X) /\ Len(s) = 1 + Len(b) /\ Len(b) \in Nat /\ SubSeq(s, 2, Len(s)) = b
  <2>1. /\ s \in Seq(X) /\ Len(s) = Len(a) + Len(b) /\ Len(b) \in Nat
        /\ SubSeq(s, Len(a) + 1, Len(s)) = b
    <3>1. a \in Seq(X)
      BY <1>1
    <3>. QED BY <3>1, Parts
  <2>2. Len(a) + 1 = 2
    BY <1>1
  <2>. HIDE DEF s
  <2>. QED BY <1>1, <2>1, <2>2
<1>3. s[1] = x
  <2>1. 1 \in 1..(Len(a) + Len(b)) /\ 1 <= Len(a)
    BY <1>1, <1>2
  <2>. QED BY <1>1, <2>1, ConcatProperties
<1>. HIDE DEF s
<1>4. s # <<>>
  <2>1. Len(s) # 0
    BY <1>2
  <2>. QED BY <2>1
<1>5. Head(s) = x
  BY <1>2, <1>3, <1>4
<1>6. Tail(s) = b
  BY <1>2, <1>4, TailIsSubSeq
<1>. QED BY <1>2, <1>4, <1>5, <1>6 DEF s, a

LEMMA ReadableTypes ==
  ASSUME NEW t \in ToSet(Types), t # "node_item"
  PROVE  Prefix(t) \in Readable /\ Types[Prefix(t) + 1] = t /\ Prefix(t) \in Byte
BY PrefixBack DEF Readable

(* An integer that was written is read, whatever follows it.                *)
LEMMA IntegralWhole ==
  ASSUME NEW it, IsItem(it), it.type \in Integral, NEW r \in Seq(Byte)
  PROVE  ReadIntegral(it.type, it.val \o r) = Value(it.val, r)
<1>. DEFINE v == it.val  t == it.type  w == Width(t)  s == v \o r
<1>1. v \in Seq(Byte) /\ Len(v) = w /\ w \in Nat
  <2>1. w \in {1, 4, 8}
    BY WidthType
  <2>2. v \in Seq(Byte) /\ Len(v) = w
    BY IntegersLong
  <2>. QED BY <2>1, <2>2
<1>2. t = "bool" => v \in {<<0>>, <<1>>} /\ w = 1
  BY DEF IsItem, Values, Width, Integral, Vectors
<1>. HIDE DEF v, w
<1>3. /\ s \in Seq(Byte) /\ Len(s) = w + Len(r) /\ Len(r) \in Nat
      /\ First(s, w) = v /\ After(s, w) = r
  <2>1. /\ s \in Seq(Byte) /\ Len(s) = Len(v) + Len(r) /\ Len(r) \in Nat
        /\ SubSeq(s, 1, Len(v)) = v /\ SubSeq(s, Len(v) + 1, Len(s)) = r
    <3>1. v \in Seq(Byte)
      BY <1>1
    <3>. QED BY <3>1, Parts
  <2>. HIDE DEF s
  <2>. QED BY <1>1, <2>1 DEF First, After
<1>. HIDE DEF s, t
<1>4. ~(Len(s) < w)
  BY <1>1, <1>3
<1>5. CASE t # "bool"
  BY <1>3, <1>4, <1>5 DEF ReadIntegral, w, t, s, v
<1>6. CASE t = "bool"
  <2>1. PICK x \in {0, 1} : v = <<x>>
    BY <1>2, <1>6
  <2>2. x \in Byte
    BY <2>1, TypesAre DEF Byte
  <2>3. Head(s) = x /\ Tail(s) = r /\ s # <<>>
    BY <2>1, <2>2, HeadPart DEF s
  <2>4. s[1] = x
    BY <2>3
  <2>5. <<IF s[1] = 0 THEN 0 ELSE 1>> = v
    BY <2>1, <2>4
  <2>6. ReadIntegral(t, s) = Value(<<IF s[1] = 0 THEN 0 ELSE 1>>, Tail(s))
    BY <1>4, <1>6 DEF ReadIntegral, w
  <2>7. ReadIntegral(t, s) = Value(v, r)
    BY <2>3, <2>5, <2>6
  <2>. QED BY <2>7 DEF t, s, v
<1>. QED BY <1>5, <1>6

(* A string that was written is read, whatever follows it.                  *)
LEMMA StringWhole ==
  ASSUME NEW v \in Seq(Byte), Len(v) < Base * Base, NEW r \in Seq(Byte)
  PROVE  ReadString((Little(Len(v), 2) \o v) \o r) = Value(v, r)
<1>. DEFINE l == Little(Len(v), 2)  a == l \o v  s == a \o r
<1>1. Len(v) \in Nat /\ Len(r) \in Nat
  BY LenProperties
<1>2. l \in Seq(Byte) /\ Len(l) = 2 /\ Number16(l) = Len(v)
  BY <1>1, LittleType, LittleBack
<1>. HIDE DEF l
<1>3. a \in Seq(Byte) /\ Len(a) = 2 + Len(v) /\ SubSeq(a, 1, 2) = l /\ SubSeq(a, 3, Len(a)) = v
  <2>1. /\ a \in Seq(Byte) /\ Len(a) = Len(l) + Len(v) /\ SubSeq(a, 1, Len(l)) = l
        /\ SubSeq(a, Len(l) + 1, Len(a)) = v
    <3>1. l \in Seq(Byte)
      BY <1>2
    <3>. QED BY <3>1, Parts
  <2>2. Len(l) + 1 = 3
    BY <1>2
  <2>. HIDE DEF a
  <2>. QED BY <1>2, <2>1, <2>2
<1>. HIDE DEF a
<1>4. s \in Seq(Byte) /\ Len(s) = Len(a) + Len(r) /\ SubSeq(s, 1, Len(a)) = a
      /\ SubSeq(s, Len(a) + 1, Len(s)) = r
  <2>1. a \in Seq(Byte)
    BY <1>3
  <2>. QED BY <2>1, Parts
<1>5. Len(v) + 2 = Len(a) /\ Len(s) >= 2 /\ Len(s) - 2 >= Len(v) /\ Len(a) >= 2 /\ Len(a) \in Nat
  BY <1>1, <1>3, <1>4
<1>6. First(s, 2) = l
  <2>1. 1 \in 1..Len(a) /\ 2 \in 1..Len(a)
    BY <1>5
  <2>2. SubSeq(s, 1, 2) = SubSeq(a, 1, 2)
    BY <1>3, <2>1, SubSeqOfConcat1
  <2>. QED BY <1>3, <2>2 DEF First
<1>7. SubSeq(s, 3, Len(v) + 2) = v
  <2>1. CASE Len(v) = 0
    <3>1. v = <<>> /\ SubSeq(s, 3, 2) = <<>> /\ 0 + 2 = 2
      BY <2>1, EmptySeq, SubSeqEmpty
    <3>. QED BY <2>1, <3>1
  <2>2. CASE Len(v) # 0
    <3>1. 3 \in 1..Len(a) /\ Len(a) \in 1..Len(a)
      BY <1>1, <1>5, <2>2
    <3>2. SubSeq(s, 3, Len(a)) = SubSeq(a, 3, Len(a))
      BY <1>3, <3>1, SubSeqOfConcat1
    <3>. QED BY <1>3, <1>5, <3>2
  <2>. QED BY <2>1, <2>2
<1>8. After(s, 2 + Len(v)) = r
  BY <1>3, <1>4 DEF After
<1>. HIDE DEF s
<1>9. Length(s) = Len(v)
  BY <1>2, <1>6 DEF Length
<1>10. ReadString(s) = Value(v, r)
  <2>1. ~(Len(s) < 2 \/ Len(s) - 2 < Length(s))
    BY <1>1, <1>4, <1>5, <1>9
  <2>. QED BY <1>7, <1>8, <1>9, <2>1 DEF ReadString
<1>. QED BY <1>10 DEF s, a, l

(* An item the two agree on is read, and what follows it is left.           *)
LEMMA ItemWhole ==
  ASSUME NEW it, IsItem(it), Agreed(it), NEW r \in Seq(Byte)
  PROVE  /\ FlattenSeq(Fields(it)) \o r # <<>>
         /\ Types[Head(FlattenSeq(Fields(it)) \o r) + 1] = it.type
         /\ ReadItem(FlattenSeq(Fields(it)) \o r) = Value(it.val, r)
<1>. DEFINE t == it.type  x == Prefix(t)  c == FlattenSeq(Fields(it))
<1>1. t \in ToSet(Types) /\ t # "node_item"
  BY DEF IsItem, Agreed, Integral
<1>2. x \in Readable /\ Types[x + 1] = t /\ x \in Byte
  BY <1>1, ReadableTypes
<1>3. ASSUME NEW b \in Seq(Byte), c = <<x>> \o b
      PROVE  c \o r # <<>> /\ Head(c \o r) = x /\ Tail(c \o r) = b \o r
  <2>1. <<x>> \in Seq(Byte) /\ b \o r \in Seq(Byte)
    BY <1>2, ConcatProperties
  <2>2. (<<x>> \o b) \o r = <<x>> \o (b \o r)
    <3>. DEFINE a == <<x>>
    <3>. HIDE DEF a
    <3>1. a \in Seq(Byte)
      BY <2>1 DEF a
    <3>2. (a \o b) \o r = a \o (b \o r)
      BY <3>1, Assoc
    <3>. QED BY <3>2 DEF a
  <2>. DEFINE u == b \o r  d == c \o r
  <2>3. u \in Seq(Byte) /\ d = <<x>> \o u
    BY <1>3, <2>1, <2>2
  <2>. HIDE DEF u, d
  <2>4. d # <<>> /\ Head(d) = x /\ Tail(d) = u
    BY <1>2, <2>3, HeadPart
  <2>. QED BY <2>4 DEF u, d
<1>4. CASE t \in Integral
  <2>1. c = <<x>> \o it.val /\ it.val \in Seq(Byte)
    BY <1>4, IntegersLong
  <2>2. c \o r # <<>> /\ Head(c \o r) = x /\ Tail(c \o r) = it.val \o r
    BY <1>3, <2>1
  <2>3. ReadIntegral(t, it.val \o r) = Value(it.val, r)
    BY <1>4, IntegralWhole
  <2>. DEFINE d == c \o r
  <2>4. d # <<>> /\ Head(d) = x /\ Tail(d) = it.val \o r
    BY <2>2
  <2>. HIDE DEF d, x, t
  <2>5. ReadItem(d) = ReadIntegral(t, Tail(d))
    BY <1>2, <1>4, <2>4 DEF ReadItem, Integral, Vectors
  <2>. QED BY <1>2, <2>3, <2>4, <2>5 DEF d, x, t
<1>5. CASE t = "string" /\ Len(it.val) < Base * Base
  <2>. DEFINE v == it.val  b == Little(Len(v), 2) \o v
  <2>1. c = <<x>> \o b /\ v \in Seq(Byte)
    BY <1>5, StringsLong
  <2>2. b \in Seq(Byte)
    BY <2>1, LenProperties, LittleType, ConcatProperties
  <2>3. c \o r # <<>> /\ Head(c \o r) = x /\ Tail(c \o r) = b \o r
    BY <1>3, <2>1, <2>2
  <2>4. ReadString(b \o r) = Value(v, r)
    BY <1>5, <2>1, StringWhole
  <2>. DEFINE d == c \o r
  <2>5. d # <<>> /\ Head(d) = x /\ Tail(d) = b \o r
    BY <2>3
  <2>. HIDE DEF d, x, t, b, v
  <2>6. ReadItem(d) = ReadString(Tail(d))
    BY <1>2, <1>5, <2>5 DEF ReadItem, Integral, Vectors
  <2>. QED BY <1>2, <2>4, <2>5, <2>6 DEF d, x, t, v
<1>. QED BY <1>4, <1>5 DEF Agreed

(* A string that broke off is not read.                                     *)
LEMMA StringBroken ==
  ASSUME NEW v \in Seq(Byte), Len(v) < Base * Base, NEW s \in Seq(Byte),
         Len(s) < 2 + Len(v),
         \A i \in 1..Len(s) : s[i] = (Little(Len(v), 2) \o v)[i]
  PROVE  ReadString(s) = Exhausted
<1>. DEFINE l == Little(Len(v), 2)  a == l \o v
<1>1. Len(v) \in Nat /\ Len(s) \in Nat
  BY LenProperties
<1>2. l \in Seq(Byte) /\ Len(l) = 2 /\ Number16(l) = Len(v)
  BY <1>1, LittleType, LittleBack
<1>. HIDE DEF l
<1>3. CASE Len(s) < 2
  BY <1>3 DEF ReadString
<1>4. CASE ~(Len(s) < 2)
  <2>1. 1 \in 1..Len(s) /\ 2 \in 1..Len(s)
    BY <1>1, <1>4
  <2>2. a[1] = l[1] /\ a[2] = l[2]
    <3>1. \A i \in 1..(Len(l) + Len(v)) : a[i] = IF i <= Len(l) THEN l[i] ELSE v[i - Len(l)]
      BY <1>2, ConcatProperties
    <3>2. 1 \in 1..(Len(l) + Len(v)) /\ 2 \in 1..(Len(l) + Len(v)) /\ 1 <= Len(l) /\ 2 <= Len(l)
      BY <1>1, <1>2
    <3>. HIDE DEF a
    <3>. QED BY <3>1, <3>2
  <2>3. s[1] = a[1] /\ s[2] = a[2]
    BY <2>1 DEF l
  <2>. HIDE DEF a
  <2>4. First(s, 2)[1] = s[1] /\ First(s, 2)[2] = s[2]
    BY DEF First
  <2>5. Length(s) = Len(v)
    BY <1>2, <2>2, <2>3, <2>4 DEF Length, Number16
  <2>6. Len(s) - 2 < Length(s)
    BY <1>1, <2>5
  <2>. QED BY <2>6 DEF ReadString
<1>. QED BY <1>3, <1>4

(* An item that broke off, wherever, is not read: there are not enough      *)
(* bytes.                                                                   *)
LEMMA ItemBroken ==
  ASSUME NEW it, IsItem(it), Agreed(it), NEW r \in Seq(Byte),
         Len(r) < Len(FlattenSeq(Fields(it))),
         \A i \in 1..Len(r) : r[i] = FlattenSeq(Fields(it))[i]
  PROVE  ReadItem(r) = Exhausted
<1>. DEFINE t == it.type  x == Prefix(t)  c == FlattenSeq(Fields(it))
<1>1. t \in ToSet(Types) /\ t # "node_item"
  BY DEF IsItem, Agreed, Integral
<1>2. x \in Readable /\ Types[x + 1] = t /\ x \in Byte
  BY <1>1, ReadableTypes
<1>3. CASE r = <<>>
  BY <1>3 DEF ReadItem
<1>4. CASE r # <<>>
  <2>1. Len(r) \in Nat \ {0} /\ Tail(r) \in Seq(Byte) /\ Len(Tail(r)) = Len(r) - 1
        /\ Head(r) = r[1] /\ \A i \in 1..Len(Tail(r)) : Tail(r)[i] = r[i + 1]
    BY <1>4, EmptySeq, HeadTailProperties
  <2>. DEFINE y == Tail(r)
  <2>2. ASSUME NEW b \in Seq(Byte), c = <<x>> \o b
        PROVE  Head(r) = x /\ Len(y) < Len(b) /\ \A i \in 1..Len(y) : y[i] = b[i]
    <3>. DEFINE a == <<x>>
    <3>1. a \in Seq(Byte) /\ Len(a) = 1 /\ a[1] = x
      BY <1>2
    <3>2. c = a \o b
      BY <2>2
    <3>. HIDE DEF a, c
    <3>3. Len(c) = Len(a) + Len(b) /\ Len(b) \in Nat
          /\ \A i \in 1..(Len(a) + Len(b)) : c[i] = IF i <= Len(a) THEN a[i] ELSE b[i - Len(a)]
      BY <3>1, <3>2, ConcatProperties, LenProperties
    <3>4. Len(c) = 1 + Len(b) /\ \A i \in 1..(1 + Len(b)) : c[i] = IF i <= 1 THEN a[i] ELSE b[i - 1]
      BY <3>1, <3>3
    <3>5. Len(r) < Len(c) /\ \A i \in 1..Len(r) : r[i] = c[i]
      BY DEF c
    <3>6. r[1] = x
      <4>1. 1 \in 1..Len(r) /\ 1 \in 1..(1 + Len(b))
        BY <2>1, <3>3
      <4>. QED BY <3>1, <3>4, <3>5, <4>1
    <3>7. Len(y) < Len(b)
      BY <2>1, <3>3, <3>4, <3>5
    <3>8. ASSUME NEW i \in 1..Len(y) PROVE y[i] = b[i]
      <4>1. i + 1 \in 1..Len(r) /\ i + 1 \in 1..(1 + Len(b)) /\ ~(i + 1 <= 1) /\ (i + 1) - 1 = i
        BY <2>1, <3>3, <3>7
      <4>2. y[i] = r[i + 1]
        BY <2>1
      <4>. QED BY <3>4, <3>5, <4>1, <4>2
    <3>. QED BY <2>1, <3>6, <3>7, <3>8
  <2>3. CASE t \in Integral
    <3>1. c = <<x>> \o it.val /\ it.val \in Seq(Byte) /\ Len(it.val) = Width(t)
      BY <2>3, IntegersLong
    <3>2. Head(r) = x /\ Len(y) < Width(t)
      BY <2>2, <3>1
    <3>. HIDE DEF y, x, t
    <3>3. ReadIntegral(t, y) = Exhausted
      BY <3>2 DEF ReadIntegral
    <3>4. ReadItem(r) = ReadIntegral(t, y)
      BY <1>2, <1>4, <2>3, <3>2 DEF ReadItem, Integral, Vectors, y
    <3>. QED BY <3>3, <3>4
  <2>4. CASE t = "string" /\ Len(it.val) < Base * Base
    <3>. DEFINE v == it.val  b == Little(Len(v), 2) \o v
    <3>1. c = <<x>> \o b /\ v \in Seq(Byte)
      BY <2>4, StringsLong
    <3>2. b \in Seq(Byte) /\ Len(b) = 2 + Len(v)
      <4>1. Len(v) \in Nat
        BY <3>1, LenProperties
      <4>2. Little(Len(v), 2) \in Seq(Byte) /\ Len(Little(Len(v), 2)) = 2
        BY <4>1, LittleType
      <4>3. b \in Seq(Byte) /\ Len(b) = Len(Little(Len(v), 2)) + Len(v)
        BY <3>1, <4>2, ConcatProperties
      <4>. QED BY <4>2, <4>3
    <3>3. Head(r) = x /\ Len(y) < Len(b) /\ \A i \in 1..Len(y) : y[i] = b[i]
      BY <2>2, <3>1, <3>2
    <3>4. ReadString(y) = Exhausted
      <4>. HIDE DEF y
      <4>1. y \in Seq(Byte)
        BY <2>1 DEF y
      <4>2. Len(y) < 2 + Len(v) /\ \A i \in 1..Len(y) : y[i] = (Little(Len(v), 2) \o v)[i]
        BY <3>2, <3>3
      <4>3. v \in Seq(Byte) /\ Len(v) < Base * Base
        BY <2>4, <3>1
      <4>. HIDE DEF v
      <4>. QED BY <4>1, <4>2, <4>3, StringBroken
    <3>. HIDE DEF y, x, t, v, b
    <3>5. ReadItem(r) = ReadString(y)
      BY <1>2, <1>4, <2>4, <3>3 DEF ReadItem, Integral, Vectors, y
    <3>. QED BY <3>4, <3>5
  <2>. QED BY <2>3, <2>4 DEF Agreed
<1>. QED BY <1>3, <1>4
-----------------------------------------------------------------------------
(* A function that goes on from one number to the next.                     *)
StepsIn(st, V, N)   == \A n \in 1..N : \A v \in V : st[n][v] \in V
Walks(g, st, V, z, N) == /\ g \in [0..N -> V] /\ g[0] = z
                         /\ \A n \in 1..N : g[n] = st[n][g[n - 1]]

(* There is such a function, for any number of steps: by it a recursive     *)
(* definition can be unfolded.                                              *)
LEMMA Recursion ==
  ASSUME NEW V, NEW z \in V, NEW N \in Nat, NEW st, StepsIn(st, V, N)
  PROVE  \E g : Walks(g, st, V, z, N)
<1>. DEFINE S == {m \in Nat : \E g : Walks(g, st, V, z, m)}
<1>1. 0 \in S
  <2>. DEFINE g == [n \in 0..0 |-> z]
  <2>1. g \in [0..0 -> V] /\ g[0] = z
    OBVIOUS
  <2>. HIDE DEF g
  <2>2. Walks(g, st, V, z, 0)
    BY <2>1 DEF Walks
  <2>. QED BY <2>2
<1>2. ASSUME NEW m \in 0..(N - 1), m \in S PROVE m + 1 \in S
  <2>0. PICK g : Walks(g, st, V, z, m)
    BY <1>2
  <2>1. /\ g \in [0..m -> V] /\ g[0] = z
        /\ \A n \in 1..m : g[n] = st[n][g[n - 1]]
    BY <2>0 DEF Walks
  <2>. DEFINE h == [n \in 0..(m + 1) |-> IF n = m + 1 THEN st[n][g[m]] ELSE g[n]]
  <2>2. m \in 0..m /\ m + 1 \in 1..N /\ m \in Nat
    OBVIOUS
  <2>3. \A n \in 0..m : h[n] = g[n]
    OBVIOUS
  <2>4. h[m + 1] = st[m + 1][g[m]]
    OBVIOUS
  <2>5. h \in [0..(m + 1) -> V]
    <3>1. st[m + 1][g[m]] \in V
      BY <2>1, <2>2 DEF StepsIn
    <3>2. \A n \in 0..(m + 1) : n # m + 1 => g[n] \in V
      BY <2>1
    <3>. QED BY <3>1, <3>2
  <2>. HIDE DEF h
  <2>6. \A n \in 1..(m + 1) : h[n] = st[n][h[n - 1]]
    <3>. SUFFICES ASSUME NEW n \in 1..(m + 1) PROVE h[n] = st[n][h[n - 1]]
      OBVIOUS
    <3>1. CASE n = m + 1
      <4>1. n - 1 = m
        BY <3>1
      <4>. QED BY <2>2, <2>3, <2>4, <3>1, <4>1
    <3>2. CASE n # m + 1
      <4>1. n \in 1..m /\ n \in 0..m /\ n - 1 \in 0..m
        BY <3>2
      <4>2. g[n] = st[n][g[n - 1]]
        BY <2>1, <4>1
      <4>. QED BY <2>3, <4>1, <4>2
    <3>. QED BY <3>1, <3>2
  <2>7. h[0] = z
    <3>1. 0 \in 0..m
      BY <2>2
    <3>. QED BY <2>1, <2>3, <3>1
  <2>8. Walks(h, st, V, z, m + 1) /\ m + 1 \in Nat
    BY <2>2, <2>5, <2>6, <2>7 DEF Walks
  <2>. QED BY <2>8
<1>. HIDE DEF S
<1>3. 0..N \subseteq S
  BY <1>1, <1>2, UpTo
<1>4. N \in S
  BY <1>3
<1>. QED BY <1>4 DEF S

(* f[n] is what is registered after the nth call of register_function.      *)
Registers(f) ==
  /\ f[0] = [o \in {} |-> {}] /\ Functions = f[Len(Offered)]
  /\ \A n \in 1..Len(Offered) : f[n] = RegisterFunction(f[n - 1], Offered[n])

LEMMA FunctionsAre == \E f : Registers(f)
<1>. DEFINE N == Len(Offered)  V == UNION {[D -> ToSet(Offered)] : D \in SUBSET Opcodes}
            st == [n \in 1..N |-> [v \in V |-> RegisterFunction(v, Offered[n])]]
            z == [o \in {} |-> {}]
            f == CHOOSE g : g = [n \in 0..N |-> IF n = 0 THEN z
                                                ELSE RegisterFunction(g[n - 1], Offered[n])]
<1>1. N \in Nat /\ \A n \in 1..N : Offered[n] \in ToSet(Offered) /\ Offered[n].op \in Opcodes
  <2>1. Offered \in Seq(ToSet(Offered)) /\ \A d \in ToSet(Offered) : d.op \in Opcodes
    BY OfferedAssumption
  <2>2. N \in Nat /\ \A n \in 1..N : Offered[n] \in ToSet(Offered)
    BY <2>1, LenProperties, ElementOfSeq
  <2>. QED BY <2>1, <2>2
<1>2. z \in V
  <2>1. z \in [{} -> ToSet(Offered)] /\ {} \in SUBSET Opcodes
    OBVIOUS
  <2>. HIDE DEF z
  <2>. QED BY <2>1
<1>3. Functions = f[N]
  BY DEF Functions
<1>. HIDE DEF N
<1>4. \A v \in V, n \in 1..N : /\ st[n][v] = RegisterFunction(v, Offered[n])
                               /\ RegisterFunction(v, Offered[n]) \in V
  <2>. SUFFICES ASSUME NEW v \in V, NEW n \in 1..N
                PROVE  /\ st[n][v] = RegisterFunction(v, Offered[n])
                       /\ RegisterFunction(v, Offered[n]) \in V
    OBVIOUS
  <2>1. st[n][v] = RegisterFunction(v, Offered[n])
    <3>. HIDE DEF V
    <3>. QED OBVIOUS
  <2>2. PICK D \in SUBSET Opcodes : v \in [D -> ToSet(Offered)]
    OBVIOUS
  <2>. DEFINE d == Offered[n]
  <2>3. d \in ToSet(Offered) /\ d.op \in Opcodes
    BY <1>1
  <2>. HIDE DEF d
  <2>4. RegisterFunction(v, d) \in [D \cup {d.op} -> ToSet(Offered)] /\ D \cup {d.op} \in SUBSET Opcodes
    BY <2>2, <2>3 DEF RegisterFunction
  <2>5. RegisterFunction(v, d) \in V
    BY <2>4
  <2>. QED BY <2>1, <2>5 DEF d
<1>. HIDE DEF V, st, z
<1>5. PICK g : /\ g \in [0..N -> V] /\ g[0] = z
               /\ \A n \in 1..N : g[n] = st[n][g[n - 1]]
  <2>1. StepsIn(st, V, N)
    BY <1>4 DEF StepsIn
  <2>2. PICK g : Walks(g, st, V, z, N)
    BY <1>1, <1>2, <2>1, Recursion
  <2>. QED BY <2>2 DEF Walks
<1>6. g = [n \in 0..N |-> IF n = 0 THEN z ELSE RegisterFunction(g[n - 1], Offered[n])]
  <2>1. \A n \in 0..N : n # 0 => n \in 1..N /\ n - 1 \in 0..N
    BY <1>1
  <2>2. \A n \in 0..N : n # 0 => st[n][g[n - 1]] = RegisterFunction(g[n - 1], Offered[n])
    BY <1>4, <1>5, <2>1
  <2>3. \A n \in 0..N : g[n] = IF n = 0 THEN z ELSE st[n][g[n - 1]]
    BY <1>5, <2>1
  <2>4. \A n \in 0..N : g[n] = IF n = 0 THEN z ELSE RegisterFunction(g[n - 1], Offered[n])
    BY <2>2, <2>3
  <2>. QED BY <1>5, <2>4
<1>7. f = [n \in 0..N |-> IF n = 0 THEN z ELSE RegisterFunction(f[n - 1], Offered[n])]
  BY <1>6
<1>. HIDE DEF f
<1>8. f[0] = z /\ \A n \in 1..N : f[n] = RegisterFunction(f[n - 1], Offered[n])
  <2>1. 0 \in 0..N /\ \A n \in 1..N : n \in 0..N /\ n # 0
    BY <1>1
  <2>. QED BY <1>7, <2>1
<1>. QED BY <1>3, <1>8 DEF Registers, N, z

(* The nth function offered is the last for its opcode among the first k.   *)
LastFor(o, n, k) ==
  /\ n \in 1..k /\ Offered[n].op = o
  /\ \A m \in 1..k : m > n => Offered[m].op # o

(* register_function: whatever is offered and in whatever order, an opcode  *)
(* has a function exactly when one was offered for it, and that is the last *)
(* one that was.                                                            *)
THEOREM LastRegistered ==
  /\ DOMAIN Functions = {Offered[n].op : n \in 1..Len(Offered)}
  /\ \A o \in DOMAIN Functions :
       \E n \in 1..Len(Offered) : LastFor(o, n, Len(Offered)) /\ Functions[o] = Offered[n]
<1>. DEFINE N == Len(Offered)
<1>1. N \in Nat
  BY OfferedAssumption, LenProperties
<1>2. PICK f : Registers(f)
  BY FunctionsAre
<1>3. f[0] = [o \in {} |-> {}] /\ Functions = f[N]
      /\ \A n \in 1..N : f[n] = RegisterFunction(f[n - 1], Offered[n])
  BY <1>2 DEF Registers
<1>. HIDE DEF N
<1>. DEFINE Good(k) == /\ DOMAIN f[k] = {Offered[n].op : n \in 1..k}
                       /\ \A o \in DOMAIN f[k] :
                            \E n \in 1..k : LastFor(o, n, k) /\ f[k][o] = Offered[n]
            S == {k \in Nat : Good(k)}
<1>4. 0 \in S
  <2>1. 1..0 = {}
    OBVIOUS
  <2>. QED BY <1>3, <2>1
<1>5. ASSUME NEW k \in 0..(N - 1), k \in S PROVE k + 1 \in S
  <2>. DEFINE d == Offered[k + 1]
  <2>1. k + 1 \in 1..N /\ (k + 1) - 1 = k /\ k + 1 \in Nat /\ k \in Nat
    BY <1>1
  <2>2. 1..(k + 1) = (1..k) \cup {k + 1} /\ k + 1 \notin 1..k
    BY <2>1
  <2>3. f[k + 1] = [o \in DOMAIN f[k] \cup {d.op} |-> IF o = d.op THEN d ELSE f[k][o]]
    BY <1>3, <2>1 DEF RegisterFunction
  <2>4. Good(k)
    BY <1>5
  <2>5. DOMAIN f[k + 1] = {Offered[n].op : n \in 1..(k + 1)}
    BY <2>2, <2>3, <2>4
  <2>6. ASSUME NEW o \in DOMAIN f[k + 1]
        PROVE  \E n \in 1..(k + 1) : LastFor(o, n, k + 1) /\ f[k + 1][o] = Offered[n]
    <3>1. CASE o = d.op
      <4>1. k + 1 \in 1..(k + 1) /\ \A m \in 1..(k + 1) : ~(m > k + 1)
        BY <2>1
      <4>2. LastFor(o, k + 1, k + 1)
        BY <3>1, <4>1 DEF LastFor
      <4>. QED BY <2>3, <3>1, <4>1, <4>2
    <3>2. CASE o # d.op
      <4>1. o \in DOMAIN f[k] /\ f[k + 1][o] = f[k][o]
        BY <2>3, <3>2
      <4>2. PICK n \in 1..k : LastFor(o, n, k) /\ f[k][o] = Offered[n]
        BY <2>4, <4>1
      <4>3. LastFor(o, n, k + 1)
        BY <2>2, <3>2, <4>2 DEF LastFor
      <4>. QED BY <2>2, <4>1, <4>2, <4>3
    <3>. QED BY <3>1, <3>2
  <2>. HIDE DEF d
  <2>. QED BY <2>1, <2>5, <2>6
<1>. HIDE DEF S
<1>6. 0..N \subseteq S
  BY <1>1, <1>4, <1>5, UpTo
<1>7. N \in S
  BY <1>1, <1>6
<1>8. Good(N)
  BY <1>7 DEF S
<1>. QED BY <1>3, <1>8 DEF N

(* What is registered are functions that were offered.                      *)
LEMMA FunctionsOffered ==
  \A o \in DOMAIN Functions : Functions[o] \in ToSet(Offered)
<1>1. \A n \in 1..Len(Offered) : Offered[n] \in ToSet(Offered)
  BY OfferedAssumption, ElementOfSeq
<1>. QED BY <1>1, LastRegistered
-----------------------------------------------------------------------------
(* How the reading of any bytes can end.                                    *)

Outcomes == [ends : {"no", "out_of_range", "invalid_data", "crashed"},
             val : Seq(Byte) \cup Seq(Seq(Byte)), rest : Seq(Byte)]

LEMMA OutcomesAre ==
  /\ \A how \in {"out_of_range", "invalid_data", "crashed"} : Ends(how) \in Outcomes
  /\ \A v \in Seq(Byte) \cup Seq(Seq(Byte)), r \in Seq(Byte) : Value(v, r) \in Outcomes
<1>1. <<>> \in Seq(Byte)
  OBVIOUS
<1>2. \A how \in {"out_of_range", "invalid_data", "crashed"} : Ends(how) \in Outcomes
  BY <1>1 DEF Ends, Outcomes
<1>3. \A v \in Seq(Byte) \cup Seq(Seq(Byte)), r \in Seq(Byte) : Value(v, r) \in Outcomes
  BY DEF Value, Outcomes
<1>. QED BY <1>2, <1>3

LEMMA Piece ==
  ASSUME NEW s \in Seq(Byte), NEW m \in Nat \ {0}, NEW n \in Nat, n <= Len(s)
  PROVE  SubSeq(s, m, n) \in Seq(Byte)
<1>1. Len(s) \in Nat /\ \A i \in 1..Len(s) : s[i] \in Byte
  BY LenProperties, ElementOfSeq
<1>2. m \in Int /\ n \in Int /\ \A i \in m..n : s[i] \in Byte
  BY <1>1
<1>. QED BY <1>2, SubSeqProperties

LEMMA AfterType ==
  ASSUME NEW s \in Seq(Byte), NEW n \in Nat
  PROVE  After(s, n) \in Seq(Byte)
<1>1. Len(s) \in Nat /\ n + 1 \in Nat \ {0}
  BY LenProperties
<1>. QED BY <1>1, Piece DEF After

LEMMA LengthType ==
  ASSUME NEW s \in Seq(Byte), ~(Len(s) < 2)
  PROVE  Length(s) \in Nat
<1>1. Len(s) \in Nat /\ s[1] \in Byte /\ s[2] \in Byte
  <2>1. Len(s) \in Nat
    BY LenProperties
  <2>2. 1 \in 1..Len(s) /\ 2 \in 1..Len(s)
    BY <2>1
  <2>. QED BY <2>1, <2>2, ElementOfSeq
<1>2. First(s, 2)[1] = s[1] /\ First(s, 2)[2] = s[2]
  BY DEF First
<1>3. \A b \in Byte : b \in Nat
  BY TypesAre DEF Byte
<1>4. Length(s) = s[1] + Base * s[2]
  BY <1>2 DEF Length, Number16
<1>5. Base * s[2] \in Nat
  BY <1>1, <1>3, TypesAre
<1>. QED BY <1>1, <1>3, <1>4, <1>5

LEMMA IntegralRead ==
  ASSUME NEW t \in Integral, NEW s \in Seq(Byte)
  PROVE  ReadIntegral(t, s) \in Outcomes
<1>1. Width(t) \in {1, 4, 8} /\ (t = "bool" => Width(t) = 1)
  BY WidthType DEF Width
<1>2. Len(s) \in Nat
  BY LenProperties
<1>. DEFINE w == Width(t)
<1>. HIDE DEF w
<1>3. w \in {1, 4, 8} /\ (t = "bool" => w = 1)
  BY <1>1 DEF w
<1>4. CASE Len(s) < w
  BY <1>4, OutcomesAre DEF ReadIntegral, Exhausted, w
<1>5. CASE ~(Len(s) < w) /\ t = "bool"
  <2>. DEFINE v == <<IF s[1] = 0 THEN 0 ELSE 1>>  r == Tail(s)
  <2>1. v \in Seq(Byte)
    <3>1. (IF s[1] = 0 THEN 0 ELSE 1) \in Byte
      BY TypesAre DEF Byte
    <3>. QED BY <3>1
  <2>2. r \in Seq(Byte)
    <3>1. s # <<>>
      <4>1. Len(s) # 0
        BY <1>2, <1>3, <1>5
      <4>. QED BY <4>1
    <3>. QED BY <3>1, HeadTailProperties
  <2>3. ReadIntegral(t, s) = Value(v, r)
    BY <1>5 DEF ReadIntegral, w
  <2>. HIDE DEF v, r
  <2>. QED BY <2>1, <2>2, <2>3, OutcomesAre
<1>6. CASE ~(Len(s) < w) /\ t # "bool"
  <2>1. 1 \in Nat \ {0} /\ w \in Nat /\ w <= Len(s)
    BY <1>2, <1>3, <1>6
  <2>2. First(s, w) \in Seq(Byte) /\ After(s, w) \in Seq(Byte)
    BY <2>1, Piece, AfterType DEF First
  <2>3. ReadIntegral(t, s) = Value(First(s, w), After(s, w))
    BY <1>6 DEF ReadIntegral, w
  <2>. QED BY <2>2, <2>3, OutcomesAre
<1>. QED BY <1>4, <1>5, <1>6

LEMMA StringRead ==
  ASSUME NEW s \in Seq(Byte)
  PROVE  /\ ReadString(s) \in Outcomes /\ ReadString(s).val \in Seq(Byte)
         /\ ReadString(s).ends \in {"no", "out_of_range"}
<1>1. Len(s) \in Nat
  BY LenProperties
<1>2. CASE Len(s) < 2 \/ Len(s) - 2 < Length(s)
  <2>1. ReadString(s) = Exhausted
    BY <1>2 DEF ReadString
  <2>2. Exhausted \in Outcomes /\ Exhausted.val = <<>> /\ Exhausted.ends = "out_of_range"
    BY OutcomesAre DEF Exhausted, Ends
  <2>3. <<>> \in Seq(Byte)
    OBVIOUS
  <2>. QED BY <2>1, <2>2, <2>3
<1>3. CASE ~(Len(s) < 2 \/ Len(s) - 2 < Length(s))
  <2>. DEFINE n == Length(s)  v == SubSeq(s, 3, n + 2)  r == After(s, 2 + n)
  <2>1. n \in Nat
    BY <1>3, LengthType
  <2>2. 3 \in Nat \ {0} /\ n + 2 \in Nat /\ n + 2 <= Len(s) /\ 2 + n \in Nat
    BY <1>1, <1>3, <2>1
  <2>3. v \in Seq(Byte) /\ r \in Seq(Byte)
    BY <2>2, Piece, AfterType
  <2>4. ReadString(s) = Value(v, r)
    BY <1>3 DEF ReadString
  <2>. HIDE DEF v, r
  <2>5. Value(v, r).val = v /\ Value(v, r).ends = "no"
    BY DEF Value
  <2>. QED BY <2>3, <2>4, <2>5, OutcomesAre
<1>. QED BY <1>2, <1>3

LEMMA VectorRead ==
  ASSUME NEW t \in Vectors, NEW s \in Seq(Byte)
  PROVE  ReadVector(t, s) \in Outcomes
<1>1. After(s, 2) \in Seq(Byte) /\ <<>> \in Seq(Byte)
  BY AfterType
<1>2. ReadVector(t, s) \in {Exhausted, Ends("crashed"), Value(<<>>, After(s, 2))}
  BY DEF ReadVector
<1>3. /\ Exhausted \in Outcomes /\ Ends("crashed") \in Outcomes
      /\ Value(<<>>, After(s, 2)) \in Outcomes
  BY <1>1, OutcomesAre DEF Exhausted
<1>. QED BY <1>2, <1>3

(* The strings that have been read, up to the nth.                          *)
StringsSoFar == [ends : {"no", "out_of_range"}, val : Seq(Seq(Byte)), rest : Seq(Byte)]
NextString(before) ==
  LET str == ReadString(before.rest)
  IN  IF before.ends # "no" THEN before
      ELSE IF str.ends # "no" THEN str
      ELSE Value(Append(before.val, str.val), str.rest)

LEMMA NextStringRead ==
  ASSUME NEW before \in StringsSoFar
  PROVE  NextString(before) \in StringsSoFar
<1>. DEFINE str == ReadString(before.rest)
<1>1. before.rest \in Seq(Byte) /\ before.val \in Seq(Seq(Byte))
  BY DEF StringsSoFar
<1>2. str \in Outcomes /\ str.val \in Seq(Byte) /\ str.ends \in {"no", "out_of_range"}
  BY <1>1, StringRead
<1>3. str.ends # "no" => str = Exhausted
  <2>1. str = Exhausted \/ \E v, r : str = Value(v, r)
    BY DEF ReadString
  <2>. HIDE DEF str
  <2>. QED BY <2>1 DEF Value
<1>4. NextString(before) = IF before.ends # "no" THEN before
                           ELSE IF str.ends # "no" THEN str
                           ELSE Value(Append(before.val, str.val), str.rest)
  BY DEF NextString
<1>. HIDE DEF str
<1>5. Exhausted \in StringsSoFar
  <2>1. <<>> \in Seq(Byte) /\ <<>> \in Seq(Seq(Byte))
    OBVIOUS
  <2>. QED BY <2>1 DEF Exhausted, Ends, StringsSoFar
<1>6. Value(Append(before.val, str.val), str.rest) \in StringsSoFar
  <2>1. Append(before.val, str.val) \in Seq(Seq(Byte))
    BY <1>1, <1>2, AppendProperties
  <2>2. str.rest \in Seq(Byte)
    BY <1>2 DEF Outcomes
  <2>. QED BY <2>1, <2>2 DEF Value, StringsSoFar
<1>. QED BY <1>3, <1>4, <1>5, <1>6

LEMMA StringsRead ==
  ASSUME NEW s \in Seq(Byte)
  PROVE  ReadStrings(s) \in Outcomes
<1>1. CASE Len(s) < 2
  <2>1. ReadStrings(s) = Exhausted
    BY <1>1 DEF ReadStrings
  <2>. QED BY <2>1, OutcomesAre DEF Exhausted
<1>2. CASE ~(Len(s) < 2)
  <2>. DEFINE N == Length(s)  z == Value(<<>>, After(s, 2))
              f == CHOOSE g : g = [n \in 0..N |-> IF n = 0 THEN z ELSE NextString(g[n - 1])]
              st == [n \in 1..N |-> [v \in StringsSoFar |-> NextString(v)]]
  <2>1. N \in Nat
    BY <1>2, LengthType
  <2>2. ReadStrings(s) = f[N]
    BY <1>2 DEF ReadStrings, NextString
  <2>3. z \in StringsSoFar
    <3>1. <<>> \in Seq(Seq(Byte)) /\ After(s, 2) \in Seq(Byte)
      BY AfterType
    <3>. QED BY <3>1 DEF Value, StringsSoFar
  <2>. HIDE DEF N, z
  <2>4. \A n \in 1..N : \A v \in StringsSoFar : st[n][v] = NextString(v) /\ NextString(v) \in StringsSoFar
    BY NextStringRead
  <2>. HIDE DEF st
  <2>5. PICK g : /\ g \in [0..N -> StringsSoFar] /\ g[0] = z
                 /\ \A n \in 1..N : g[n] = st[n][g[n - 1]]
    <3>1. StepsIn(st, StringsSoFar, N)
      BY <2>4 DEF StepsIn
    <3>2. PICK g : Walks(g, st, StringsSoFar, z, N)
      BY <2>1, <2>3, <3>1, Recursion
    <3>. QED BY <3>2 DEF Walks
  <2>6. g = [n \in 0..N |-> IF n = 0 THEN z ELSE NextString(g[n - 1])]
    <3>1. \A n \in 0..N : n # 0 => n \in 1..N /\ n - 1 \in 0..N
      BY <2>1
    <3>2. \A n \in 0..N : n # 0 => g[n] = NextString(g[n - 1])
      BY <2>4, <2>5, <3>1
    <3>3. \A n \in 0..N : g[n] = IF n = 0 THEN z ELSE NextString(g[n - 1])
      BY <2>5, <3>2
    <3>. QED BY <2>5, <3>3
  <2>7. f = [n \in 0..N |-> IF n = 0 THEN z ELSE NextString(f[n - 1])]
    BY <2>6
  <2>. HIDE DEF f
  <2>. DEFINE S == {n \in Nat : f[n] \in StringsSoFar}
  <2>8. 0 \in S
    BY <2>1, <2>3, <2>7
  <2>9. ASSUME NEW n \in 0..(N - 1), n \in S PROVE n + 1 \in S
    <3>1. n + 1 \in 0..N /\ n + 1 # 0 /\ (n + 1) - 1 = n /\ n + 1 \in Nat
      BY <2>1
    <3>2. f[n + 1] = NextString(f[n])
      BY <2>7, <3>1
    <3>. QED BY <2>9, <3>1, <3>2, NextStringRead
  <2>. HIDE DEF S
  <2>10. 0..N \subseteq S
    BY <2>1, <2>8, <2>9, UpTo
  <2>11. N \in S
    BY <2>1, <2>10
  <2>12. f[N] \in StringsSoFar
    BY <2>11 DEF S
  <2>. QED BY <2>2, <2>12 DEF StringsSoFar, Outcomes
<1>. QED BY <1>1, <1>2

(* Whatever bytes come, the reading of an item ends in one of these ways.   *)
LEMMA ItemRead ==
  ASSUME NEW s \in Seq(Byte)
  PROVE  ReadItem(s) \in Outcomes /\ (ReadItem(s).ends = "no" => s # <<>>)
<1>1. CASE s = <<>>
  <2>1. ReadItem(s) = Exhausted
    BY <1>1 DEF ReadItem
  <2>2. Exhausted.ends = "out_of_range"
    BY DEF Exhausted, Ends
  <2>. QED BY <2>1, <2>2, OutcomesAre DEF Exhausted
<1>2. CASE s # <<>> /\ Head(s) \notin Readable
  <2>1. ReadItem(s) = Ends("invalid_data")
    BY <1>2 DEF ReadItem
  <2>. QED BY <1>2, <2>1, OutcomesAre
<1>3. CASE s # <<>> /\ Head(s) \in Readable
  <2>1. PICK t \in ToSet(Types) \ {"node_item"} : Head(s) = Prefix(t)
    BY <1>3 DEF Readable
  <2>2. Types[Head(s) + 1] = t
    BY <2>1, ReadableTypes
  <2>3. t \in Integral \cup Vectors \cup {"string", "strings"}
    BY TypeKinds
  <2>4. Tail(s) \in Seq(Byte)
    BY <1>3, HeadTailProperties
  <2>. DEFINE y == Tail(s)
  <2>. HIDE DEF y
  <2>5. /\ t \in Integral => ReadItem(s) = ReadIntegral(t, y)
        /\ t = "string" => ReadItem(s) = ReadString(y)
        /\ t \in Vectors => ReadItem(s) = ReadVector(t, y)
        /\ t = "strings" => ReadItem(s) = ReadStrings(y)
    BY <1>3, <2>2 DEF ReadItem, Integral, Vectors, y
  <2>6. y \in Seq(Byte)
    BY <2>4 DEF y
  <2>7. ReadItem(s) \in Outcomes
    BY <2>3, <2>5, <2>6, IntegralRead, StringRead, VectorRead, StringsRead
  <2>. QED BY <1>3, <2>7
<1>. QED BY <1>1, <1>2, <1>3
-----------------------------------------------------------------------------
(* How far the reading of a payload has come.                               *)

(* The beginning of two sequences in a row, when it reaches the second.     *)
LEMMA BeginConcat ==
  ASSUME NEW X, NEW a \in Seq(X), NEW b \in Seq(X), NEW k \in 0..Len(b)
  PROVE  /\ SubSeq(a \o b, 1, Len(a) + k) = a \o SubSeq(b, 1, k)
         /\ SubSeq(b, 1, k) \in Seq(X) /\ Len(SubSeq(b, 1, k)) = k
<1>. DEFINE s == a \o b  m == Len(a)  n == Len(b)  u == SubSeq(s, 1, m + k)  v == SubSeq(b, 1, k)
<1>1. m \in Nat /\ n \in Nat /\ \A i \in 1..n : b[i] \in X
  BY LenProperties, ElementOfSeq
<1>2. s \in Seq(X) /\ Len(s) = m + n
      /\ \A i \in 1..(m + n) : s[i] = IF i <= m THEN a[i] ELSE b[i - m]
  BY ConcatProperties
<1>3. \A i \in 1..(m + n) : s[i] \in X
  BY <1>2, ElementOfSeq
<1>4. v \in Seq(X) /\ Len(v) = k /\ \A i \in 1..k : v[i] = b[i]
  <2>1. 1 \in Int /\ k \in Int /\ (\A i \in 1..k : b[i] \in X) /\ (k - 1) + 1 = k
    BY <1>1
  <2>2. /\ v \in Seq(X) /\ Len(v) = (IF 1 <= k THEN (k - 1) + 1 ELSE 0)
        /\ \A i \in 1..((k - 1) + 1) : v[i] = b[(1 + i) - 1]
    BY <2>1, SubSeqProperties
  <2>3. \A i \in 1..k : (1 + i) - 1 = i
    BY <1>1
  <2>. HIDE DEF v
  <2>4. k \in Nat
    BY <1>1
  <2>. QED BY <2>1, <2>2, <2>3, <2>4
<1>. HIDE DEF s, m, n
<1>5. u \in Seq(X) /\ Len(u) = m + k /\ \A i \in 1..(m + k) : u[i] = s[i]
  <2>1. 1 \in Int /\ m + k \in Int /\ (\A i \in 1..(m + k) : s[i] \in X) /\ ((m + k) - 1) + 1 = m + k
    BY <1>1, <1>3 DEF n
  <2>2. /\ u \in Seq(X) /\ Len(u) = (IF 1 <= m + k THEN ((m + k) - 1) + 1 ELSE 0)
        /\ \A i \in 1..(((m + k) - 1) + 1) : u[i] = s[(1 + i) - 1]
    BY <2>1, SubSeqProperties
  <2>3. \A i \in 1..(m + k) : (1 + i) - 1 = i
    BY <1>1
  <2>. HIDE DEF u
  <2>4. m + k \in Nat
    BY <1>1 DEF n
  <2>. QED BY <2>1, <2>2, <2>3, <2>4
<1>. HIDE DEF u, v
<1>6. /\ a \o v \in Seq(X) /\ Len(a \o v) = m + k
      /\ \A i \in 1..(m + k) : (a \o v)[i] = IF i <= m THEN a[i] ELSE v[i - m]
  BY <1>4, ConcatProperties DEF m
<1>7. ASSUME NEW i \in 1..(m + k) PROVE u[i] = (a \o v)[i]
  <2>0. k \in 0..n
    BY DEF n
  <2>1. i \in 1..(m + n) /\ i \in Int
    BY <1>1, <2>0
  <2>2. CASE i <= m
    BY <1>2, <1>5, <1>6, <2>1, <2>2
  <2>3. CASE ~(i <= m)
    <3>1. i - m \in 1..k
      BY <1>1, <2>0, <2>3
    <3>2. u[i] = b[i - m]
      BY <1>2, <1>5, <2>1, <2>3
    <3>3. (a \o v)[i] = v[i - m]
      BY <1>6, <2>3
    <3>. QED BY <1>4, <3>1, <3>2, <3>3
  <2>. QED BY <2>2, <2>3
<1>8. u = a \o v
  <2>. DEFINE w == a \o v
  <2>1. w \in Seq(X) /\ Len(w) = Len(u) /\ \A i \in 1..Len(u) : u[i] = w[i]
    BY <1>5, <1>6, <1>7
  <2>. HIDE DEF w
  <2>2. u = w
    BY <1>5, <2>1, SeqEqual
  <2>. QED BY <2>2 DEF w
<1>. QED BY <1>4, <1>8 DEF u, v, s, m

Remains(q, n) == FlattenSeq(SubSeq(Chunks(q), n + 1, Len(q)))

(* What has been read of q, r what is left to read, c bytes short of it.    *)
Reached(q, n, g, r, c) ==
  /\ g = SubSeq(q, 1, n)
  /\ c \in 0..Len(Remains(q, n))
  /\ r = SubSeq(Remains(q, n), 1, Len(Remains(q, n)) - c)

(* All that remains at first, nothing at last, and an item less each time.  *)
LEMMA RemainsAre ==
  ASSUME NEW Q, \A it \in Q : IsItem(it), NEW q \in Seq(Q)
  PROVE  /\ Remains(q, 0) = FlattenSeq(Chunks(q))
         /\ Remains(q, Len(q)) = <<>>
         /\ \A n \in 0..Len(q) : Remains(q, n) \in Seq(Byte)
         /\ \A n \in 0..(Len(q) - 1) : Remains(q, n) = Chunks(q)[n + 1] \o Remains(q, n + 1)
<1>. DEFINE c == Chunks(q)  N == Len(q)
<1>1. c \in Seq(Seq(Byte)) /\ Len(c) = N /\ N \in Nat
  BY ChunksAre
<1>2. \A n \in 0..N : Remains(q, n) = FlattenSeq(SubSeq(c, n + 1, N))
  BY DEF Remains
<1>. HIDE DEF c, N
<1>3. SubSeq(c, 1, N) = c
  BY <1>1, SubSeqFull
<1>4. SubSeq(c, N + 1, N) = <<>>
  BY <1>1, SubSeqEmpty
<1>5. \A n \in 0..N : SubSeq(c, n + 1, N) \in Seq(Seq(Byte))
  <2>. SUFFICES ASSUME NEW n \in 0..N PROVE SubSeq(c, n + 1, N) \in Seq(Seq(Byte))
    OBVIOUS
  <2>1. \A i \in 1..N : c[i] \in Seq(Byte)
    BY <1>1, ElementOfSeq
  <2>2. n + 1 \in Int /\ N \in Int /\ \A i \in (n + 1)..N : c[i] \in Seq(Byte)
    BY <1>1, <2>1
  <2>. QED BY <2>2, SubSeqProperties
<1>6. \A n \in 0..N : Remains(q, n) \in Seq(Byte)
  BY <1>2, <1>5, FlatType
<1>7. ASSUME NEW n \in 0..(N - 1) PROVE Remains(q, n) = c[n + 1] \o Remains(q, n + 1)
  <2>. DEFINE u == SubSeq(c, (n + 1) + 1, N)  x == c[n + 1]  xx == <<x>>
  <2>1. n \in 0..N /\ n + 1 \in 0..N /\ n + 1 \in 1..Len(c) /\ N \in (n + 1)..Len(c)
    BY <1>1
  <2>2. SubSeq(c, n + 1, N) = xx \o u
    BY <1>1, <2>1, SubSeqRecursiveFirst
  <2>3. x \in Seq(Byte) /\ u \in Seq(Seq(Byte))
    BY <1>1, <1>5, <2>1, ElementOfSeq
  <2>4. Remains(q, n) = FlattenSeq(SubSeq(c, n + 1, N)) /\ Remains(q, n + 1) = FlattenSeq(u)
    BY <1>2, <2>1
  <2>. HIDE DEF u, x
  <2>5. xx \in Seq(Seq(Byte)) /\ FlattenSeq(xx) = x
    BY <2>3, FlatOne
  <2>. HIDE DEF xx
  <2>6. FlattenSeq(xx \o u) = x \o FlattenSeq(u)
    BY <2>3, <2>5, FlatConcat
  <2>. QED BY <2>2, <2>4, <2>6 DEF x
<1>8. Remains(q, 0) = FlattenSeq(c)
  <2>1. 0 \in 0..N /\ 0 + 1 = 1
    BY <1>1
  <2>. QED BY <1>2, <1>3, <2>1
<1>9. Remains(q, N) = <<>>
  <2>1. N \in 0..N
    BY <1>1
  <2>. QED BY <1>2, <1>4, <2>1, FlatEmpty
<1>. QED BY <1>6, <1>7, <1>8, <1>9 DEF c, N

(* The next item is read, if it came; if it broke off, that is found out.   *)
LEMMA ReadOn ==
  ASSUME NEW Q, \A it \in Q : IsItem(it), NEW q \in Seq(Q), NEW n \in 0..(Len(q) - 1),
         Agreed(q[n + 1]), NEW g, NEW r, NEW c, Reached(q, n, g, r, c)
  PROVE  \/ ReadItem(r).ends = "out_of_range" /\ c > 0
         \/ /\ ReadItem(r).ends = "no"
            /\ Reached(q, n + 1, Append(g, [type |-> Types[Head(r) + 1], val |-> ReadItem(r).val]),
                       ReadItem(r).rest, c)
<1>. DEFINE N == Len(q)  it == q[n + 1]  C == FlattenSeq(Fields(it))
            R == Remains(q, n)  T == Remains(q, n + 1)
<1>1. N \in Nat /\ n + 1 \in 1..N /\ n + 1 \in 0..N /\ n \in 0..N
  BY ChunksAre
<1>2. IsItem(it) /\ Chunks(q)[n + 1] = C
  BY <1>1, ChunksAre
<1>3. C \in Seq(Byte) /\ Len(C) \in Nat
  BY <1>2, ItemLong, LenProperties
<1>4. R = C \o T /\ R \in Seq(Byte) /\ T \in Seq(Byte)
  BY <1>1, <1>2, RemainsAre
<1>5. Len(R) = Len(C) + Len(T) /\ Len(T) \in Nat
      /\ \A i \in 1..(Len(C) + Len(T)) : R[i] = IF i <= Len(C) THEN C[i] ELSE T[i - Len(C)]
  BY <1>3, <1>4, ConcatProperties, LenProperties
<1>6. g = SubSeq(q, 1, n) /\ c \in 0..Len(R) /\ r = SubSeq(R, 1, Len(R) - c)
  BY DEF Reached
<1>7. Agreed(it)
  OBVIOUS
<1>. HIDE DEF C, R, T, it
<1>8. CASE c <= Len(T)
  <2>. DEFINE k == Len(T) - c  y == SubSeq(T, 1, k)
  <2>1. k \in 0..Len(T) /\ Len(R) - c = Len(C) + k
    BY <1>3, <1>5, <1>6, <1>8
  <2>. HIDE DEF k
  <2>2. SubSeq(C \o T, 1, Len(C) + k) = C \o y /\ y \in Seq(Byte)
    <3>1. C \in Seq(Byte) /\ T \in Seq(Byte) /\ k \in 0..Len(T)
      BY <1>3, <1>4, <2>1
    <3>. QED BY <3>1, BeginConcat
  <2>3. r = C \o y
    BY <1>4, <1>6, <2>1, <2>2
  <2>. HIDE DEF y
  <2>4. Types[Head(r) + 1] = it.type /\ ReadItem(r) = Value(it.val, y)
    BY <1>2, <1>7, <2>2, <2>3, ItemWhole DEF C
  <2>5. ReadItem(r).ends = "no" /\ ReadItem(r).val = it.val /\ ReadItem(r).rest = y
    BY <2>4 DEF Value
  <2>. DEFINE e == [type |-> Types[Head(r) + 1], val |-> ReadItem(r).val]
  <2>6. e = it
    BY <1>2, <2>4, <2>5 DEF IsItem
  <2>. HIDE DEF e
  <2>7. Append(g, e) = SubSeq(q, 1, n + 1)
    BY <1>6, <2>6, NextBeginning DEF it
  <2>8. c \in 0..Len(T)
    BY <1>5, <1>6, <1>8
  <2>9. Reached(q, n + 1, Append(g, e), y, c)
    BY <2>7, <2>8 DEF Reached, y, k, T
  <2>. QED BY <2>5, <2>9 DEF e
<1>9. CASE ~(c <= Len(T))
  <2>1. c > 0 /\ Len(R) - c \in 0..Len(R) /\ Len(R) - c < Len(C) /\ c \in Int
    BY <1>3, <1>5, <1>6, <1>9
  <2>. DEFINE k == Len(R) - c
  <2>2. r \in Seq(Byte) /\ Len(r) = k /\ \A i \in 1..k : r[i] = R[i]
    <3>. HIDE DEF k
    <3>0. k \in 0..Len(R) /\ r = SubSeq(R, 1, k)
      BY <1>6, <2>1 DEF k
    <3>1. \A i \in 1..Len(R) : R[i] \in Byte
      BY <1>4, ElementOfSeq
    <3>2. 1 \in Int /\ k \in Int /\ (\A i \in 1..k : R[i] \in Byte) /\ (k - 1) + 1 = k /\ k \in Nat
      BY <1>3, <1>5, <3>0, <3>1
    <3>3. /\ SubSeq(R, 1, k) \in Seq(Byte)
          /\ Len(SubSeq(R, 1, k)) = (IF 1 <= k THEN (k - 1) + 1 ELSE 0)
          /\ \A i \in 1..((k - 1) + 1) : SubSeq(R, 1, k)[i] = R[(1 + i) - 1]
      BY <3>2, SubSeqProperties
    <3>4. \A i \in 1..k : (1 + i) - 1 = i
      BY <3>2
    <3>. QED BY <3>0, <3>2, <3>3, <3>4
  <2>3. \A i \in 1..Len(r) : r[i] = C[i]
    <3>1. \A i \in 1..k : i \in 1..(Len(C) + Len(T)) /\ i <= Len(C)
      BY <1>3, <1>5, <2>1
    <3>. HIDE DEF k
    <3>. QED BY <1>5, <2>2, <3>1
  <2>4. Len(r) < Len(C)
    BY <2>1, <2>2
  <2>5. ReadItem(r) = Exhausted
    BY <1>2, <1>7, <2>2, <2>3, <2>4, ItemBroken DEF C
  <2>6. Exhausted.ends = "out_of_range"
    BY DEF Exhausted, Ends
  <2>. QED BY <2>1, <2>5, <2>6
<1>. QED BY <1>8, <1>9
-----------------------------------------------------------------------------
(* What holds of any payload.                                               *)

Phases == {"new", "exhausted", "written", "received", "reading", "read",
           "out_of_range", "invalid_data", "crashed"}

Typed ==
  /\ p \in Payloads /\ buffer \in Nat /\ data \in Data /\ phase \in Phases
  /\ phase \in {"written", "received"} => out = FlattenSeq(Writes(p))
  /\ phase \in {"received", "reading"} => rest \in Seq(Byte)

Kept == Typed /\ SizeFallsShort /\ PayloadsNeverLeave

(* A payload is a sequence of items, of no more than MaxItems.              *)
LEMMA PayloadsAre ==
  ASSUME NEW q \in Payloads
  PROVE  q \in Seq(Items) /\ Len(q) \in 0..MaxItems
<1>1. PICK m \in 0..MaxItems : q \in [1..m -> Items]
  BY DEF Payloads, BoundedSeq, SeqOf
<1>2. m \in Nat
  BY <1>1, BoundsAssumption
<1>. QED BY <1>1, <1>2

(* What is known of the message a payload becomes.                          *)
LEMMA Encoded ==
  ASSUME NEW q \in Payloads
  PROVE  /\ Writes(q) \in Seq(Seq(Byte)) /\ FlattenSeq(Writes(q)) \in Seq(Byte)
         /\ FlattenSeq(Writes(q)) = Little(Len(q), 2) \o FlattenSeq(Chunks(q))
         /\ Size(q) \in Nat /\ Cardinality(Lists(q)) \in Nat
         /\ Len(FlattenSeq(Writes(q))) = Size(q) + 2 + 4 * Cardinality(Lists(q))
<1>1. q \in Seq(Items) /\ \A it \in Items : IsItem(it)
  BY PayloadsAre, ItemsAssumption
<1>2. /\ Writes(q) \in Seq(Seq(Byte))
      /\ FlattenSeq(Writes(q)) = Little(Len(q), 2) \o FlattenSeq(Chunks(q))
  BY <1>1, WritesFlat
<1>3. /\ Size(q) \in Nat /\ Cardinality(Lists(q)) \in Nat
      /\ Len(FlattenSeq(Writes(q))) = Size(q) + 2 + 4 * Cardinality(Lists(q))
  BY <1>1, WritesLong
<1>4. FlattenSeq(Writes(q)) \in Seq(Byte)
  BY <1>2, FlatType
<1>. QED BY <1>2, <1>3, <1>4

(* serialize comes to the end exactly when all it writes fits the buffer.   *)
LEMMA SerializeEnds ==
  ASSUME NEW ws \in Seq(Seq(Byte)), buffer \in Nat, NEW n,
         n = CHOOSE k \in 0..Len(ws) : Fits(ws, k) /\ (k = Len(ws) \/ ~Fits(ws, k + 1))
  PROVE  n \in 0..Len(ws) /\ (n = Len(ws) <=> Len(FlattenSeq(ws)) <= buffer)
<1>. DEFINE N == Len(ws)
<1>1. N \in Nat
  BY LenProperties
<1>2. Fits(ws, N) <=> Len(FlattenSeq(ws)) <= buffer
  <2>1. SubSeq(ws, 1, Len(ws)) = ws
    BY SubSeqFull
  <2>. QED BY <2>1 DEF Fits
<1>3. Fits(ws, 0)
  <2>. DEFINE none == SubSeq(ws, 1, 0)
  <2>1. none = <<>>
    BY SubSeqEmpty
  <2>. HIDE DEF none
  <2>2. FlattenSeq(none) = <<>>
    BY <2>1, FlatEmpty
  <2>3. Len(FlattenSeq(none)) = 0
    BY <2>2
  <2>4. Len(FlattenSeq(none)) <= buffer
    BY <2>3
  <2>. QED BY <2>4 DEF Fits, none
<1>4. ASSUME NEW k \in 0..N, Fits(ws, N) PROVE Fits(ws, k)
  <2>. DEFINE a == SubSeq(ws, 1, k)  b == SubSeq(ws, k + 1, N)
  <2>1. 1 \in 1..(Len(ws) + 1) /\ k \in (1 - 1)..Len(ws) /\ N \in k..Len(ws)
    BY <1>1
  <2>2. a \o b = SubSeq(ws, 1, N)
    BY <2>1, ConcatAdjacentSubSeq
  <2>3. a \in Seq(Seq(Byte)) /\ b \in Seq(Seq(Byte))
    <3>1. \A i \in 1..N : ws[i] \in Seq(Byte)
      BY ElementOfSeq
    <3>2. /\ 1 \in Int /\ k \in Int /\ k + 1 \in Int /\ N \in Int
          /\ (\A i \in 1..k : ws[i] \in Seq(Byte)) /\ \A i \in (k + 1)..N : ws[i] \in Seq(Byte)
      BY <1>1, <3>1
    <3>3. a \in Seq(Seq(Byte))
      BY <3>2, SubSeqProperties
    <3>4. b \in Seq(Seq(Byte))
      BY <3>2, SubSeqProperties
    <3>. QED BY <3>3, <3>4
  <2>. HIDE DEF a, b, N
  <2>4. FlattenSeq(a \o b) = FlattenSeq(a) \o FlattenSeq(b)
    BY <2>3, FlatConcat
  <2>5. FlattenSeq(a) \in Seq(Byte) /\ FlattenSeq(b) \in Seq(Byte)
    BY <2>3, FlatType
  <2>6. Len(FlattenSeq(a \o b)) = Len(FlattenSeq(a)) + Len(FlattenSeq(b))
        /\ Len(FlattenSeq(a)) \in Nat /\ Len(FlattenSeq(b)) \in Nat
    BY <2>4, <2>5, ConcatProperties, LenProperties
  <2>7. Len(FlattenSeq(a \o b)) <= buffer
    BY <1>4, <2>2 DEF Fits
  <2>8. Len(FlattenSeq(a)) <= buffer
    BY <2>6, <2>7
  <2>. QED BY <2>8 DEF Fits, a
<1>. HIDE DEF N
<1>5. \E k \in 0..N : Fits(ws, k) /\ (k = N \/ ~Fits(ws, k + 1))
  <2>. SUFFICES ASSUME \A k \in 0..N : Fits(ws, k) => (k # N /\ Fits(ws, k + 1)) PROVE FALSE
    OBVIOUS
  <2>. DEFINE S == {k \in Nat : Fits(ws, k)}
  <2>1. 0 \in S
    BY <1>3
  <2>2. \A k \in 0..(N - 1) : k \in S => k + 1 \in S
    BY <1>1
  <2>. HIDE DEF S
  <2>3. 0..N \subseteq S
    BY <1>1, <2>1, <2>2, UpTo
  <2>4. N \in S /\ N \in 0..N
    BY <1>1, <2>3
  <2>. QED BY <2>4 DEF S
<1>6. n \in 0..N /\ Fits(ws, n) /\ (n = N \/ ~Fits(ws, n + 1))
  BY <1>5 DEF N
<1>7. Fits(ws, N) => n = N
  <2>. SUFFICES ASSUME Fits(ws, N), n # N PROVE FALSE
    OBVIOUS
  <2>1. n \in 0..N /\ n # N
    BY <1>6
  <2>. HIDE DEF N
  <2>2. n + 1 \in 0..N
    BY <1>1, <2>1
  <2>. QED BY <1>4, <1>6, <2>2
<1>. QED BY <1>2, <1>6, <1>7 DEF N

(* The room that message::create makes is too little for any payload.       *)
LEMMA NeverFilled ==
  ASSUME NEW q, Size(q) \in Nat, data \in Data, NEW c \in Nat,
         Len(FlattenSeq(Writes(q))) = Size(q) + 2 + 4 * c
  PROVE  Filled(q) \in {"out_of_range", "crashed"}
<1>1. data \in {"null", "array"}
  BY DataAssumption
<1>2. ~(Len(FlattenSeq(Writes(q))) <= Room(q))
  BY DEF Room
<1>3. CASE data = "null"
  BY <1>3 DEF Filled
<1>4. CASE data = "array"
  BY <1>2, <1>4 DEF Filled
<1>. QED BY <1>1, <1>3, <1>4

(* As it is for the result of any function that is registered.              *)
LEMMA ResultsFilled ==
  ASSUME NEW o \in DOMAIN Functions, data \in Data
  PROVE  Filled(Functions[o].result) \in {"out_of_range", "crashed"}
<1>. DEFINE q == Functions[o].result
<1>1. q \in Seq(ToSet(q)) /\ \A it \in ToSet(q) : IsItem(it)
  BY FunctionsOffered, OfferedAssumption
<1>. HIDE DEF q
<1>2. /\ Size(q) \in Nat /\ Cardinality(Lists(q)) \in Nat
      /\ Len(FlattenSeq(Writes(q))) = Size(q) + 2 + 4 * Cardinality(Lists(q))
  BY <1>1, WritesLong
<1>3. Filled(q) \in {"out_of_range", "crashed"}
  BY <1>2, NeverFilled
<1>. QED BY <1>3 DEF q

LEMMA KeptInit == DispatchInit => Kept
<1>. SUFFICES ASSUME DispatchInit PROVE Kept
  OBVIOUS
<1>1. p \in Payloads /\ phase = "new" /\ data \in Data /\ answer = "none" /\ sent = "none"
  BY DEF DispatchInit, Init
<1>2. PICK more \in Slack : buffer = Size(p) + more
  BY DEF DispatchInit, Init
<1>3. buffer \in Nat
  BY <1>1, <1>2, Encoded, BoundsAssumption
<1>. QED BY <1>1, <1>3 DEF Kept, Typed, Phases, SizeFallsShort, PayloadsNeverLeave

LEMMA SerializeKept == Kept /\ Decode(Serialize) => Kept'
<1>. SUFFICES ASSUME Kept, Decode(Serialize) PROVE Kept'
  OBVIOUS
<1>. DEFINE ws == Writes(p)
            n  == CHOOSE k \in 0..Len(ws) : Fits(ws, k) /\ (k = Len(ws) \/ ~Fits(ws, k + 1))
<1>1. p \in Payloads /\ buffer \in Nat /\ data \in Data
  BY DEF Kept, Typed
<1>2. /\ out' = FlattenSeq(SubSeq(ws, 1, n))
      /\ phase' = IF n = Len(ws) THEN "written" ELSE "exhausted"
      /\ UNCHANGED <<p, buffer, cut, rest, left, got, data, ran, answer, sent>>
  BY DEF Decode, Serialize
<1>3. ws \in Seq(Seq(Byte)) /\ Size(p) \in Nat /\ Cardinality(Lists(p)) \in Nat
      /\ Len(FlattenSeq(ws)) = Size(p) + 2 + 4 * Cardinality(Lists(p))
  BY <1>1, Encoded
<1>4. n \in 0..Len(ws) /\ (n = Len(ws) <=> Len(FlattenSeq(ws)) <= buffer)
  <2>. HIDE DEF ws
  <2>. QED BY <1>1, <1>3, SerializeEnds
<1>5. n = Len(ws) => out' = FlattenSeq(Writes(p))
  <2>1. SubSeq(ws, 1, Len(ws)) = ws
    BY <1>3, SubSeqFull
  <2>. QED BY <1>2, <2>1
<1>. HIDE DEF n, ws
<1>6. Typed'
  BY <1>1, <1>2, <1>5 DEF Typed, Phases
<1>7. SizeFallsShort'
  <2>1. buffer < Size(p) + 2 + 4 * Cardinality(Lists(p)) <=> n # Len(ws)
    BY <1>1, <1>3, <1>4
  <2>2. phase' = "exhausted" <=> n # Len(ws)
    BY <1>2
  <2>3. p' = p /\ buffer' = buffer
    BY <1>2
  <2>. QED BY <2>1, <2>2, <2>3 DEF SizeFallsShort, Lists
<1>8. PayloadsNeverLeave'
  BY <1>2 DEF Kept, PayloadsNeverLeave
<1>. QED BY <1>6, <1>7, <1>8 DEF Kept

LEMMA ReceiveKept == Kept /\ Decode(Receive) => Kept'
<1>. SUFFICES ASSUME Kept, Decode(Receive) PROVE Kept'
  OBVIOUS
<1>1. /\ p \in Payloads /\ buffer \in Nat /\ data \in Data /\ phase = "written"
      /\ out = FlattenSeq(Writes(p))
  BY DEF Kept, Typed, Decode, Receive
<1>2. /\ rest' = SubSeq(out, 1, Len(out) - cut') /\ phase' = "received"
      /\ UNCHANGED <<p, buffer, out, left, got, data, ran, answer, sent>>
  BY DEF Decode, Receive
<1>3. PICK n \in 0..MaxCut : n <= Len(out) /\ cut' = n
  BY DEF Decode, Receive
<1>4. rest' \in Seq(Byte)
  <2>1. out \in Seq(Byte)
    BY <1>1, Encoded
  <2>2. Len(out) \in Nat /\ n \in Nat
    BY <1>3, <2>1, BoundsAssumption, LenProperties
  <2>3. 1 \in Nat \ {0} /\ Len(out) - n \in Nat /\ Len(out) - n <= Len(out)
    BY <1>3, <2>2
  <2>. QED BY <1>2, <1>3, <2>1, <2>3, Piece
<1>5. Typed'
  BY <1>1, <1>2, <1>4 DEF Typed, Phases
<1>6. SizeFallsShort' /\ PayloadsNeverLeave'
  BY <1>1, <1>2 DEF Kept, SizeFallsShort, PayloadsNeverLeave
<1>. QED BY <1>5, <1>6 DEF Kept

LEMMA CountKept == Kept /\ Decode(DeserializeCount) => Kept'
<1>. SUFFICES ASSUME Kept, Decode(DeserializeCount) PROVE Kept'
  OBVIOUS
<1>1. /\ p \in Payloads /\ buffer \in Nat /\ data \in Data /\ phase = "received"
      /\ rest \in Seq(Byte)
  BY DEF Kept, Typed, Decode, DeserializeCount
<1>2. UNCHANGED <<p, buffer, out, cut, got, data, ran, answer, sent>>
  BY DEF Decode, DeserializeCount
<1>3. phase' \in {"out_of_range", "read", "reading"} /\ rest' \in Seq(Byte)
  <2>1. After(rest, 2) \in Seq(Byte)
    BY <1>1, AfterType
  <2>. QED BY <1>1, <2>1 DEF Decode, DeserializeCount
<1>4. Typed'
  BY <1>1, <1>2, <1>3 DEF Typed, Phases
<1>5. SizeFallsShort' /\ PayloadsNeverLeave'
  BY <1>1, <1>2, <1>3 DEF Kept, SizeFallsShort, PayloadsNeverLeave
<1>. QED BY <1>4, <1>5 DEF Kept

LEMMA ItemKept == Kept /\ Decode(DeserializeItem) => Kept'
<1>. SUFFICES ASSUME Kept, Decode(DeserializeItem) PROVE Kept'
  OBVIOUS
<1>. DEFINE item == ReadItem(rest)
<1>1. /\ p \in Payloads /\ buffer \in Nat /\ data \in Data /\ phase = "reading"
      /\ rest \in Seq(Byte)
  BY DEF Kept, Typed, Decode, DeserializeItem
<1>2. item \in Outcomes
  BY <1>1, ItemRead
<1>3. /\ UNCHANGED <<p, buffer, out, cut, data, ran, answer, sent>>
      /\ \/ item.ends # "no" /\ phase' = item.ends /\ UNCHANGED rest
         \/ item.ends = "no" /\ rest' = item.rest /\ phase' \in {"read", "reading"}
  BY DEF Decode, DeserializeItem
<1>. HIDE DEF item
<1>4. /\ phase' \in {"read", "reading", "out_of_range", "invalid_data", "crashed"}
      /\ rest' \in Seq(Byte)
  BY <1>1, <1>2, <1>3 DEF Outcomes
<1>5. Typed'
  BY <1>1, <1>3, <1>4 DEF Typed, Phases
<1>6. SizeFallsShort' /\ PayloadsNeverLeave'
  BY <1>1, <1>3, <1>4 DEF Kept, SizeFallsShort, PayloadsNeverLeave
<1>. QED BY <1>5, <1>6 DEF Kept

LEMMA KeptStep == Kept /\ [DispatchNext]_dispatchVars => Kept'
<1>. SUFFICES ASSUME Kept, [DispatchNext]_dispatchVars PROVE Kept'
  OBVIOUS
<1>. USE DEF vars
<1>1. CASE UNCHANGED dispatchVars
  BY <1>1 DEF dispatchVars, Kept, Typed, SizeFallsShort, PayloadsNeverLeave
<1>2. ASSUME UNCHANGED <<p, buffer, out, cut, rest, left, got, phase, data>>,
             sent' # "written", answer' # "error_success"
      PROVE  Kept'
  <2>1. Typed' /\ SizeFallsShort'
    BY <1>2 DEF Kept, Typed, SizeFallsShort
  <2>. QED BY <1>2, <2>1 DEF Kept, PayloadsNeverLeave
<1>3. sent # "written" /\ answer # "error_success" /\ p \in Payloads /\ data \in Data
  BY DEF Kept, Typed, PayloadsNeverLeave
<1>4. CASE Decode(Serialize)
  BY <1>4, SerializeKept
<1>5. CASE Decode(Receive)
  BY <1>5, ReceiveKept
<1>6. CASE Decode(Deserialize)
  <2>1. Decode(DeserializeCount) \/ Decode(DeserializeItem)
    BY <1>6 DEF Decode, Deserialize
  <2>. QED BY <2>1, CountKept, ItemKept
<1>7. CASE SendPayload
  <2>1. Filled(p) \in {"out_of_range", "crashed"}
    BY <1>3, Encoded, NeverFilled
  <2>. QED BY <1>2, <1>3, <1>7, <2>1 DEF SendPayload
<1>8. CASE Die
  BY <1>2, <1>3, <1>8 DEF Die
<1>9. CASE Refuse
  BY <1>2, <1>3, <1>9 DEF Refuse
<1>10. ASSUME NEW o \in Opcodes, Perform(o) PROVE Kept'
  <2>1. UNCHANGED <<p, buffer, out, cut, rest, left, got, phase, data>> /\ sent' = sent
    BY <1>10 DEF Perform
  <2>2. CASE Invoked(o, got) = "popped"
    <3>1. o \in DOMAIN Functions
      BY <2>2 DEF Invoked
    <3>2. Filled(Functions[o].result) \in {"out_of_range", "crashed"}
      BY <1>3, <3>1, ResultsFilled
    <3>3. answer' = AnswerTo(Filled(Functions[o].result))
      BY <1>10, <2>2 DEF Perform
    <3>4. answer' # "error_success"
      BY <3>2, <3>3 DEF AnswerTo
    <3>. QED BY <1>2, <1>3, <2>1, <3>4
  <2>3. CASE Invoked(o, got) # "popped"
    <3>1. answer' = "error_internal_error"
      BY <1>10, <2>3 DEF Perform
    <3>. QED BY <1>2, <1>3, <2>1, <3>1
  <2>. QED BY <2>2, <2>3
<1>. QED BY <1>1, <1>4, <1>5, <1>6, <1>7, <1>8, <1>9, <1>10 DEF DispatchNext

(* Whatever the payload, the buffers, the bytes that come and the functions *)
(* that are offered.                                                        *)
THEOREM DispatchKept == DispatchSpec => []Kept
BY KeptInit, KeptStep, PTL DEF DispatchSpec

(* What serializer<payload>::size leaves out is the count of the items and  *)
(* that of the strings of a vector, and nothing else: for a payload of any  *)
(* length, of items of any value.                                           *)
THEOREM SizeShort == DispatchSpec => []SizeFallsShort
<1>1. Kept => SizeFallsShort
  BY DEF Kept
<1>. QED BY <1>1, DispatchKept, PTL

(* No message that message_passer makes is filled with a payload, and no    *)
(* function that was called is answered with its result.                    *)
THEOREM NothingLeaves == DispatchSpec => []PayloadsNeverLeave
<1>1. Kept => PayloadsNeverLeave
  BY DEF Kept
<1>. QED BY <1>1, DispatchKept, PTL
-----------------------------------------------------------------------------
(* What holds of the payloads the two agree on, as long as the count of     *)
(* their items fits its field.                                              *)

Waiting == phase \in {"new", "written", "received"} => got = <<>>

CutShort ==
  phase = "received" => cut \in 0..Len(out) /\ rest = SubSeq(out, 1, Len(out) - cut)

Coming ==
  (Faithful /\ phase = "reading") =>
    left \in 1..Len(p) /\ Reached(p, Len(p) - left, got, rest, cut)

Whole == (Faithful /\ phase = "read") => got = p /\ rest = <<>> /\ cut = 0

Broken ==
  (Faithful /\ phase \in {"out_of_range", "invalid_data", "crashed"}) =>
    phase = "out_of_range" /\ cut > 0

Decoded == Waiting /\ CutShort /\ Coming /\ Whole /\ Broken

Called == (ran # <<>> => answer # "none") /\ CallAsSent

Coded == Decoded /\ Called

(* The count is read, if it came; if it broke off, that is found out.       *)
LEMMA CountComes ==
  ASSUME MaxItems < Base * Base, NEW q \in Payloads, NEW w, w = FlattenSeq(Writes(q)),
         NEW c \in 0..Len(w), NEW r, r = SubSeq(w, 1, Len(w) - c)
  PROVE  \/ Len(r) < 2 /\ c > 0
         \/ /\ ~(Len(r) < 2) /\ Length(r) = Len(q)
            /\ Reached(q, 0, <<>>, After(r, 2), c)
<1>. DEFINE l == Little(Len(q), 2)  F == Remains(q, 0)
<1>1. q \in Seq(Items) /\ Len(q) \in Nat /\ Len(q) < Base * Base
  <2>1. q \in Seq(Items) /\ Len(q) \in 0..MaxItems
    BY PayloadsAre
  <2>. QED BY <2>1, BoundsAssumption, TypesAre
<1>2. \A it \in Items : IsItem(it)
  BY ItemsAssumption
<1>3. w \in Seq(Byte) /\ w = l \o F
  BY <1>1, <1>2, Encoded, RemainsAre
<1>4. F \in Seq(Byte)
  <2>1. 0 \in 0..Len(q)
    BY <1>1
  <2>. QED BY <1>1, <1>2, <2>1, RemainsAre
<1>5. l \in Seq(Byte) /\ Len(l) = 2
  BY <1>1, LittleType
<1>6. Number16(l) = Len(q)
  BY <1>1, LittleBack
<1>. HIDE DEF l, F
<1>7. Len(w) = 2 + Len(F) /\ Len(F) \in Nat
  <2>1. Len(l \o F) = Len(l) + Len(F) /\ Len(F) \in Nat
    BY <1>4, <1>5, Parts
  <2>. QED BY <1>3, <1>5, <2>1
<1>8. CASE c <= Len(F)
  <2>. DEFINE k == Len(F) - c  y == SubSeq(F, 1, k)
  <2>1. k \in 0..Len(F) /\ Len(w) - c = 2 + k
    BY <1>7, <1>8
  <2>. HIDE DEF k
  <2>2. SubSeq(l \o F, 1, Len(l) + k) = l \o y /\ y \in Seq(Byte)
    <3>1. l \in Seq(Byte) /\ F \in Seq(Byte) /\ k \in 0..Len(F)
      BY <1>4, <1>5, <2>1
    <3>. QED BY <3>1, BeginConcat
  <2>3. r = l \o y
    BY <1>3, <1>5, <2>1, <2>2
  <2>. HIDE DEF y
  <2>4. /\ Len(l \o y) = Len(l) + Len(y) /\ Len(y) \in Nat
        /\ SubSeq(l \o y, 1, Len(l)) = l
        /\ SubSeq(l \o y, Len(l) + 1, Len(l \o y)) = y
    <3>1. l \in Seq(Byte) /\ y \in Seq(Byte)
      BY <1>5, <2>2
    <3>. QED BY <3>1, Parts
  <2>5. ~(Len(r) < 2)
    BY <1>5, <2>3, <2>4
  <2>6. Length(r) = Len(q)
    BY <1>5, <1>6, <2>3, <2>4 DEF Length, First
  <2>7. After(r, 2) = y
    BY <1>5, <2>3, <2>4 DEF After
  <2>8. SubSeq(q, 1, 0) = <<>>
    BY SubSeqEmpty
  <2>9. c \in 0..Len(F)
    BY <1>7, <1>8
  <2>10. y = SubSeq(F, 1, Len(F) - c)
    BY DEF y, k
  <2>. QED BY <2>5, <2>6, <2>7, <2>8, <2>9, <2>10 DEF Reached, F
<1>9. CASE ~(c <= Len(F))
  <2>. DEFINE k == Len(w) - c
  <2>1. c > 0 /\ k \in 0..1 /\ k <= Len(w)
    BY <1>7, <1>9
  <2>. HIDE DEF k
  <2>2. Len(r) = k
    <3>1. \A i \in 1..Len(w) : w[i] \in Byte
      BY <1>3, ElementOfSeq
    <3>2. 1 \in Int /\ k \in Int /\ (\A i \in 1..k : w[i] \in Byte) /\ (k - 1) + 1 = k /\ k \in Nat
      BY <1>7, <2>1, <3>1
    <3>3. Len(SubSeq(w, 1, k)) = (IF 1 <= k THEN (k - 1) + 1 ELSE 0)
      BY <3>2, SubSeqProperties
    <3>4. r = SubSeq(w, 1, k)
      BY DEF k
    <3>. QED BY <3>2, <3>3, <3>4
  <2>. QED BY <2>1, <2>2
<1>. QED BY <1>8, <1>9

(* After the last item there is nothing left, nor was anything cut off.     *)
LEMMA ReachedEnd ==
  ASSUME NEW q \in Payloads, NEW g, NEW r, NEW c, Reached(q, Len(q), g, r, c)
  PROVE  g = q /\ r = <<>> /\ c = 0
<1>. DEFINE F == Remains(q, Len(q))
<1>1. q \in Seq(Items) /\ \A it \in Items : IsItem(it)
  BY PayloadsAre, ItemsAssumption
<1>2. F = <<>>
  BY <1>1, RemainsAre
<1>3. SubSeq(q, 1, Len(q)) = q
  BY <1>1, SubSeqFull
<1>4. g = q /\ c \in 0..Len(F) /\ r = SubSeq(F, 1, Len(F) - c)
  BY <1>3 DEF Reached
<1>. HIDE DEF F
<1>5. Len(F) = 0
  <2>1. Len(<<>>) = 0
    OBVIOUS
  <2>. QED BY <1>2, <2>1
<1>6. c = 0 /\ Len(F) - c = 0
  <2>. DEFINE k == Len(F)
  <2>1. c \in 0..k /\ k = 0
    BY <1>4, <1>5
  <2>. HIDE DEF k
  <2>2. c \in 0..0
    BY <2>1
  <2>3. c = 0
    BY <2>2
  <2>4. k - c = 0
    BY <2>1, <2>3
  <2>. QED BY <2>3, <2>4 DEF k
<1>7. SubSeq(F, 1, 0) = <<>>
  BY SubSeqEmpty
<1>. QED BY <1>4, <1>6, <1>7

LEMMA DecodedInit == DispatchInit => Decoded
BY DEF DispatchInit, Init, Decoded, Waiting, CutShort, Coming, Whole, Broken

LEMMA SerializeDecoded == Decoded /\ Serialize => Decoded'
<1>. SUFFICES ASSUME Decoded, Serialize PROVE Decoded'
  OBVIOUS
<1>1. got = <<>> /\ got' = got /\ phase' \in {"written", "exhausted"}
  BY DEF Decoded, Waiting, Serialize
<1>. QED BY <1>1 DEF Decoded, Waiting, CutShort, Coming, Whole, Broken

LEMMA ReceiveDecoded == Kept /\ Decoded /\ Receive => Decoded'
<1>. SUFFICES ASSUME Kept, Decoded, Receive PROVE Decoded'
  OBVIOUS
<1>1. /\ got = <<>> /\ got' = got /\ phase' = "received" /\ out' = out
      /\ rest' = SubSeq(out, 1, Len(out) - cut')
  BY DEF Decoded, Waiting, Receive
<1>2. PICK n \in 0..MaxCut : n <= Len(out) /\ cut' = n
  BY DEF Receive
<1>3. Len(out) \in Nat
  <2>1. p \in Payloads /\ out = FlattenSeq(Writes(p))
    BY DEF Kept, Typed, Receive
  <2>2. out \in Seq(Byte)
    BY <2>1, Encoded
  <2>. QED BY <2>2, LenProperties
<1>4. cut' \in 0..Len(out)
  BY <1>2, <1>3, BoundsAssumption
<1>. QED BY <1>1, <1>4 DEF Decoded, Waiting, CutShort, Coming, Whole, Broken

LEMMA CountDecoded ==
  ASSUME MaxItems < Base * Base
  PROVE  Kept /\ Decoded /\ DeserializeCount => Decoded'
<1>. SUFFICES ASSUME Kept, Decoded, DeserializeCount PROVE Decoded'
  OBVIOUS
<1>1. /\ p \in Payloads /\ phase = "received" /\ out = FlattenSeq(Writes(p)) /\ got = <<>>
      /\ cut \in 0..Len(out) /\ rest = SubSeq(out, 1, Len(out) - cut)
  BY DEF Kept, Typed, Decoded, Waiting, CutShort, DeserializeCount
<1>2. UNCHANGED <<p, out, cut, got>>
  BY DEF DeserializeCount
<1>3. CASE Len(rest) < 2 /\ cut > 0
  <2>1. phase' = "out_of_range"
    BY <1>3 DEF DeserializeCount
  <2>. QED BY <1>2, <1>3, <2>1 DEF Decoded, Waiting, CutShort, Coming, Whole, Broken
<1>4. CASE /\ ~(Len(rest) < 2) /\ Length(rest) = Len(p)
           /\ Reached(p, 0, <<>>, After(rest, 2), cut)
  <2>1. /\ left' = Len(p) /\ rest' = After(rest, 2)
        /\ phase' = IF Len(p) = 0 THEN "read" ELSE "reading"
    BY <1>4 DEF DeserializeCount
  <2>2. Len(p) \in Nat
    <3>1. Len(p) \in 0..MaxItems
      BY <1>1, PayloadsAre
    <3>. QED BY <3>1, BoundsAssumption
  <2>3. Reached(p, 0, <<>>, rest', cut)
    BY <1>4, <2>1
  <2>4. CASE Len(p) = 0
    <3>1. Reached(p, Len(p), <<>>, rest', cut)
      BY <2>3, <2>4
    <3>2. <<>> = p /\ rest' = <<>> /\ cut = 0
      BY <1>1, <3>1, ReachedEnd
    <3>3. phase' = "read"
      BY <2>1, <2>4
    <3>. QED BY <1>1, <1>2, <3>2, <3>3 DEF Decoded, Waiting, CutShort, Coming, Whole, Broken
  <2>5. CASE Len(p) # 0
    <3>1. phase' = "reading" /\ left' \in 1..Len(p) /\ Len(p) - left' = 0
      BY <2>1, <2>2, <2>5
    <3>2. p' = p /\ got' = <<>> /\ cut' = cut
      BY <1>1, <1>2
    <3>3. left' \in 1..Len(p') /\ Reached(p', Len(p') - left', got', rest', cut')
      BY <2>3, <3>1, <3>2
    <3>4. Coming'
      BY <3>3 DEF Coming
    <3>. QED BY <3>1, <3>4 DEF Decoded, Waiting, CutShort, Whole, Broken
  <2>. QED BY <2>4, <2>5
<1>5. \/ Len(rest) < 2 /\ cut > 0
      \/ /\ ~(Len(rest) < 2) /\ Length(rest) = Len(p)
         /\ Reached(p, 0, <<>>, After(rest, 2), cut)
  BY <1>1, CountComes
<1>. QED BY <1>3, <1>4, <1>5

LEMMA ItemDecoded == Kept /\ Decoded /\ DeserializeItem => Decoded'
<1>. SUFFICES ASSUME Kept, Decoded, DeserializeItem PROVE Decoded'
  OBVIOUS
<1>. DEFINE item == ReadItem(rest)  e == [type |-> Types[Head(rest) + 1], val |-> item.val]
<1>1. p \in Payloads /\ phase = "reading" /\ rest \in Seq(Byte)
  BY DEF Kept, Typed, DeserializeItem
<1>2. UNCHANGED <<p, out, cut>>
  BY DEF DeserializeItem
<1>3. item \in Outcomes
  BY <1>1, ItemRead
<1>4. \/ item.ends # "no" /\ phase' = item.ends /\ UNCHANGED <<rest, left, got>>
      \/ /\ item.ends = "no" /\ got' = Append(got, e) /\ rest' = item.rest /\ left' = left - 1
         /\ phase' = IF left = 1 THEN "read" ELSE "reading"
  BY DEF DeserializeItem
<1>. HIDE DEF item, e
<1>5. phase' \in {"out_of_range", "invalid_data", "crashed", "read", "reading"}
  BY <1>3, <1>4 DEF Outcomes
<1>6. Waiting' /\ CutShort'
  BY <1>5 DEF Waiting, CutShort
<1>7. ASSUME Faithful
      PROVE  \/ phase' = "out_of_range" /\ cut > 0
             \/ phase' = "read" /\ got' = p /\ rest' = <<>> /\ cut = 0
             \/ /\ phase' = "reading" /\ left' \in 1..Len(p)
                /\ Reached(p, Len(p) - left', got', rest', cut)
  <2>. DEFINE N == Len(p)  n == N - left
  <2>1. left \in 1..N /\ Reached(p, n, got, rest, cut)
    BY <1>1, <1>7 DEF Decoded, Coming
  <2>2. p \in Seq(Items) /\ (\A it \in Items : IsItem(it)) /\ N \in Nat
    <3>1. p \in Seq(Items) /\ N \in 0..MaxItems
      BY <1>1, PayloadsAre
    <3>. QED BY <3>1, BoundsAssumption, ItemsAssumption
  <2>3. n \in 0..(N - 1) /\ n + 1 \in 1..N /\ n + 1 = N - (left - 1)
    BY <2>1, <2>2
  <2>4. Agreed(p[n + 1])
    <3>1. DOMAIN p = 1..N
      BY <2>2, LenProperties
    <3>. QED BY <1>7, <2>3, <3>1 DEF Faithful
  <2>. HIDE DEF n
  <2>5. \/ item.ends = "out_of_range" /\ cut > 0
        \/ item.ends = "no" /\ Reached(p, n + 1, Append(got, e), item.rest, cut)
    BY <2>1, <2>2, <2>3, <2>4, ReadOn DEF item, e
  <2>6. CASE item.ends = "out_of_range" /\ cut > 0
    BY <1>4, <2>6
  <2>7. CASE item.ends = "no" /\ Reached(p, n + 1, Append(got, e), item.rest, cut)
    <3>1. /\ got' = Append(got, e) /\ rest' = item.rest /\ left' = left - 1
          /\ phase' = IF left = 1 THEN "read" ELSE "reading"
      BY <1>4, <2>7
    <3>2. Reached(p, n + 1, got', rest', cut)
      BY <2>7, <3>1
    <3>3. CASE left = 1
      <4>1. n + 1 = Len(p)
        BY <2>2, <2>3, <3>3
      <4>2. got' = p /\ rest' = <<>> /\ cut = 0
        BY <1>1, <3>2, <4>1, ReachedEnd
      <4>. QED BY <3>1, <3>3, <4>2
    <3>4. CASE left # 1
      <4>1. left' \in 1..N /\ n + 1 = N - left'
        BY <2>1, <2>2, <2>3, <3>1, <3>4
      <4>. QED BY <3>1, <3>2, <3>4, <4>1
    <3>. QED BY <3>3, <3>4
  <2>. QED BY <2>5, <2>6, <2>7
<1>8. Faithful' <=> Faithful
  BY <1>2 DEF Faithful
<1>9. Coming' /\ Whole' /\ Broken'
  BY <1>2, <1>7, <1>8 DEF Coming, Whole, Broken
<1>. QED BY <1>6, <1>9 DEF Decoded

LEMMA DecodedStep ==
  ASSUME MaxItems < Base * Base
  PROVE  Kept /\ Decoded /\ [DispatchNext]_dispatchVars => Decoded'
<1>. SUFFICES ASSUME Kept, Decoded, [DispatchNext]_dispatchVars PROVE Decoded'
  OBVIOUS
<1>1. ASSUME UNCHANGED vars PROVE Decoded'
  <2>1. UNCHANGED <<p, out, cut, rest, left, got, phase>>
    BY <1>1 DEF vars
  <2>2. (Faithful' <=> Faithful) /\ Waiting' /\ CutShort'
    BY <2>1 DEF Faithful, Decoded, Waiting, CutShort
  <2>3. Coming' /\ Whole' /\ Broken'
    BY <2>1, <2>2 DEF Decoded, Coming, Whole, Broken
  <2>. QED BY <2>2, <2>3 DEF Decoded
<1>2. CASE Decode(Serialize)
  BY <1>2, SerializeDecoded DEF Decode
<1>3. CASE Decode(Receive)
  BY <1>3, ReceiveDecoded DEF Decode
<1>4. CASE Decode(Deserialize)
  <2>1. DeserializeCount \/ DeserializeItem
    BY <1>4 DEF Decode, Deserialize
  <2>. QED BY <2>1, CountDecoded, ItemDecoded
<1>5. CASE SendPayload \/ Die \/ Refuse \/ UNCHANGED dispatchVars
  <2>1. UNCHANGED vars
    BY <1>5 DEF SendPayload, Die, Refuse, dispatchVars
  <2>. QED BY <1>1, <2>1
<1>6. ASSUME NEW o \in Opcodes, Perform(o) PROVE Decoded'
  <2>1. UNCHANGED vars
    BY <1>6 DEF Perform
  <2>. QED BY <1>1, <2>1
<1>. QED BY <1>2, <1>3, <1>4, <1>5, <1>6 DEF DispatchNext

(* A function that is called had all its arguments from a message that came *)
(* whole, or takes none.                                                    *)
LEMMA PerformCalled ==
  ASSUME NEW o \in Opcodes, Kept, Decoded, Called, Perform(o)
  PROVE  Called'
<1>. DEFINE params == Functions[o].params  n == Len(params)
            call == [op |-> o, args |-> SubSeq(got, 1, n)]
<1>1. /\ answer = "none" /\ ran = <<>> /\ UNCHANGED <<p, out, cut, got, phase, data>>
      /\ Deserialized
  BY DEF Perform, Called, vars
<1>2. CASE Invoked(o, got) # "popped"
  <2>1. ran' = <<>>
    BY <1>1, <1>2 DEF Perform
  <2>. QED BY <2>1 DEF Called, CallAsSent
<1>3. CASE Invoked(o, got) = "popped"
  <2>1. o \in DOMAIN Functions /\ Popped(params, got) = "popped"
    BY <1>3 DEF Invoked
  <2>2. ~(Len(got) < n) /\ \A i \in DOMAIN params : got[i].type = params[i]
    BY <2>1 DEF Popped
  <2>3. params \in Seq(ToSet(Types))
    BY <2>1, FunctionsOffered, OfferedAssumption
  <2>4. n \in Nat /\ DOMAIN params = 1..n
    BY <2>3, LenProperties
  <2>5. ran' = <<call>> /\ answer' = AnswerTo(Filled(Functions[o].result))
    BY <1>1, <1>3 DEF Perform
  <2>6. answer' # "none"
    <3>1. Filled(Functions[o].result) \in {"out_of_range", "crashed"}
      BY <2>1, ResultsFilled DEF Kept, Typed
    <3>. QED BY <2>5, <3>1 DEF AnswerTo
  <2>7. CallAsSent'
    <3>. SUFFICES ASSUME Faithful
                  PROVE  /\ call.args = SubSeq(p, 1, n)
                         /\ \A j \in DOMAIN params : call.args[j].type = params[j]
                         /\ cut = 0 \/ params = <<>>
      <4>1. Faithful' <=> Faithful
        BY <1>1 DEF Faithful
      <4>2. DOMAIN ran' = {1} /\ ran'[1] = call /\ call.op = o
        BY <2>5
      <4>. HIDE DEF call
      <4>. QED BY <1>1, <4>1, <4>2 DEF CallAsSent
    <3>. HIDE DEF params
    <3>1. CASE phase = "read"
      <4>1. got = p /\ cut = 0
        BY <3>1 DEF Decoded, Whole
      <4>2. \A j \in 1..n : SubSeq(got, 1, n)[j] = got[j]
        OBVIOUS
      <4>. QED BY <2>2, <2>4, <4>1, <4>2
    <3>2. CASE phase # "read"
      <4>1. got = <<>>
        BY <1>1, <3>2 DEF Decoded, Waiting, Deserialized
      <4>2. n = 0
        BY <2>2, <2>4, <4>1
      <4>3. params = <<>>
        BY <2>3, <4>2, EmptySeq
      <4>4. DOMAIN params = {}
        BY <2>4, <4>2
      <4>5. SubSeq(got, 1, 0) = <<>> /\ SubSeq(p, 1, 0) = <<>>
        BY SubSeqEmpty
      <4>. QED BY <4>2, <4>3, <4>4, <4>5
    <3>. QED BY <3>1, <3>2
  <2>. QED BY <2>6, <2>7 DEF Called
<1>. QED BY <1>2, <1>3

(* What a function was called with does not change after the call.          *)
LEMMA CalledStep == Kept /\ Decoded /\ Called /\ [DispatchNext]_dispatchVars => Called'
<1>. SUFFICES ASSUME Kept, Decoded, Called, [DispatchNext]_dispatchVars PROVE Called'
  OBVIOUS
<1>1. ASSUME answer = "none", UNCHANGED ran PROVE Called'
  <2>1. ran' = <<>>
    BY <1>1 DEF Called
  <2>. QED BY <2>1 DEF Called, CallAsSent
<1>2. ASSUME UNCHANGED <<p, cut, ran, answer>> PROVE Called'
  <2>1. Faithful' <=> Faithful
    BY <1>2 DEF Faithful
  <2>2. CallAsSent'
    BY <1>2, <2>1 DEF Called, CallAsSent
  <2>. QED BY <1>2, <2>2 DEF Called
<1>3. CASE Decode(Serialize) \/ Decode(Receive) \/ Decode(Deserialize) \/ Die \/ Refuse
  <2>1. answer = "none" /\ UNCHANGED ran
    BY <1>3 DEF Decode, Die, Refuse
  <2>. QED BY <1>1, <2>1
<1>4. CASE SendPayload \/ UNCHANGED dispatchVars
  <2>1. UNCHANGED <<p, cut, ran, answer>>
    BY <1>4 DEF SendPayload, dispatchVars, vars
  <2>. QED BY <1>2, <2>1
<1>5. ASSUME NEW o \in Opcodes, Perform(o) PROVE Called'
  BY <1>5, PerformCalled
<1>. QED BY <1>3, <1>4, <1>5 DEF DispatchNext

LEMMA CodedHolds ==
  ASSUME MaxItems < Base * Base
  PROVE  DispatchSpec => [](Kept /\ Coded)
<1>1. DispatchInit => Coded
  <2>1. DispatchInit => Called
    BY DEF DispatchInit, Called, CallAsSent
  <2>. QED BY <2>1, DecodedInit DEF Coded
<1>2. Kept /\ Coded /\ [DispatchNext]_dispatchVars => Coded'
  BY DecodedStep, CalledStep DEF Coded
<1>. QED BY <1>1, <1>2, KeptInit, KeptStep, PTL DEF DispatchSpec

(* A payload of integers and strings, up to as many as the field of their   *)
(* count can say, comes back as it was, of whatever values and in whatever  *)
(* order, and nothing is left over.                                         *)
THEOREM PayloadsComeBack ==
  ASSUME MaxItems < Base * Base
  PROVE  DispatchSpec => []RoundTrip
<1>1. Coded => RoundTrip
  BY DEF Coded, Decoded, Whole, Broken, RoundTrip, Ended
<1>. QED BY <1>1, CodedHolds, PTL

(* Such a payload that broke off, wherever, is refused with out_of_range:   *)
(* no reading of it comes to an end, to a crash or to another complaint.    *)
THEOREM BrokenOffFound ==
  ASSUME MaxItems < Base * Base
  PROVE  DispatchSpec => []TruncationFound
<1>1. Coded => TruncationFound
  BY DEF Coded, Decoded, Whole, Broken, TruncationFound, Ended
<1>. QED BY <1>1, CodedHolds, PTL

(* Whatever functions are registered, a function only runs with what was    *)
(* sent for it, of the types it takes, and never on a part of a message.    *)
THEOREM CalledAsSent ==
  ASSUME MaxItems < Base * Base
  PROVE  DispatchSpec => []CallAsSent
<1>1. Coded => CallAsSent
  BY DEF Coded, Called
<1>. QED BY <1>1, CodedHolds, PTL
=============================================================================
