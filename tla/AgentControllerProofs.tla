----------------------- MODULE AgentControllerProofs -----------------------
(***************************************************************************)
(* What find_compatible_agents may offer, for every set of agents, lists   *)
(* of compilers and versions; and what the matchers of a registry say of   *)
(* each other, for texts of any length.                                    *)
(***************************************************************************)
EXTENDS AgentController, SequenceTheorems, WellFoundedInduction, TLAPS

(* The order of the code (Version's operator<) is stricter than the usual  *)
(* order of versions: what it calls less is older.                         *)
LEMMA LessIsOlder ==
  ASSUME NEW l, NEW r, Less(l, r)
  PROVE  Older(l, r)
<1>1. l[1] < r[1]
  BY DEF Less
<1>2. \A j \in 1..(1 - 1) : l[j] = r[j]
  OBVIOUS
<1> QED
  BY <1>1, <1>2 DEF Older

(* What a description says it supports has the name and lies between the   *)
(* versions that were asked for (CompilerDescription::supports).           *)
Suits(d, r) ==
  /\ r.name # NoName => d.name = r.name
  /\ r.high # NullVersion => Older(r.low, d.version) /\ Older(d.version, r.high)

LEMMA SupportedSuits ==
  ASSUME NEW d, NEW r, Supports(d, r), ~r.null
  PROVE  Suits(d, r)
BY LessIsOlder DEF Supports, Suits

(* What is known was said, and once by each agent; an answer was taken     *)
(* from what is known now, for the requirement as it is now.               *)
KnownWasSaid == known \subseteq said
KnownOnce    == \A a, b \in known : a.id = b.id => a = b
AnswerFresh  ==
  \A found \in answer :
    /\ found \subseteq known
    /\ ~req.null => \A a \in found : \E d \in a.compilers : Supports(d, req)

Inv == KnownWasSaid /\ KnownOnce /\ AnswerFresh

LEMMA InvInit == Init => Inv
BY DEF Init, Inv, KnownWasSaid, KnownOnce, AnswerFresh

LEMMA InvNext == Inv /\ [Next]_vars => Inv'
<1> SUFFICES ASSUME Inv, [Next]_vars
             PROVE  Inv'
  OBVIOUS
<1> USE DEF Inv, KnownWasSaid, KnownOnce, AnswerFresh
<1>1. ASSUME NEW info \in AgentInfo, Register(info)
      PROVE  Inv'
  <2>1. CASE \E a \in known : a.id = info.id
    BY <1>1, <2>1 DEF Register
  <2>2. CASE ~\E a \in known : a.id = info.id
    <3>1. known' = known \cup {info} /\ said' = said \cup {info} /\ answer' = {}
      BY <1>1, <2>2 DEF Register
    <3> QED
      BY <2>2, <3>1
  <2> QED
    BY <2>1, <2>2
<1>2. ASSUME NEW info \in AgentInfo, Unregister(info)
      PROVE  Inv'
  BY <1>2 DEF Unregister
<1>3. CASE Ask
  BY <1>3 DEF Ask
<1>4. CASE Amend
  BY <1>4 DEF Amend
<1>5. CASE FindCompatibleAgents
  BY <1>5 DEF FindCompatibleAgents
<1>6. ASSUME NEW op \in Operators, RegisterMatcher(op)
      PROVE  Inv'
  BY <1>6 DEF RegisterMatcher
<1>7. CASE UNCHANGED vars
  BY <1>7 DEF vars
<1> QED
  BY <1>1, <1>2, <1>3, <1>4, <1>5, <1>6, <1>7 DEF Next

(* The inductive invariant of an AgentController.                          *)
THEOREM ControllerInvariant == Spec => []Inv
BY InvInit, InvNext, PTL DEF Spec

(* Every agent that is offered has a compiler that was asked for.          *)
THEOREM OfferedSupport == Spec => []OffersSupport
<1>1. Inv => OffersSupport
  BY SupportedSuits DEF Inv, AnswerFresh, OffersSupport, Suits
<1> QED
  BY <1>1, ControllerInvariant, PTL

(* No agent is offered twice.                                              *)
THEOREM OfferedAtMostOnce == Spec => []OfferedOnce
<1>1. Inv => OfferedOnce
  BY DEF Inv, KnownOnce, AnswerFresh, OfferedOnce
<1> QED
  BY <1>1, ControllerInvariant, PTL

(* Whoever is offered has registered as what it is offered as.             *)
THEOREM OfferedRegistered == Spec => []OffersRegistered
<1>1. Inv => OffersRegistered
  BY DEF Inv, KnownWasSaid, AnswerFresh, OffersRegistered
<1> QED
  BY <1>1, ControllerInvariant, PTL
-----------------------------------------------------------------------------
(* The order of texts, which the matchers for <, <=, > and >= go by.  Two   *)
(* texts that differ do so in a first place, or one is the other's          *)
(* beginning.                                                               *)
Smaller == {c \in Nat \X Nat : c[1] < c[2]}

LEMMA FirstOf ==
  ASSUME NEW T, T \subseteq Nat, T # {}
  PROVE  \E x \in T : \A y \in T : x <= y
<1>1. IsWellFoundedOn(Smaller, Nat)
  BY NatLessThanWellFounded DEF OpToRel, Smaller
<1>2. PICK x \in T : \A y \in T : ~(<<y, x>> \in Smaller)
  BY <1>1, WFMin
<1>3. ASSUME NEW y \in T PROVE x <= y
  <2>1. x \in Nat /\ y \in Nat
    OBVIOUS
  <2>2. ~(y < x)
    BY <1>2, <2>1 DEF Smaller
  <2>. QED BY <2>1, <2>2
<1>. QED BY <1>3

(* l and r agree before i and differ there.                                 *)
Differ(l, r, i) ==
  i \in DOMAIN l \cap DOMAIN r /\ l[i] # r[i] /\ \A j \in 1..(i - 1) : l[j] = r[j]

(* l is the beginning of r.                                                 *)
Begins(l, r) == Len(l) <= Len(r) /\ \A j \in 1..Len(l) : l[j] = r[j]

LEMMA BeginningsAgree ==
  ASSUME NEW l \in Seq(Nat), NEW r \in Seq(Nat), NEW n \in Nat, n <= Len(l), n <= Len(r)
  PROVE  SubSeq(l, 1, n) = SubSeq(r, 1, n) <=> \A j \in 1..n : l[j] = r[j]
<1>1. /\ Len(l) \in Nat /\ Len(r) \in Nat
      /\ Len(SubSeq(l, 1, n)) = n /\ Len(SubSeq(r, 1, n)) = n
      /\ SubSeq(l, 1, n) \in Seq(Nat) /\ SubSeq(r, 1, n) \in Seq(Nat)
      /\ \A j \in 1..n : SubSeq(l, 1, n)[j] = l[j] /\ SubSeq(r, 1, n)[j] = r[j]
  BY SubSeqProperties, LenProperties
<1>. QED BY <1>1, SeqEqual

LEMMA BeforeIs ==
  ASSUME NEW l \in Seq(Nat), NEW r \in Seq(Nat)
  PROVE  Before(l, r) <=> \/ Begins(l, r) /\ l # r
                          \/ \E i : Differ(l, r, i) /\ l[i] < r[i]
<1>1. /\ Len(l) \in Nat /\ Len(r) \in Nat
      /\ DOMAIN l = 1..Len(l) /\ DOMAIN r = 1..Len(r)
      /\ \A i \in DOMAIN l \cap DOMAIN r : l[i] \in Nat /\ r[i] \in Nat
  BY LenProperties, ElementOfSeq
<1>2. IsPrefix(l, r) <=> Begins(l, r)
  BY <1>1, BeginningsAgree DEF IsPrefix, Begins
<1>3. ASSUME NEW i \in DOMAIN l \cap DOMAIN r
      PROVE  l[i] < r[i] /\ SubSeq(l, 1, i - 1) = SubSeq(r, 1, i - 1) <=>
               Differ(l, r, i) /\ l[i] < r[i]
  <2>1. i - 1 \in Nat /\ i - 1 <= Len(l) /\ i - 1 <= Len(r)
    BY <1>1
  <2>2. SubSeq(l, 1, i - 1) = SubSeq(r, 1, i - 1) <=> \A j \in 1..(i - 1) : l[j] = r[j]
    BY <2>1, BeginningsAgree
  <2>. QED BY <1>1, <2>2, SMTT(30) DEF Differ
<1>4. \A i : Differ(l, r, i) => i \in DOMAIN l \cap DOMAIN r
  BY DEF Differ
<1>. QED BY <1>2, <1>3, <1>4 DEF Before, IsStrictPrefix

(* Of two texts one is before the other, or they are the same: no two of    *)
(* these, and always one.                                                   *)
LEMMA TextsOrdered ==
  ASSUME NEW l \in Seq(Nat), NEW r \in Seq(Nat)
  PROVE  /\ Before(l, r) \/ Before(r, l) \/ l = r
         /\ ~(Before(l, r) /\ Before(r, l))
         /\ ~Before(l, l)
<1>1. /\ Len(l) \in Nat /\ Len(r) \in Nat
      /\ DOMAIN l = 1..Len(l) /\ DOMAIN r = 1..Len(r)
      /\ \A i \in DOMAIN l : l[i] \in Nat
      /\ \A i \in DOMAIN r : r[i] \in Nat
  BY LenProperties, ElementOfSeq
<1>2. Begins(l, r) /\ Begins(r, l) => l = r
  BY <1>1, SeqEqual, SMTT(30) DEF Begins
<1>3. \A i : Differ(l, r, i) <=> Differ(r, l, i)
  BY DEF Differ
<1>4. \A i : Differ(l, r, i) =>
        /\ i \in Nat /\ i \in DOMAIN l /\ i \in DOMAIN r
        /\ ~Begins(l, r) /\ ~Begins(r, l)
        /\ (l[i] < r[i] \/ r[i] < l[i]) /\ ~(l[i] < r[i] /\ r[i] < l[i])
  BY <1>1 DEF Differ, Begins
<1>5. ASSUME NEW i, NEW j, Differ(l, r, i), Differ(l, r, j) PROVE i = j
  <2>1. i \in Nat \ {0} /\ j \in Nat \ {0}
    BY <1>1, <1>5 DEF Differ
  <2>2. ~(i < j)
    <3>1. i < j => i \in 1..(j - 1)
      BY <2>1
    <3>. QED BY <1>5, <3>1 DEF Differ
  <2>3. ~(j < i)
    <3>1. j < i => j \in 1..(i - 1)
      BY <2>1
    <3>. QED BY <1>5, <3>1 DEF Differ
  <2>. QED BY <2>1, <2>2, <2>3
<1>6. (\E i : Differ(l, r, i)) \/ Begins(l, r) \/ Begins(r, l)
  <2>. DEFINE T == {i \in DOMAIN l \cap DOMAIN r : l[i] # r[i]}
  <2>1. CASE T = {}
    <3>1. \A i \in 1..Len(l) : i \in 1..Len(r) => l[i] = r[i]
      BY <1>1, <2>1
    <3>2. ASSUME Len(l) <= Len(r) PROVE Begins(l, r)
      <4>1. \A i \in 1..Len(l) : i \in 1..Len(r)
        BY <1>1, <3>2
      <4>. QED BY <3>1, <3>2, <4>1 DEF Begins
    <3>3. ASSUME Len(r) <= Len(l) PROVE Begins(r, l)
      <4>1. \A i \in 1..Len(r) : i \in 1..Len(l)
        BY <1>1, <3>3
      <4>. QED BY <3>1, <3>3, <4>1 DEF Begins
    <3>. QED BY <1>1, <3>2, <3>3
  <2>2. CASE T # {}
    <3>1. T \subseteq Nat
      BY <1>1
    <3>2. PICK i \in T : \A j \in T : i <= j
      BY <2>2, <3>1, FirstOf
    <3>3. \A j \in 1..(i - 1) : j \in DOMAIN l \cap DOMAIN r /\ ~(i <= j)
      BY <1>1, <3>2
    <3>4. Differ(l, r, i)
      BY <3>2, <3>3 DEF Differ
    <3>. QED BY <3>4
  <2>. QED BY <2>1, <2>2
<1>7. ~Before(l, l)
  BY <1>1, BeforeIs DEF Differ
<1>8. Before(l, r) <=> (Begins(l, r) /\ l # r) \/ \E i : Differ(l, r, i) /\ l[i] < r[i]
  BY BeforeIs
<1>9. Before(r, l) <=> (Begins(r, l) /\ l # r) \/ \E i : Differ(l, r, i) /\ r[i] < l[i]
  BY <1>3, BeforeIs
<1>10. ~(Before(l, r) /\ Before(r, l))
  BY <1>2, <1>4, <1>5, <1>8, <1>9
<1>11. Before(l, r) \/ Before(r, l) \/ l = r
  BY <1>4, <1>6, <1>8, <1>9
<1>. QED BY <1>7, <1>10, <1>11

(* Of two opposite operators one matches, whatever the texts.               *)
LEMMA OneMatches ==
  ASSUME NEW o \in Opposites, NEW l \in Seq(Nat), NEW r \in Seq(Nat)
  PROVE  Matches(o[1], l, r) <=> ~Matches(o[2], l, r)
<1>1. /\ Before(l, r) \/ Before(r, l) \/ l = r
      /\ ~(Before(l, r) /\ Before(r, l))
      /\ l = r => ~Before(l, r) /\ ~Before(r, l)
  BY TextsOrdered
<1>2. CASE o = <<"==", "!=">>
  BY <1>2 DEF Matches
<1>3. CASE o = <<"<", ">=">>
  BY <1>1, <1>3 DEF Matches
<1>4. CASE o = <<">", "<=">>
  BY <1>1, <1>4 DEF Matches
<1>5. CASE o = <<"has", "has_not">>
  BY <1>5 DEF Matches
<1>6. CASE o = <<"contains", "contains_not">>
  BY <1>6 DEF Matches
<1>. QED BY <1>2, <1>3, <1>4, <1>5, <1>6 DEF Opposites

(* OppositesDisagree: a node is never turned away by both of two opposite  *)
(* requirements, nor let pass by both, whatever it and they say.           *)
THEOREM OppositesNeverAgree == Spec => []OppositesDisagree
<1>1. OppositesDisagree
  <2>. SUFFICES ASSUME NEW o \in Opposites, {o[1], o[2]} \subseteq ToSet(registry),
                       NEW has \in Texts, NEW asked \in Texts
                PROVE  LET node == [n \in {"property"} |-> has]
                           qs   == [i \in 1..2 |->
                                      [name |-> "property", op |-> o[i], match |-> asked]]
                       IN  \E i \in 1..2 : Unfulfilled(registry, qs, node) = {i}
    BY DEF OppositesDisagree
  <2>. DEFINE node == [n \in {"property"} |-> has]
              qs == [i \in 1..2 |-> [name |-> "property", op |-> o[i], match |-> asked]]
  <2>1. has \in Seq(Nat) /\ asked \in Seq(Nat)
    BY TextsAssumption
  <2>2. PropertyOf(node, "property") = has
    <3>1. "property" \in DOMAIN node /\ node["property"] = has
      OBVIOUS
    <3>. QED BY <3>1 DEF PropertyOf
  <2>3. DOMAIN qs = {1, 2}
    OBVIOUS
  <2>4. \A i \in {1, 2} : qs[i].op = o[i] /\ qs[i].name = "property" /\ qs[i].match = asked
    OBVIOUS
  <2>. HIDE DEF node, qs
  <2>5. Unfulfilled(registry, qs, node) = {i \in {1, 2} : ~Matches(o[i], has, asked)}
    BY <2>2, <2>3, <2>4 DEF Unfulfilled
  <2>6. Matches(o[1], has, asked) <=> ~Matches(o[2], has, asked)
    BY <2>1, OneMatches
  <2>7. \E i \in 1..2 : Unfulfilled(registry, qs, node) = {i}
    BY <2>5, <2>6
  <2>. QED BY <2>7 DEF node, qs
<1>. QED BY <1>1, PTL
=============================================================================
