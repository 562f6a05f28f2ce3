--------------------------- MODULE Requirements ----------------------------
(***************************************************************************)
(* What a job may ask for: a compiler (CompilerRequirement, compared with  *)
(* a CompilerDescription and its Version), and properties of a node        *)
(* (Requirement, judged by the matchers of a MatcherRegistry).             *)
(***************************************************************************)
EXTENDS Integers, SequencesExt

CONSTANTS
  NoName  \* the empty name of a compiler

(* Version: major, minor, micro and build.  The code's < compares each of  *)
(* the four, and holds only if it holds of all.                            *)
Version     == [1..4 -> Nat]
NullVersion == [i \in 1..4 |-> 0]

Less_Some_Bug(l, r) == \E i \in 1..4 : l[i] < r[i]

Less(l, r) == \A i \in 1..4 : l[i] < r[i]

(* CompilerRequirement.  The null requirement is met by everything; the    *)
(* setters of its fields leave it a null requirement.                      *)
Required(name, low, high) == [null |-> FALSE, name |-> name, low |-> low, high |-> high]
NullRequirement == [null |-> TRUE, name |-> NoName, low |-> NullVersion, high |-> NullVersion]

SetCompiler(r, name)        == [r EXCEPT !.name = name]
SetVersionRange(r, low, high) == [r EXCEPT !.low = low, !.high = high]
SetSpecificVersion(r, v)    == SetVersionRange(r, v, v)

(* CompilerDescription::supports: a range without an upper end is none.    *)
Supports(d, r) ==
  \/ r.null
  \/ /\ r.name # NoName => r.name = d.name
     /\ r.high # NullVersion => Less(r.low, d.version) /\ Less(d.version, r.high)
-----------------------------------------------------------------------------
(* std::string's < and find, on sequences of numbers.                      *)
Before(l, r) ==
  \/ IsStrictPrefix(l, r)
  \/ \E i \in DOMAIN l \cap DOMAIN r :
       l[i] < r[i] /\ SubSeq(l, 1, i - 1) = SubSeq(r, 1, i - 1)

Occurs(r, l) == \E i \in 0..Len(l) : IsPrefix(r, SubSeq(l, i + 1, Len(l)))

Matches_Strict_Bug(op, l, r) ==
  \/ op = "has"
  \/ op \in {"==", "<="} /\ l = r
  \/ op = "!=" /\ l # r
  \/ op \in {"<", "<="} /\ Before(l, r)
  \/ op \in {">", ">="} /\ Before(r, l)
  \/ op = "contains" /\ Occurs(r, l)
  \/ op = "contains_not" /\ ~Occurs(r, l)

(* The matchers of the farm, each for one operator.  "has" and "has_not"   *)
(* do not look at the property: the one always matches, the other never.   *)
Matches(op, l, r) ==
  \/ op = "has"
  \/ op \in {"==", "<=", ">="} /\ l = r
  \/ op = "!=" /\ l # r
  \/ op \in {"<", "<="} /\ Before(l, r)
  \/ op \in {">", ">="} /\ Before(r, l)
  \/ op = "contains" /\ Occurs(r, l)
  \/ op = "contains_not" /\ ~Occurs(r, l)

(* MatcherRegistry: an operator nobody registered matches nothing, and a   *)
(* property the node does not have is an empty string.  What is returned   *)
(* are the requirements that are not met, here their places in reqs.       *)
PropertyOf(node, name) == IF name \in DOMAIN node THEN node[name] ELSE <<>>

Unfulfilled(registry, reqs, node) ==
  {i \in DOMAIN reqs : LET q == reqs[i] IN
     ~(q.op \in ToSet(registry) /\ Matches(q.op, PropertyOf(node, q.name), q.match))}
=============================================================================
