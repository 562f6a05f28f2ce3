-------------------------- MODULE AgentController --------------------------
(***************************************************************************)
(* The AgentController of a management node: agents register and           *)
(* unregister, and the node looks for those that support a compiler; and   *)
(* the MatcherRegistry that judges the properties of a node.               *)
(*                                                                         *)
(* Every operation is one section under the mutex of the controller.  The  *)
(* requirement of the next search is built up by its setters.              *)
(***************************************************************************)
EXTENDS Requirements

CONSTANTS
  Agents,      \* the ids of the agents
  Compilers,   \* the lists of compilers an agent may say it has, as sets
  Names,       \* names of compilers that are asked for
  Versions,    \* versions that are asked for
  Operators,   \* the operators matchers are made for
  MaxMatchers, \* bound: matchers of the registry
  Texts        \* what properties and requirements say

ASSUME VersionsAssumption ==
  /\ Versions \subseteq Version
  /\ \A s \in Compilers : \A d \in s : d.version \in Version
ASSUME TextsAssumption == Texts \subseteq Seq(Nat)

VARIABLES
  known,    \* _known_agents
  req,      \* the requirement the next search is for
  answer,   \* the agents the last search found, as a set of at most one answer
  said,     \* history: what agents said of themselves since they last unregistered
  registry  \* the operators of _matchers, in their order

vars == <<known, req, answer, said, registry>>

AgentInfo == [id : Agents, compilers : Compilers]

Init ==
  /\ known = {} /\ said = {}
  /\ req = NullRequirement
  /\ answer = {}
  /\ registry = <<>>
-----------------------------------------------------------------------------
Register_Again_Bug(info) ==
  /\ known' = known \cup {info}
  /\ said' = said \cup {info} /\ answer' = {}
  /\ UNCHANGED <<req, registry>>

(* std::set::insert, by the id: an agent that is known keeps its old info. *)
Register(info) ==
  /\ known' = IF \E a \in known : a.id = info.id THEN known ELSE known \cup {info}
  /\ said' = said \cup {info} /\ answer' = {}
  /\ UNCHANGED <<req, registry>>

Unregister_Same_Bug(info) ==
  /\ known' = known \ {info}
  /\ said' = {a \in said : a.id # info.id} /\ answer' = {}
  /\ UNCHANGED <<req, registry>>

(* std::set::erase, by the id.                                             *)
Unregister(info) ==
  /\ known' = {a \in known : a.id # info.id}
  /\ said' = {a \in said : a.id # info.id} /\ answer' = {}
  /\ UNCHANGED <<req, registry>>

(* The requirement of the next search is a new one, or the last one with a *)
(* field set.                                                              *)
Ask ==
  /\ \E n \in Names \cup {NoName}, low, high \in Versions :
       req' \in {NullRequirement, Required(n, low, high)}
  /\ answer' = {}
  /\ UNCHANGED <<known, said, registry>>

Amend ==
  /\ \/ \E n \in Names : req' = SetCompiler(req, n)
     \/ \E v \in Versions : req' = SetSpecificVersion(req, v)
     \/ \E low, high \in Versions : req' = SetVersionRange(req, low, high)
  /\ answer' = {}
  /\ UNCHANGED <<known, said, registry>>

FindCompatibleAgents ==
  /\ answer' = {IF req.null THEN known
                ELSE {a \in known : \E d \in a.compilers : Supports(d, req)}}
  /\ UNCHANGED <<known, req, said, registry>>

RegisterMatcher(op) ==
  /\ Len(registry) < MaxMatchers
  /\ registry' = Append(registry, op)
  /\ UNCHANGED <<known, req, answer, said>>

Next ==
  \/ \E info \in AgentInfo : Register(info) \/ Unregister(info)
  \/ Ask \/ Amend
  \/ FindCompatibleAgents
  \/ \E op \in Operators : RegisterMatcher(op)

Spec == Init /\ [][Next]_vars
-----------------------------------------------------------------------------
(* The order of versions as everybody reads them.                          *)
Older(l, r) == \E i \in 1..4 : l[i] < r[i] /\ \A j \in 1..(i - 1) : l[j] = r[j]

(* No agent is offered for a compiler it does not have: one that was found *)
(* has a compiler of the name that was asked for, and of a version that    *)
(* lies between the two that were asked for as versions are usually        *)
(* compared, although the code compares them in another way.               *)
OffersSupport ==
  \A found \in answer : \A a \in found : ~req.null =>
    \E d \in a.compilers :
      /\ req.name # NoName => d.name = req.name
      /\ req.high # NullVersion => Older(req.low, d.version) /\ Older(d.version, req.high)

(* No agent is offered twice, however often it registers and whatever it   *)
(* says: the runner of a job would send it there twice.                    *)
OfferedOnce ==
  \A found \in answer : \A a, b \in found : a.id = b.id => a = b

(* Whoever is offered registered as what it is offered as, and has not     *)
(* unregistered since, in whatever way it described itself when it did.    *)
OffersRegistered == \A found \in answer : found \subseteq said

(* For operators that are each other's opposite, exactly one of the two    *)
(* requirements is reported unfulfilled: with the matchers of both, a node *)
(* is never turned away by both, nor let pass by both.                     *)
Opposites == {<<"==", "!=">>, <<"<", ">=">>, <<">", "<=">>, <<"has", "has_not">>,
              <<"contains", "contains_not">>}

OppositesDisagree ==
  \A o \in Opposites : {o[1], o[2]} \subseteq ToSet(registry) =>
    \A has, asked \in Texts :
      LET node == [n \in {"property"} |-> has]
          qs   == [i \in 1..2 |-> [name |-> "property", op |-> o[i], match |-> asked]]
      IN  \E i \in 1..2 : Unfulfilled(registry, qs, node) = {i}
=============================================================================
