---------------------------- MODULE CallContract ----------------------------
(***************************************************************************)
(* What the request/response layer promises about every call an            *)
(* application makes through it, with none of the machinery: a call is     *)
(* issued at most once, served by the other side at most once and only     *)
(* after it was issued, and settled at most once.  An answer is only given *)
(* for a call that was served; a call whose reply is thrown away, or that  *)
(* a closed connection swallowed, stays in that state for ever.            *)
(***************************************************************************)
CONSTANTS Peers,     \* the two ends of a connection
          Serials    \* the calls an end makes, numbered in order

VARIABLE fate        \* fate[p][n]: how far the n-th call of p has come

Settled == {"answered", "dropped", "lost"}
Open    == {"issued", "served"}
Fates   == {"unused"} \cup Open \cup Settled

(* The steps one call may take.  One made when the connection is already   *)
(* closed is lost as it is issued.                                         *)
Advances == { <<"unused", "issued">>,
              <<"unused", "lost">>,
              <<"issued", "served">>,
              <<"served", "answered">>,
              <<"served", "dropped">>,
              <<"issued", "lost">>,
              <<"served", "lost">> }

Init == fate = [p \in Peers |-> [n \in Serials |-> "unused"]]

(* Several calls may advance at once: a reply callback that makes a call   *)
(* of its own settles one and issues another.                              *)
Next == /\ fate' \in [Peers -> [Serials -> Fates]]
        /\ \A p \in Peers, n \in Serials :
              fate'[p][n] = fate[p][n] \/ <<fate[p][n], fate'[p][n]>> \in Advances

Safe == Init /\ [][Next]_fate
=============================================================================
