-------------------------- MODULE OrderedCandidates --------------------------
(***************************************************************************)
(* ordered_candidates of crates/failover over the list the provider        *)
(* returns, one action per turn of its loop.  A name may appear in that    *)
(* list more than once, with different states: the list is taken as it     *)
(* comes.  The result has the place of an entry where the code has a copy. *)
(***************************************************************************)
EXTENDS Naturals, Sequences, Candidates

CONSTANTS
  NodeNames,
  NoName,     \* no preferred standby
  MaxLen      \* bound: the entries of a list

ASSUME ListAssumption == MaxLen \in Nat

VARIABLES
  nodes,  \* the list
  call,   \* the other arguments
  out,    \* the candidates so far
  next    \* 0: the standby is looked for; later: the entry the loop is at

listVars == <<nodes, call, out, next>>

Entries   == [name : NodeNames, web_supported : BOOLEAN, online : BOOLEAN, quarantined : BOOLEAN]
NodeLists == UNION {[1..k -> Entries] : k \in 0..MaxLen}
Calls     == [active : NodeNames, preferred : NodeNames \cup {NoName}, require_web : BOOLEAN]

ListInit ==
  /\ nodes \in NodeLists
  /\ call \in Calls
  /\ out = << >>
  /\ next = 0

eligible(node) ==
  /\ node.name # call.active
  /\ call.require_web => node.web_supported
  /\ node.online
  /\ ~node.quarantined

Chosen == {nodes[out[k]].name : k \in DOMAIN out}

(* A mutant of FindStandby: the standby is not preferred.                  *)
ForgetStandby ==
  /\ next = 0
  /\ next' = 1
  /\ UNCHANGED <<nodes, call, out>>

(* The first eligible entry of the preferred name, if there is one.        *)
FindStandby ==
  /\ next = 0
  /\ LET found == {i \in DOMAIN nodes : nodes[i].name = call.preferred /\ eligible(nodes[i])} IN
     \/ found = {} /\ UNCHANGED out
     \/ \E i \in found : (\A j \in found : i <= j) /\ out' = <<i>>
  /\ next' = 1
  /\ UNCHANGED <<nodes, call>>

(* A mutant of ConsiderNode: the name is not looked for in the result.     *)
ConsiderAgain ==
  /\ next \in DOMAIN nodes
  /\ out' = IF eligible(nodes[next]) THEN Append(out, next) ELSE out
  /\ next' = next + 1
  /\ UNCHANGED <<nodes, call>>

ConsiderNode ==
  /\ next \in DOMAIN nodes
  /\ out' = IF eligible(nodes[next]) /\ nodes[next].name \notin Chosen
            THEN Append(out, next) ELSE out
  /\ next' = next + 1
  /\ UNCHANGED <<nodes, call>>

Returned == next > Len(nodes) /\ next > 0

(* The function is called again.                                           *)
CallAgain ==
  /\ Returned
  /\ call' \in Calls /\ out' = << >> /\ next' = 0
  /\ UNCHANGED nodes

ListNext == FindStandby \/ ConsiderNode \/ CallAgain

ListSpec == ListInit /\ [][ListNext]_listVars

-----------------------------------------------------------------------------
NamesWith(ok(_)) == {n \in NodeNames : \E i \in DOMAIN nodes : nodes[i].name = n /\ ok(nodes[i])}

(* The candidates are the names with an eligible entry, each of them once; *)
(* and when the list names every node once, they are what the switch model *)
(* takes them for.                                                         *)
SameCandidates ==
  Returned =>
    /\ Chosen = NamesWith(eligible)
    /\ \A i, j \in DOMAIN out : nodes[out[i]].name = nodes[out[j]].name => i = j
    /\ (\A i, j \in DOMAIN nodes : nodes[i].name = nodes[j].name => i = j) =>
         Chosen = EligibleNames(call.active,
                    NamesWith(LAMBDA e : e.online), NamesWith(LAMBDA e : e.quarantined),
                    NamesWith(LAMBDA e : ~call.require_web \/ e.web_supported))

(* An eligible standby is tried first; the others keep the list's order,   *)
(* each with the first entry of its name that is eligible.                 *)
StandbyThenListOrder ==
  Returned =>
    /\ out # << >> => nodes[out[1]].name \in FirstOf(Chosen, call.preferred)
    /\ \A k \in DOMAIN out, i \in DOMAIN nodes :
         i < out[k] /\ nodes[i].name = nodes[out[k]].name => ~eligible(nodes[i])
    /\ \A j, k \in DOMAIN out :
         j < k /\ nodes[out[j]].name # call.preferred => out[j] < out[k]
=============================================================================
