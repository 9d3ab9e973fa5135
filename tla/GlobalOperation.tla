--------------------------- MODULE GlobalOperation ---------------------------
(***************************************************************************)
(* What the coordinator promises to whoever watches the routing row and    *)
(* the A records: one operation at a time; the active node is replaced     *)
(* only inside a switch, by its commit; records are only ever pointed at   *)
(* the active node, by an automatic switch only after its commit; and each *)
(* operation leaves a phase that says how far it came.                     *)
(*                                                                         *)
(* Module System implements this (ImplementsContract, SystemProperties).   *)
(***************************************************************************)
CONSTANTS Nodes, NoNode, Records

VARIABLES
  holder,   \* the kind of operation that has the lock, or "none"
  active,   \* the active node of the row
  phase,    \* its phase
  records   \* the node each managed A record points at

vars == <<holder, active, phase, records>>

Init ==
  /\ holder = "none"
  /\ active \in Nodes \cup {NoNode}
  /\ phase = "idle"
  /\ records \in [Records -> Nodes \cup {NoNode}]

(* The first active node is an operator's choice.                          *)
Configure ==
  /\ active = NoNode /\ active' \in Nodes
  /\ UNCHANGED <<holder, phase, records>>

Begin ==
  /\ holder = "none" /\ holder' \in {"manual", "auto", "reconcile"}
  /\ UNCHANGED <<active, phase, records>>

Switching == holder \in {"manual", "auto"}

Accept ==
  /\ Switching /\ active # NoNode
  /\ phase \in {"idle", "degraded_dns", "failed"} /\ phase' = "failover"
  /\ UNCHANGED <<holder, active, records>>

Commit ==
  /\ Switching
  /\ phase = "failover" /\ phase' = "dns_switching"
  /\ active' \in Nodes \ {active}
  /\ UNCHANGED <<holder, records>>

(* Reconcile, alone or inside a manual switch, repairs records too.        *)
Publish ==
  /\ holder # "none" /\ active # NoNode
  /\ holder = "auto" => phase = "dns_switching"
  /\ \E r \in Records : records' = [records EXCEPT ![r] = active]
  /\ UNCHANGED <<holder, active, phase>>

Complete ==
  /\ holder # "none"
  /\ holder = "auto" => phase = "dns_switching"
  /\ \A r \in Records : records[r] = active
  /\ phase' = "idle"
  /\ holder' = "none"
  /\ UNCHANGED <<active, records>>

(* A manual switch has found no candidate, or is back at the node it       *)
(* started from; it tries another candidate or fails.                      *)
Abandon ==
  /\ holder = "manual" /\ phase = "failover" /\ phase' = "idle"
  /\ UNCHANGED <<holder, active, records>>

(* A switch fails: before the commit, after it, or without having begun.   *)
Fail ==
  /\ Switching /\ holder' = "none"
  /\ phase' = CASE phase = "idle"          -> "idle"
                [] phase = "dns_switching" -> "degraded_dns"
                [] OTHER                   -> "failed"
  /\ UNCHANGED <<active, records>>

(* A reconcile fails: the phase still tells what was wrong before it.      *)
GiveUp ==
  /\ holder = "reconcile" /\ holder' = "none"
  /\ UNCHANGED <<active, phase, records>>

Next ==
  \/ Configure \/ Begin \/ Accept \/ Commit \/ Publish
  \/ Complete \/ Abandon \/ Fail \/ GiveUp

Spec == Init /\ [][Next]_vars
=============================================================================
