------------------------------- MODULE System -------------------------------
(***************************************************************************)
(* The control center as one system: the coordinator under its lock, the   *)
(* FRPC process and the faults its log raises, and what reaches the state  *)
(* from outside the lock.                                                  *)
(*                                                                         *)
(* Next has the coordinator, FRPC, definite faults, the routing policy and *)
(* the end of a quarantine.  The others add to it:                         *)
(*   NextProbe  ambiguous network faults with their confirmation           *)
(*   NextCrash  crashes                                                    *)
(*   NextDrop   requests whose client goes away                            *)
(*   NextStorm  all of these, and the unlocked FRPC buttons                *)
(*   NextPut    PUT /routing with its check and its write apart            *)
(***************************************************************************)
EXTENDS Failover

CONSTANTS
  MaxGen,    \* bound: no new fault and no new request from this generation on
  MaxQueue,  \* bound: faults waiting for the lock at a time
  Standbys   \* bound: what a PUT /routing may name as the standby

ASSUME BoundsAssumption ==
  /\ MaxGen \in Nat /\ MaxQueue \in Nat
  /\ Standbys \subseteq Nodes \cup {NoNode}

NoProbe == [gen |-> 0, node |-> NoNode, asked |-> FALSE]
NoPut   == [active |-> NoNode, standby |-> NoNode, enabled |-> FALSE, checked |-> FALSE]

Faults == [gen : Nat, about : NodeOrNone]

(* A fresh database after seed_routing_from_env, no configuration file, no *)
(* process; the provider and Cloudflare are as the user left them.         *)
Init ==
  /\ routing \in [active : {EnvActive},
                  standby : {IF EnvActive = NoNode THEN NoNode ELSE EnvStandby},
                  enabled : BOOLEAN, phase : {"idle"}]
  /\ quarantine = {}
  /\ provider \in [Tunnels -> NodeOrNone]
  /\ dns \in [DnsTunnels -> NodeOrNone]
  /\ file = NoNode
  /\ frpc = NoProcess(0)
  /\ op = NoOp
  /\ queue = {}
  /\ probe = NoProbe
  /\ put = NoPut

-----------------------------------------------------------------------------
(* Taking the lock. *)

Take(kind, pc, about, r) ==
  op' = [NoOp EXCEPT !.kind = kind, !.pc = pc, !.about = about, !.then = r]

(* try_lock: the request is refused while anything holds the lock.         *)
BeginManual ==
  /\ LockFree /\ frpc.gen < MaxGen
  /\ Take("manual", "accept", NoNode, "none")
  /\ UNCHANGED <<routing, quarantine, remote, file, frpc, tasks>>

BeginReconcile ==
  /\ LockFree /\ frpc.gen < MaxGen
  /\ Take("reconcile", "r_preflight", NoNode, "release")
  /\ UNCHANGED <<routing, quarantine, remote, file, frpc, tasks>>

(* A mutant of queued_global_failover: the generations are not compared.   *)
TakeAnyFault ==
  /\ LockFree
  /\ \E e \in queue : queue' = queue \ {e} /\ Take("auto", "accept", e.about, "none")
  /\ UNCHANGED <<routing, quarantine, remote, file, frpc, probe, put>>

(* Another: try_lock in place of lock, as the manual requests have it.     *)
DropFaultWhenBusy ==
  /\ \E e \in queue :
       /\ queue' = queue \ {e}
       /\ IF LockFree /\ e.gen = frpc.gen THEN Take("auto", "accept", e.about, "none")
          ELSE UNCHANGED op
  /\ UNCHANGED <<routing, quarantine, remote, file, frpc, probe, put>>

(* A queued fault gets the lock.  One of an earlier generation is dropped. *)
queued_global_failover ==
  /\ LockFree
  /\ \E e \in queue :
       /\ queue' = queue \ {e}
       /\ IF e.gen = frpc.gen THEN Take("auto", "accept", e.about, "none") ELSE UNCHANGED op
  /\ UNCHANGED <<routing, quarantine, remote, file, frpc, probe, put>>

-----------------------------------------------------------------------------
(* FRPC.  Lines of a process that ended are still read, unless a stop or a *)
(* start moved the generation.                                             *)

ProcessReady ==
  /\ frpc.proc = "running"
  /\ frpc' = [frpc EXCEPT !.ready = TRUE]
  /\ UNCHANGED <<routing, quarantine, remote, file, op, tasks>>

ProcessExits ==
  /\ frpc.proc = "running"
  /\ frpc' = [frpc EXCEPT !.proc = "exited", !.ready = FALSE]
  /\ UNCHANGED <<routing, quarantine, remote, file, op, tasks>>

(* A node fault line reaches the watcher, which spawns a queued switch.    *)
NodeFaultLine ==
  /\ frpc.proc # "stopped"
  /\ frpc.gen < MaxGen /\ Cardinality(queue) < MaxQueue
  /\ frpc' = [frpc EXCEPT !.fault = TRUE, !.ready = FALSE]
  /\ queue' = queue \cup {[gen |-> frpc.gen, about |-> frpc.node]}
  /\ UNCHANGED <<routing, quarantine, remote, file, op, probe, put>>

-----------------------------------------------------------------------------
(* The API, beside the lock. *)

PutInput == [active : NodeOrNone, standby : Standbys, enabled : BOOLEAN]

(* A mutant of PutAllowed: the active node may be replaced.                *)
PutReplacesActive(p) == p.active # NoNode => p.active # p.standby

PutAllowed(p) ==
  /\ p.active # NoNode => p.active # p.standby
  /\ routing.active # NoNode => p.active = routing.active

WriteRouting(p) ==
  routing' = [active |-> p.active, standby |-> p.standby, enabled |-> p.enabled,
              phase |-> routing.phase]

(* PUT /routing, and POST /routing/bootstrap, which may only assign the    *)
(* first active node, when nothing comes between check and write.          *)
update_routing ==
  /\ \E p \in PutInput : PutAllowed(p) /\ WriteRouting(p)
  /\ UNCHANGED <<quarantine, remote, file, frpc, op, tasks>>

(* An operator clears a quarantine, or it expires.                         *)
QuarantineEnds ==
  /\ \E n \in quarantine : quarantine' = quarantine \ {n}
  /\ UNCHANGED <<routing, remote, file, frpc, op, tasks>>

OpStep == FailoverStep \/ ReconcileStep

Next ==
  \/ OpStep
  \/ BeginManual \/ BeginReconcile \/ queued_global_failover
  \/ ProcessReady \/ ProcessExits \/ NodeFaultLine
  \/ update_routing \/ QuarantineEnds

Spec == Init /\ [][Next]_vars

-----------------------------------------------------------------------------
(* An ambiguous network line: confirm_ambiguous_network_fault checks its   *)
(* generation, reads the active node, asks the provider about it, and      *)
(* promotes the event when the node is not online.  One check at a time.   *)

AmbiguousLine ==
  /\ frpc.proc # "stopped" /\ frpc.gen < MaxGen
  /\ probe = NoProbe
  /\ probe' = [gen |-> frpc.gen, node |-> NoNode, asked |-> FALSE]
  /\ UNCHANGED <<routing, quarantine, remote, file, frpc, op, queue, put>>

ProbeReadsActive ==
  /\ probe # NoProbe /\ ~probe.asked
  /\ probe' = IF probe.gen = frpc.gen /\ routing.active # NoNode
              THEN [probe EXCEPT !.node = routing.active, !.asked = TRUE] ELSE NoProbe
  /\ UNCHANGED <<routing, quarantine, remote, file, frpc, op, queue, put>>

ProbeAnswered ==
  /\ probe.asked /\ Cardinality(queue) < MaxQueue
  /\ probe' = NoProbe
  /\ \/ queue' = queue \cup {[gen |-> probe.gen, about |-> probe.node]}
     \/ UNCHANGED queue
  /\ UNCHANGED <<routing, quarantine, remote, file, frpc, op, put>>

ProbeStep == AmbiguousLine \/ ProbeReadsActive \/ ProbeAnswered
NextProbe == Next \/ ProbeStep
SpecProbe == Init /\ [][NextProbe]_vars

-----------------------------------------------------------------------------
(* The FRPC buttons take no lock.  A restart is a stop and, later, a start. *)

FrpcButton ==
  /\ frpc.gen < MaxGen
  /\ frpc_start \/ frpc_start_fails \/ frpc_stop
  /\ UNCHANGED <<routing, quarantine, remote, file, op, tasks>>

(* PUT /routing and /routing/bootstrap in their two steps.                 *)
PutChecked ==
  /\ ~put.checked
  /\ \E p \in PutInput :
       /\ PutAllowed(p)
       /\ put' = [active |-> p.active, standby |-> p.standby, enabled |-> p.enabled,
                  checked |-> TRUE]
  /\ UNCHANGED <<routing, quarantine, remote, file, frpc, op, queue, probe>>

PutWritten ==
  /\ put.checked
  /\ WriteRouting(put)
  /\ put' = NoPut
  /\ UNCHANGED <<quarantine, remote, file, frpc, op, queue, probe>>

(* The environment may name other nodes than at the first start; what it   *)
(* says counts only while the row has no active node.                      *)
seed_routing_from_env ==
  \/ UNCHANGED routing
  \/ /\ routing.active = NoNode
     /\ \E active \in Nodes, standby \in Standbys, enabled \in BOOLEAN :
          routing' = [routing EXCEPT !.active = active, !.standby = standby, !.enabled = enabled]

(* The program ends at any point and starts again: the row is seeded, and  *)
(* FRPC is started if its configuration exists.                            *)
CrashAndRestart ==
  /\ op' = NoOp /\ queue' = {} /\ probe' = NoProbe /\ put' = NoPut
  /\ seed_routing_from_env
  /\ \/ file # NoNode /\ frpc' \in {NewProcess(1, file), NoProcess(1)}
     \/ frpc' = NoProcess(0)
  /\ UNCHANGED <<quarantine, remote, file>>

(* A manual switch and a reconcile run inside the handler of their request. *)
(* When the client closes the connection the server drops the handler at   *)
(* the await it is in: the lock is released and nothing is cleaned up.      *)
RequestDropped ==
  /\ op.kind \in {"manual", "reconcile"}
  /\ Release
  /\ UNCHANGED <<routing, quarantine, remote, file, frpc, tasks>>

NextCrash == Next \/ CrashAndRestart
NextDrop  == Next \/ RequestDropped
NextStorm == NextProbe \/ FrpcButton \/ CrashAndRestart \/ RequestDropped
NextPut   == Next \/ PutChecked \/ PutWritten

SpecCrash == Init /\ [][NextCrash]_vars
SpecDrop  == Init /\ [][NextDrop]_vars
SpecStorm == Init /\ [][NextStorm]_vars
SpecPut   == Init /\ [][NextPut]_vars

-----------------------------------------------------------------------------
(* The lock holder goes on: every request it waits for has a timeout, and  *)
(* wait_ready a deadline.  A queued fault gets the lock: tokio's mutex     *)
(* serves its waiters in order, so requests cannot keep it away for ever.  *)
Fairness == WF_vars(OpStep) /\ SF_vars(queued_global_failover)

SpecLive == Spec /\ Fairness
=============================================================================
