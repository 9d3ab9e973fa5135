-------------------------- MODULE SystemProperties --------------------------
(***************************************************************************)
(* What the control center promises.                                       *)
(***************************************************************************)
EXTENDS System

(* Every variable has its type.                                            *)
TypeOK ==
  /\ routing \in RoutingRows
  /\ quarantine \subseteq Nodes
  /\ provider \in [Tunnels -> NodeOrNone]
  /\ dns \in [DnsTunnels -> NodeOrNone]
  /\ file \in NodeOrNone
  /\ frpc \in FrpcStates
  /\ op \in Ops
  /\ queue \subseteq Faults
  /\ probe \in [gen : Nat, node : NodeOrNone, asked : BOOLEAN]
  /\ put \in [active : NodeOrNone, standby : NodeOrNone, enabled : BOOLEAN, checked : BOOLEAN]

-----------------------------------------------------------------------------
(* Blame. *)

(* An automatic switch quarantines the node its fault is about, never the  *)
(* one that is active by the time the lock is free: the generation check   *)
(* of queued_global_failover is enough to keep faults and nodes together.  *)
BlameIsRight == op.kind = "auto" /\ op.old # NoNode => op.old = op.about

(* Whenever the lock is free, the FRPC process that exists, if any, is on  *)
(* the active node, whichever way the last operation ended.                *)
RuntimeFollowsRouting == LockFree /\ frpc.proc # "stopped" => frpc.node = routing.active

(* Once an automatic switch has stopped the old process, FRPC runs neither *)
(* on the node that failed nor on a candidate that failed after it.        *)
ForwardRecovery ==
  op.kind = "auto" /\ op.old # NoNode /\ op.pc \notin {"quarantine", "stop_old"}
       /\ frpc.proc # "stopped"
    => frpc.node # op.old /\ frpc.node \notin quarantine

(* One failure, one switch: when several tunnels report the same failure,  *)
(* the reports still waiting for the lock once the switch is under way     *)
(* belong to an earlier generation, and will be dropped.                   *)
OneSwitchPerFailure ==
  op.kind = "auto" /\ op.old # NoNode /\ op.pc \notin {"quarantine", "stop_old"}
    => \A e \in queue : e.about # op.old \/ e.gen # frpc.gen

(* The active node is replaced by one that is not in quarantine.           *)
NeverPromoteQuarantined ==
  [][routing.active # NoNode /\ routing'.active # routing.active
       => routing'.active \notin quarantine]_vars

-----------------------------------------------------------------------------
(* Convergence. *)

(* An A record is moved to a node only when every tunnel is on that node   *)
(* and FRPC has its configuration.                                         *)
DnsAfterRuntime ==
  [][\A t \in DnsTunnels : dns'[t] # dns[t] => AllOn(dns'[t]) /\ file = dns'[t]]_vars

(* ... and that node is the committed active one, on which FRPC has been   *)
(* started and not been stopped since.                                     *)
DnsFollowsCommit ==
  [][\A t \in DnsTunnels : dns'[t] # dns[t] =>
       routing.active = dns'[t] /\ frpc.node = dns'[t] /\ frpc.proc # "stopped"]_vars

(* After the commit, and for as long as only DNS is behind, the routing    *)
(* row, the tunnels and the configuration file agree on one node.          *)
CommittedAgrees ==
  routing.phase \in {"dns_switching", "degraded_dns"} =>
    AllOn(routing.active) /\ file = routing.active

Converged ==
  /\ AllOn(routing.active)
  /\ file = routing.active
  /\ \A t \in DnsTunnels : dns[t] = routing.active

(* The row becomes idle again only when tunnels, configuration and DNS are *)
(* on the active node, or when a manual switch finds no candidate and has  *)
(* not touched anything.                                                   *)
IdleMeansConverged ==
  [][routing'.phase = "idle" /\ routing.phase # "idle" =>
       Converged \/ (op.kind = "manual" /\ op.pc = "list")]_vars

(* A row in failover or dns_switching has a switch under the lock, which   *)
(* was accepted for the row's active node or has replaced it.              *)
PhaseHasOwner ==
  /\ routing.phase = "failover" =>
       op.kind \in {"manual", "auto"} /\ routing.active = op.old
  /\ routing.phase = "dns_switching" =>
       op.kind \in {"manual", "auto"} /\ routing.active # op.old

(* A rollback in which no call failed puts every tunnel back where it was  *)
(* when the candidate was tried, the one whose own sync failed excepted:   *)
(* it is not on the list of changes, and may have been moved all the same. *)
RollbackRestores ==
  [][op.pc = "rollback" /\ op'.pc # "rollback" /\ op.clean
       => Cardinality({t \in Tunnels : provider[t] # op.snap[t]}) <= 1]_vars

(* The whole of it implements the contract of module GlobalOperation.      *)
Contract == INSTANCE GlobalOperation WITH
  Records <- DnsTunnels, holder <- op.kind, active <- routing.active,
  phase <- routing.phase, records <- dns

ImplementsContract == Contract!Spec

(* Under crashes and dropped requests it implements what is left of that   *)
(* contract: a phase that no switch has as its own was left behind.        *)
LeftBehind ==
  /\ routing.phase \in {"failover", "dns_switching"}
  /\ ~(op.kind \in {"manual", "auto"} /\ op.old # NoNode)

Interrupted == INSTANCE InterruptedOperation WITH
  Records <- DnsTunnels, holder <- op.kind, active <- routing.active,
  phase <- routing.phase, records <- dns, left <- LeftBehind

ImplementsInterrupted == Interrupted!InterruptedSpec

-----------------------------------------------------------------------------
(* What the documents say and the code does not keep.  All but the last    *)
(* are not part of a run: the README says under which specification each   *)
(* is violated.                                                            *)

(* docs/OPERATIONS.md, idle: converged steady state.  A row that was       *)
(* degraded or failed becomes idle only when it has converged.             *)
IdleIsEarned ==
  [][routing'.phase = "idle" /\ routing.phase # "idle" /\ op.was # "idle"
       => Converged]_vars

(* docs/OPERATIONS.md, failed: failure before the target was committed.    *)
FailedMeansUncommitted ==
  [][routing.phase = "degraded_dns" => routing'.phase # "failed"]_vars

(* The activity "all modified tunnels restored" is written only when they  *)
(* are.                                                                    *)
RestoredMeansRestored ==
  [][op.pc = "rollback" /\ op'.pc # "rollback" /\ op.clean
       => provider = op.snap]_vars

(* docs/FAILOVER.md, manual switch: a later error can never restore a      *)
(* quarantined candidate's configuration.                                  *)
NeverRestoreQuarantined ==
  [][op.pc = "restore" /\ file' # file => file' \notin quarantine]_vars

(* coordinator.rs: the compensation of an automatic switch puts ChmlFrp    *)
(* back into the shape of the old node, not onto a failed candidate.       *)
CompensationAvoidsFailed ==
  [][\A t \in Tunnels :
       op.kind = "auto" /\ op.pc = "rollback" /\ provider'[t] # provider[t]
         => provider'[t] = op.old \/ provider'[t] \notin quarantine]_vars

(* docs/API.md: once there is an active node, PUT /routing cannot replace  *)
(* it.                                                                     *)
ActiveOnlyByFailover ==
  [][routing.active # NoNode /\ routing'.active # routing.active
       => op.pc = "promote"]_vars

-----------------------------------------------------------------------------
(* Liveness. *)

(* No operation keeps the lock for ever.                                   *)
LockIsReleased == ~LockFree ~> LockFree

(* If automatic failover is on and stays on, a node fault does not leave   *)
(* its process running: the generation that reported it ends.  (A fault    *)
(* taken up while it is off is gone, and turning it on does not help.)     *)
FaultEndsGeneration ==
  \A g \in 1..MaxGen :
    [](routing.enabled /\ routing.active # NoNode) =>
      ((frpc.gen = g /\ \E e \in queue : e.gen = g) ~> (frpc.gen # g))
=============================================================================
