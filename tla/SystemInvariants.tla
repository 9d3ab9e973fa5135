-------------------------- MODULE SystemInvariants --------------------------
(***************************************************************************)
(* The inductive invariant of Spec: what each call of an operation may     *)
(* rely on when it is reached.  SystemProofs proves that it is invariant   *)
(* and that the safety properties follow from it.                          *)
(***************************************************************************)
EXTENDS SystemProperties

Switching == op.kind \in {"manual", "auto"}

(* The calls of a switch that work on a candidate.                         *)
CandidateSteps ==
  {"preflight", "sync", "verify", "write", "stop", "start", "watch", "wait", "rollback",
   "restore", "restore_stop", "restore_start", "node_err", "blame", "promote"}

BeforeCandidates == {"accept", "quarantine", "stop_old", "list"}

AfterCommit == {"dns", "finalize"}

(* Which operation makes which calls.                                      *)
ControlInv ==
  /\ op.kind = "none" <=> op.pc = "none"
  /\ op.pc \in ReconcileSteps =>
       \/ op.kind = "reconcile" /\ op.then = "release"
       \/ op.kind = "manual" /\ op.then \in {"retry", "fail"}
  /\ op.kind = "reconcile" => op.pc \in ReconcileSteps
  /\ op.pc \in {"quarantine", "stop_old", "stop_all"} => op.kind = "auto"
  /\ op.pc \in {"restore_stop", "restore_start", "retry"} => op.kind = "manual"
  /\ op.pc = "accept" => op.old = NoNode
  /\ Switching /\ op.pc \notin {"accept", "fail"} => op.old # NoNode

(* The phase of the row at each call, and the node it has as active.       *)
PhaseInv ==
  /\ routing.phase # "idle" => routing.active # NoNode
  /\ ~Switching \/ op.pc = "accept" => routing.phase \in {"idle", "degraded_dns", "failed"}
  /\ op.pc \in CandidateSteps \cup {"quarantine", "stop_old", "list", "stop_all"} =>
       routing.phase = "failover"
  /\ op.pc \in ReconcileSteps /\ op.kind = "manual" =>
       routing.phase = "failover" /\ routing.active = op.old
  /\ op.pc = "retry" => routing.phase = "idle" /\ routing.active = op.old
  /\ op.pc = "other_err" => routing.phase \in {"failover", "dns_switching"}
  /\ op.pc \in AfterCommit => routing.phase = "dns_switching"
  /\ routing.phase = "failover" => Switching /\ routing.active = op.old
  /\ routing.phase = "dns_switching" =>
       /\ Switching
       /\ op.pc \in AfterCommit \cup {"other_err", "fail"}
       /\ routing.active = op.target /\ routing.active # op.old

(* The candidates: never the original node, never a quarantined one.       *)
TargetInv ==
  /\ op.pc \in BeforeCandidates => op.cands = {}
  /\ op.old \notin op.cands
  /\ op.cands \cap quarantine = {}
  /\ op.pc \in CandidateSteps =>
       /\ op.target \in Nodes /\ op.target # op.old
       /\ op.target \notin quarantine /\ op.target \notin op.cands
  /\ op.pc \in AfterCommit => op.target \in Nodes
  /\ op.pc \in ReconcileSteps \ {"r_preflight", "r_error"} =>
       op.target \in Nodes /\ op.target = routing.active

(* Where the process may be on another node than the active one: while a   *)
(* candidate is tried, and until what is left of it has been dealt with.   *)
Loose ==
  \/ op.pc \in {"watch", "wait", "promote", "node_err", "rollback", "restore",
                "restore_stop", "stop_all"}
  \/ op.pc = "other_err" /\ routing.phase = "failover"
  \/ /\ op.kind = "manual"
     /\ op.pc \in {"r_preflight", "r_sync", "r_verify", "r_config", "r_stop", "r_error"}

(* The configuration file, the process and the routing row.                *)
RuntimeInv ==
  /\ op.pc \in {"stop", "start", "watch", "wait", "promote", "dns", "finalize",
                "r_stop", "r_start", "r_watch", "r_wait", "r_dns", "r_finalize"} =>
       file = op.target
  /\ op.pc \in {"start", "r_start", "restore_start", "blame"} => frpc.proc = "stopped"
  /\ op.pc \notin {"stop", "r_stop", "restore_stop"} /\ frpc.proc # "stopped" =>
       frpc.node = file
  /\ frpc.proc # "stopped" => frpc.node # NoNode
  /\ op.pc \in {"promote", "dns", "finalize"} => frpc.proc # "stopped"
  /\ op.pc \in {"r_dns", "r_finalize"} => frpc.proc # "stopped"
  /\ Loose \/ frpc.proc = "stopped" \/ frpc.node = routing.active

(* An automatic switch, once it has stopped the old process, runs nothing  *)
(* but its current candidate.                                              *)
AutoInv ==
  op.kind = "auto" /\ op.old # NoNode /\ op.pc \notin {"quarantine", "stop_old"} =>
    /\ op.pc \in {"list", "preflight", "sync", "verify", "write", "stop"} =>
         frpc.proc = "stopped"
    /\ frpc.proc # "stopped" =>
         frpc.node = op.target /\ op.target # op.old /\ op.target \notin quarantine

(* The tunnels are all on the node whose configuration is generated, from  *)
(* the verification on; the records follow one by one.                     *)
RemoteInv ==
  /\ op.pc \in {"write", "stop", "start", "watch", "wait", "promote", "dns", "finalize",
                "r_config", "r_stop", "r_start", "r_watch", "r_wait", "r_dns", "r_finalize"} =>
       AllOn(op.target)
  /\ op.pc \in {"dns", "r_dns"} => \A t \in DnsTunnels \ op.todo : dns[t] = op.target
  /\ op.pc \in {"finalize", "r_finalize"} => \A t \in DnsTunnels : dns[t] = op.target

(* A waiting fault of the current generation is about the node the process *)
(* of that generation was started on.                                      *)
QueueInv ==
  \A e \in queue :
    /\ e.gen <= frpc.gen
    /\ e.gen = frpc.gen => frpc.proc # "stopped" /\ e.about = frpc.node

(* The fault that started the switch is about the active node.             *)
BlameInv ==
  op.kind = "auto" =>
    /\ op.pc = "accept" => op.about = routing.active /\ op.about # NoNode
    /\ op.old # NoNode => op.old = op.about

(* What a rollback starts from and keeps: the tunnels a candidate has not  *)
(* been given yet are where the snapshot has them, and of those that are   *)
(* not on the list of changes at most one is somewhere else.  No call      *)
(* relies on it; RollbackRestores follows from it.                         *)
RestoreInv ==
  /\ op.pc = "sync" => \A t \in op.todo : provider[t] = op.snap[t]
  /\ op.pc = "rollback" /\ op.clean =>
       \E x \in Tunnels : \A t \in Tunnels \ (op.todo \cup {x}) : provider[t] = op.snap[t]

(* What the calls rely on, all of it.                                      *)
CallInv ==
  /\ ControlInv /\ PhaseInv /\ TargetInv /\ RuntimeInv /\ AutoInv
  /\ RemoteInv /\ CommittedAgrees /\ QueueInv /\ BlameInv

IndInv == TypeOK /\ CallInv

-----------------------------------------------------------------------------
(* What is left of it in SpecStorm.  A crash or a dropped request leaves   *)
(* the row in any phase without an owner, and a button the process in any  *)
(* state; but nobody writes the phase, the tunnels, the records or the     *)
(* file beside the lock holder.                                            *)

PhaseHeld ==
  /\ routing.phase # "idle" => routing.active # NoNode
  /\ op.pc \in CandidateSteps \cup {"quarantine", "stop_old", "list", "stop_all"} =>
       routing.phase = "failover" /\ routing.active = op.old
  /\ op.pc \in ReconcileSteps /\ op.kind = "manual" =>
       routing.phase = "failover" /\ routing.active = op.old
  /\ op.pc = "retry" => routing.phase = "idle" /\ routing.active = op.old
  /\ op.pc = "other_err" => routing.phase \in {"failover", "dns_switching"}
  /\ op.pc \in AfterCommit => routing.phase = "dns_switching" /\ routing.active = op.target

FileInv ==
  op.pc \in {"stop", "start", "watch", "wait", "promote", "dns", "finalize",
             "r_stop", "r_start", "r_watch", "r_wait", "r_dns", "r_finalize"} =>
    file = op.target

HeldInv == ControlInv /\ PhaseHeld /\ TargetInv /\ FileInv /\ RemoteInv /\ CommittedAgrees

StormInv == TypeOK /\ HeldInv
=============================================================================
