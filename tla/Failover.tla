------------------------------ MODULE Failover ------------------------------
(***************************************************************************)
(* The coordinator's global switch: run_global_failover with migrate_to,   *)
(* its compensations and recover_manual_original, one action per awaited   *)
(* call.  Activity records, which no later step reads, are left out.       *)
(***************************************************************************)
EXTENDS Reconcile, Candidates

Manual == op.kind = "manual"

-----------------------------------------------------------------------------
(* Accepting the switch. *)

(* No active node, or an automatic switch while they are disabled: the     *)
(* phase is not touched before the switch fails.                           *)
RejectFailover ==
  /\ op.pc = "accept"
  /\ routing.active = NoNode \/ (~Manual /\ ~routing.enabled)
  /\ Goto("fail")
  /\ UNCHANGED <<routing, quarantine, remote, file, frpc, tasks>>

AcceptFailover ==
  /\ op.pc = "accept"
  /\ routing.active # NoNode
  /\ Manual \/ routing.enabled
  /\ set_routing_phase("failover")
  /\ op' = [op EXCEPT !.pc = IF Manual THEN "list" ELSE "quarantine",
                      !.old = routing.active, !.standby = routing.standby,
                      !.was = routing.phase]
  /\ UNCHANGED <<quarantine, remote, file, frpc, tasks>>

QuarantineOld ==
  /\ op.pc = "quarantine"
  /\ quarantine_node(op.old)
  /\ Goto("stop_old")
  /\ UNCHANGED <<routing, remote, file, frpc, tasks>>

StopOld ==
  /\ op.pc = "stop_old"
  /\ frpc_stop
  /\ Goto("list")
  /\ UNCHANGED <<routing, quarantine, remote, file, tasks>>

(* A mutant of NoCandidates: ask again until there is a candidate.         *)
WaitForCandidates ==
  /\ op.pc = "list"
  /\ UNCHANGED vars

(* list_nodes fails, or no listed node is eligible.                        *)
NoCandidates ==
  /\ op.pc = "list"
  /\ IF Manual THEN set_routing_phase("idle") ELSE UNCHANGED routing
  /\ Goto("fail")
  /\ UNCHANGED <<quarantine, remote, file, frpc, tasks>>

(* The node list is what the provider reports now; a node whose detail     *)
(* request fails is reported as unknown, hence not online.                 *)
OrderCandidates ==
  /\ op.pc = "list"
  /\ \E online \in SUBSET Nodes :
       LET cands == EligibleNames(op.old, online, quarantine, WebCapable) IN
       \E n \in FirstOf(cands, op.standby) :
         op' = [op EXCEPT !.pc = "preflight", !.target = n, !.cands = cands \ {n},
                          !.standby = NoNode, !.was = "idle"]
  /\ UNCHANGED <<routing, quarantine, remote, file, frpc, tasks>>

-----------------------------------------------------------------------------
(* migrate_to, up to the commit. *)

(* Cloudflare is readable and unambiguous, the target online, and every    *)
(* planned tunnel exists at the provider: nothing is created here.         *)
Preflight ==
  /\ op.pc = "preflight"
  /\ \A t \in Tunnels : provider[t] # NoNode
  /\ op' = [op EXCEPT !.pc = "sync", !.snap = provider, !.todo = Tunnels]
  /\ UNCHANGED <<routing, quarantine, remote, file, frpc, tasks>>

PreflightFails ==
  /\ op.pc = "preflight"
  /\ Goto("other_err")
  /\ UNCHANGED <<routing, quarantine, remote, file, frpc, tasks>>

(* The provider reports the target offline, in the preflight or after      *)
(* wait_ready ran out of time.                                             *)
TargetOffline ==
  /\ \/ op.pc = "preflight"
     \/ /\ op.pc = "wait"
        /\ frpc.gen = op.gen /\ frpc.proc = "running"
        /\ ~frpc.ready /\ ~frpc.fault
  /\ Goto("node_err")
  /\ UNCHANGED <<routing, quarantine, remote, file, frpc, tasks>>

SyncTunnel ==
  /\ op.pc = "sync"
  /\ \E t \in op.todo :
       /\ sync_tunnel(t, op.target)
       /\ op' = [op EXCEPT !.todo = @ \ {t},
                           !.pc = IF op.todo = {t} THEN "verify" ELSE "sync"]
  /\ UNCHANGED <<routing, quarantine, dns, file, frpc, tasks>>

(* Give up the candidate: put the tunnels of the set back to where the     *)
(* snapshot has them, then go on at r.                                     *)
RollBack(changed, r) ==
  op' = [op EXCEPT !.pc = "rollback", !.todo = changed, !.then = r, !.gen = 0]

(* The third attempt failed too.  Only the tunnels that were reported as   *)
(* moved before this one are put back; if there are none, nothing is done. *)
SyncTunnelFails ==
  /\ op.pc = "sync"
  /\ \E t \in op.todo : sync_tunnel_fails(t, op.target)
  /\ IF op.todo = Tunnels THEN Goto("other_err") ELSE RollBack(Tunnels \ op.todo, "give_up")
  /\ UNCHANGED <<routing, quarantine, dns, file, frpc, tasks>>

verify_remote_target ==
  /\ op.pc = "verify"
  /\ AllOn(op.target)
  /\ Goto("write")
  /\ UNCHANGED <<routing, quarantine, remote, file, frpc, tasks>>

(* Verification, the generated configuration or the write fails.           *)
ConfigFails ==
  /\ op.pc \in {"verify", "write"}
  /\ RollBack(Tunnels, "give_up")
  /\ UNCHANGED <<routing, quarantine, remote, file, frpc, tasks>>

(* Reading the previous configuration fails: the error is returned as it   *)
(* is, and the tunnels stay where they are.                                *)
ReadPreviousFails ==
  /\ op.pc = "write"
  /\ Goto("other_err")
  /\ UNCHANGED <<routing, quarantine, remote, file, frpc, tasks>>

WriteTargetConfig ==
  /\ op.pc = "write"
  /\ write_config(op.target)
  /\ op' = [op EXCEPT !.pc = "stop", !.prev = file]
  /\ UNCHANGED <<routing, quarantine, remote, frpc, tasks>>

(* A mutant of RestartStop: start is called in place of restart.           *)
StartWithoutStop ==
  /\ op.pc = "stop"
  /\ Goto("start")
  /\ UNCHANGED <<routing, quarantine, remote, file, frpc, tasks>>

RestartStop ==
  /\ op.pc = "stop"
  /\ frpc_stop
  /\ Goto("start")
  /\ UNCHANGED <<routing, quarantine, remote, file, tasks>>

RestartStart ==
  /\ op.pc = "start"
  /\ \/ frpc_start /\ Goto("watch")
     \/ frpc_start_fails /\ RollBack(Tunnels, "restore")
  /\ UNCHANGED <<routing, quarantine, remote, file, tasks>>

Watch ==
  /\ op.pc = "watch"
  /\ op' = [op EXCEPT !.pc = "wait", !.gen = frpc.gen]
  /\ UNCHANGED <<routing, quarantine, remote, file, frpc, tasks>>

wait_ready ==
  /\ op.pc = "wait"
  /\ frpc.gen = op.gen
  /\ frpc.proc = "running"
  /\ frpc.ready /\ ~frpc.fault
  /\ op' = [op EXCEPT !.pc = "promote", !.gen = 0, !.snap = NoOp.snap, !.todo = {}, !.prev = NoNode]
  /\ UNCHANGED <<routing, quarantine, remote, file, frpc, tasks>>

ReadinessNodeFault ==
  /\ op.pc = "wait"
  /\ frpc.gen = op.gen /\ frpc.fault
  /\ Goto("node_err")
  /\ UNCHANGED <<routing, quarantine, remote, file, frpc, tasks>>

(* Another start or stop moved the generation, the process ended, it       *)
(* reported an authentication or configuration fault, or time ran out with *)
(* the target not known to be offline.                                     *)
ReadinessOtherFault ==
  /\ op.pc = "wait"
  /\ frpc.gen = op.gen => ~frpc.fault
  /\ RollBack(Tunnels, "restore")
  /\ UNCHANGED <<routing, quarantine, remote, file, frpc, tasks>>

-----------------------------------------------------------------------------
(* Compensation. *)

(* A mutant of RollBackTunnel: the candidate instead of the node before.   *)
RollBackOntoTarget ==
  /\ op.pc = "rollback"
  /\ \E t \in op.todo :
       /\ sync_tunnel(t, op.target)
       /\ op' = [op EXCEPT !.todo = @ \ {t}]
  /\ UNCHANGED <<routing, quarantine, dns, file, frpc, tasks>>

(* sync_with_retry puts one tunnel back; its failure is noted and the loop *)
(* goes on.                                                                *)
RollBackTunnel ==
  /\ op.pc = "rollback"
  /\ \E t \in op.todo :
       \/ sync_tunnel(t, op.snap[t]) /\ op' = [op EXCEPT !.todo = @ \ {t}]
       \/ /\ sync_tunnel_fails(t, op.snap[t])
          /\ op' = [op EXCEPT !.todo = @ \ {t}, !.clean = FALSE]
  /\ UNCHANGED <<routing, quarantine, dns, file, frpc, tasks>>

RollBackDone ==
  /\ op.pc = "rollback"
  /\ op.todo = {}
  /\ op' = [op EXCEPT !.pc = IF op.then = "restore" THEN "restore" ELSE "other_err",
                      !.then = "none", !.snap = NoOp.snap, !.clean = TRUE]
  /\ UNCHANGED <<routing, quarantine, remote, file, frpc, tasks>>

(* A manual switch puts the previous configuration back and restarts FRPC  *)
(* with it, whatever becomes of either; an automatic one stops FRPC.       *)
restore_previous_frpc ==
  /\ op.pc = "restore" /\ Manual
  /\ \/ /\ op.prev # NoNode
        /\ write_config(op.prev)
        /\ Goto("restore_stop")
     \/ Goto("other_err") /\ UNCHANGED file
  /\ UNCHANGED <<routing, quarantine, remote, frpc, tasks>>

StopFailedTarget ==
  /\ op.pc = "restore" /\ ~Manual
  /\ frpc_stop
  /\ Goto("other_err")
  /\ UNCHANGED <<routing, quarantine, remote, file, tasks>>

RestoreStop ==
  /\ op.pc = "restore_stop"
  /\ frpc_stop
  /\ Goto("restore_start")
  /\ UNCHANGED <<routing, quarantine, remote, file, tasks>>

RestoreStart ==
  /\ op.pc = "restore_start"
  /\ frpc_start \/ frpc_start_fails
  /\ Goto("other_err")
  /\ UNCHANGED <<routing, quarantine, remote, file, tasks>>

-----------------------------------------------------------------------------
(* What the loop does with a candidate that failed. *)

(* A mutant of StopTarget: the failed target is left running.              *)
LeaveTargetRunning ==
  /\ op.pc = "node_err"
  /\ Goto("blame")
  /\ UNCHANGED <<routing, quarantine, remote, file, frpc, tasks>>

(* Confirmed node failure: stop the process, quarantine the candidate.     *)
StopTarget ==
  /\ op.pc = "node_err"
  /\ frpc_stop
  /\ Goto("blame")
  /\ UNCHANGED <<routing, quarantine, remote, file, tasks>>

NextCandidate ==
  \E n \in op.cands :
    op' = [op EXCEPT !.pc = "preflight", !.target = n, !.cands = @ \ {n},
                     !.snap = NoOp.snap, !.todo = {}, !.prev = NoNode, !.gen = 0, !.then = "none"]

(* An automatic switch goes on to the next candidate; a manual one first   *)
(* returns to the original node.  After the last candidate the manual one  *)
(* returns to it too, and the automatic one leaves FRPC stopped.           *)
QuarantineTarget ==
  /\ op.pc = "blame"
  /\ quarantine_node(op.target)
  /\ IF Manual THEN CallReconcile(IF op.cands = {} THEN "fail" ELSE "retry")
     ELSE IF op.cands = {} THEN Goto("stop_all") ELSE NextCandidate
  /\ UNCHANGED <<routing, remote, file, frpc, tasks>>

RetryManual ==
  /\ op.pc = "retry"
  /\ set_routing_phase("failover")
  /\ NextCandidate
  /\ UNCHANGED <<quarantine, remote, file, frpc, tasks>>

(* Any other error ends the switch.  Before the commit the manual switch   *)
(* returns to the original node and the automatic one stops FRPC.          *)
OtherError ==
  /\ op.pc = "other_err"
  /\ IF routing.active = op.old /\ routing.phase = "failover"
     THEN IF Manual THEN CallReconcile("fail") ELSE Goto("stop_all")
     ELSE Goto("fail")
  /\ UNCHANGED <<routing, quarantine, remote, file, frpc, tasks>>

StopAll ==
  /\ op.pc = "stop_all"
  /\ frpc_stop
  /\ Goto("fail")
  /\ UNCHANGED <<routing, quarantine, remote, file, tasks>>

(* A mutant of FailoverFails: the phase is not settled.                    *)
FailWithoutPhase ==
  /\ op.pc = "fail"
  /\ Release
  /\ UNCHANGED <<routing, quarantine, remote, file, frpc, tasks>>

(* The switch returns an error: the phase is settled, the lock released.   *)
FailoverFails ==
  /\ op.pc = "fail"
  /\ mark_routing_failed
  /\ Release
  /\ UNCHANGED <<quarantine, remote, file, frpc, tasks>>

-----------------------------------------------------------------------------
(* The commit, and DNS after it. *)

(* A manual switch keeps the original node as the standby, an automatic    *)
(* one the next candidate.                                                 *)
Promote ==
  /\ op.pc = "promote"
  /\ \E s \in IF Manual THEN {op.old} ELSE IF op.cands = {} THEN {NoNode} ELSE op.cands :
       promote_active_node(op.target, s)
  /\ op' = [op EXCEPT !.pc = IF DnsTunnels = {} THEN "finalize" ELSE "dns", !.todo = DnsTunnels]
  /\ UNCHANGED <<quarantine, remote, file, frpc, tasks>>

SwitchDns ==
  /\ op.pc = "dns"
  /\ \E t \in op.todo :
       /\ upsert_a_record(t, op.target)
       /\ op' = [op EXCEPT !.todo = @ \ {t},
                           !.pc = IF op.todo = {t} THEN "finalize" ELSE "dns"]
  /\ UNCHANGED <<routing, quarantine, provider, file, frpc, tasks>>

(* A mutant of SwitchDnsFails: the tunnels are put back after the commit.  *)
DnsFailureRollsBack ==
  /\ op.pc = "dns"
  /\ \E t \in op.todo : upsert_a_record_fails(t, op.target)
  /\ RollBack(Tunnels, "give_up")
  /\ UNCHANGED <<routing, quarantine, provider, file, frpc, tasks>>

(* Another: the record that failed is skipped.                             *)
DnsFailureIgnored ==
  /\ op.pc = "dns"
  /\ \E t \in op.todo : upsert_a_record_fails(t, op.target)
  /\ Goto("finalize")
  /\ UNCHANGED <<routing, quarantine, provider, file, frpc, tasks>>

SwitchDnsFails ==
  /\ op.pc = "dns"
  /\ \E t \in op.todo : upsert_a_record_fails(t, op.target)
  /\ Goto("other_err")
  /\ UNCHANGED <<routing, quarantine, provider, file, frpc, tasks>>

finalize_active_node ==
  /\ op.pc = "finalize"
  /\ set_routing_phase("idle")
  /\ Release
  /\ UNCHANGED <<quarantine, remote, file, frpc, tasks>>

FailoverStep ==
  \/ RejectFailover \/ AcceptFailover \/ QuarantineOld \/ StopOld
  \/ NoCandidates \/ OrderCandidates
  \/ Preflight \/ PreflightFails \/ TargetOffline \/ SyncTunnel \/ SyncTunnelFails
  \/ verify_remote_target \/ ConfigFails \/ ReadPreviousFails \/ WriteTargetConfig
  \/ RestartStop \/ RestartStart \/ Watch \/ wait_ready
  \/ ReadinessNodeFault \/ ReadinessOtherFault
  \/ RollBackTunnel \/ RollBackDone \/ restore_previous_frpc \/ StopFailedTarget
  \/ RestoreStop \/ RestoreStart
  \/ StopTarget \/ QuarantineTarget \/ RetryManual \/ OtherError \/ StopAll \/ FailoverFails
  \/ Promote \/ SwitchDns \/ SwitchDnsFails \/ finalize_active_node
=============================================================================
