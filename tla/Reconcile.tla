------------------------------ MODULE Reconcile ------------------------------
(***************************************************************************)
(* reconcile_all: bring ChmlFrp, FRPC and Cloudflare to the active node of *)
(* the routing row.  It runs by itself under the lock, or inside a manual  *)
(* switch that gives up a candidate (recover_manual_original).             *)
(***************************************************************************)
EXTENDS ControlPlane

(* The node must be known, online and reachable through the provider, and  *)
(* the managed records unique.  The tunnels are read once, here.           *)
ReconcilePreflight ==
  /\ op.pc = "r_preflight"
  /\ routing.active # NoNode
  /\ LET todo == {t \in Tunnels : provider[t] # routing.active} IN
     op' = [op EXCEPT !.pc = IF todo = {} THEN "r_verify" ELSE "r_sync",
                      !.target = routing.active, !.todo = todo]
  /\ UNCHANGED <<routing, quarantine, remote, file, frpc, tasks>>

(* A tunnel that is missing at the provider is created on the node, one    *)
(* that differs from its plan is moved.                                    *)
ReconcileTunnel ==
  /\ op.pc = "r_sync"
  /\ \E t \in op.todo :
       /\ sync_tunnel(t, op.target)
       /\ op' = [op EXCEPT !.todo = @ \ {t},
                           !.pc = IF op.todo = {t} THEN "r_verify" ELSE "r_sync"]
  /\ UNCHANGED <<routing, quarantine, dns, file, frpc, tasks>>

ReconcileTunnelFails ==
  /\ op.pc = "r_sync"
  /\ \E t \in op.todo : sync_tunnel_fails(t, op.target)
  /\ Goto("r_error")
  /\ UNCHANGED <<routing, quarantine, dns, file, frpc, tasks>>

(* The tunnels are read again; then ChmlFrp generates the configuration.   *)
verify_chmlfrp_desired_state ==
  /\ op.pc = "r_verify"
  /\ AllOn(op.target)
  /\ Goto("r_config")
  /\ UNCHANGED <<routing, quarantine, remote, file, frpc, tasks>>

(* A mutant of KeepProcess: the file is not compared.                      *)
KeepAnyProcess ==
  /\ op.pc = "r_config"
  /\ frpc.proc = "running"
  /\ Goto("r_watch")
  /\ UNCHANGED <<routing, quarantine, remote, file, frpc, tasks>>

(* The file already holds that configuration and the process is connected: *)
(* no restart.  (A process that is connected with a proxy missing is not   *)
(* ready, and is left alone too.)                                          *)
KeepProcess ==
  /\ op.pc = "r_config"
  /\ file = op.target
  /\ frpc.proc = "running"
  /\ Goto("r_watch")
  /\ UNCHANGED <<routing, quarantine, remote, file, frpc, tasks>>

ReplaceConfig ==
  /\ op.pc = "r_config"
  /\ ~(file = op.target /\ frpc.proc = "running" /\ frpc.ready)
  /\ write_config(op.target)
  /\ Goto("r_stop")
  /\ UNCHANGED <<routing, quarantine, remote, frpc, tasks>>

ReconcileStop ==
  /\ op.pc = "r_stop"
  /\ frpc_stop
  /\ Goto("r_start")
  /\ UNCHANGED <<routing, quarantine, remote, file, tasks>>

ReconcileStart ==
  /\ op.pc = "r_start"
  /\ \/ frpc_start /\ Goto("r_watch")
     \/ frpc_start_fails /\ Goto("r_error")
  /\ UNCHANGED <<routing, quarantine, remote, file, tasks>>

ReconcileWatch ==
  /\ op.pc = "r_watch"
  /\ op' = [op EXCEPT !.pc = "r_wait", !.gen = frpc.gen]
  /\ UNCHANGED <<routing, quarantine, remote, file, frpc, tasks>>

ReconcileReady ==
  /\ op.pc = "r_wait"
  /\ frpc.gen = op.gen
  /\ frpc.proc = "running"
  /\ frpc.ready /\ ~frpc.fault
  /\ op' = [op EXCEPT !.pc = IF DnsTunnels = {} THEN "r_finalize" ELSE "r_dns",
                      !.todo = DnsTunnels, !.gen = 0]
  /\ UNCHANGED <<routing, quarantine, remote, file, frpc, tasks>>

(* A call of these steps fails, or wait_ready returns any of its errors.   *)
ReconcileCallFails ==
  /\ op.pc \in {"r_preflight", "r_verify", "r_config", "r_wait"}
  /\ Goto("r_error")
  /\ UNCHANGED <<routing, quarantine, remote, file, frpc, tasks>>

reconcile_dns ==
  /\ op.pc = "r_dns"
  /\ \E t \in op.todo :
       /\ upsert_a_record(t, op.target)
       /\ op' = [op EXCEPT !.todo = @ \ {t},
                           !.pc = IF op.todo = {t} THEN "r_finalize" ELSE "r_dns"]
  /\ UNCHANGED <<routing, quarantine, provider, file, frpc, tasks>>

ReconcileDnsFails ==
  /\ op.pc = "r_dns"
  /\ \E t \in op.todo : upsert_a_record_fails(t, op.target)
  /\ Goto("r_error")
  /\ UNCHANGED <<routing, quarantine, provider, file, frpc, tasks>>

(* The row becomes idle; inside a manual switch the caller goes on: it     *)
(* tries the next candidate or reports the switch as failed.               *)
ReconcileFinalize ==
  /\ op.pc = "r_finalize"
  /\ set_routing_phase("idle")
  /\ IF op.then = "release" THEN Release
     ELSE op' = [op EXCEPT !.pc = op.then, !.target = NoNode, !.then = "none"]
  /\ UNCHANGED <<quarantine, remote, file, frpc, tasks>>

(* A reconcile that fails leaves the phase as it is; inside a manual       *)
(* switch FRPC is stopped and the switch fails.                            *)
ReconcileError ==
  /\ op.pc = "r_error"
  /\ IF op.then = "release"
     THEN Release /\ UNCHANGED frpc
     ELSE frpc_stop /\ op' = [op EXCEPT !.pc = "fail", !.then = "none"]
  /\ UNCHANGED <<routing, quarantine, remote, file, tasks>>

ReconcileStep ==
  \/ ReconcilePreflight \/ ReconcileTunnel \/ ReconcileTunnelFails
  \/ verify_chmlfrp_desired_state \/ KeepProcess \/ ReplaceConfig
  \/ ReconcileStop \/ ReconcileStart \/ ReconcileWatch \/ ReconcileReady
  \/ ReconcileCallFails \/ reconcile_dns \/ ReconcileDnsFails
  \/ ReconcileFinalize \/ ReconcileError
=============================================================================
