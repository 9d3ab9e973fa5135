---------------------------- MODULE ControlPlane ----------------------------
(***************************************************************************)
(* The state the coordinator works on, and the single steps it is made of: *)
(* the routing row and the quarantine table of SQLite, the tunnels at      *)
(* ChmlFrp, the A records at Cloudflare, the FRPC process, its             *)
(* configuration file, and the holder of the global operation lock.        *)
(*                                                                         *)
(* Every step below is one awaited call.  An external call may fail, and a *)
(* mutating one may fail after it took effect (the reply is lost).  Loops  *)
(* over tunnels leave the order open.  SQLite itself does not fail here;   *)
(* a crash (module System) can fall between any two steps.                 *)
(***************************************************************************)
EXTENDS Integers, FiniteSets

CONSTANTS
  Nodes,        \* ChmlFrp node names
  NoNode,       \* an absent node name
  Tunnels,      \* the enabled tunnel plans
  DnsTunnels,   \* the plans with dns_managed set
  WebCapable,   \* nodes that support what the plans need (require_web)
  EnvActive,    \* ACTIVE_NODE of the environment, or NoNode
  EnvStandby    \* STANDBY_NODE of the environment, or NoNode

ASSUME NodesAssumption ==
  /\ NoNode \notin Nodes
  /\ Tunnels # {}
  /\ DnsTunnels \subseteq Tunnels
  /\ WebCapable \subseteq Nodes
  /\ EnvActive \in Nodes \cup {NoNode}
  /\ EnvStandby \in Nodes \cup {NoNode}

VARIABLES
  routing,      \* the routing_state row
  quarantine,   \* names with an unexpired node_quarantine row
  provider,     \* the node each tunnel is on at ChmlFrp; NoNode: not there
  dns,          \* the node whose IP each managed A record holds
  file,         \* the node the FRPC configuration file was generated for
  frpc,         \* the FRPC process and what its log has said
  op,           \* who holds the global lock, and where it is
  queue,        \* fault events waiting for the lock
  probe,        \* the check of an ambiguous network fault
  put           \* a PUT /routing between its check and its write

tasks  == <<queue, probe, put>>
remote == <<provider, dns>>
vars   == <<routing, quarantine, provider, dns, file, frpc, op, queue, probe, put>>

NodeOrNone == Nodes \cup {NoNode}
Phases     == {"idle", "failover", "dns_switching", "degraded_dns", "failed"}

-----------------------------------------------------------------------------
(* The database. *)

RoutingRows == [active : NodeOrNone, standby : NodeOrNone, enabled : BOOLEAN, phase : Phases]

set_routing_phase(p) == routing' = [routing EXCEPT !.phase = p]

promote_active_node(n, s) ==
  routing' = [routing EXCEPT !.active = n, !.standby = s, !.phase = "dns_switching"]

(* A mutant of mark_routing_failed: the CASE of the statement has no ELSE. *)
mark_routing_failed_without_else ==
  set_routing_phase(CASE routing.phase = "idle"          -> "idle"
                      [] routing.phase = "dns_switching" -> "degraded_dns"
                      [] OTHER                           -> "NULL")

(* An idle row stays idle; after the commit only DNS is behind.            *)
mark_routing_failed ==
  set_routing_phase(CASE routing.phase = "idle"          -> "idle"
                      [] routing.phase = "dns_switching" -> "degraded_dns"
                      [] OTHER                           -> "failed")

quarantine_node(n) == quarantine' = quarantine \cup {n}

-----------------------------------------------------------------------------
(* FRPC, seen from the coordinator.  "exited" is a process that ended by   *)
(* itself: its last lines still belong to the current generation.  ready:  *)
(* connected, and every planned proxy started.  fault: this generation has *)
(* logged a node fault.  FrpcRuntime models the manager's own steps.       *)

FrpcStates == [gen : Nat, proc : {"stopped", "running", "exited"}, node : NodeOrNone,
               ready : BOOLEAN, fault : BOOLEAN]

NoProcess(g)    == [gen |-> g, proc |-> "stopped", node |-> NoNode, ready |-> FALSE, fault |-> FALSE]
NewProcess(g, n) == [gen |-> g, proc |-> "running", node |-> n, ready |-> FALSE, fault |-> FALSE]

(* A mutant of frpc_stop: the generation stays.                            *)
frpc_stop_same_generation == frpc' = NoProcess(frpc.gen)

frpc_stop == frpc' = NoProcess(frpc.gen + 1)

(* A process that still runs is left alone.                                *)
frpc_start ==
  /\ file # NoNode
  /\ frpc' = IF frpc.proc = "running" THEN frpc ELSE NewProcess(frpc.gen + 1, file)

(* The binary is missing, or the spawn failed after the generation moved.  *)
frpc_start_fails ==
  \/ UNCHANGED frpc
  \/ frpc.proc # "running" /\ frpc' = NoProcess(frpc.gen + 1)

write_config(n) == file' = n

-----------------------------------------------------------------------------
(* ChmlFrp and Cloudflare. *)

sync_tunnel(t, n) == provider' = [provider EXCEPT ![t] = n]
sync_tunnel_fails(t, n) == UNCHANGED provider \/ sync_tunnel(t, n)

upsert_a_record(t, n) == dns' = [dns EXCEPT ![t] = n]
upsert_a_record_fails(t, n) == UNCHANGED dns \/ upsert_a_record(t, n)

AllOn(n) == \A t \in Tunnels : provider[t] = n

-----------------------------------------------------------------------------
(* The lock holder's local variables.                                      *)
(*   kind    what holds the lock                                           *)
(*   pc      the call it makes next                                        *)
(*   about   the node the fault that started an automatic switch is about  *)
(*           (the program keeps no such field: it is what the properties   *)
(*           compare the code's choice with)                               *)
(*   was     the phase of the row the switch was accepted with, until the  *)
(*           candidates are ordered (kept for the properties too)          *)
(*   old     the active node read when the switch was accepted             *)
(*   standby the standby read then, until the candidates are ordered       *)
(*   target  the candidate being tried, or the node being reconciled to    *)
(*   cands   the candidates after it                                       *)
(*   snap    the provider's tunnels as the preflight read them             *)
(*   todo    the tunnels the loop in hand has left                         *)
(*   prev    the configuration file read before it was overwritten         *)
(*   gen     the generation wait_ready watches                             *)
(*   then    where a rollback or a reconcile returns to                    *)
(*   clean   no tunnel of the rollback reported an error                   *)

Returns == {"none", "give_up", "restore", "release", "retry", "fail"}

FailoverSteps ==
  {"accept", "quarantine", "stop_old", "list", "preflight", "sync", "verify", "write",
   "stop", "start", "watch", "wait", "rollback", "restore", "restore_stop",
   "restore_start", "node_err", "blame", "other_err", "stop_all", "retry",
   "promote", "dns", "finalize", "fail"}

ReconcileSteps ==
  {"r_preflight", "r_sync", "r_verify", "r_config", "r_stop", "r_start", "r_watch",
   "r_wait", "r_dns", "r_finalize", "r_error"}

Ops == [kind : {"none", "manual", "auto", "reconcile"},
        pc : FailoverSteps \cup ReconcileSteps \cup {"none"},
        about : NodeOrNone, was : Phases, old : NodeOrNone, standby : NodeOrNone,
        target : NodeOrNone, cands : SUBSET Nodes,
        snap : [Tunnels -> NodeOrNone], todo : SUBSET Tunnels,
        prev : NodeOrNone, gen : Nat, then : Returns, clean : BOOLEAN]

NoOp == [kind |-> "none", pc |-> "none", about |-> NoNode, was |-> "idle",
         old |-> NoNode, standby |-> NoNode, target |-> NoNode, cands |-> {},
         snap |-> [t \in Tunnels |-> NoNode], todo |-> {}, prev |-> NoNode,
         gen |-> 0, then |-> "none", clean |-> TRUE]

LockFree == op.kind = "none"

Goto(l) == op' = [op EXCEPT !.pc = l]
Release == op' = NoOp

(* reconcile_all is called, and returns to r. *)
CallReconcile(r) ==
  op' = [op EXCEPT !.pc = "r_preflight", !.then = r, !.target = NoNode, !.todo = {},
                   !.snap = NoOp.snap, !.prev = NoNode, !.gen = 0, !.clean = TRUE]
=============================================================================
