----------------------------- MODULE SystemSteps -----------------------------
(***************************************************************************)
(* Every step of Next keeps the types of the variables, and what the calls *)
(* of an operation rely on (CallInv).  The parts of CallInv speak about    *)
(* the same few variables and need one another, so each action is taken    *)
(* once, for all of them.  The last section does the same for SpecStorm    *)
(* and what is left of CallInv there (HeldInv).                            *)
(***************************************************************************)
EXTENDS SystemInvariants, TLAPS

(* The empty record of local variables has its type: the lock holder starts *)
(* from it, and nothing of an earlier operation is left.                    *)
LEMMA NoOpType == NoOp \in Ops /\ NoOp.snap \in [Tunnels -> NodeOrNone]
<1>1. [t \in Tunnels |-> NoNode] \in [Tunnels -> NodeOrNone]
  BY DEF NodeOrNone
<1> QED
  BY <1>1 DEF NoOp, Ops, NodeOrNone, Phases, Returns

(* Going on to another call changes nothing else the lock holder keeps.     *)
LEMMA GotoType ==
  ASSUME op \in Ops, NEW l \in FailoverSteps \cup ReconcileSteps, Goto(l)
  PROVE  op' \in Ops
  BY DEF Goto, Ops

(* The local variables of a rollback (rollback_tunnels).                    *)
LEMMA RollBackType ==
  ASSUME op \in Ops, NEW S \in SUBSET Tunnels, NEW r \in Returns, RollBack(S, r)
  PROVE  op' \in Ops
  BY DEF RollBack, Ops, FailoverSteps, Returns

(* The local variables when a switch calls reconcile_all.                   *)
LEMMA CallReconcileType ==
  ASSUME op \in Ops, NEW r \in Returns, CallReconcile(r)
  PROVE  op' \in Ops
  BY NoOpType DEF CallReconcile, Ops, ReconcileSteps, NodeOrNone

(* The local variables when the loop goes on to the next candidate.         *)
LEMMA NextCandidateType ==
  ASSUME op \in Ops, NextCandidate
  PROVE  op' \in Ops
<1>1. PICK n \in op.cands :
        op' = [op EXCEPT !.pc = "preflight", !.target = n, !.cands = @ \ {n},
                         !.snap = NoOp.snap, !.todo = {}, !.prev = NoNode, !.gen = 0,
                         !.then = "none"]
  BY DEF NextCandidate
<1>2. n \in NodeOrNone /\ op.cands \ {n} \in SUBSET Nodes
  BY DEF Ops, NodeOrNone
<1>3. NoOp.snap \in [Tunnels -> NodeOrNone] /\ NoNode \in NodeOrNone
  BY NoOpType DEF Ops, NodeOrNone
<1>. QED
  BY <1>1, <1>2, <1>3 DEF Ops, FailoverSteps, Returns

(* The local variables of an operation that has just got the lock.          *)
LEMMA TakeType ==
  ASSUME NEW k \in {"manual", "auto", "reconcile"},
         NEW l \in FailoverSteps \cup ReconcileSteps,
         NEW a \in NodeOrNone, NEW r \in Returns, Take(k, l, a, r)
  PROVE  op' \in Ops
  BY NoOpType DEF Take, Ops

(* FrpcManager::stop leaves a process record of its type.                   *)
LEMMA FrpcStopType ==
  ASSUME frpc \in FrpcStates, frpc_stop PROVE frpc' \in FrpcStates
  BY DEF frpc_stop, NoProcess, FrpcStates, NodeOrNone

(* FrpcManager::start does too, whether it succeeds or not.                 *)
LEMMA FrpcStartType ==
  ASSUME frpc \in FrpcStates, file \in NodeOrNone, frpc_start \/ frpc_start_fails
  PROVE  frpc' \in FrpcStates
<1>1. NoProcess(frpc.gen + 1) \in FrpcStates /\ NewProcess(frpc.gen + 1, file) \in FrpcStates
  BY DEF NoProcess, NewProcess, FrpcStates, NodeOrNone
<1>. QED
  BY <1>1 DEF frpc_start, frpc_start_fails

(* set_routing_phase keeps the type of the row.                             *)
LEMMA PhaseType ==
  ASSUME routing \in RoutingRows, NEW p \in Phases, set_routing_phase(p)
  PROVE  routing' \in RoutingRows
  BY DEF set_routing_phase, RoutingRows

-----------------------------------------------------------------------------
(* One step of reconcile_all keeps the types.  That a nested reconcile      *)
(* returns to a call of the switch needs ControlInv.                        *)
LEMMA ReconcileKeepsTypes ==
  ASSUME TypeOK, ControlInv, ReconcileStep
  PROVE  TypeOK'
<1>. USE DEF TypeOK, remote, tasks
<1>1. CASE ReconcilePreflight
  <2>. DEFINE todo == {t \in Tunnels : provider[t] # routing.active}
  <2>1. todo \in SUBSET Tunnels /\ routing.active \in NodeOrNone
    BY DEF RoutingRows
  <2>2. op' = [op EXCEPT !.pc = IF todo = {} THEN "r_verify" ELSE "r_sync",
                         !.target = routing.active, !.todo = todo]
    BY <1>1 DEF ReconcilePreflight
  <2>. HIDE DEF todo
  <2>3. op' \in Ops
    BY <2>1, <2>2 DEF Ops, ReconcileSteps
  <2>. QED
    BY <1>1, <2>3 DEF ReconcilePreflight
<1>2. CASE ReconcileTunnel
  <2>1. PICK t \in op.todo :
          /\ sync_tunnel(t, op.target)
          /\ op' = [op EXCEPT !.todo = @ \ {t},
                              !.pc = IF op.todo = {t} THEN "r_verify" ELSE "r_sync"]
    BY <1>2 DEF ReconcileTunnel
  <2>2. op.todo \ {t} \in SUBSET Tunnels
    BY DEF Ops
  <2>3. op' \in Ops
    BY <2>1, <2>2 DEF Ops, ReconcileSteps
  <2>4. provider' \in [Tunnels -> NodeOrNone]
    BY <2>1 DEF sync_tunnel, Ops
  <2>. QED
    BY <1>2, <2>3, <2>4 DEF ReconcileTunnel
<1>3. CASE ReconcileTunnelFails
  <2>1. provider' \in [Tunnels -> NodeOrNone]
    BY <1>3 DEF ReconcileTunnelFails, sync_tunnel_fails, sync_tunnel, Ops
  <2>2. op' \in Ops
    BY <1>3, GotoType DEF ReconcileTunnelFails, ReconcileSteps
  <2>. QED
    BY <1>3, <2>1, <2>2 DEF ReconcileTunnelFails
<1>4. CASE verify_chmlfrp_desired_state
  BY <1>4, GotoType DEF verify_chmlfrp_desired_state, ReconcileSteps
<1>5. CASE KeepProcess
  BY <1>5, GotoType DEF KeepProcess, ReconcileSteps
<1>6. CASE ReplaceConfig
  <2>1. file' \in NodeOrNone
    BY <1>6 DEF ReplaceConfig, write_config, Ops, NodeOrNone
  <2>2. op' \in Ops
    BY <1>6, GotoType DEF ReplaceConfig, ReconcileSteps
  <2>. QED
    BY <1>6, <2>1, <2>2 DEF ReplaceConfig
<1>7. CASE ReconcileStop
  BY <1>7, FrpcStopType, GotoType DEF ReconcileStop, ReconcileSteps
<1>8. CASE ReconcileStart
  BY <1>8, FrpcStartType, GotoType DEF ReconcileStart, ReconcileSteps
<1>9. CASE ReconcileWatch
  BY <1>9 DEF ReconcileWatch, ReconcileSteps, Ops, FrpcStates
<1>10. CASE ReconcileReady
  <2>1. DnsTunnels \in SUBSET Tunnels
    BY NodesAssumption DEF NodesAssumption
  <2>2. op' = [op EXCEPT !.pc = IF DnsTunnels = {} THEN "r_finalize" ELSE "r_dns",
                         !.todo = DnsTunnels, !.gen = 0]
    BY <1>10 DEF ReconcileReady
  <2>3. op' \in Ops
    BY <2>1, <2>2 DEF Ops, ReconcileSteps
  <2>. QED
    BY <1>10, <2>3 DEF ReconcileReady
<1>11. CASE ReconcileCallFails
  BY <1>11, GotoType DEF ReconcileCallFails, ReconcileSteps
<1>12. CASE reconcile_dns
  <2>1. PICK t \in op.todo :
          /\ upsert_a_record(t, op.target)
          /\ op' = [op EXCEPT !.todo = @ \ {t},
                              !.pc = IF op.todo = {t} THEN "r_finalize" ELSE "r_dns"]
    BY <1>12 DEF reconcile_dns
  <2>2. op.todo \ {t} \in SUBSET Tunnels
    BY DEF Ops
  <2>3. op' \in Ops
    BY <2>1, <2>2 DEF Ops, ReconcileSteps
  <2>4. dns' \in [DnsTunnels -> NodeOrNone]
    BY <2>1 DEF upsert_a_record, Ops
  <2>. QED
    BY <1>12, <2>3, <2>4 DEF reconcile_dns
<1>13. CASE ReconcileDnsFails
  <2>1. dns' \in [DnsTunnels -> NodeOrNone]
    BY <1>13 DEF ReconcileDnsFails, upsert_a_record_fails, upsert_a_record, Ops
  <2>2. op' \in Ops
    BY <1>13, GotoType DEF ReconcileDnsFails, ReconcileSteps
  <2>. QED
    BY <1>13, <2>1, <2>2 DEF ReconcileDnsFails
<1>14. CASE ReconcileFinalize
  <2>1. routing' \in RoutingRows
    BY <1>14 DEF ReconcileFinalize, set_routing_phase, RoutingRows, Phases
  <2>2. op' \in Ops
    <3>1. CASE op.then = "release"
      BY <1>14, <3>1, NoOpType DEF ReconcileFinalize, Release
    <3>2. CASE op.then # "release"
      <4>1. op.then \in {"retry", "fail"}
        BY <1>14, <3>2 DEF ReconcileFinalize, ControlInv, ReconcileSteps
      <4>2. op' = [op EXCEPT !.pc = op.then, !.target = NoNode, !.then = "none"]
        BY <1>14, <3>2 DEF ReconcileFinalize
      <4>. QED
        BY <4>1, <4>2 DEF Ops, FailoverSteps, Returns, NodeOrNone
    <3>. QED
      BY <3>1, <3>2
  <2>. QED
    BY <1>14, <2>1, <2>2 DEF ReconcileFinalize
<1>15. CASE ReconcileError
  <2>1. CASE op.then = "release"
    BY <1>15, <2>1, NoOpType DEF ReconcileError, Release
  <2>2. CASE op.then # "release"
    <3>0. op' = [op EXCEPT !.pc = "fail", !.then = "none"]
      BY <1>15, <2>2 DEF ReconcileError
    <3>1. op' \in Ops
      BY <3>0 DEF Ops, FailoverSteps, Returns
    <3>2. frpc' \in FrpcStates
      BY <1>15, <2>2, FrpcStopType DEF ReconcileError
    <3>. QED
      BY <1>15, <2>2, <3>1, <3>2 DEF ReconcileError
  <2>. QED
    BY <2>1, <2>2
<1>. QED
  BY <1>1, <1>2, <1>3, <1>4, <1>5, <1>6, <1>7, <1>8, <1>9, <1>10, <1>11, <1>12, <1>13,
       <1>14, <1>15 DEF ReconcileStep

(* One step of a switch keeps the types.  That what it quarantines is a     *)
(* node, never the absent name, needs ControlInv and TargetInv.             *)
LEMMA FailoverKeepsTypes ==
  ASSUME TypeOK, ControlInv, TargetInv, FailoverStep
  PROVE  TypeOK'
<1>. USE DEF TypeOK, remote, tasks
<1>1. CASE RejectFailover
  BY <1>1, GotoType DEF RejectFailover, FailoverSteps
<1>2. CASE AcceptFailover
  <2>1. routing' \in RoutingRows
    BY <1>2 DEF set_routing_phase, AcceptFailover, RoutingRows, Phases
  <2>2. routing.active \in NodeOrNone /\ routing.standby \in NodeOrNone /\ routing.phase \in Phases
    BY DEF RoutingRows
  <2>3. PICK l \in FailoverSteps :
          op' = [op EXCEPT !.pc = l, !.old = routing.active, !.standby = routing.standby,
                           !.was = routing.phase]
    BY <1>2 DEF AcceptFailover, FailoverSteps
  <2>4. op' \in Ops
    BY <2>2, <2>3 DEF Ops
  <2>. QED
    BY <1>2, <2>1, <2>4 DEF AcceptFailover
<1>3. CASE QuarantineOld
  <2>1. op.old \in Nodes
    BY <1>3 DEF QuarantineOld, Ops, NodeOrNone, ControlInv, Switching
  <2>2. quarantine' \subseteq Nodes
    BY <1>3, <2>1 DEF QuarantineOld, quarantine_node
  <2>. QED
    BY <1>3, <2>2, GotoType DEF QuarantineOld, FailoverSteps
<1>4. CASE StopOld
  BY <1>4, FrpcStopType, GotoType DEF StopOld, FailoverSteps
<1>5. CASE NoCandidates
  BY <1>5, PhaseType, GotoType DEF NoCandidates, FailoverSteps, Phases
<1>6. CASE OrderCandidates
  <2>. DEFINE cands(online) == EligibleNames(op.old, online, quarantine, WebCapable)
  <2>1. PICK online \in SUBSET Nodes : \E n \in FirstOf(cands(online), op.standby) :
          op' = [op EXCEPT !.pc = "preflight", !.target = n, !.cands = cands(online) \ {n},
                           !.standby = NoNode, !.was = "idle"]
    BY <1>6 DEF OrderCandidates
  <2>2. PICK n \in FirstOf(cands(online), op.standby) :
          op' = [op EXCEPT !.pc = "preflight", !.target = n, !.cands = cands(online) \ {n},
                           !.standby = NoNode, !.was = "idle"]
    BY <2>1
  <2>3. cands(online) \in SUBSET Nodes /\ n \in Nodes
    BY DEF EligibleNames, FirstOf
  <2>. HIDE DEF cands
  <2>4. op' \in Ops
    BY <2>2, <2>3 DEF Ops, FailoverSteps, NodeOrNone, Phases
  <2>. QED
    BY <1>6, <2>4 DEF OrderCandidates
<1>7. CASE Preflight
  BY <1>7 DEF Preflight, FailoverSteps, Ops
<1>8. CASE PreflightFails
  BY <1>8, GotoType DEF PreflightFails, FailoverSteps
<1>9. CASE TargetOffline
  BY <1>9, GotoType DEF TargetOffline, FailoverSteps
<1>10. CASE SyncTunnel
  <2>1. PICK t \in op.todo :
          /\ sync_tunnel(t, op.target)
          /\ op' = [op EXCEPT !.todo = @ \ {t},
                              !.pc = IF op.todo = {t} THEN "verify" ELSE "sync"]
    BY <1>10 DEF SyncTunnel
  <2>2. op.todo \ {t} \in SUBSET Tunnels
    BY DEF Ops
  <2>3. op' \in Ops
    BY <2>1, <2>2 DEF Ops, FailoverSteps
  <2>4. provider' \in [Tunnels -> NodeOrNone]
    BY <2>1 DEF sync_tunnel, Ops
  <2>. QED
    BY <1>10, <2>3, <2>4 DEF SyncTunnel
<1>11. CASE SyncTunnelFails
  <2>1. provider' \in [Tunnels -> NodeOrNone]
    BY <1>11 DEF SyncTunnelFails, sync_tunnel_fails, sync_tunnel, Ops
  <2>2. op' \in Ops
    BY <1>11, GotoType, RollBackType DEF SyncTunnelFails, Ops, FailoverSteps, Returns
  <2>. QED
    BY <1>11, <2>1, <2>2 DEF SyncTunnelFails
<1>12. CASE verify_remote_target
  BY <1>12, GotoType DEF verify_remote_target, FailoverSteps
<1>13. CASE ConfigFails
  <2>1. op' \in Ops
    BY <1>13, RollBackType DEF ConfigFails, Ops, FailoverSteps, Returns
  <2>. QED
    BY <1>13, <2>1 DEF ConfigFails
<1>14. CASE ReadPreviousFails
  BY <1>14, GotoType DEF ReadPreviousFails, FailoverSteps
<1>15. CASE WriteTargetConfig
  <2>1. file' \in NodeOrNone
    BY <1>15 DEF WriteTargetConfig, write_config, Ops, NodeOrNone
  <2>2. op' \in Ops
    BY <1>15 DEF WriteTargetConfig, Ops, FailoverSteps, Returns, NodeOrNone
  <2>. QED
    BY <1>15, <2>1, <2>2 DEF WriteTargetConfig
<1>16. CASE RestartStop
  BY <1>16, FrpcStopType, GotoType DEF RestartStop, FailoverSteps
<1>17. CASE RestartStart
  <2>1. frpc' \in FrpcStates
    BY <1>17, FrpcStartType DEF RestartStart
  <2>2. op' \in Ops
    BY <1>17, GotoType, RollBackType DEF RestartStart, Ops, FailoverSteps, Returns
  <2>. QED
    BY <1>17, <2>1, <2>2 DEF RestartStart
<1>18. CASE Watch
  BY <1>18 DEF Watch, FailoverSteps, Ops, FrpcStates
<1>19. CASE wait_ready
  <2>1. op' \in Ops
    BY <1>19, NoOpType DEF wait_ready, Ops, FailoverSteps, Returns, NodeOrNone
  <2>. QED
    BY <1>19, <2>1 DEF wait_ready
<1>20. CASE ReadinessNodeFault
  BY <1>20, GotoType DEF ReadinessNodeFault, FailoverSteps
<1>21. CASE ReadinessOtherFault
  <2>1. op' \in Ops
    BY <1>21, RollBackType DEF ReadinessOtherFault, Ops, FailoverSteps, Returns
  <2>. QED
    BY <1>21, <2>1 DEF ReadinessOtherFault
<1>22. CASE RollBackTunnel
  <2>1. PICK t \in op.todo :
          /\ sync_tunnel(t, op.snap[t]) \/ sync_tunnel_fails(t, op.snap[t])
          /\ \/ op' = [op EXCEPT !.todo = @ \ {t}]
             \/ op' = [op EXCEPT !.todo = @ \ {t}, !.clean = FALSE]
    BY <1>22 DEF RollBackTunnel
  <2>2. op.todo \ {t} \in SUBSET Tunnels
    BY DEF Ops
  <2>3. op' \in Ops
    <3>1. CASE op' = [op EXCEPT !.todo = @ \ {t}]
      BY <3>1, <2>2 DEF Ops
    <3>2. CASE op' = [op EXCEPT !.todo = @ \ {t}, !.clean = FALSE]
      BY <3>2, <2>2 DEF Ops
    <3>. QED
      BY <2>1, <3>1, <3>2
  <2>4. op.snap[t] \in NodeOrNone
    BY DEF Ops
  <2>5. provider' \in [Tunnels -> NodeOrNone]
    BY <2>1, <2>4 DEF sync_tunnel, sync_tunnel_fails
  <2>. QED
    BY <1>22, <2>3, <2>5 DEF RollBackTunnel
<1>23. CASE RollBackDone
  <2>1. PICK l \in FailoverSteps :
          op' = [op EXCEPT !.pc = l, !.then = "none", !.snap = NoOp.snap, !.clean = TRUE]
    BY <1>23 DEF RollBackDone, FailoverSteps
  <2>2. NoOp.snap \in [Tunnels -> NodeOrNone]
    BY NoOpType DEF Ops
  <2>3. op' \in Ops
    BY <2>1, <2>2 DEF Ops, Returns
  <2>. QED
    BY <1>23, <2>3 DEF RollBackDone
<1>24. CASE restore_previous_frpc
  <2>1. file' \in NodeOrNone
    BY <1>24 DEF restore_previous_frpc, write_config, Ops, NodeOrNone
  <2>2. op' \in Ops
    BY <1>24, GotoType DEF restore_previous_frpc, FailoverSteps, NodeOrNone
  <2>. QED
    BY <1>24, <2>1, <2>2 DEF restore_previous_frpc
<1>25. CASE StopFailedTarget
  BY <1>25, FrpcStopType, GotoType DEF StopFailedTarget, FailoverSteps
<1>26. CASE RestoreStop
  BY <1>26, FrpcStopType, GotoType DEF RestoreStop, FailoverSteps
<1>27. CASE RestoreStart
  BY <1>27, FrpcStartType, GotoType DEF RestoreStart, FailoverSteps
<1>28. CASE StopTarget
  BY <1>28, FrpcStopType, GotoType DEF StopTarget, FailoverSteps
<1>29. CASE QuarantineTarget
  <2>1. quarantine' \subseteq Nodes
    BY <1>29 DEF QuarantineTarget, quarantine_node, TargetInv, CandidateSteps
  <2>2. op' \in Ops
    BY <1>29, CallReconcileType, GotoType, NextCandidateType DEF QuarantineTarget,
         FailoverSteps, Returns
  <2>. QED
    BY <1>29, <2>1, <2>2 DEF QuarantineTarget
<1>30. CASE RetryManual
  BY <1>30, PhaseType, NextCandidateType DEF RetryManual, Phases
<1>31. CASE OtherError
  <2>1. op' \in Ops
    BY <1>31, CallReconcileType, GotoType DEF OtherError, FailoverSteps, Returns
  <2>. QED
    BY <1>31, <2>1 DEF OtherError
<1>32. CASE StopAll
  BY <1>32, FrpcStopType, GotoType DEF StopAll, FailoverSteps
<1>33. CASE FailoverFails
  <2>1. routing' \in RoutingRows
    BY <1>33 DEF FailoverFails, mark_routing_failed, set_routing_phase, RoutingRows,
         Phases
  <2>. QED
    BY <1>33, <2>1, NoOpType DEF FailoverFails, Release
<1>34. CASE Promote
  <2>1. DnsTunnels \in SUBSET Tunnels
    BY NodesAssumption DEF NodesAssumption
  <2>2. op' = [op EXCEPT !.pc = IF DnsTunnels = {} THEN "finalize" ELSE "dns", !.todo
       = DnsTunnels]
    BY <1>34 DEF Promote
  <2>3. op' \in Ops
    BY <2>1, <2>2 DEF Ops, FailoverSteps
  <2>4. PICK s \in NodeOrNone : promote_active_node(op.target, s)
    BY <1>34 DEF Promote, Ops, NodeOrNone
  <2>5. routing' \in RoutingRows
    BY <2>4 DEF promote_active_node, RoutingRows, Phases, Ops
  <2>. QED
    BY <1>34, <2>3, <2>5 DEF Promote
<1>35. CASE SwitchDns
  <2>1. PICK t \in op.todo :
          /\ upsert_a_record(t, op.target)
          /\ op' = [op EXCEPT !.todo = @ \ {t},
                              !.pc = IF op.todo = {t} THEN "finalize" ELSE "dns"]
    BY <1>35 DEF SwitchDns
  <2>2. op.todo \ {t} \in SUBSET Tunnels
    BY DEF Ops
  <2>3. op' \in Ops
    BY <2>1, <2>2 DEF Ops, FailoverSteps
  <2>4. dns' \in [DnsTunnels -> NodeOrNone]
    BY <2>1 DEF upsert_a_record, Ops
  <2>. QED
    BY <1>35, <2>3, <2>4 DEF SwitchDns
<1>36. CASE SwitchDnsFails
  <2>1. dns' \in [DnsTunnels -> NodeOrNone]
    BY <1>36 DEF SwitchDnsFails, upsert_a_record_fails, upsert_a_record, Ops
  <2>2. op' \in Ops
    BY <1>36, GotoType DEF SwitchDnsFails, FailoverSteps
  <2>. QED
    BY <1>36, <2>1, <2>2 DEF SwitchDnsFails
<1>37. CASE finalize_active_node
  BY <1>37, PhaseType, NoOpType DEF finalize_active_node, Phases, Release
<1>. QED
  BY <1>1, <1>2, <1>3, <1>4, <1>5, <1>6, <1>7, <1>8, <1>9, <1>10, <1>11, <1>12, <1>13,
       <1>14, <1>15, <1>16, <1>17, <1>18, <1>19, <1>20, <1>21, <1>22, <1>23, <1>24,
       <1>25, <1>26, <1>27, <1>28, <1>29, <1>30, <1>31, <1>32, <1>33, <1>34, <1>35,
       <1>36, <1>37 DEF FailoverStep

(* Every step keeps the types: those of the lock holder, and those that     *)
(* happen beside it.                                                        *)
LEMMA TypeStep ==
  ASSUME TypeOK, ControlInv, TargetInv, Next
  PROVE  TypeOK'
<1>. USE DEF TypeOK, remote, tasks
<1>0. CASE OpStep
  BY <1>0, ReconcileKeepsTypes, FailoverKeepsTypes DEF OpStep
<1>1. CASE BeginManual
  <2>1. op' \in Ops
    BY <1>1, TakeType DEF BeginManual, Ops, FailoverSteps, ReconcileSteps, Returns,
         NodeOrNone
  <2>. QED
    BY <1>1, <2>1 DEF BeginManual
<1>2. CASE BeginReconcile
  <2>1. op' \in Ops
    BY <1>2, TakeType DEF BeginReconcile, Ops, FailoverSteps, ReconcileSteps, Returns,
         NodeOrNone
  <2>. QED
    BY <1>2, <2>1 DEF BeginReconcile
<1>3. CASE queued_global_failover
  <2>1. PICK e \in queue :
          /\ queue' = queue \ {e}
          /\ IF e.gen = frpc.gen THEN Take("auto", "accept", e.about, "none") ELSE UNCHANGED op
    BY <1>3 DEF queued_global_failover
  <2>2. e.about \in NodeOrNone
    BY DEF Faults
  <2>3. op' \in Ops
    BY <2>1, <2>2, TakeType DEF FailoverSteps, Returns
  <2>. QED
    BY <1>3, <2>1, <2>3 DEF queued_global_failover
<1>4. CASE ProcessReady
  <2>1. frpc' \in FrpcStates
    BY <1>4 DEF ProcessReady, FrpcStates
  <2>. QED
    BY <1>4, <2>1 DEF ProcessReady
<1>5. CASE ProcessExits
  <2>1. frpc' \in FrpcStates
    BY <1>5 DEF ProcessExits, FrpcStates
  <2>. QED
    BY <1>5, <2>1 DEF ProcessExits
<1>6. CASE NodeFaultLine
  <2>1. frpc' \in FrpcStates
    BY <1>6 DEF NodeFaultLine, FrpcStates
  <2>2. queue' \subseteq Faults
    BY <1>6 DEF NodeFaultLine, Faults, FrpcStates, NodeOrNone
  <2>. QED
    BY <1>6, <2>1, <2>2 DEF NodeFaultLine
<1>7. CASE update_routing
  <2>1. PICK p \in PutInput : WriteRouting(p)
    BY <1>7 DEF update_routing
  <2>2. p.active \in NodeOrNone /\ p.standby \in NodeOrNone /\ p.enabled \in BOOLEAN
    BY BoundsAssumption DEF BoundsAssumption, PutInput, NodeOrNone
  <2>3. routing' \in RoutingRows
    BY <2>1, <2>2 DEF WriteRouting, RoutingRows
  <2>. QED
    BY <1>7, <2>3 DEF update_routing
<1>8. CASE QuarantineEnds
  BY <1>8 DEF QuarantineEnds
<1>. QED
  BY <1>0, <1>1, <1>2, <1>3, <1>4, <1>5, <1>6, <1>7, <1>8 DEF Next

-----------------------------------------------------------------------------
(* What the calls of an operation rely on. *)

(* One call of reconcile_all, alone or inside a manual switch, leaves to    *)
(* the next call what that one relies on.                                   *)
LEMMA ReconcileKeepsCalls ==
  ASSUME TypeOK, CallInv, ReconcileStep
  PROVE  CallInv'
<1>. USE NodesAssumption
<1>. USE DEF NodesAssumption, TypeOK, Ops, FrpcStates, RoutingRows, Phases, Faults,
     NodeOrNone,
       FailoverSteps, ReconcileSteps, remote, tasks,
       CallInv, ControlInv, PhaseInv, TargetInv, RuntimeInv, AutoInv, RemoteInv,
       CommittedAgrees, QueueInv, BlameInv, Switching, CandidateSteps, BeforeCandidates,
       AfterCommit, Loose, AllOn
<1>1. CASE ReconcilePreflight
  BY <1>1 DEF ReconcilePreflight
<1>2. CASE ReconcileTunnel
  BY <1>2 DEF ReconcileTunnel, sync_tunnel
<1>3. CASE ReconcileTunnelFails
  BY <1>3 DEF ReconcileTunnelFails, sync_tunnel_fails, sync_tunnel, Goto
<1>4. CASE verify_chmlfrp_desired_state
  BY <1>4 DEF verify_chmlfrp_desired_state, AllOn, Goto
<1>5. CASE KeepProcess
  BY <1>5 DEF KeepProcess, Goto
<1>6. CASE ReplaceConfig
  BY <1>6 DEF ReplaceConfig, write_config, Goto
<1>7. CASE ReconcileStop
  BY <1>7 DEF ReconcileStop, frpc_stop, NoProcess, Goto
<1>8. CASE ReconcileStart
  BY <1>8 DEF ReconcileStart, frpc_start, NewProcess, Goto, frpc_start_fails, NoProcess
<1>9. CASE ReconcileWatch
  BY <1>9 DEF ReconcileWatch
<1>10. CASE ReconcileReady
  BY <1>10 DEF ReconcileReady
<1>11. CASE ReconcileCallFails
  BY <1>11 DEF ReconcileCallFails, Goto
<1>12. CASE reconcile_dns
  BY <1>12 DEF reconcile_dns, upsert_a_record
<1>13. CASE ReconcileDnsFails
  BY <1>13 DEF ReconcileDnsFails, upsert_a_record_fails, upsert_a_record, Goto
<1>14. CASE ReconcileFinalize
  <2>1. CASE op.then = "release"
    BY <1>14, <2>1 DEF ReconcileFinalize, set_routing_phase, Release, NoOp
  <2>2. CASE op.then # "release"
    <3>1. op.kind = "manual" /\ op.then \in {"retry", "fail"}
      BY <1>14, <2>2 DEF ReconcileFinalize
    <3>2. op' = [op EXCEPT !.pc = op.then, !.target = NoNode, !.then = "none"]
      BY <1>14, <2>2 DEF ReconcileFinalize
    <3>. QED
      BY <1>14, <3>1, <3>2 DEF ReconcileFinalize, set_routing_phase
  <2>. QED
    BY <2>1, <2>2
<1>15. CASE ReconcileError
  <2>1. CASE op.then = "release"
    BY <1>15, <2>1 DEF ReconcileError, Release, NoOp
  <2>2. CASE op.then # "release"
    <3>1. op.kind = "manual" /\ op.then \in {"retry", "fail"}
      BY <1>15, <2>2 DEF ReconcileError
    <3>2. frpc_stop /\ op' = [op EXCEPT !.pc = "fail", !.then = "none"]
      BY <1>15, <2>2 DEF ReconcileError
    <3>. QED
      BY <1>15, <3>1, <3>2 DEF ReconcileError, frpc_stop, NoProcess
  <2>. QED
    BY <2>1, <2>2
<1>. QED
  BY <1>1, <1>2, <1>3, <1>4, <1>5, <1>6, <1>7, <1>8, <1>9, <1>10, <1>11, <1>12, <1>13,
       <1>14, <1>15 DEF ReconcileStep

(* One call of a switch does: accepting it, trying a candidate, putting     *)
(* things back, the commit, and DNS after it.                               *)
LEMMA FailoverKeepsCalls ==
  ASSUME TypeOK, CallInv, FailoverStep
  PROVE  CallInv'
<1>. USE NodesAssumption
<1>. USE DEF NodesAssumption, TypeOK, Ops, FrpcStates, RoutingRows, Phases, Faults,
     NodeOrNone,
       FailoverSteps, ReconcileSteps, remote, tasks,
       CallInv, ControlInv, PhaseInv, TargetInv, RuntimeInv, AutoInv, RemoteInv,
       CommittedAgrees, QueueInv, BlameInv, Switching, CandidateSteps, BeforeCandidates,
       AfterCommit, Loose, AllOn
<1>1. CASE RejectFailover
  BY <1>1 DEF RejectFailover, Manual, Goto
<1>2. CASE AcceptFailover
  BY <1>2 DEF AcceptFailover, Manual, set_routing_phase
<1>3. CASE QuarantineOld
  BY <1>3 DEF QuarantineOld, quarantine_node, Goto
<1>4. CASE StopOld
  BY <1>4 DEF StopOld, frpc_stop, NoProcess, Goto
<1>5. CASE NoCandidates
  BY <1>5 DEF NoCandidates, Manual, set_routing_phase, Goto
<1>6. CASE OrderCandidates
  BY <1>6 DEF OrderCandidates, EligibleNames, FirstOf
<1>7. CASE Preflight
  BY <1>7 DEF Preflight
<1>8. CASE PreflightFails
  BY <1>8 DEF PreflightFails, Goto
<1>9. CASE TargetOffline
  BY <1>9 DEF TargetOffline, Goto
<1>10. CASE SyncTunnel
  BY <1>10 DEF SyncTunnel, sync_tunnel
<1>11. CASE SyncTunnelFails
  <2>1. PICK t \in op.todo : sync_tunnel_fails(t, op.target)
    BY <1>11 DEF SyncTunnelFails
  <2>2. CASE Goto("other_err")
    BY <1>11, <2>1, <2>2 DEF SyncTunnelFails, Goto, sync_tunnel_fails, sync_tunnel
  <2>3. CASE RollBack(Tunnels \ op.todo, "give_up")
    BY <1>11, <2>1, <2>3 DEF SyncTunnelFails, RollBack, sync_tunnel_fails, sync_tunnel
  <2>. QED
    BY <1>11, <2>2, <2>3 DEF SyncTunnelFails
<1>12. CASE verify_remote_target
  BY <1>12 DEF verify_remote_target, AllOn, Goto
<1>13. CASE ConfigFails
  BY <1>13 DEF ConfigFails, RollBack
<1>14. CASE ReadPreviousFails
  BY <1>14 DEF ReadPreviousFails, Goto
<1>15. CASE WriteTargetConfig
  BY <1>15 DEF WriteTargetConfig, write_config
<1>16. CASE RestartStop
  BY <1>16 DEF RestartStop, frpc_stop, NoProcess, Goto
<1>17. CASE RestartStart
  <2>1. CASE frpc_start /\ Goto("watch")
    BY <1>17, <2>1 DEF RestartStart, frpc_start, NewProcess, Goto
  <2>2. CASE frpc_start_fails /\ RollBack(Tunnels, "restore")
    BY <1>17, <2>2 DEF RestartStart, frpc_start_fails, NoProcess, RollBack
  <2>. QED
    BY <1>17, <2>1, <2>2 DEF RestartStart
<1>18. CASE Watch
  BY <1>18 DEF Watch
<1>19. CASE wait_ready
  BY <1>19 DEF wait_ready, NoOp
<1>20. CASE ReadinessNodeFault
  BY <1>20 DEF ReadinessNodeFault, Goto
<1>21. CASE ReadinessOtherFault
  BY <1>21 DEF ReadinessOtherFault, RollBack
<1>22. CASE RollBackTunnel
  <2>1. PICK t \in op.todo :
          \/ op' = [op EXCEPT !.todo = @ \ {t}]
          \/ op' = [op EXCEPT !.todo = @ \ {t}, !.clean = FALSE]
    BY <1>22 DEF RollBackTunnel
  <2>2. UNCHANGED <<routing, quarantine, file, frpc, queue>>
    BY <1>22 DEF RollBackTunnel
  <2>3. op.pc = "rollback"
    BY <1>22 DEF RollBackTunnel
  <2>4. CASE op' = [op EXCEPT !.todo = @ \ {t}]
    BY <2>2, <2>3, <2>4
  <2>5. CASE op' = [op EXCEPT !.todo = @ \ {t}, !.clean = FALSE]
    BY <2>2, <2>3, <2>5
  <2>. QED
    BY <2>1, <2>4, <2>5
<1>23. CASE RollBackDone
  BY <1>23 DEF RollBackDone, NoOp
<1>24. CASE restore_previous_frpc
  BY <1>24 DEF restore_previous_frpc, Manual, write_config, Goto
<1>25. CASE StopFailedTarget
  BY <1>25 DEF StopFailedTarget, Manual, frpc_stop, NoProcess, Goto
<1>26. CASE RestoreStop
  BY <1>26 DEF RestoreStop, frpc_stop, NoProcess, Goto
<1>27. CASE RestoreStart
  BY <1>27 DEF RestoreStart, frpc_start, NewProcess, frpc_start_fails, NoProcess, Goto
<1>28. CASE StopTarget
  BY <1>28 DEF StopTarget, frpc_stop, NoProcess, Goto
<1>29. CASE QuarantineTarget
  <2>1. quarantine' = quarantine \cup {op.target}
    BY <1>29 DEF QuarantineTarget, quarantine_node
  <2>2. CASE Manual
    <3>1. PICK r \in {"fail", "retry"} : CallReconcile(r)
      BY <1>29, <2>2 DEF QuarantineTarget
    <3>. QED
      BY <1>29, <2>1, <2>2, <3>1 DEF QuarantineTarget, Manual, CallReconcile
  <2>3. CASE ~Manual /\ op.cands = {}
    BY <1>29, <2>1, <2>3 DEF QuarantineTarget, Manual, Goto
  <2>4. CASE ~Manual /\ NextCandidate
    <3>1. PICK n \in op.cands :
            op' = [op EXCEPT !.pc = "preflight", !.target = n, !.cands = @ \ {n},
                             !.snap = NoOp.snap, !.todo = {}, !.prev = NoNode, !.gen = 0,
                             !.then = "none"]
      BY <2>4 DEF NextCandidate
    <3>2. n \in Nodes /\ n # op.target /\ n # op.old /\ n \notin quarantine'
      BY <1>29, <2>1, <3>1 DEF QuarantineTarget
    <3>. QED
      BY <1>29, <2>1, <2>4, <3>1, <3>2 DEF QuarantineTarget, Manual
  <2>. QED
    BY <1>29, <2>2, <2>3, <2>4 DEF QuarantineTarget
<1>30. CASE RetryManual
  BY <1>30 DEF RetryManual, set_routing_phase, NextCandidate, NoOp
<1>31. CASE OtherError
  <2>1. CASE routing.active = op.old /\ routing.phase = "failover" /\ Manual
    <3>1. CallReconcile("fail") /\ op.kind = "manual" /\ op.pc = "other_err"
      BY <1>31, <2>1 DEF OtherError, Manual
    <3>2. UNCHANGED <<routing, quarantine, provider, dns, file, frpc, queue>>
      BY <1>31 DEF OtherError
    <3>. QED
      BY <2>1, <3>1, <3>2 DEF CallReconcile
  <2>2. CASE routing.active = op.old /\ routing.phase = "failover" /\ ~Manual
    BY <1>31, <2>2 DEF OtherError, Manual, Goto
  <2>3. CASE ~(routing.active = op.old /\ routing.phase = "failover")
    BY <1>31, <2>3 DEF OtherError, Goto
  <2>. QED
    BY <2>1, <2>2, <2>3
<1>32. CASE StopAll
  BY <1>32 DEF StopAll, frpc_stop, NoProcess, Goto
<1>33. CASE FailoverFails
  BY <1>33 DEF FailoverFails, mark_routing_failed, set_routing_phase, Release, NoOp
<1>34. CASE Promote
  BY <1>34 DEF Promote, Manual, promote_active_node
<1>35. CASE SwitchDns
  BY <1>35 DEF SwitchDns, upsert_a_record
<1>36. CASE SwitchDnsFails
  BY <1>36 DEF SwitchDnsFails, upsert_a_record_fails, upsert_a_record, Goto
<1>37. CASE finalize_active_node
  BY <1>37 DEF finalize_active_node, set_routing_phase, Release, NoOp
<1>. QED
  BY <1>1, <1>2, <1>3, <1>4, <1>5, <1>6, <1>7, <1>8, <1>9, <1>10, <1>11, <1>12, <1>13,
       <1>14, <1>15, <1>16, <1>17, <1>18, <1>19, <1>20, <1>21, <1>22, <1>23, <1>24,
       <1>25, <1>26, <1>27, <1>28, <1>29, <1>30, <1>31, <1>32, <1>33, <1>34, <1>35,
       <1>36, <1>37 DEF FailoverStep

(* So does every step: in particular neither PUT /routing, nor FRPC's own   *)
(* log lines and exit, nor the end of a quarantine disturbs an operation.   *)
LEMMA CallStep ==
  ASSUME TypeOK, CallInv, Next
  PROVE  CallInv'
<1>. USE NodesAssumption
<1>. USE DEF NodesAssumption, TypeOK, Ops, FrpcStates, RoutingRows, Phases, Faults,
     NodeOrNone,
       FailoverSteps, ReconcileSteps, remote, tasks,
       CallInv, ControlInv, PhaseInv, TargetInv, RuntimeInv, AutoInv, RemoteInv,
       CommittedAgrees, QueueInv, BlameInv, Switching, CandidateSteps, BeforeCandidates,
       AfterCommit, Loose, AllOn
<1>0. CASE OpStep
  BY <1>0, ReconcileKeepsCalls, FailoverKeepsCalls DEF OpStep
<1>1. CASE BeginManual
  BY <1>1 DEF BeginManual, LockFree, Take, NoOp
<1>2. CASE BeginReconcile
  BY <1>2 DEF BeginReconcile, LockFree, Take, NoOp
<1>3. CASE queued_global_failover
  <2>1. PICK e \in queue :
          /\ queue' = queue \ {e}
          /\ IF e.gen = frpc.gen THEN Take("auto", "accept", e.about, "none") ELSE UNCHANGED op
    BY <1>3 DEF queued_global_failover
  <2>2. CASE e.gen = frpc.gen
    <3>1. Take("auto", "accept", e.about, "none")
      BY <2>1, <2>2
    <3>2. e.about = routing.active /\ e.about # NoNode
      BY <1>3, <2>1, <2>2 DEF queued_global_failover, LockFree
    <3>. QED
      BY <1>3, <2>1, <3>1, <3>2 DEF queued_global_failover, LockFree, Take, NoOp
  <2>3. CASE e.gen # frpc.gen
    BY <1>3, <2>1, <2>3 DEF queued_global_failover, LockFree
  <2>. QED
    BY <2>2, <2>3
<1>4. CASE ProcessReady
  BY <1>4 DEF ProcessReady
<1>5. CASE ProcessExits
  BY <1>5 DEF ProcessExits
<1>6. CASE NodeFaultLine
  BY <1>6 DEF NodeFaultLine
<1>7. CASE update_routing
  <2>1. PICK p \in PutInput : PutAllowed(p) /\ WriteRouting(p)
    BY <1>7 DEF update_routing
  <2>2. routing'.phase = routing.phase
    BY <2>1 DEF WriteRouting
  <2>3. routing.active # NoNode => routing'.active = routing.active
    BY <2>1 DEF WriteRouting, PutAllowed
  <2>. QED
    BY <1>7, <2>2, <2>3 DEF update_routing
<1>8. CASE QuarantineEnds
  BY <1>8 DEF QuarantineEnds
<1>. QED
  BY <1>0, <1>1, <1>2, <1>3, <1>4, <1>5, <1>6, <1>7, <1>8 DEF Next

-----------------------------------------------------------------------------
(* What the calls still rely on under crashes, dropped requests,           *)
(* confirmations and buttons: the same walk over the calls, with what      *)
(* survives of the invariant. *)

(* One call of reconcile_all leaves to the next call what is held.          *)
LEMMA ReconcileHolds ==
  ASSUME TypeOK, HeldInv, ReconcileStep
  PROVE  HeldInv'
<1>. USE NodesAssumption
<1>. USE DEF NodesAssumption, TypeOK, Ops, RoutingRows, Phases, NodeOrNone,
       FailoverSteps, ReconcileSteps, remote,
       HeldInv, ControlInv, PhaseHeld, TargetInv, FileInv, RemoteInv,
       CommittedAgrees, Switching, CandidateSteps, BeforeCandidates,
       AfterCommit, AllOn
<1>1. CASE ReconcilePreflight
  BY <1>1 DEF ReconcilePreflight
<1>2. CASE ReconcileTunnel
  BY <1>2 DEF ReconcileTunnel, sync_tunnel
<1>3. CASE ReconcileTunnelFails
  BY <1>3 DEF ReconcileTunnelFails, sync_tunnel_fails, sync_tunnel, Goto
<1>4. CASE verify_chmlfrp_desired_state
  BY <1>4 DEF verify_chmlfrp_desired_state, AllOn, Goto
<1>5. CASE KeepProcess
  BY <1>5 DEF KeepProcess, Goto
<1>6. CASE ReplaceConfig
  BY <1>6 DEF ReplaceConfig, write_config, Goto
<1>7. CASE ReconcileStop
  BY <1>7 DEF ReconcileStop, Goto
<1>8. CASE ReconcileStart
  BY <1>8 DEF ReconcileStart, Goto
<1>9. CASE ReconcileWatch
  BY <1>9 DEF ReconcileWatch
<1>10. CASE ReconcileReady
  BY <1>10 DEF ReconcileReady
<1>11. CASE ReconcileCallFails
  BY <1>11 DEF ReconcileCallFails, Goto
<1>12. CASE reconcile_dns
  BY <1>12 DEF reconcile_dns, upsert_a_record
<1>13. CASE ReconcileDnsFails
  BY <1>13 DEF ReconcileDnsFails, upsert_a_record_fails, upsert_a_record, Goto
<1>14. CASE ReconcileFinalize
  <2>1. CASE op.then = "release"
    BY <1>14, <2>1 DEF ReconcileFinalize, set_routing_phase, Release, NoOp
  <2>2. CASE op.then # "release"
    <3>1. op.kind = "manual" /\ op.then \in {"retry", "fail"}
      BY <1>14, <2>2 DEF ReconcileFinalize
    <3>2. op' = [op EXCEPT !.pc = op.then, !.target = NoNode, !.then = "none"]
      BY <1>14, <2>2 DEF ReconcileFinalize
    <3>. QED
      BY <1>14, <3>1, <3>2 DEF ReconcileFinalize, set_routing_phase
  <2>. QED
    BY <2>1, <2>2
<1>15. CASE ReconcileError
  <2>1. CASE op.then = "release"
    BY <1>15, <2>1 DEF ReconcileError, Release, NoOp
  <2>2. CASE op.then # "release"
    <3>1. op.kind = "manual" /\ op.then \in {"retry", "fail"}
      BY <1>15, <2>2 DEF ReconcileError
    <3>2. frpc_stop /\ op' = [op EXCEPT !.pc = "fail", !.then = "none"]
      BY <1>15, <2>2 DEF ReconcileError
    <3>. QED
      BY <1>15, <3>1, <3>2 DEF ReconcileError
  <2>. QED
    BY <2>1, <2>2
<1>. QED
  BY <1>1, <1>2, <1>3, <1>4, <1>5, <1>6, <1>7, <1>8, <1>9, <1>10, <1>11, <1>12, <1>13,
       <1>14, <1>15 DEF ReconcileStep

(* One call of a switch does: accepting it, trying a candidate, putting     *)
(* things back, the commit, and DNS after it.                               *)
LEMMA FailoverHolds ==
  ASSUME TypeOK, HeldInv, FailoverStep
  PROVE  HeldInv'
<1>. USE NodesAssumption
<1>. USE DEF NodesAssumption, TypeOK, Ops, RoutingRows, Phases, NodeOrNone,
       FailoverSteps, ReconcileSteps, remote,
       HeldInv, ControlInv, PhaseHeld, TargetInv, FileInv, RemoteInv,
       CommittedAgrees, Switching, CandidateSteps, BeforeCandidates,
       AfterCommit, AllOn
<1>1. CASE RejectFailover
  BY <1>1 DEF RejectFailover, Manual, Goto
<1>2. CASE AcceptFailover
  BY <1>2 DEF AcceptFailover, Manual, set_routing_phase
<1>3. CASE QuarantineOld
  BY <1>3 DEF QuarantineOld, quarantine_node, Goto
<1>4. CASE StopOld
  BY <1>4 DEF StopOld, Goto
<1>5. CASE NoCandidates
  BY <1>5 DEF NoCandidates, Manual, set_routing_phase, Goto
<1>6. CASE OrderCandidates
  BY <1>6 DEF OrderCandidates, EligibleNames, FirstOf
<1>7. CASE Preflight
  BY <1>7 DEF Preflight
<1>8. CASE PreflightFails
  BY <1>8 DEF PreflightFails, Goto
<1>9. CASE TargetOffline
  BY <1>9 DEF TargetOffline, Goto
<1>10. CASE SyncTunnel
  BY <1>10 DEF SyncTunnel, sync_tunnel
<1>11. CASE SyncTunnelFails
  <2>1. PICK t \in op.todo : sync_tunnel_fails(t, op.target)
    BY <1>11 DEF SyncTunnelFails
  <2>2. CASE Goto("other_err")
    BY <1>11, <2>1, <2>2 DEF SyncTunnelFails, Goto, sync_tunnel_fails, sync_tunnel
  <2>3. CASE RollBack(Tunnels \ op.todo, "give_up")
    BY <1>11, <2>1, <2>3 DEF SyncTunnelFails, RollBack, sync_tunnel_fails, sync_tunnel
  <2>. QED
    BY <1>11, <2>2, <2>3 DEF SyncTunnelFails
<1>12. CASE verify_remote_target
  BY <1>12 DEF verify_remote_target, AllOn, Goto
<1>13. CASE ConfigFails
  BY <1>13 DEF ConfigFails, RollBack
<1>14. CASE ReadPreviousFails
  BY <1>14 DEF ReadPreviousFails, Goto
<1>15. CASE WriteTargetConfig
  BY <1>15 DEF WriteTargetConfig, write_config
<1>16. CASE RestartStop
  BY <1>16 DEF RestartStop, Goto
<1>17. CASE RestartStart
  <2>1. CASE frpc_start /\ Goto("watch")
    BY <1>17, <2>1 DEF RestartStart, Goto
  <2>2. CASE frpc_start_fails /\ RollBack(Tunnels, "restore")
    BY <1>17, <2>2 DEF RestartStart, RollBack
  <2>. QED
    BY <1>17, <2>1, <2>2 DEF RestartStart
<1>18. CASE Watch
  BY <1>18 DEF Watch
<1>19. CASE wait_ready
  BY <1>19 DEF wait_ready, NoOp
<1>20. CASE ReadinessNodeFault
  BY <1>20 DEF ReadinessNodeFault, Goto
<1>21. CASE ReadinessOtherFault
  BY <1>21 DEF ReadinessOtherFault, RollBack
<1>22. CASE RollBackTunnel
  <2>1. PICK t \in op.todo :
          \/ op' = [op EXCEPT !.todo = @ \ {t}]
          \/ op' = [op EXCEPT !.todo = @ \ {t}, !.clean = FALSE]
    BY <1>22 DEF RollBackTunnel
  <2>2. UNCHANGED <<routing, quarantine, file>>
    BY <1>22 DEF RollBackTunnel
  <2>3. op.pc = "rollback"
    BY <1>22 DEF RollBackTunnel
  <2>4. CASE op' = [op EXCEPT !.todo = @ \ {t}]
    BY <2>2, <2>3, <2>4
  <2>5. CASE op' = [op EXCEPT !.todo = @ \ {t}, !.clean = FALSE]
    BY <2>2, <2>3, <2>5
  <2>. QED
    BY <2>1, <2>4, <2>5
<1>23. CASE RollBackDone
  BY <1>23 DEF RollBackDone, NoOp
<1>24. CASE restore_previous_frpc
  BY <1>24 DEF restore_previous_frpc, Manual, write_config, Goto
<1>25. CASE StopFailedTarget
  BY <1>25 DEF StopFailedTarget, Manual, Goto
<1>26. CASE RestoreStop
  BY <1>26 DEF RestoreStop, Goto
<1>27. CASE RestoreStart
  BY <1>27 DEF RestoreStart, Goto
<1>28. CASE StopTarget
  BY <1>28 DEF StopTarget, Goto
<1>29. CASE QuarantineTarget
  <2>1. quarantine' = quarantine \cup {op.target}
    BY <1>29 DEF QuarantineTarget, quarantine_node
  <2>2. CASE Manual
    <3>1. PICK r \in {"fail", "retry"} : CallReconcile(r)
      BY <1>29, <2>2 DEF QuarantineTarget
    <3>. QED
      BY <1>29, <2>1, <2>2, <3>1 DEF QuarantineTarget, Manual, CallReconcile
  <2>3. CASE ~Manual /\ op.cands = {}
    BY <1>29, <2>1, <2>3 DEF QuarantineTarget, Manual, Goto
  <2>4. CASE ~Manual /\ NextCandidate
    <3>1. PICK n \in op.cands :
            op' = [op EXCEPT !.pc = "preflight", !.target = n, !.cands = @ \ {n},
                             !.snap = NoOp.snap, !.todo = {}, !.prev = NoNode, !.gen = 0,
                             !.then = "none"]
      BY <2>4 DEF NextCandidate
    <3>2. n \in Nodes /\ n # op.target /\ n # op.old /\ n \notin quarantine'
      BY <1>29, <2>1, <3>1 DEF QuarantineTarget
    <3>. QED
      BY <1>29, <2>1, <2>4, <3>1, <3>2 DEF QuarantineTarget, Manual
  <2>. QED
    BY <1>29, <2>2, <2>3, <2>4 DEF QuarantineTarget
<1>30. CASE RetryManual
  BY <1>30 DEF RetryManual, set_routing_phase, NextCandidate, NoOp
<1>31. CASE OtherError
  <2>1. CASE routing.active = op.old /\ routing.phase = "failover" /\ Manual
    <3>1. CallReconcile("fail") /\ op.kind = "manual" /\ op.pc = "other_err"
      BY <1>31, <2>1 DEF OtherError, Manual
    <3>2. UNCHANGED <<routing, quarantine, provider, dns, file>>
      BY <1>31 DEF OtherError
    <3>. QED
      BY <2>1, <3>1, <3>2 DEF CallReconcile
  <2>2. CASE routing.active = op.old /\ routing.phase = "failover" /\ ~Manual
    BY <1>31, <2>2 DEF OtherError, Manual, Goto
  <2>3. CASE ~(routing.active = op.old /\ routing.phase = "failover")
    BY <1>31, <2>3 DEF OtherError, Goto
  <2>. QED
    BY <2>1, <2>2, <2>3
<1>32. CASE StopAll
  BY <1>32 DEF StopAll, Goto
<1>33. CASE FailoverFails
  BY <1>33 DEF FailoverFails, mark_routing_failed, set_routing_phase, Release, NoOp
<1>34. CASE Promote
  BY <1>34 DEF Promote, Manual, promote_active_node
<1>35. CASE SwitchDns
  BY <1>35 DEF SwitchDns, upsert_a_record
<1>36. CASE SwitchDnsFails
  BY <1>36 DEF SwitchDnsFails, upsert_a_record_fails, upsert_a_record, Goto
<1>37. CASE finalize_active_node
  BY <1>37 DEF finalize_active_node, set_routing_phase, Release, NoOp
<1>. QED
  BY <1>1, <1>2, <1>3, <1>4, <1>5, <1>6, <1>7, <1>8, <1>9, <1>10, <1>11, <1>12, <1>13,
       <1>14, <1>15, <1>16, <1>17, <1>18, <1>19, <1>20, <1>21, <1>22, <1>23, <1>24,
       <1>25, <1>26, <1>27, <1>28, <1>29, <1>30, <1>31, <1>32, <1>33, <1>34, <1>35,
       <1>36, <1>37 DEF FailoverStep

(* So does every step: in particular neither PUT /routing, nor FRPC's own   *)
(* log lines and exit, nor the end of a quarantine disturbs an operation.   *)
LEMMA HeldStep ==
  ASSUME TypeOK, HeldInv, Next
  PROVE  HeldInv'
<1>. USE NodesAssumption
<1>. USE DEF NodesAssumption, TypeOK, Ops, RoutingRows, Phases, NodeOrNone,
       FailoverSteps, ReconcileSteps, remote,
       HeldInv, ControlInv, PhaseHeld, TargetInv, FileInv, RemoteInv,
       CommittedAgrees, Switching, CandidateSteps, BeforeCandidates,
       AfterCommit, AllOn
<1>0. CASE OpStep
  BY <1>0, ReconcileHolds, FailoverHolds DEF OpStep
<1>1. CASE BeginManual
  BY <1>1 DEF BeginManual, LockFree, Take, NoOp
<1>2. CASE BeginReconcile
  BY <1>2 DEF BeginReconcile, LockFree, Take, NoOp
<1>3. CASE queued_global_failover
  <2>1. PICK e \in queue :
          /\ queue' = queue \ {e}
          /\ IF e.gen = frpc.gen THEN Take("auto", "accept", e.about, "none") ELSE UNCHANGED op
    BY <1>3 DEF queued_global_failover
  <2>2. CASE e.gen = frpc.gen
    <3>1. Take("auto", "accept", e.about, "none")
      BY <2>1, <2>2
    <3>. QED
      BY <1>3, <3>1 DEF queued_global_failover, LockFree, Take, NoOp
  <2>3. CASE e.gen # frpc.gen
    BY <1>3, <2>1, <2>3 DEF queued_global_failover, LockFree
  <2>. QED
    BY <2>2, <2>3
<1>4. CASE ProcessReady
  BY <1>4 DEF ProcessReady
<1>5. CASE ProcessExits
  BY <1>5 DEF ProcessExits
<1>6. CASE NodeFaultLine
  BY <1>6 DEF NodeFaultLine
<1>7. CASE update_routing
  <2>1. PICK p \in PutInput : PutAllowed(p) /\ WriteRouting(p)
    BY <1>7 DEF update_routing
  <2>2. routing'.phase = routing.phase
    BY <2>1 DEF WriteRouting
  <2>3. routing.active # NoNode => routing'.active = routing.active
    BY <2>1 DEF WriteRouting, PutAllowed
  <2>. QED
    BY <1>7, <2>2, <2>3 DEF update_routing
<1>8. CASE QuarantineEnds
  BY <1>8 DEF QuarantineEnds
<1>. QED
  BY <1>0, <1>1, <1>2, <1>3, <1>4, <1>5, <1>6, <1>7, <1>8 DEF Next

(* So do the confirmation of an ambiguous fault, the buttons, a crash and  *)
(* a request that is dropped.                                              *)
LEMMA StormTypes ==
  ASSUME TypeOK, ProbeStep \/ FrpcButton \/ CrashAndRestart \/ RequestDropped
  PROVE  TypeOK'
<1>. USE DEF tasks, remote
<1>1. CASE ProbeStep
  <2>1. probe' \in [gen : Nat, node : NodeOrNone, asked : BOOLEAN]
    <3>1. /\ frpc.gen \in Nat /\ routing.active \in NodeOrNone /\ NoNode \in NodeOrNone
          /\ probe \in [gen : Nat, node : NodeOrNone, asked : BOOLEAN]
      BY <1>1 DEF TypeOK, FrpcStates, RoutingRows, NodeOrNone
    <3>2. NoProbe \in [gen : Nat, node : NodeOrNone, asked : BOOLEAN]
      BY <3>1 DEF NoProbe
    <3>3. CASE AmbiguousLine
      BY <3>1, <3>3 DEF AmbiguousLine
    <3>4. CASE ProbeReadsActive
      BY <3>1, <3>2, <3>4 DEF ProbeReadsActive
    <3>5. CASE ProbeAnswered
      BY <3>1, <3>2, <3>5 DEF ProbeAnswered
    <3>. QED
      BY <1>1, <3>3, <3>4, <3>5 DEF ProbeStep
  <2>2. queue' \subseteq Faults
    BY <1>1 DEF TypeOK, ProbeStep, AmbiguousLine, ProbeReadsActive, ProbeAnswered, Faults
  <2>3. UNCHANGED <<routing, quarantine, provider, dns, file, frpc, op, put>>
    BY <1>1 DEF ProbeStep, AmbiguousLine, ProbeReadsActive, ProbeAnswered
  <2>. QED
    BY <2>1, <2>2, <2>3 DEF TypeOK
<1>2. CASE FrpcButton
  <2>1. frpc' \in FrpcStates
    BY <1>2, FrpcStopType, FrpcStartType DEF TypeOK, FrpcButton
  <2>2. UNCHANGED <<routing, quarantine, provider, dns, file, op, queue, probe, put>>
    BY <1>2 DEF FrpcButton
  <2>. QED
    BY <2>1, <2>2 DEF TypeOK
<1>3. CASE CrashAndRestart
  <2>1. routing' \in RoutingRows
    BY <1>3, BoundsAssumption DEF BoundsAssumption, TypeOK, CrashAndRestart, seed_routing_from_env,
         RoutingRows, NodeOrNone
  <2>2. frpc' \in FrpcStates
    <3>1. file \in NodeOrNone /\ NoNode \in NodeOrNone
      BY <1>3 DEF TypeOK, NodeOrNone
    <3>2. NewProcess(1, file) \in FrpcStates /\ NoProcess(1) \in FrpcStates
          /\ NoProcess(0) \in FrpcStates
      BY <3>1 DEF NewProcess, NoProcess, FrpcStates
    <3>. QED
      BY <1>3, <3>2 DEF CrashAndRestart
  <2>3. probe' = NoProbe /\ put' = NoPut /\ queue' = {} /\ op' = NoOp
        /\ UNCHANGED <<quarantine, provider, dns, file>>
    BY <1>3 DEF CrashAndRestart
  <2>. QED
    BY <2>1, <2>2, <2>3, NoOpType DEF TypeOK, NoProbe, NoPut, NodeOrNone
<1>4. CASE RequestDropped
  <2>1. op' = NoOp /\ UNCHANGED <<routing, quarantine, provider, dns, file, frpc, queue, probe, put>>
    BY <1>4 DEF RequestDropped, Release
  <2>. QED
    BY <2>1, NoOpType DEF TypeOK
<1>. QED
  BY <1>1, <1>2, <1>3, <1>4

(* Without a lock holder there is nothing to hold but the row's agreement. *)
LEMMA NothingHeld ==
  ASSUME op' = NoOp, routing'.phase # "idle" => routing'.active # NoNode, CommittedAgrees'
  PROVE  HeldInv'
<1>1. /\ NoOp.pc = "none" /\ NoOp.kind = "none" /\ NoOp.old = NoNode /\ NoOp.cands = {}
  BY DEF NoOp
<1>2. ControlInv'
  BY <1>1 DEF ControlInv, Switching, ReconcileSteps
<1>3. PhaseHeld'
  BY <1>1 DEF PhaseHeld, CandidateSteps, ReconcileSteps, AfterCommit
<1>4. TargetInv'
  BY <1>1 DEF TargetInv, BeforeCandidates, CandidateSteps, ReconcileSteps, AfterCommit
<1>5. FileInv' /\ RemoteInv'
  BY <1>1 DEF FileInv, RemoteInv
<1>. QED
  BY <1>2, <1>3, <1>4, <1>5 DEF HeldInv

(* Every step of SpecStorm keeps what is held.                             *)
LEMMA StormStep == StormInv /\ [NextStorm]_vars => StormInv'
<1>. SUFFICES ASSUME StormInv, [NextStorm]_vars PROVE StormInv'
  OBVIOUS
<1>0. TypeOK /\ HeldInv
  BY DEF StormInv
<1>1. CASE Next
  <2>1. TypeOK'
    BY <1>0, <1>1, TypeStep DEF HeldInv
  <2>2. HeldInv'
    BY <1>0, <1>1, HeldStep
  <2>. QED
    BY <2>1, <2>2 DEF StormInv
<1>2. CASE ProbeStep \/ FrpcButton \/ UNCHANGED vars
  <2>1. UNCHANGED <<routing, quarantine, provider, dns, file, op>>
    BY <1>2 DEF ProbeStep, AmbiguousLine, ProbeReadsActive, ProbeAnswered, FrpcButton, remote, vars
  <2>2. TypeOK'
    <3>1. CASE UNCHANGED vars
      BY <1>0, <3>1 DEF TypeOK, vars
    <3>. QED
      BY <1>0, <1>2, <3>1, StormTypes
  <2>3. HeldInv'
    BY <1>0, <2>1 DEF HeldInv, ControlInv, PhaseHeld, TargetInv, FileInv, RemoteInv,
         CommittedAgrees, Switching, AllOn
  <2>. QED
    BY <2>2, <2>3 DEF StormInv
<1>3. CASE CrashAndRestart \/ RequestDropped
  <2>1. op' = NoOp /\ UNCHANGED <<provider, file>>
    BY <1>3 DEF CrashAndRestart, RequestDropped, Release, remote
  <2>2. routing' = routing \/ (routing.active = NoNode /\ routing'.phase = routing.phase)
    BY <1>0, <1>3 DEF CrashAndRestart, RequestDropped, seed_routing_from_env, TypeOK, RoutingRows
  <2>3. routing.phase # "idle" => routing.active # NoNode
    BY <1>0 DEF HeldInv, PhaseHeld
  <2>4. CommittedAgrees'
    BY <1>0, <2>1, <2>2, <2>3 DEF HeldInv, CommittedAgrees, AllOn
  <2>. QED
    BY <1>0, <1>3, <2>1, <2>2, <2>3, <2>4, StormTypes, NothingHeld DEF StormInv
<1>. QED
  BY <1>1, <1>2, <1>3 DEF NextStorm, NextProbe
=============================================================================
