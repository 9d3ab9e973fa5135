---------------------------- MODULE SystemProofs ----------------------------
(***************************************************************************)
(* The theorems about Spec, for every set of nodes and tunnels: IndInv is  *)
(* an inductive invariant, the safety invariants of SystemProperties       *)
(* follow from it, and so do the action properties.  Then what holds under *)
(* crashes, dropped requests, confirmations and buttons (SpecStorm), what  *)
(* a candidate that is given up leaves behind, and, at the end, that the   *)
(* coordinator implements the contract of module GlobalOperation: each of  *)
(* its calls is one step of the contract, or none that the routing row,    *)
(* the records and the lock show.                                          *)
(***************************************************************************)
EXTENDS SystemSteps, FiniteSetTheorems

(* A fresh start: the row is seeded, nothing runs and nobody has the lock. *)
LEMMA InitInv == Init => IndInv
<1>. SUFFICES ASSUME Init PROVE IndInv
  OBVIOUS
<1>1. routing \in RoutingRows
  BY NodesAssumption DEF NodesAssumption, Init, RoutingRows, NodeOrNone, Phases
<1>2. frpc \in FrpcStates /\ op \in Ops
  BY NoOpType DEF Init, NoProcess, FrpcStates, NodeOrNone
<1>3. TypeOK
  BY <1>1, <1>2 DEF TypeOK, Init, NodeOrNone, NoProbe, NoPut, Faults
<1>4. CallInv
  BY DEF Init, NoProcess, NoOp, CallInv, ControlInv, PhaseInv, TargetInv, RuntimeInv, AutoInv,
         RemoteInv, CommittedAgrees, QueueInv, BlameInv, Switching, CandidateSteps,
         BeforeCandidates, AfterCommit, FailoverSteps, ReconcileSteps
<1>. QED
  BY <1>3, <1>4 DEF IndInv

(* Every step, and every stutter, keeps the inductive invariant.           *)
LEMMA StepInv == IndInv /\ [Next]_vars => IndInv'
<1>. SUFFICES ASSUME IndInv, [Next]_vars PROVE IndInv'
  OBVIOUS
<1>1. CASE Next
  BY <1>1, TypeStep, CallStep DEF IndInv, CallInv
<1>2. CASE UNCHANGED vars
  <2>1. TypeOK'
    BY <1>2 DEF IndInv, TypeOK, vars
  <2>2. CallInv'
    BY <1>2 DEF IndInv, vars, CallInv, ControlInv, PhaseInv, TargetInv, RuntimeInv, AutoInv,
         RemoteInv, CommittedAgrees, QueueInv, BlameInv, Switching, Loose, AllOn
  <2>. QED
    BY <2>1, <2>2 DEF IndInv
<1>. QED
  BY <1>1, <1>2

(* At every call of an operation, what the code relies on there holds.     *)
THEOREM Inductive == Spec => []IndInv
  BY InitInv, StepInv, PTL DEF Spec

(* The variables keep their types.                                         *)
THEOREM TypeCorrect == Spec => []TypeOK
<1>1. IndInv => TypeOK
  BY DEF IndInv
<1>. QED
  BY <1>1, Inductive, PTL

-----------------------------------------------------------------------------
(* queued_global_failover compares generations only, yet the node that an  *)
(* automatic switch quarantines is the one its fault is about.             *)
THEOREM Blame == Spec => []BlameIsRight
<1>1. IndInv => BlameIsRight
  BY DEF IndInv, CallInv, BlameInv, BlameIsRight
<1>. QED
  BY <1>1, Inductive, PTL

(* However an operation ends, FRPC is on the active node or stopped when the *)
(* lock is free.                                                           *)
THEOREM Runtime == Spec => []RuntimeFollowsRouting
<1>1. IndInv => RuntimeFollowsRouting
  BY DEF IndInv, CallInv, ControlInv, PhaseInv, RuntimeInv, Loose, RuntimeFollowsRouting, LockFree
<1>. QED
  BY <1>1, Inductive, PTL

(* Once it has stopped the old process, an automatic switch runs FRPC on no *)
(* node that failed: neither the old one nor an earlier candidate.         *)
THEOREM Forward == Spec => []ForwardRecovery
<1>1. IndInv => ForwardRecovery
  BY DEF IndInv, CallInv, ControlInv, AutoInv, ForwardRecovery
<1>. QED
  BY <1>1, Inductive, PTL

(* Further reports of the failure that an automatic switch is dealing with *)
(* do not start another switch.                                            *)
THEOREM OneSwitch == Spec => []OneSwitchPerFailure
<1>1. IndInv => OneSwitchPerFailure
  BY DEF IndInv, CallInv, AutoInv, QueueInv, OneSwitchPerFailure
<1>. QED
  BY <1>1, Inductive, PTL

(* From the commit until DNS has caught up, the routing row, the tunnels and *)
(* the configuration file agree.                                           *)
THEOREM Committed == Spec => []CommittedAgrees
<1>1. IndInv => CommittedAgrees
  BY DEF IndInv, CallInv
<1>. QED
  BY <1>1, Inductive, PTL

(* The phases failover and dns_switching never outlive their operation.    *)
THEOREM Owner == Spec => []PhaseHasOwner
<1>1. IndInv => PhaseHasOwner
  BY DEF IndInv, CallInv, PhaseInv, Switching, PhaseHasOwner
<1>. QED
  BY <1>1, Inductive, PTL

-----------------------------------------------------------------------------
(* Only the commit and PUT /routing write the active node.                 *)
LEMMA ActiveWriters ==
  ASSUME routing \in RoutingRows, Next
  PROVE  routing'.active = routing.active \/ Promote \/ update_routing
<1>. USE DEF RoutingRows
<1>1. ReconcileStep => routing'.active = routing.active
  BY DEF ReconcileStep, set_routing_phase, ReconcilePreflight, ReconcileTunnel, ReconcileTunnelFails,
         verify_chmlfrp_desired_state, KeepProcess, ReplaceConfig, ReconcileStop,
         ReconcileStart, ReconcileWatch, ReconcileReady, ReconcileCallFails,
         reconcile_dns, ReconcileDnsFails, ReconcileFinalize, ReconcileError
<1>2. FailoverStep => routing'.active = routing.active \/ Promote
  BY DEF FailoverStep, set_routing_phase, mark_routing_failed,
         RejectFailover, AcceptFailover, QuarantineOld, StopOld, NoCandidates,
         OrderCandidates, Preflight, PreflightFails, TargetOffline, SyncTunnel,
         SyncTunnelFails, verify_remote_target, ConfigFails, ReadPreviousFails,
         WriteTargetConfig, RestartStop, RestartStart, Watch, wait_ready,
         ReadinessNodeFault, ReadinessOtherFault, RollBackTunnel, RollBackDone,
         restore_previous_frpc, StopFailedTarget, RestoreStop, RestoreStart, StopTarget,
         QuarantineTarget, RetryManual, OtherError, StopAll, FailoverFails, Promote,
         SwitchDns, SwitchDnsFails, finalize_active_node
<1>. QED
  BY <1>1, <1>2 DEF Next, OpStep, BeginManual, BeginReconcile, queued_global_failover, ProcessReady,
         ProcessExits, NodeFaultLine, QuarantineEnds

(* Only the DNS steps of a switch and of a reconcile write A records.      *)
LEMMA DnsWriters ==
  ASSUME Next
  PROVE  UNCHANGED dns \/ reconcile_dns \/ ReconcileDnsFails \/ SwitchDns \/ SwitchDnsFails
<1>. USE DEF remote
<1>1. ReconcileStep => UNCHANGED dns \/ reconcile_dns \/ ReconcileDnsFails
  BY DEF ReconcileStep, ReconcilePreflight, ReconcileTunnel, ReconcileTunnelFails,
         verify_chmlfrp_desired_state, KeepProcess, ReplaceConfig, ReconcileStop,
         ReconcileStart, ReconcileWatch, ReconcileReady, ReconcileCallFails,
         reconcile_dns, ReconcileDnsFails, ReconcileFinalize, ReconcileError
<1>2. FailoverStep => UNCHANGED dns \/ SwitchDns \/ SwitchDnsFails
  BY DEF FailoverStep, RejectFailover, AcceptFailover, QuarantineOld, StopOld, NoCandidates,
         OrderCandidates, Preflight, PreflightFails, TargetOffline, SyncTunnel,
         SyncTunnelFails, verify_remote_target, ConfigFails, ReadPreviousFails,
         WriteTargetConfig, RestartStop, RestartStart, Watch, wait_ready,
         ReadinessNodeFault, ReadinessOtherFault, RollBackTunnel, RollBackDone,
         restore_previous_frpc, StopFailedTarget, RestoreStop, RestoreStart, StopTarget,
         QuarantineTarget, RetryManual, OtherError, StopAll, FailoverFails, Promote,
         SwitchDns, SwitchDnsFails, finalize_active_node
<1>. QED
  BY <1>1, <1>2 DEF Next, OpStep, BeginManual, BeginReconcile, queued_global_failover, ProcessReady,
         ProcessExits, NodeFaultLine, update_routing, QuarantineEnds

(* Only a completed reconcile, a completed switch and a manual switch      *)
(* without candidates make the row idle.                                   *)
LEMMA IdleWriters ==
  ASSUME routing \in RoutingRows, Next, routing'.phase = "idle", routing.phase # "idle"
  PROVE  ReconcileFinalize \/ NoCandidates \/ finalize_active_node
<1>. USE DEF RoutingRows
<1>1. ReconcileStep => ReconcileFinalize
  BY DEF ReconcileStep, ReconcilePreflight, ReconcileTunnel, ReconcileTunnelFails,
         verify_chmlfrp_desired_state, KeepProcess, ReplaceConfig, ReconcileStop,
         ReconcileStart, ReconcileWatch, ReconcileReady, ReconcileCallFails,
         reconcile_dns, ReconcileDnsFails, ReconcileFinalize, ReconcileError
<1>2. FailoverStep => NoCandidates \/ finalize_active_node
  BY DEF FailoverStep, set_routing_phase, mark_routing_failed, promote_active_node,
         RejectFailover, AcceptFailover, QuarantineOld, StopOld, NoCandidates,
         OrderCandidates, Preflight, PreflightFails, TargetOffline, SyncTunnel,
         SyncTunnelFails, verify_remote_target, ConfigFails, ReadPreviousFails,
         WriteTargetConfig, RestartStop, RestartStart, Watch, wait_ready,
         ReadinessNodeFault, ReadinessOtherFault, RollBackTunnel, RollBackDone,
         restore_previous_frpc, StopFailedTarget, RestoreStop, RestoreStart, StopTarget,
         QuarantineTarget, RetryManual, OtherError, StopAll, FailoverFails, Promote,
         SwitchDns, SwitchDnsFails, finalize_active_node
<1>. QED
  BY <1>1, <1>2 DEF Next, OpStep, WriteRouting, BeginManual, BeginReconcile, queued_global_failover, ProcessReady,
         ProcessExits, NodeFaultLine, update_routing, QuarantineEnds

(* The commit of a switch never makes a quarantined node active.           *)
THEOREM PromoteStep == Spec => NeverPromoteQuarantined
<1>1. ASSUME IndInv, [Next]_vars, routing.active # NoNode, routing'.active # routing.active
      PROVE  routing'.active \notin quarantine
  <2>1. Promote \/ update_routing
    BY <1>1, ActiveWriters DEF vars, IndInv, TypeOK
  <2>2. CASE Promote
    <3>1. routing'.active = op.target
      BY <1>1, <2>2 DEF Promote, promote_active_node, IndInv, TypeOK, RoutingRows
    <3>. QED
      BY <1>1, <2>2, <3>1 DEF Promote, IndInv, CallInv, TargetInv, CandidateSteps
  <2>3. CASE update_routing
    BY <1>1, <2>3 DEF update_routing, PutAllowed, WriteRouting
  <2>. QED
    BY <2>1, <2>2, <2>3
<1>2. IndInv /\ [Next]_vars =>
        [routing.active # NoNode /\ routing'.active # routing.active
           => routing'.active \notin quarantine]_vars
  BY <1>1
<1>. QED
  BY <1>2, Inductive, PTL DEF Spec, NeverPromoteQuarantined

(* A record is written in a DNS step only, and gets that step's target.    *)
LEMMA DnsTarget ==
  ASSUME TypeOK, [Next]_vars, NEW t \in DnsTunnels, dns'[t] # dns[t]
  PROVE  /\ op.pc \in {"dns", "r_dns"}
         /\ dns'[t] = op.target
<1>1. reconcile_dns \/ ReconcileDnsFails \/ SwitchDns \/ SwitchDnsFails
  BY DnsWriters DEF vars
<1>2. op.pc \in {"dns", "r_dns"}
  BY <1>1 DEF reconcile_dns, ReconcileDnsFails, SwitchDns, SwitchDnsFails
<1>3. PICK u \in op.todo : dns' = [dns EXCEPT ![u] = op.target] \/ dns' = dns
  BY <1>1 DEF reconcile_dns, ReconcileDnsFails, SwitchDns, SwitchDnsFails,
       upsert_a_record, upsert_a_record_fails
<1>. QED
  BY <1>2, <1>3 DEF TypeOK

(* A record moves to a node only after the commit of that node, with every *)
(* tunnel and the configuration on it, and FRPC not stopped since.         *)
THEOREM DnsLate == Spec => DnsFollowsCommit /\ DnsAfterRuntime
<1>1. ASSUME IndInv, [Next]_vars, NEW t \in DnsTunnels, dns'[t] # dns[t]
      PROVE  /\ routing.active = dns'[t] /\ frpc.node = dns'[t] /\ frpc.proc # "stopped"
             /\ AllOn(dns'[t]) /\ file = dns'[t]
  <2>1. op.pc \in {"dns", "r_dns"} /\ dns'[t] = op.target
    BY <1>1, DnsTarget DEF IndInv
  <2>2. routing.active = op.target
    BY <1>1, <2>1 DEF IndInv, CallInv, PhaseInv, TargetInv, AfterCommit, ReconcileSteps
  <2>3. frpc.node = op.target /\ frpc.proc # "stopped" /\ file = op.target
    BY <1>1, <2>1 DEF IndInv, CallInv, RuntimeInv
  <2>4. AllOn(op.target)
    BY <1>1, <2>1 DEF IndInv, CallInv, RemoteInv
  <2>. QED
    BY <2>1, <2>2, <2>3, <2>4
<1>2. IndInv /\ [Next]_vars =>
        /\ [\A t \in DnsTunnels : dns'[t] # dns[t] =>
              routing.active = dns'[t] /\ frpc.node = dns'[t] /\ frpc.proc # "stopped"]_vars
        /\ [\A t \in DnsTunnels : dns'[t] # dns[t] => AllOn(dns'[t]) /\ file = dns'[t]]_vars
  BY <1>1
<1>. QED
  BY <1>2, Inductive, PTL DEF Spec, DnsFollowsCommit, DnsAfterRuntime

(* The row becomes idle when everything is on the active node, or when a   *)
(* manual switch finds no candidate.                                       *)
THEOREM IdleStep == Spec => IdleMeansConverged
<1>1. ASSUME IndInv, [Next]_vars, routing'.phase = "idle", routing.phase # "idle"
      PROVE  Converged \/ (op.kind = "manual" /\ op.pc = "list")
  <2>1. ReconcileFinalize \/ NoCandidates \/ finalize_active_node
    BY <1>1, IdleWriters DEF vars, IndInv, TypeOK
  <2>2. CASE NoCandidates
    <3>1. Manual
      BY <1>1, <2>2 DEF NoCandidates
    <3>. QED
      BY <2>2, <3>1 DEF NoCandidates, Manual
  <2>3. CASE op.pc \in {"finalize", "r_finalize"}
    <3>1. routing.active = op.target
      BY <1>1, <2>3 DEF IndInv, CallInv, PhaseInv, TargetInv, AfterCommit, ReconcileSteps
    <3>2. file = op.target /\ AllOn(op.target) /\ \A t \in DnsTunnels : dns[t] = op.target
      BY <1>1, <2>3 DEF IndInv, CallInv, RuntimeInv, RemoteInv
    <3>. QED
      BY <3>1, <3>2 DEF Converged
  <2>. QED
    BY <2>1, <2>2, <2>3 DEF ReconcileFinalize, finalize_active_node
<1>2. IndInv /\ [Next]_vars =>
        [routing'.phase = "idle" /\ routing.phase # "idle" =>
           Converged \/ (op.kind = "manual" /\ op.pc = "list")]_vars
  BY <1>1
<1>. QED
  BY <1>2, Inductive, PTL DEF Spec, IdleMeansConverged

-----------------------------------------------------------------------------
(* Under crashes, dropped requests, confirmations and buttons. *)

(* StormInv holds in every behaviour with crashes, dropped requests,       *)
(* confirmations and buttons.                                              *)
THEOREM StormInductive == SpecStorm => []StormInv
<1>1. Init => StormInv
  <2>. SUFFICES ASSUME Init PROVE StormInv
    OBVIOUS
  <2>1. TypeOK
    BY InitInv DEF IndInv
  <2>2. HeldInv
    BY DEF Init, NoOp, HeldInv, ControlInv, PhaseHeld, TargetInv, FileInv, RemoteInv,
         CommittedAgrees, Switching, CandidateSteps, BeforeCandidates, AfterCommit, ReconcileSteps
  <2>. QED
    BY <2>1, <2>2 DEF StormInv
<1>. QED
  BY <1>1, StormStep, PTL DEF SpecStorm

(* Whatever crashes, drops and buttons come between: after the commit the  *)
(* row, the tunnels and the configuration file agree.                      *)
THEOREM StormCommitted == SpecStorm => []CommittedAgrees
<1>1. StormInv => CommittedAgrees
  BY DEF StormInv, HeldInv
<1>. QED
  BY <1>1, StormInductive, PTL

(* Neither do they make a quarantined node replace the active one.         *)
THEOREM StormPromote == SpecStorm => NeverPromoteQuarantined
<1>1. ASSUME StormInv, [NextStorm]_vars, routing.active # NoNode, routing'.active # routing.active
      PROVE  routing'.active \notin quarantine
  <2>0. TypeOK /\ HeldInv
    BY <1>1 DEF StormInv
  <2>1. Next
    BY <1>1 DEF NextStorm, NextProbe, ProbeStep, AmbiguousLine, ProbeReadsActive, ProbeAnswered,
         FrpcButton, CrashAndRestart, seed_routing_from_env, RequestDropped, vars
  <2>2. Promote \/ update_routing
    BY <1>1, <2>0, <2>1, ActiveWriters DEF TypeOK
  <2>3. CASE Promote
    <3>1. routing'.active = op.target
      BY <2>0, <2>3 DEF Promote, promote_active_node, TypeOK, RoutingRows
    <3>. QED
      BY <2>0, <2>3, <3>1 DEF Promote, HeldInv, TargetInv, CandidateSteps
  <2>4. CASE update_routing
    BY <1>1, <2>4 DEF update_routing, PutAllowed, WriteRouting
  <2>. QED
    BY <2>2, <2>3, <2>4
<1>2. StormInv /\ [NextStorm]_vars =>
        [routing.active # NoNode /\ routing'.active # routing.active
           => routing'.active \notin quarantine]_vars
  BY <1>1
<1>. QED
  BY <1>2, StormInductive, PTL DEF SpecStorm, NeverPromoteQuarantined

(* Nor move a record before the tunnels and the configuration are there.   *)
THEOREM StormDns == SpecStorm => DnsAfterRuntime
<1>1. ASSUME StormInv, [NextStorm]_vars, NEW t \in DnsTunnels, dns'[t] # dns[t]
      PROVE  AllOn(dns'[t]) /\ file = dns'[t]
  <2>0. TypeOK /\ HeldInv
    BY <1>1 DEF StormInv
  <2>1. Next
    BY <1>1 DEF NextStorm, NextProbe, ProbeStep, AmbiguousLine, ProbeReadsActive, ProbeAnswered,
         FrpcButton, CrashAndRestart, RequestDropped, vars, remote
  <2>2. op.pc \in {"dns", "r_dns"} /\ dns'[t] = op.target
    BY <1>1, <2>0, <2>1, DnsTarget
  <2>3. file = op.target /\ AllOn(op.target)
    BY <2>0, <2>2 DEF HeldInv, FileInv, RemoteInv
  <2>. QED
    BY <2>2, <2>3
<1>2. StormInv /\ [NextStorm]_vars =>
        [\A t \in DnsTunnels : dns'[t] # dns[t] => AllOn(dns'[t]) /\ file = dns'[t]]_vars
  BY <1>1
<1>. QED
  BY <1>2, StormInductive, PTL DEF SpecStorm, DnsAfterRuntime

(* And idle keeps its meaning.                                             *)
THEOREM StormIdle == SpecStorm => IdleMeansConverged
<1>1. ASSUME StormInv, [NextStorm]_vars, routing'.phase = "idle", routing.phase # "idle"
      PROVE  Converged \/ (op.kind = "manual" /\ op.pc = "list")
  <2>0. TypeOK /\ HeldInv
    BY <1>1 DEF StormInv
  <2>1. Next
    BY <1>1, <2>0 DEF NextStorm, NextProbe, ProbeStep, AmbiguousLine, ProbeReadsActive, ProbeAnswered,
         FrpcButton, CrashAndRestart, seed_routing_from_env, RequestDropped, vars, TypeOK, RoutingRows
  <2>2. ReconcileFinalize \/ NoCandidates \/ finalize_active_node
    BY <1>1, <2>0, <2>1, IdleWriters DEF TypeOK
  <2>3. CASE NoCandidates
    <3>1. Manual
      BY <1>1, <2>3 DEF NoCandidates
    <3>. QED
      BY <2>3, <3>1 DEF NoCandidates, Manual
  <2>4. CASE op.pc \in {"finalize", "r_finalize"}
    <3>1. routing.active = op.target
      BY <2>0, <2>4 DEF HeldInv, PhaseHeld, TargetInv, AfterCommit, ReconcileSteps
    <3>2. file = op.target /\ AllOn(op.target) /\ \A t \in DnsTunnels : dns[t] = op.target
      BY <2>0, <2>4 DEF HeldInv, FileInv, RemoteInv
    <3>. QED
      BY <3>1, <3>2 DEF Converged
  <2>. QED
    BY <2>2, <2>3, <2>4 DEF ReconcileFinalize, finalize_active_node
<1>2. StormInv /\ [NextStorm]_vars =>
        [routing'.phase = "idle" /\ routing.phase # "idle" =>
           Converged \/ (op.kind = "manual" /\ op.pc = "list")]_vars
  BY <1>1
<1>. QED
  BY <1>2, StormInductive, PTL DEF SpecStorm, IdleMeansConverged

-----------------------------------------------------------------------------
(* Giving up a candidate. *)

(* Which calls lead into the moves of a candidate or its rollback, or go   *)
(* on with them.                                                           *)
LEMMA RestoreWriters ==
  ASSUME TypeOK, Next
  PROVE  \/ op'.pc \notin {"sync", "rollback"}
         \/ UNCHANGED <<op, provider>>
         \/ Preflight \/ SyncTunnel \/ SyncTunnelFails \/ RollBackTunnel
         \/ op'.pc = "rollback" /\ op'.todo = Tunnels
<1>. op \in Ops
  BY DEF TypeOK
<1>. USE DEF Ops, remote
<1>0. NoOp.pc = "none"
  BY DEF NoOp
<1>1. CASE ReconcileStep
  <2>1. CASE ReconcileFinalize
    <3>1. op' = NoOp \/ op' = [op EXCEPT !.pc = op.then, !.target = NoNode, !.then = "none"]
      BY <2>1 DEF ReconcileFinalize, Release
    <3>. QED
      BY <1>0, <3>1 DEF Returns
  <2>2. CASE ReconcileError
    <3>1. op' = NoOp \/ op' = [op EXCEPT !.pc = "fail", !.then = "none"]
      BY <2>2 DEF ReconcileError, Release
    <3>. QED
      BY <1>0, <3>1
  <2>3. CASE ReconcilePreflight \/ ReconcileTunnel \/ ReconcileTunnelFails
             \/ verify_chmlfrp_desired_state \/ KeepProcess \/ ReplaceConfig
    BY <2>3 DEF Goto, ReconcilePreflight, ReconcileTunnel, ReconcileTunnelFails,
         verify_chmlfrp_desired_state, KeepProcess, ReplaceConfig
  <2>4. CASE ReconcileStop \/ ReconcileStart \/ ReconcileWatch \/ ReconcileReady
             \/ ReconcileCallFails \/ reconcile_dns \/ ReconcileDnsFails
    BY <2>4 DEF Goto, ReconcileStop, ReconcileStart, ReconcileWatch, ReconcileReady,
         ReconcileCallFails, reconcile_dns, ReconcileDnsFails
  <2>. QED
    BY <1>1, <2>1, <2>2, <2>3, <2>4 DEF ReconcileStep
<1>2. CASE RejectFailover \/ AcceptFailover \/ QuarantineOld \/ StopOld \/ NoCandidates
           \/ OrderCandidates \/ PreflightFails \/ TargetOffline
  BY <1>2 DEF Goto, RejectFailover, AcceptFailover, QuarantineOld, StopOld, NoCandidates,
       OrderCandidates, PreflightFails, TargetOffline
<1>3. CASE verify_remote_target \/ ReadPreviousFails \/ WriteTargetConfig \/ RestartStop
           \/ Watch \/ wait_ready \/ ReadinessNodeFault
  BY <1>3 DEF Goto, verify_remote_target, ReadPreviousFails, WriteTargetConfig, RestartStop,
       Watch, wait_ready, ReadinessNodeFault
<1>4. CASE RollBackDone \/ restore_previous_frpc \/ StopFailedTarget \/ RestoreStop
           \/ RestoreStart \/ StopTarget \/ StopAll
  BY <1>4 DEF Goto, RollBackDone, restore_previous_frpc, StopFailedTarget, RestoreStop,
       RestoreStart, StopTarget, StopAll
<1>5. CASE QuarantineTarget
  <2>1. \/ \E r \in Returns : CallReconcile(r)
        \/ Goto("stop_all")
        \/ NextCandidate
    BY <1>5 DEF QuarantineTarget, Returns
  <2>. QED
    BY <2>1 DEF CallReconcile, Goto, NextCandidate
<1>6. CASE RetryManual
  BY <1>6 DEF RetryManual, NextCandidate
<1>7. CASE OtherError
  BY <1>7 DEF OtherError, Goto, CallReconcile
<1>8. CASE FailoverFails \/ finalize_active_node
  BY <1>8 DEF Release, NoOp, FailoverFails, finalize_active_node
<1>9. CASE Promote \/ SwitchDns \/ SwitchDnsFails
  BY <1>9 DEF Goto, Promote, SwitchDns, SwitchDnsFails
<1>10. CASE ConfigFails \/ RestartStart \/ ReadinessOtherFault
  BY <1>10 DEF Goto, RollBack, ConfigFails, RestartStart, ReadinessOtherFault
<1>11. CASE BeginManual \/ BeginReconcile \/ queued_global_failover
  BY <1>11 DEF BeginManual, BeginReconcile, queued_global_failover, Take, NoOp
<1>12. CASE ProcessReady \/ ProcessExits \/ NodeFaultLine \/ update_routing \/ QuarantineEnds
  BY <1>12 DEF ProcessReady, ProcessExits, NodeFaultLine, update_routing, QuarantineEnds
<1>. QED
  BY <1>1, <1>2, <1>3, <1>4, <1>5, <1>6, <1>7, <1>8, <1>9, <1>10, <1>11, <1>12 DEF Next, OpStep, FailoverStep

(* Every step keeps RestoreInv.                                            *)
LEMMA RestoreStep == TypeOK /\ RestoreInv /\ [Next]_vars => RestoreInv'
<1>. SUFFICES ASSUME TypeOK, RestoreInv, [Next]_vars PROVE RestoreInv'
  OBVIOUS
<1>. USE DEF TypeOK, Ops, remote
<1>1. CASE UNCHANGED <<op, provider>>
  BY <1>1 DEF RestoreInv
<1>2. CASE op'.pc \notin {"sync", "rollback"}
  BY <1>2 DEF RestoreInv
<1>3. CASE Preflight
  <2>1. op'.pc = "sync" /\ op'.snap = provider /\ provider' = provider
    BY <1>3 DEF Preflight
  <2>. QED
    BY <2>1 DEF RestoreInv
<1>4. CASE SyncTunnel
  <2>1. PICK t \in op.todo :
          /\ provider' = [provider EXCEPT ![t] = op.target]
          /\ op' = [op EXCEPT !.todo = @ \ {t},
                              !.pc = IF op.todo = {t} THEN "verify" ELSE "sync"]
    BY <1>4 DEF SyncTunnel, sync_tunnel
  <2>2. op'.todo = op.todo \ {t} /\ op'.snap = op.snap /\ op'.pc \in {"verify", "sync"}
    BY <2>1
  <2>3. \A u \in op.todo \ {t} : provider'[u] = op.snap[u]
    BY <1>4, <2>1 DEF RestoreInv, SyncTunnel
  <2>. QED
    BY <2>2, <2>3 DEF RestoreInv
<1>5. CASE SyncTunnelFails
  <2>1. PICK t \in op.todo : provider' = provider \/ provider' = [provider EXCEPT ![t] = op.target]
    BY <1>5 DEF SyncTunnelFails, sync_tunnel_fails, sync_tunnel
  <2>2. \A u \in op.todo \ {t} : provider'[u] = op.snap[u]
    BY <1>5, <2>1 DEF RestoreInv, SyncTunnelFails
  <2>3. CASE op.todo = Tunnels
    BY <1>5, <2>3 DEF SyncTunnelFails, Goto, RestoreInv
  <2>4. CASE op.todo # Tunnels
    <3>1. op'.pc = "rollback" /\ op'.todo = Tunnels \ op.todo /\ op'.snap = op.snap
      BY <1>5, <2>4 DEF SyncTunnelFails, RollBack
    <3>2. \A u \in Tunnels \ (op'.todo \cup {t}) : provider'[u] = op'.snap[u]
      BY <2>2, <3>1
    <3>. QED
      BY <3>1, <3>2 DEF RestoreInv
  <2>. QED
    BY <2>3, <2>4
<1>6. CASE RollBackTunnel
  <2>1. PICK t \in op.todo :
          \/ /\ provider' = [provider EXCEPT ![t] = op.snap[t]]
             /\ op' = [op EXCEPT !.todo = @ \ {t}]
          \/ op' = [op EXCEPT !.todo = @ \ {t}, !.clean = FALSE]
    BY <1>6 DEF RollBackTunnel, sync_tunnel
  <2>2. op'.pc = "rollback" /\ op'.todo = op.todo \ {t} /\ op'.snap = op.snap
    BY <1>6, <2>1 DEF RollBackTunnel
  <2>3. ASSUME op'.clean
        PROVE  \E x \in Tunnels : \A u \in Tunnels \ (op'.todo \cup {x}) : provider'[u] = op'.snap[u]
    <3>1. op.clean /\ provider' = [provider EXCEPT ![t] = op.snap[t]]
      BY <2>1, <2>3
    <3>2. PICK x \in Tunnels : \A u \in Tunnels \ (op.todo \cup {x}) : provider[u] = op.snap[u]
      BY <1>6, <3>1 DEF RestoreInv, RollBackTunnel
    <3>3. \A u \in Tunnels \ (op'.todo \cup {x}) : provider'[u] = op'.snap[u]
      BY <2>2, <3>1, <3>2
    <3>. QED
      BY <3>3
  <2>. QED
    BY <2>2, <2>3 DEF RestoreInv
<1>7. CASE op'.pc = "rollback" /\ op'.todo = Tunnels
  BY <1>7, NodesAssumption DEF NodesAssumption, RestoreInv
<1>. QED
  BY <1>1, <1>2, <1>3, <1>4, <1>5, <1>6, <1>7, RestoreWriters DEF vars

(* A set of one element at most.                                           *)
LEMMA OneAtMost == ASSUME NEW x, NEW S, S \subseteq {x} PROVE Cardinality(S) <= 1
<1>1. CASE S = {}
  BY <1>1, FS_EmptySet
<1>2. CASE S = {x}
  BY <1>2, FS_Singleton
<1> QED BY <1>1, <1>2

(* rollback_tunnels ends when its list is empty, and from nowhere else.    *)
LEMMA RollbackExit ==
  ASSUME IndInv, Next, op.pc = "rollback", op'.pc # "rollback"
  PROVE  op.todo = {}
<1>. USE DEF IndInv, TypeOK, Ops, remote
<1>1. ~ReconcileStep
  BY DEF ReconcileStep, ReconcilePreflight, ReconcileTunnel,
       ReconcileTunnelFails, verify_chmlfrp_desired_state, KeepProcess, ReplaceConfig,
       ReconcileStop, ReconcileStart, ReconcileWatch, ReconcileReady, ReconcileCallFails,
       reconcile_dns, ReconcileDnsFails, ReconcileFinalize, ReconcileError
<1>2. FailoverStep => RollBackTunnel \/ RollBackDone
  BY DEF FailoverStep, RejectFailover, AcceptFailover, QuarantineOld, StopOld, NoCandidates,
         OrderCandidates, Preflight, PreflightFails, TargetOffline, SyncTunnel,
         SyncTunnelFails, verify_remote_target, ConfigFails, ReadPreviousFails,
         WriteTargetConfig, RestartStop, RestartStart, Watch, wait_ready,
         ReadinessNodeFault, ReadinessOtherFault,
         restore_previous_frpc, StopFailedTarget, RestoreStop, RestoreStart, StopTarget,
         QuarantineTarget, RetryManual, OtherError, StopAll, FailoverFails, Promote,
         SwitchDns, SwitchDnsFails, finalize_active_node
<1>3. ~RollBackTunnel
  BY DEF RollBackTunnel
<1>. QED
  BY <1>1, <1>2, <1>3 DEF Next, OpStep, RollBackDone, BeginManual, BeginReconcile,
       queued_global_failover, LockFree, CallInv, ControlInv, ProcessReady, ProcessExits, NodeFaultLine,
       update_routing, QuarantineEnds

(* A rollback in which no call failed leaves at most one tunnel elsewhere  *)
(* than the snapshot has it.                                               *)
THEOREM Restores == Spec => RollbackRestores
<1>1. Init => RestoreInv
  BY DEF Init, NoOp, RestoreInv
<1>2. IndInv /\ RestoreInv /\ [Next]_vars => RestoreInv'
  BY RestoreStep DEF IndInv
<1>3. ASSUME IndInv, RestoreInv, [Next]_vars, op.pc = "rollback", op'.pc # "rollback", op.clean
      PROVE  Cardinality({t \in Tunnels : provider[t] # op.snap[t]}) <= 1
  <2>1. op.todo = {}
    BY <1>3, RollbackExit DEF vars
  <2>2. PICK x \in Tunnels : \A t \in Tunnels \ {x} : provider[t] = op.snap[t]
    BY <1>3, <2>1 DEF RestoreInv
  <2>. QED
    BY <2>2, OneAtMost
<1>4. IndInv /\ RestoreInv /\ [Next]_vars =>
        [op.pc = "rollback" /\ op'.pc # "rollback" /\ op.clean
           => Cardinality({t \in Tunnels : provider[t] # op.snap[t]}) <= 1]_vars
  BY <1>3
<1>. QED
  BY <1>1, <1>2, <1>4, Inductive, PTL DEF Spec, RollbackRestores

-----------------------------------------------------------------------------
(* The contract. *)

(* The contract, and the one that is left under crashes and dropped        *)
(* requests. *)

(* A step of either: the phase left behind by an operation stays until the *)
(* phase moves on, and it only does so when an operation ends; no switch   *)
(* moves a record meanwhile.                                               *)
Plain ==
  /\ Contract!Next \/ UNCHANGED Contract!vars
  /\ LeftBehind' = (LeftBehind /\ routing'.phase = routing.phase)
  /\ LeftBehind => routing'.phase = routing.phase \/ op'.kind = "none"
  /\ LeftBehind /\ Contract!Switching => dns' = dns

(* What the calls rely on includes what they rely on under interruptions.  *)
LEMMA Held == IndInv => HeldInv
<1>. SUFFICES ASSUME IndInv PROVE HeldInv
  OBVIOUS
<1>1. PhaseHeld
  BY DEF IndInv, CallInv, ControlInv, PhaseInv, PhaseHeld, AfterCommit, Switching, CandidateSteps,
     ReconcileSteps
<1>2. FileInv
  BY DEF IndInv, CallInv, RuntimeInv, FileInv
<1>. QED
  BY <1>1, <1>2 DEF IndInv, CallInv, HeldInv

(* A switch that has been accepted and has not failed has the phase as its *)
(* own.                                                                    *)
LEMMA AtWork ==
  ASSUME HeldInv, op.kind \in {"manual", "auto"}, op.pc \notin {"accept", "fail"}
  PROVE  ~LeftBehind /\ op.old # NoNode
  BY DEF HeldInv, ControlInv, Switching, LeftBehind

(* A call that shows nothing outside.                                      *)
LEMMA Silent ==
  ASSUME UNCHANGED <<op.kind, op.old, routing, dns>>
  PROVE  Plain
  BY DEF Plain, LeftBehind, Contract!vars

(* The calls of reconcile_all that show nothing outside.                   *)
LEMMA InnerReconcile ==
  ASSUME TypeOK, ReconcileStep
  PROVE  \/ UNCHANGED <<op.kind, op.old, routing, dns>>
         \/ reconcile_dns \/ ReconcileDnsFails \/ ReconcileFinalize \/ ReconcileError
<1>. USE DEF TypeOK, Ops, remote
<1>1. CASE ReconcilePreflight
  BY <1>1 DEF ReconcilePreflight
<1>2. CASE ReconcileTunnel
  BY <1>2 DEF ReconcileTunnel
<1>3. CASE ReconcileTunnelFails
  BY <1>3 DEF ReconcileTunnelFails, Goto
<1>4. CASE verify_chmlfrp_desired_state
  BY <1>4 DEF verify_chmlfrp_desired_state, Goto
<1>5. CASE KeepProcess
  BY <1>5 DEF KeepProcess, Goto
<1>6. CASE ReplaceConfig
  BY <1>6 DEF ReplaceConfig, Goto
<1>7. CASE ReconcileStop
  BY <1>7 DEF ReconcileStop, Goto
<1>8. CASE ReconcileStart
  BY <1>8 DEF ReconcileStart, Goto
<1>9. CASE ReconcileWatch
  BY <1>9 DEF ReconcileWatch
<1>10. CASE ReconcileReady
  BY <1>10 DEF ReconcileReady
<1>11. CASE ReconcileCallFails
  BY <1>11 DEF ReconcileCallFails, Goto
<1>. QED
  BY <1>1, <1>2, <1>3, <1>4, <1>5, <1>6, <1>7, <1>8, <1>9, <1>10, <1>11 DEF ReconcileStep

(* The calls of a switch that show nothing outside.                        *)
LEMMA InnerFailover ==
  ASSUME TypeOK, FailoverStep
  PROVE  \/ UNCHANGED <<op.kind, op.old, routing, dns>>
         \/ AcceptFailover \/ NoCandidates \/ RetryManual \/ Promote
         \/ SwitchDns \/ SwitchDnsFails \/ FailoverFails \/ finalize_active_node
<1>. USE DEF TypeOK, Ops, remote
<1>1. CASE RejectFailover
  BY <1>1 DEF RejectFailover, Goto
<1>2. CASE QuarantineOld
  BY <1>2 DEF QuarantineOld, Goto
<1>3. CASE StopOld
  BY <1>3 DEF StopOld, Goto
<1>4. CASE OrderCandidates
  BY <1>4 DEF OrderCandidates
<1>5. CASE Preflight
  BY <1>5 DEF Preflight
<1>6. CASE PreflightFails
  BY <1>6 DEF PreflightFails, Goto
<1>7. CASE TargetOffline
  BY <1>7 DEF TargetOffline, Goto
<1>8. CASE SyncTunnel
  BY <1>8 DEF SyncTunnel
<1>9. CASE SyncTunnelFails
  BY <1>9 DEF SyncTunnelFails, Goto, RollBack
<1>10. CASE verify_remote_target
  BY <1>10 DEF verify_remote_target, Goto
<1>11. CASE ConfigFails
  BY <1>11 DEF ConfigFails, RollBack
<1>12. CASE ReadPreviousFails
  BY <1>12 DEF ReadPreviousFails, Goto
<1>13. CASE WriteTargetConfig
  BY <1>13 DEF WriteTargetConfig
<1>14. CASE RestartStop
  BY <1>14 DEF RestartStop, Goto
<1>15. CASE RestartStart
  BY <1>15 DEF RestartStart, Goto, RollBack
<1>16. CASE Watch
  BY <1>16 DEF Watch
<1>17. CASE wait_ready
  BY <1>17 DEF wait_ready
<1>18. CASE ReadinessNodeFault
  BY <1>18 DEF ReadinessNodeFault, Goto
<1>19. CASE ReadinessOtherFault
  BY <1>19 DEF ReadinessOtherFault, RollBack
<1>20. CASE RollBackTunnel
  BY <1>20 DEF RollBackTunnel
<1>21. CASE RollBackDone
  BY <1>21 DEF RollBackDone
<1>22. CASE restore_previous_frpc
  BY <1>22 DEF restore_previous_frpc, Goto
<1>23. CASE StopFailedTarget
  BY <1>23 DEF StopFailedTarget, Goto
<1>24. CASE RestoreStop
  BY <1>24 DEF RestoreStop, Goto
<1>25. CASE RestoreStart
  BY <1>25 DEF RestoreStart, Goto
<1>26. CASE StopTarget
  BY <1>26 DEF StopTarget, Goto
<1>27. CASE QuarantineTarget
  <2>1. UNCHANGED <<routing, dns>>
    BY <1>27 DEF QuarantineTarget
  <2>2. CASE Manual
    BY <1>27, <2>1, <2>2 DEF QuarantineTarget, CallReconcile
  <2>3. CASE ~Manual /\ op.cands = {}
    BY <1>27, <2>1, <2>3 DEF QuarantineTarget, Goto
  <2>4. CASE ~Manual /\ op.cands # {}
    BY <1>27, <2>1, <2>4 DEF QuarantineTarget, NextCandidate
  <2>. QED
    BY <2>2, <2>3, <2>4
<1>28. CASE OtherError
  BY <1>28 DEF OtherError, CallReconcile, Goto
<1>29. CASE StopAll
  BY <1>29 DEF StopAll, Goto
<1>. QED
  BY <1>1, <1>2, <1>3, <1>4, <1>5, <1>6, <1>7, <1>8, <1>9, <1>10, <1>11, <1>12,
         <1>13, <1>14, <1>15, <1>16, <1>17, <1>18, <1>19, <1>20, <1>21, <1>22, <1>23,
         <1>24, <1>25, <1>26, <1>27, <1>28, <1>29
  DEF FailoverStep

(* reconcile_dns and SwitchDns publish the target, which is the active     *)
(* node by then, one record at a time.                                     *)
LEMMA DnsPublishes ==
  ASSUME TypeOK, HeldInv, reconcile_dns \/ ReconcileDnsFails \/ SwitchDns \/ SwitchDnsFails
  PROVE  Plain
<1>1. op.pc \in {"dns", "r_dns"} /\ UNCHANGED <<op.kind, op.old, routing>>
  BY DEF reconcile_dns, ReconcileDnsFails, SwitchDns, SwitchDnsFails, Goto, TypeOK, Ops
<1>2. op.kind # "none" /\ (op.kind = "auto" => routing.phase = "dns_switching")
  BY <1>1 DEF HeldInv, ControlInv, PhaseHeld, AfterCommit, ReconcileSteps
<1>3. op.target = routing.active /\ routing.active # NoNode
  BY <1>1, NodesAssumption
  DEF NodesAssumption, HeldInv, PhaseHeld, TargetInv, AfterCommit, ReconcileSteps
<1>4. PICK t \in op.todo : dns' = [dns EXCEPT ![t] = op.target] \/ dns' = dns
  BY DEF reconcile_dns, ReconcileDnsFails, SwitchDns, SwitchDnsFails,
     upsert_a_record, upsert_a_record_fails
<1>5. CASE dns' = dns
  BY <1>1, <1>5, Silent
<1>6. CASE dns' = [dns EXCEPT ![t] = op.target] /\ t \in DnsTunnels
  <2>1. Contract!Publish
    BY <1>1, <1>2, <1>3, <1>6 DEF Contract!Publish
  <2>2. LeftBehind => ~Contract!Switching
    BY <1>1, AtWork DEF Contract!Switching
  <2>. QED
    BY <1>1, <2>1, <2>2 DEF Plain, LeftBehind, Contract!Next
<1>7. CASE dns' = [dns EXCEPT ![t] = op.target] /\ t \notin DnsTunnels
  <2>1. dns' = dns
    BY <1>7 DEF TypeOK
  <2>. QED
    BY <1>1, <2>1, Silent
<1>. QED
  BY <1>4, <1>5, <1>6, <1>7

(* What ends an operation settles the phase as the contract has it.        *)
LEMMA Endings ==
  ASSUME TypeOK, HeldInv, ReconcileFinalize \/ ReconcileError \/ FailoverFails \/ finalize_active_node
  PROVE  Plain
<1>1. CASE ReconcileFinalize
  <2>1. \/ op.kind = "reconcile" /\ op.then = "release"
        \/ op.kind = "manual" /\ op.then \in {"retry", "fail"} /\ routing.phase = "failover"
    BY <1>1 DEF ReconcileFinalize, HeldInv, ControlInv, PhaseHeld, ReconcileSteps
  <2>2. routing'.active = routing.active /\ routing'.phase = "idle" /\ dns' = dns
    BY <1>1 DEF ReconcileFinalize, set_routing_phase, TypeOK, RoutingRows, remote
  <2>3. \A t \in DnsTunnels : dns[t] = routing.active
    BY <1>1 DEF ReconcileFinalize, HeldInv, RemoteInv, TargetInv, ReconcileSteps
  <2>4. CASE op.then = "release"
    <3>1. op'.kind = "none"
      BY <1>1, <2>4 DEF ReconcileFinalize, Release, NoOp
    <3>2. Contract!Complete
      BY <2>1, <2>2, <2>3, <2>4, <3>1 DEF Contract!Complete
    <3>. QED
      BY <2>2, <3>1, <3>2 DEF Plain, LeftBehind, Contract!Next
  <2>5. CASE op.then # "release"
    <3>1. op' = [op EXCEPT !.pc = op.then, !.target = NoNode, !.then = "none"]
      BY <1>1, <2>5 DEF ReconcileFinalize
    <3>2. Contract!Abandon
      BY <2>1, <2>2, <2>5, <3>1 DEF Contract!Abandon, TypeOK, Ops
    <3>3. ~LeftBehind
      BY <1>1, <2>1, <2>5, AtWork DEF ReconcileFinalize
    <3>. QED
      BY <2>2, <3>2, <3>3 DEF Plain, LeftBehind, Contract!Next
  <2>. QED
    BY <2>4, <2>5
<1>2. CASE ReconcileError
  <2>1. UNCHANGED <<routing, dns>>
    BY <1>2 DEF ReconcileError, remote
  <2>2. CASE op.then = "release"
    <3>1. op.kind = "reconcile" /\ op'.kind = "none"
      BY <1>2, <2>2 DEF ReconcileError, Release, NoOp, HeldInv, ControlInv, ReconcileSteps
    <3>2. Contract!GiveUp
      BY <2>1, <3>1 DEF Contract!GiveUp
    <3>. QED
      BY <2>1, <3>1, <3>2 DEF Plain, LeftBehind, Contract!Next
  <2>3. CASE op.then # "release"
    <3>1. op' = [op EXCEPT !.pc = "fail", !.then = "none"]
      BY <1>2, <2>3 DEF ReconcileError
    <3>2. UNCHANGED <<op.kind, op.old>>
      BY <3>1 DEF TypeOK, Ops
    <3>. QED
      BY <2>1, <3>2, Silent
  <2>. QED
    BY <2>2, <2>3
<1>3. CASE FailoverFails
  <2>1. op.kind \in {"manual", "auto"} /\ op'.kind = "none" /\ dns' = dns
    BY <1>3 DEF FailoverFails, Release, NoOp, TypeOK, Ops, HeldInv, ControlInv,
       ReconcileSteps, remote
  <2>2. /\ routing'.active = routing.active
        /\ routing'.phase = CASE routing.phase = "idle"          -> "idle"
                              [] routing.phase = "dns_switching" -> "degraded_dns"
                              [] OTHER                           -> "failed"
    BY <1>3 DEF FailoverFails, mark_routing_failed, set_routing_phase, TypeOK, RoutingRows
  <2>3. Contract!Fail
    BY <2>1, <2>2 DEF Contract!Fail, Contract!Switching
  <2>. QED
    BY <2>1, <2>2, <2>3 DEF Plain, LeftBehind, Contract!Next
<1>4. CASE finalize_active_node
  <2>1. op.kind \in {"manual", "auto"} /\ routing.phase = "dns_switching"
    BY <1>4 DEF finalize_active_node, HeldInv, ControlInv, PhaseHeld, AfterCommit,
       ReconcileSteps, TypeOK, Ops
  <2>2. \A t \in DnsTunnels : dns[t] = routing.active
    BY <1>4 DEF finalize_active_node, HeldInv, RemoteInv, PhaseHeld, AfterCommit
  <2>3. /\ routing'.active = routing.active /\ routing'.phase = "idle"
        /\ op'.kind = "none" /\ dns' = dns
    BY <1>4 DEF finalize_active_node, set_routing_phase, Release, NoOp, remote, TypeOK, RoutingRows
  <2>4. Contract!Complete
    BY <2>1, <2>2, <2>3 DEF Contract!Complete
  <2>. QED
    BY <2>3, <2>4 DEF Plain, LeftBehind, Contract!Next
<1>. QED
  BY <1>1, <1>2, <1>3, <1>4

(* What the commit writes into the row, whichever standby it picks.        *)
LEMMA PromotedRow ==
  ASSUME routing \in RoutingRows, Promote
  PROVE  routing'.active = op.target /\ routing'.phase = "dns_switching"
<1>1. PICK s : promote_active_node(op.target, s)
  BY DEF Promote
<1>. QED
  BY <1>1 DEF promote_active_node, RoutingRows

(* Accepting a switch, on a phase that nobody has left behind.             *)
LEMMA Accepted ==
  ASSUME TypeOK, HeldInv, AcceptFailover, ~LeftBehind
  PROVE  Plain
<1>1. /\ op.kind \in {"manual", "auto"} /\ op'.kind = op.kind
      /\ op'.old = routing.active /\ routing.active # NoNode /\ op.old = NoNode
  BY DEF AcceptFailover, TypeOK, Ops, HeldInv, ControlInv, ReconcileSteps
<1>2. routing'.phase = "failover" /\ routing'.active = routing.active /\ dns' = dns
  BY DEF AcceptFailover, set_routing_phase, TypeOK, RoutingRows, remote
<1>3. routing.phase \in {"idle", "degraded_dns", "failed"}
  BY <1>1 DEF LeftBehind, TypeOK, RoutingRows, Phases
<1>4. Contract!Accept
  BY <1>1, <1>2, <1>3 DEF Contract!Accept, Contract!Switching
<1>. QED
  BY <1>1, <1>2, <1>4 DEF Plain, LeftBehind, Contract!Next

(* Finding no candidate, going on to the next one, and the commit.         *)
LEMMA SwitchProgress ==
  ASSUME TypeOK, HeldInv, NoCandidates \/ RetryManual \/ Promote
  PROVE  Plain
<1>1. op.kind \in {"manual", "auto"} /\ op.pc \in {"list", "retry", "promote"}
  BY DEF NoCandidates, RetryManual, Promote, HeldInv, ControlInv, ReconcileSteps, TypeOK, Ops
<1>2. ~LeftBehind /\ op.old # NoNode
  BY <1>1, AtWork
<1>3. op'.kind = op.kind /\ op'.old = op.old /\ dns' = dns
  BY DEF NoCandidates, RetryManual, NextCandidate, Promote, Goto, TypeOK, Ops, remote
<1>4. ~LeftBehind'
  BY <1>1, <1>2, <1>3 DEF LeftBehind
<1>5. CASE NoCandidates
  <2>1. routing.phase = "failover"
    BY <1>5 DEF NoCandidates, HeldInv, PhaseHeld
  <2>2. CASE Manual
    <3>1. routing'.phase = "idle" /\ routing'.active = routing.active
      BY <1>5, <2>2 DEF NoCandidates, set_routing_phase, TypeOK, RoutingRows
    <3>2. Contract!Abandon
      BY <1>3, <2>1, <2>2, <3>1 DEF Contract!Abandon, Manual
    <3>. QED
      BY <1>2, <1>4, <3>2 DEF Plain, LeftBehind, Contract!Next
  <2>3. CASE ~Manual
    BY <1>3, <1>5, <2>3, Silent DEF NoCandidates
  <2>. QED
    BY <2>2, <2>3
<1>6. CASE RetryManual
  <2>1. routing.phase = "idle" /\ routing.active = op.old
    BY <1>6 DEF RetryManual, HeldInv, PhaseHeld
  <2>2. routing'.phase = "failover" /\ routing'.active = routing.active
    BY <1>6 DEF RetryManual, set_routing_phase, TypeOK, RoutingRows
  <2>3. Contract!Accept
    BY <1>1, <1>2, <1>3, <2>1, <2>2 DEF Contract!Accept, Contract!Switching
  <2>. QED
    BY <1>2, <1>4, <2>3 DEF Plain, LeftBehind, Contract!Next
<1>7. CASE Promote
  <2>1. routing.phase = "failover"
    BY <1>7 DEF Promote, HeldInv, PhaseHeld, CandidateSteps
  <2>2. op.target \in Nodes \ {routing.active}
    BY <1>7 DEF Promote, HeldInv, TargetInv, PhaseHeld, CandidateSteps
  <2>3. routing'.active = op.target /\ routing'.phase = "dns_switching"
    BY <1>7, PromotedRow DEF TypeOK
  <2>4. Contract!Commit
    BY <1>1, <1>3, <2>1, <2>2, <2>3 DEF Contract!Commit, Contract!Switching
  <2>. QED
    BY <1>2, <1>4, <2>4 DEF Plain, LeftBehind, Contract!Next
<1>. QED
  BY <1>5, <1>6, <1>7

(* What happens beside the lock, and taking it.                            *)
LEMMA Outside ==
  ASSUME TypeOK, HeldInv, Next, ~OpStep
  PROVE  Plain
<1>1. CASE UNCHANGED op /\ UNCHANGED <<routing, dns>>
  BY <1>1, Silent
<1>2. CASE op.kind = "none" /\ op'.kind \in {"manual", "auto", "reconcile"} /\ op'.old = NoNode
           /\ UNCHANGED <<routing, dns>>
  <2>1. Contract!Begin
    BY <1>2 DEF Contract!Begin
  <2>. QED
    BY <1>2, <2>1 DEF Plain, LeftBehind, Contract!Next, Contract!Switching
<1>3. CASE BeginManual \/ BeginReconcile
  BY <1>2, <1>3 DEF BeginManual, BeginReconcile, LockFree, Take, NoOp, remote
<1>4. CASE queued_global_failover
  <2>1. PICK e \in queue :
          IF e.gen = frpc.gen THEN Take("auto", "accept", e.about, "none") ELSE UNCHANGED op
    BY <1>4 DEF queued_global_failover
  <2>2. op.kind = "none" /\ UNCHANGED <<routing, dns>>
    BY <1>4 DEF queued_global_failover, LockFree, remote
  <2>3. CASE UNCHANGED op
    BY <1>1, <2>2, <2>3
  <2>4. CASE Take("auto", "accept", e.about, "none")
    <3>1. op'.kind = "auto" /\ op'.old = NoNode
      BY <2>4 DEF Take, NoOp
    <3>. QED
      BY <1>2, <2>2, <3>1
  <2>. QED
    BY <2>1, <2>3, <2>4
<1>5. CASE ProcessReady \/ ProcessExits \/ NodeFaultLine \/ QuarantineEnds
  BY <1>1, <1>5 DEF ProcessReady, ProcessExits, NodeFaultLine, QuarantineEnds, remote
<1>6. CASE update_routing
  <2>1. PICK p \in PutInput : PutAllowed(p) /\ WriteRouting(p)
    BY <1>6 DEF update_routing
  <2>2. routing'.phase = routing.phase /\ routing'.active = p.active /\ p.active \in NodeOrNone
    BY <2>1 DEF WriteRouting, PutInput
  <2>3. routing.active # NoNode => routing'.active = routing.active
    BY <2>1 DEF WriteRouting, PutAllowed
  <2>4. UNCHANGED <<op, dns>>
    BY <1>6 DEF update_routing, remote
  <2>5. Contract!Next \/ UNCHANGED Contract!vars
    BY <2>2, <2>3, <2>4 DEF NodeOrNone, Contract!Configure, Contract!Next, Contract!vars, TypeOK,
       RoutingRows
  <2>. QED
    BY <2>2, <2>4, <2>5 DEF Plain, LeftBehind
<1>. QED
  BY <1>3, <1>4, <1>5, <1>6 DEF Next

(* Every step but the acceptance of a switch on a phase left behind.       *)
LEMMA PlainStep ==
  ASSUME TypeOK, HeldInv, Next, ~(AcceptFailover /\ LeftBehind)
  PROVE  Plain
<1>1. CASE ReconcileStep
  BY <1>1, InnerReconcile, DnsPublishes, Endings, Silent
<1>2. CASE FailoverStep
  BY <1>2, InnerFailover, DnsPublishes, Endings, Accepted, SwitchProgress, Silent
<1>3. CASE ~OpStep
  BY <1>3, Outside
<1>. QED
  BY <1>1, <1>2, <1>3 DEF OpStep

(* A fresh start is one of the contract's, and every step is a step of it  *)
(* or a stutter: the routing row, the records and the lock only ever move  *)
(* as the contract says.                                                   *)
THEOREM Refinement == Spec => ImplementsContract
<1>1. Init => Contract!Init
  BY NodesAssumption DEF NodesAssumption, Init, Contract!Init, NoOp, NodeOrNone
<1>2. IndInv /\ [Next]_vars => [Contract!Next]_(Contract!vars)
  <2>. SUFFICES ASSUME IndInv, [Next]_vars PROVE Contract!Next \/ UNCHANGED Contract!vars
    OBVIOUS
  <2>1. CASE UNCHANGED vars
    BY <2>1 DEF vars, Contract!vars
  <2>2. CASE Next
    <3>1. TypeOK /\ HeldInv
      BY Held DEF IndInv
    <3>2. ~(AcceptFailover /\ LeftBehind)
      BY DEF AcceptFailover, LeftBehind, IndInv, CallInv, PhaseInv
    <3>. QED
      BY <2>2, <3>1, <3>2, PlainStep DEF Plain
  <2>. QED
    BY <2>1, <2>2
<1>. QED
  BY <1>1, <1>2, Inductive, PTL DEF Spec, ImplementsContract, Contract!Spec

(* And under crashes, dropped requests, confirmations and buttons, every   *)
(* step is one of the interrupted contract: an operation may be cut off    *)
(* anywhere, and what it left is settled or taken over by a later one.     *)
THEOREM StormRefinement == SpecStorm => ImplementsInterrupted
<1>1. Init => Interrupted!InterruptedInit
  BY NodesAssumption DEF NodesAssumption, Init, Interrupted!InterruptedInit, Interrupted!Init,
     NoOp, NodeOrNone, LeftBehind
<1>2. ASSUME StormInv, [NextStorm]_vars
      PROVE  Interrupted!InterruptedNext \/ UNCHANGED <<Interrupted!vars, LeftBehind>>
  <2>1. TypeOK /\ HeldInv
    BY <1>2 DEF StormInv
  <2>2. CASE Next /\ ~(AcceptFailover /\ LeftBehind)
    <3>1. Plain
      BY <2>1, <2>2, PlainStep
    <3>2. CASE UNCHANGED Contract!vars
      <4>1. UNCHANGED <<op.kind, routing.active, routing.phase, dns>>
        BY <3>2 DEF Contract!vars
      <4>2. LeftBehind' = LeftBehind
        BY <3>1, <4>1 DEF Plain, LeftBehind
      <4>. QED
        BY <4>1, <4>2 DEF Interrupted!vars
    <3>3. CASE Contract!Next
      <4>1. Interrupted!Next
        BY <3>3 DEF Contract!Next, Contract!Configure, Contract!Begin, Contract!Accept,
           Contract!Commit, Contract!Publish, Contract!Complete, Contract!Abandon,
           Contract!Fail, Contract!GiveUp, Contract!Switching,
           Interrupted!Next, Interrupted!Configure, Interrupted!Begin, Interrupted!Accept,
           Interrupted!Commit, Interrupted!Publish, Interrupted!Complete, Interrupted!Abandon,
           Interrupted!Fail, Interrupted!GiveUp, Interrupted!Switching
      <4>. QED
        BY <3>1, <4>1 DEF Plain, Contract!Switching, Interrupted!Switching,
           Interrupted!InterruptedNext, Interrupted!Undisturbed
    <3>. QED
      BY <3>1, <3>2, <3>3 DEF Plain
  <2>3. CASE AcceptFailover /\ LeftBehind
    <3>1. /\ op.kind \in {"manual", "auto"} /\ op'.kind = op.kind
          /\ op'.old = routing.active /\ routing.active # NoNode
      BY <2>1, <2>3 DEF AcceptFailover, TypeOK, Ops, HeldInv, ControlInv, ReconcileSteps
    <3>2. routing'.phase = "failover" /\ routing'.active = routing.active /\ dns' = dns
      BY <2>1, <2>3 DEF AcceptFailover, set_routing_phase, TypeOK, RoutingRows, remote
    <3>3. ~LeftBehind'
      BY <3>1 DEF LeftBehind
    <3>. QED
      BY <2>3, <3>1, <3>2, <3>3 DEF LeftBehind, Interrupted!InterruptedNext,
         Interrupted!TakeOver, Interrupted!Switching
  <2>4. CASE ProbeStep \/ FrpcButton \/ UNCHANGED vars
    BY <2>4 DEF ProbeStep, AmbiguousLine, ProbeReadsActive, ProbeAnswered, FrpcButton, remote, vars,
       Interrupted!vars, LeftBehind
  <2>5. CASE CrashAndRestart \/ RequestDropped
    <3>1. op' = NoOp /\ dns' = dns
      BY <2>5 DEF CrashAndRestart, RequestDropped, Release, remote
    <3>2. /\ routing'.phase = routing.phase
          /\ routing'.active = routing.active \/ (routing.active = NoNode /\ routing'.active \in Nodes)
      BY <2>1, <2>5 DEF CrashAndRestart, RequestDropped, seed_routing_from_env, TypeOK, RoutingRows
    <3>3. op'.kind = "none"
      BY <3>1 DEF NoOp
    <3>4. LeftBehind' = Interrupted!Working
      <4>1. ~(op'.kind \in {"manual", "auto"} /\ op'.old # NoNode)
        BY <3>3
      <4>2. LeftBehind' <=> Interrupted!Working
        BY <3>2, <4>1 DEF LeftBehind, Interrupted!Working
      <4>3. LeftBehind' \in BOOLEAN /\ Interrupted!Working \in BOOLEAN
        BY DEF LeftBehind, Interrupted!Working
      <4>. QED
        BY <4>2, <4>3
    <3>. QED
      BY <3>1, <3>2, <3>3, <3>4 DEF Interrupted!InterruptedNext, Interrupted!Cut
  <2>. QED
    BY <1>2, <2>2, <2>3, <2>4, <2>5 DEF NextStorm, NextProbe
<1>3. StormInv /\ [NextStorm]_vars =>
        [Interrupted!InterruptedNext]_<<Interrupted!vars, LeftBehind>>
  BY <1>2
<1>. QED
  BY <1>1, <1>3, StormInductive, PTL DEF SpecStorm, ImplementsInterrupted,
     Interrupted!InterruptedSpec
=============================================================================
