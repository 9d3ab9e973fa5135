---------------------------- MODULE FrpcProcess ----------------------------
(***************************************************************************)
(* What the FRPC manager promises to the coordinator, which calls it for   *)
(* one thing at a time: the operations frpc_* of ControlPlane, seen from   *)
(* the other side.                                                         *)
(*                                                                         *)
(* A stop, and a start, take a new generation; a generation is of at most  *)
(* one process, which runs once.  From the moment a stop begins, nothing   *)
(* that is reported has the generation of the process it ends.  The node   *)
(* is blamed only when the process of the present generation has reported  *)
(* a fault of it.                                                          *)
(*                                                                         *)
(* Module FrpcRuntime implements this (ImplementsProcess).                 *)
(***************************************************************************)
EXTENDS Naturals

VARIABLES
  gen,     \* the generation
  proc,    \* its process: "none", "running" or "exited"
  fault,   \* that process has reported a node fault
  blamed   \* wait_ready is about to answer that the node failed

processVars == <<gen, proc, fault, blamed>>

Init == gen = 0 /\ proc = "none" /\ fault = FALSE /\ blamed = FALSE

(* A stop; or a start, whose process may never come.                       *)
Renew ==
  /\ ~blamed
  /\ gen' = gen + 1 /\ proc' = "none" /\ fault' = FALSE
  /\ UNCHANGED blamed

Launch ==
  /\ ~blamed
  /\ gen > 0 /\ proc = "none" /\ proc' = "running"
  /\ UNCHANGED <<gen, fault, blamed>>

Exit ==
  /\ proc = "running" /\ proc' = "exited"
  /\ UNCHANGED <<gen, fault, blamed>>

(* The last lines of a process may come after its end.                     *)
Report ==
  /\ proc # "none" /\ fault' = TRUE
  /\ UNCHANGED <<gen, proc, blamed>>

Blame ==
  /\ fault /\ blamed' = TRUE
  /\ UNCHANGED <<gen, proc, fault>>

Answer ==
  /\ blamed /\ blamed' = FALSE
  /\ UNCHANGED <<gen, proc, fault>>

Next == Renew \/ Launch \/ Exit \/ Report \/ Blame \/ Answer

Spec == Init /\ [][Next]_processVars
=============================================================================
