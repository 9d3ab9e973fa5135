------------------------ MODULE InterruptedOperation ------------------------
(***************************************************************************)
(* What is left of the contract when the program may end, and a request be *)
(* dropped, at any point: the row keeps the phase the operation had set,   *)
(* and who has the lock next finds it there.  Such a phase is only settled *)
(* by the end of an operation, or taken over by a new switch; until then   *)
(* nothing is committed and no record is moved by a switch.                *)
(***************************************************************************)
EXTENDS GlobalOperation

VARIABLE left   \* the phase is that of an operation that was cut off

InterruptedInit == Init /\ left = FALSE

Working == phase \in {"failover", "dns_switching"}

(* A restart may also find the first active node in the environment.       *)
Cut ==
  /\ holder' = "none"
  /\ active' = active \/ (active = NoNode /\ active' \in Nodes)
  /\ left' = Working
  /\ UNCHANGED <<phase, records>>

TakeOver ==
  /\ Switching /\ left /\ active # NoNode
  /\ phase' = "failover" /\ left' = FALSE
  /\ UNCHANGED <<holder, active, records>>

(* What the contract allows, but on a phase left behind only what keeps it *)
(* or ends an operation.                                                   *)
Undisturbed ==
  /\ Next
  /\ left => UNCHANGED phase \/ holder' = "none"
  /\ left /\ Switching => UNCHANGED records
  /\ left' = (left /\ phase' = phase)

InterruptedNext == Undisturbed \/ Cut \/ TakeOver

InterruptedSpec == InterruptedInit /\ [][InterruptedNext]_<<vars, left>>
=============================================================================
