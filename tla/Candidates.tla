----------------------------- MODULE Candidates -----------------------------
(***************************************************************************)
(* Which nodes a global switch may move to, and which of them it tries     *)
(* first, seen as sets.  The order of the node list is the provider's and  *)
(* means nothing to this program, so the models that only ask "which node  *)
(* next" use these; module OrderedCandidates has the code's loop over the  *)
(* list and is checked against them.                                       *)
(***************************************************************************)

(* A mutant of EligibleNames: the quarantine table is not read.            *)
EligibleDespiteQuarantine(active, online, quarantined, web) ==
  (online \cap web) \ {active}

(* The names a switch away from active may choose.                         *)
EligibleNames(active, online, quarantined, webCapable) ==
  {n \in online : n # active /\ n \in webCapable /\ n \notin quarantined}

(* What may come first among the candidates left: the preferred standby if *)
(* it is one of them, else whichever the list's order names.               *)
FirstOf(cands, preferred) == IF preferred \in cands THEN {preferred} ELSE cands
=============================================================================
