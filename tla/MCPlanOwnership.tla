--------------------------- MODULE MCPlanOwnership ---------------------------
EXTENDS PlanOwnership, TLC

OwnershipSymmetry == Permutations(Names) \cup Permutations(Domains)
=============================================================================
