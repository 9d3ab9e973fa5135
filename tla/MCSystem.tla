------------------------------ MODULE MCSystem ------------------------------
EXTENDS SystemInvariants, TLC
NodeSymmetry == Permutations(Nodes)
=============================================================================
