---------------------------- MODULE MCFrpcRuntime ----------------------------
EXTENDS FrpcRuntime, TLC

RuntimeSymmetry == Permutations(Callers) \cup Permutations(Readers)
=============================================================================
