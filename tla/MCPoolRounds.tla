----------------------------- MODULE MCPoolRounds -----------------------------
(* PoolRounds on small sets, for TLC.                                        *)
EXTENDS PoolRounds, TLC

CONSTANTS c1, c2, jobA, jobB, boot

TwoConfigs == {c1, c2}
ConfigSymmetry == Permutations(TwoConfigs)
AllThreads == {jobA, jobB, boot}
ThreeFailures == -3
TwoFailures == -2
==============================================================================
