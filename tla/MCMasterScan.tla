---------------------------- MODULE MCMasterScan ----------------------------
(* Instances of MasterScan for TLC. *)
EXTENDS MasterScan, TLC

CONSTANTS w1, w2, j1, j2

TwoWorkers == {w1, w2}
TwoJobs == {j1, j2}
Symmetry == Permutations(Workers) \cup Permutations(Jobs) \cup Permutations(Keys)
=============================================================================
