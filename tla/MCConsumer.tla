----------------------------- MODULE MCConsumer -----------------------------
(* Instances of Consumer for TLC. *)
EXTENDS Consumer, TLC

CONSTANTS a1, a2

TwoAgents == {a1, a2}
Symmetry == Permutations(Agents)
=============================================================================
