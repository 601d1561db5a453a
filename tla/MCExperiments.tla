----------------------------- MODULE MCExperiments -----------------------------
(* Experiments with two contents and one name, under two baselines.         *)
EXTENDS Experiments

CONSTANTS tree1, tree2

MCTree == {tree1, tree2}

Symmetry == Permutations(MCTree)
=============================================================================
