------------------------------ MODULE MCLocalData ------------------------------
(* Two names, two contents, six inodes, one of them for the directory. *)
EXTENDS LocalData, TLC, MCDiff

MCSymmetry == Permutations(Name) \cup Permutations(Content)
================================================================================
