----------------------------- MODULE MCRemoteSync -----------------------------
(* Two clones, two directories that share a file.                          *)
EXTENDS RemoteSync, TLC

CONSTANTS c1, c2, f1, f2, d1, d2

MCContents == [d \in {d1, d2} |-> IF d = d1 THEN {f1, f2} ELSE {f1}]

(* Nothing, a file of both directories, a directory, both directories. *)
MCRequests == {{}, {f1}, {d1}, {d2}, {d1, d2}}

(* The clones differ in nothing but their names. *)
CloneSymmetry == Permutations({c1, c2})
=============================================================================
