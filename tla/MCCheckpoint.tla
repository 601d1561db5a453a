------------------------------ MODULE MCCheckpoint ------------------------------
(* Checkpoint with two workers that a shell has started.                   *)
EXTENDS Checkpoint

CONSTANTS w1, w2

MCWorker == {w1, w2}
=============================================================================
