------------------------------- MODULE MCRWLock -------------------------------
(* A pipeline src -> dir -> metrics, in which the second stage reads a file *)
(* inside the directory that the first one writes, and a stage beside it    *)
(* that shares its source.                                                  *)
EXTENDS RWLock

CONSTANTS p1, p2, src, dir, dirfile, metrics, plots, prepare, train, plot

MCPath == {src, dir, dirfile, metrics, plots}
MCOverlap == {<<x, x>> : x \in MCPath} \cup {<<dir, dirfile>>, <<dirfile, dir>>}
MCStage == {prepare, train, plot}   \* the smaller runs leave out plot
MCDeps == [s \in Stage |-> IF s = train THEN {dirfile} ELSE {src}]
MCOuts == [s \in Stage |-> IF s = prepare THEN {dir}
                             ELSE IF s = train THEN {metrics} ELSE {plots}]
=============================================================================
