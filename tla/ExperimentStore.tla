---------------------------- MODULE ExperimentStore ----------------------------
(***************************************************************************)
(* What the references of experiments promise to whoever made them: an     *)
(* experiment, once recorded, only grows, unless the user has permitted    *)
(* that it be replaced or discarded.  A commit is the sequence of what it  *)
(* has been built from, so that an ancestor is a prefix.                   *)
(***************************************************************************)
EXTENDS Sequences, SequencesExt

VARIABLES
    store,        \* store[k]: the commit recorded for k, where there is one
    permit        \* what the user has permitted to be replaced or discarded

Init ==
    /\ store = <<>>
    /\ permit = {}

Unchanged(k) ==
    /\ k \in DOMAIN store <=> k \in DOMAIN store'
    /\ k \in DOMAIN store => store'[k] = store[k]

Others(k) == \A j \in (DOMAIN store \cup DOMAIN store') \ {k} : Unchanged(j)

Record(k) == k \notin DOMAIN store /\ Others(k)

Grow(k) ==
    /\ k \in DOMAIN store \cap DOMAIN store'
    /\ IsPrefix(store[k], store'[k])
    /\ Others(k)

ReplaceOrDiscard(k) == k \in permit /\ Others(k)

Next ==
    \/ UNCHANGED store
    \/ \E k \in DOMAIN store \cup DOMAIN store' :
          Record(k) \/ Grow(k) \/ ReplaceOrDiscard(k)

Spec == Init /\ [][Next]_<<store, permit>>
=============================================================================
