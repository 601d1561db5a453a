--------------------------------- MODULE Graph ---------------------------------
(***************************************************************************)
(* The graph of stages: src/dvc/repo/graph.py and src/dvc/repo/trie.py,    *)
(* the checks that a set of stages has to pass, and                        *)
(* src/dvc/repo/reproduce.py, what dvc repro reads from the graph.         *)
(*                                                                         *)
(* A path is a sequence of components.  A stage is a record with its key   *)
(* (<<"dvc.yaml", name>> for a stage of a pipeline file, and the path p of *)
(* its output for the single stage in the file p.dvc), the sets of paths   *)
(* deps and outs, and the flag frozen.  A graph of stages maps the key of  *)
(* every stage to the sequence of the keys it depends on, in the order in  *)
(* which networkx keeps them; the order of its nodes is a sequence of its  *)
(* own.                                                                    *)
(***************************************************************************)
EXTENDS Naturals, FiniteSets, SequencesExt

PipelineKey(key) == key[1] = "dvc.yaml"

(* One of two paths is inside the other, or they are equal. *)
Overlap(p, q) == IsPrefix(p, q) \/ IsPrefix(q, p)

(* Every output with its stage. *)
Outs(stages) == UNION {{<<s, o>> : o \in s.outs} : s \in stages}

(* build_outs_trie: no output twice, and none inside another. *)
OutsApart(stages) ==
    \A x, y \in Outs(stages) : x # y => ~Overlap(x[2], y[2])

(* The file of a stage must not be inside an output: dvc.yaml is at the    *)
(* root, p.dvc is in the directory of p.                                   *)
FilesOutside(stages) ==
    \A s \in stages : ~PipelineKey(s.key) =>
        \A x \in Outs(stages) : ~IsStrictPrefix(x[2], s.key)

Depends(s, t) == \E d \in s.deps, o \in t.outs : Overlap(d, o)

(* nx.find_cycle: there is none when no set of stages closes on itself.    *)
Acyclic(stages) ==
    {S \in (SUBSET stages) \ {{}} : \A s \in S : \E t \in S : Depends(s, t)} = {}

ValidGraph(stages) == OutsApart(stages) /\ FilesOutside(stages) /\ Acyclic(stages)

(***************************************************************************)
(* The graph as networkx holds it, its nodes and the edges of each one in  *)
(* the order of collection, which the file system decides.  What a loop    *)
(* over a sequence has come to is a function of the turns taken.           *)
(***************************************************************************)
ByKey(stages, key) == CHOOSE s \in stages : s.key = key

(* What is in S of a sequence, in its order. *)
Kept(seq, S) ==
    LET kept[i \in 0..Len(seq)] ==
            IF i = 0 THEN <<>>
            ELSE IF seq[i] \in S THEN Append(kept[i - 1], seq[i]) ELSE kept[i - 1]
    IN  kept[Len(seq)]

GraphOf(stages, order) ==
    [k \in {s.key : s \in stages} |->
        Kept(order, {s.key : s \in {t \in stages : Depends(ByKey(stages, k), t)}})]

(***************************************************************************)
(* The depth-first search of networkx: a stack of nodes, the nodes in the  *)
(* order in which they are met, and in which they are left.  A turn goes   *)
(* on to the first successor that was not met yet, or leaves the node;     *)
(* each node takes two.                                                    *)
(***************************************************************************)
Visit(G, d) ==
    IF d.stack = <<>> THEN d
    ELSE LET top  == Last(d.stack)
             next == {i \in DOMAIN G[top] : G[top][i] \notin ToSet(d.pre)}
         IN  IF next = {}
             THEN [d EXCEPT !.stack = Front(@), !.post = Append(@, top)]
             ELSE LET new == G[top][CHOOSE i \in next : \A j \in next : i <= j]
                  IN  [d EXCEPT !.stack = Append(@, new), !.pre = Append(@, new)]

Search(G, n) ==
    LET turns == 2 * Cardinality(DOMAIN G)
        search[i \in 0..turns] ==
            IF i = 0 THEN [stack |-> <<n>>, pre |-> <<n>>, post |-> <<>>]
            ELSE Visit(G, search[i - 1])
    IN  search[turns]

(* dfs_preorder_nodes and dfs_postorder_nodes. *)
Preorder(G, n) == Search(G, n).pre
Postorder(G, n) == Search(G, n).post

OutEdges(G, n) == {n} \X ToSet(G[n])

(***************************************************************************)
(* _get_active_graph: a frozen stage loses its edges, and what was there   *)
(* for nothing else is removed.  A stage that was removed already makes    *)
(* in_degree or remove_node of networkx raise: "failed".                   *)
(***************************************************************************)
Without(A, n) == {e \in A.edges : n \notin {e[1], e[2]}}

(* Broken form: it is not asked whether another stage needs it. *)
DropAlways(G, A, n) ==
    [nodes |-> A.nodes \ {n}, edges |-> Without(A, n), failed |-> A.failed]

DropUnneeded(G, A, n) ==
    IF \E e \in A.edges : e[2] = n THEN A
    ELSE [nodes  |-> A.nodes \ {n},
          edges  |-> Without(A, n),
          failed |-> A.failed \/ n \notin A.nodes]

DropEach(G, A, nodes) ==
    LET left[i \in 0..Len(nodes)] ==
            IF i = 0 THEN A ELSE DropUnneeded(G, left[i - 1], nodes[i])
    IN  left[Len(nodes)]

CutStage(G, A, n) ==
    LET left[i \in 0..Len(G[n])] ==
            IF i = 0 THEN [A EXCEPT !.edges = @ \ OutEdges(G, n)]
            ELSE DropEach(G, left[i - 1], Preorder(G, G[n][i]))
    IN  left[Len(G[n])]

WholeGraph(G) ==
    [nodes |-> DOMAIN G, edges |-> UNION {OutEdges(G, n) : n \in DOMAIN G}, failed |-> FALSE]

ActiveGraph(G, order, frozen) ==
    LET left[i \in 0..Len(order)] ==
            IF i = 0 THEN WholeGraph(G)
            ELSE IF order[i] \in frozen THEN CutStage(G, left[i - 1], order[i])
            ELSE left[i - 1]
    IN  left[Len(order)]

(* The active graph as a graph again: its nodes with the edges left. *)
Successors(A, G) ==
    [n \in A.nodes |-> Kept(G[n], {m \in DOMAIN G : <<n, m>> \in A.edges})]

(* G.copy().reverse(copy=False) *)
Reversed(G, order) ==
    [n \in DOMAIN G |-> Kept(order, {m \in DOMAIN G : n \in ToSet(G[m])})]

(***************************************************************************)
(* _get_pipeline: the stages of each target in postorder, or, downstream,  *)
(* in the reverse of the postorder of the reversed graph; one after the    *)
(* other, each stage where it comes first.                                 *)
(***************************************************************************)
OfTarget(G, order, target, downstream) ==
    IF downstream THEN Reverse(Postorder(Reversed(G, order), target))
    ELSE Postorder(G, target)

AddNew(seq, more) == seq \o Kept(more, ToSet(more) \ ToSet(seq))

GetPipeline(G, order, targets, downstream) ==
    LET plan[i \in 0..Len(targets)] ==
            IF i = 0 THEN <<>>
            ELSE AddNew(plan[i - 1], OfTarget(G, order, targets[i], downstream))
    IN  plan[Len(targets)]

(* The stages without a successor in front of them: pipeline.in_degree(stage) == 0 *)
RootsOf(G) == {n \in DOMAIN G : \A m \in DOMAIN G : n \notin ToSet(G[m])}
================================================================================
