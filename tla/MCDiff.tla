-------------------------------- MODULE MCDiff ---------------------------------
(* Diff over all commits and workspaces of two outputs, which are files or   *)
(* directories of up to two entries with two contents, and over all contents *)
(* of the cache; parameters and metrics of one file with two paths.          *)
EXTENDS Naturals, Sequences, FiniteSets, TLC

DNumber(v) == v \in {"1", "2"}
DDotted(x) == IF x = <<"m", "lr">> THEN <<"m.lr">> ELSE x
Diffs == INSTANCE Diff WITH None <- "none", Unparsed <- "unparsed", Number <- DNumber, Dotted <- DDotted

(* All functions from a part of S to T. *)
DPartial(S, T) == UNION {[P -> T] : P \in SUBSET S}

DFiles == {Diffs!FileOf(c) : c \in {"a", "b"}}
DDirs == {[dir |-> TRUE, entries |-> e] :
             e \in {<<>>} \cup [{"x"} -> {"a", "b"}] \cup {[n \in {"x", "y"} |-> "a"]}}
DData == DFiles \cup DDirs
DOuts == DPartial({"p"}, DData) \cup {[p \in {"p", "q"} |-> v] : v \in DFiles \cup DDirs}
DCached == {C \in SUBSET DData : DFiles \subseteq C} \cup {{}} \cup {DDirs}

ASSUME WorkspaceDiffs ==
    \A old, outs, disk \in DOuts : \A cached \in DCached :
        /\ Diffs!NothingMissed(old, outs, disk, cached)
        /\ Diffs!ExactLines(old, outs, disk, cached)
        /\ Diffs!DeletedIsRestorable(old, outs, disk, cached)

(* Of two different commits, the diff is empty exactly when they record the  *)
(* same.                                                                     *)
ASSUME CommitDiffs ==
    \A old, new \in DOuts : \A cached \in DCached :
        LET d == Diffs!DiffCommits("a", "b", {"a", "b"}, [r \in {"a", "b"} |-> r],
                               [r \in {"a", "b"} |-> IF r = "a" THEN old ELSE new], cached)
        IN d.ok /\ (Diffs!Lines(d) = {} <=> old = new)

DValues == DPartial({"lr", "epochs"}, {"1", "2"})
ASSUME ParamsDiffs ==
    \A params \in SUBSET {"lr", "epochs"} : \A lock \in DValues : \A file \in {<<>>} \cup {<<v>> : v \in DValues} :
        Diffs!StatusIsHash(params, lock, file)

DMetrics == {[map |-> FALSE, val |-> v, leaves |-> <<>>] : v \in {"none", "1", "2", "text"}}
            \cup {[map |-> TRUE, val |-> "none", leaves |-> l] :
                     l \in DPartial({<<"a">>, <<"b">>}, {"1", "2", "text"})}
ASSUME MetricDiffs ==
    \A old, new \in DPartial({"m"}, DMetrics) : Diffs!NumbersReported(old, new)

DMetricFiles == DPartial({<<"m">>, <<"d", "m">>}, DMetrics)
ASSUME MetricTargets ==
    \A files \in DMetricFiles : \A outs \in SUBSET {<<"m">>, <<"d", "m">>} :
        \A targets \in SUBSET {<<"m">>, <<"d">>, <<"d", "m">>} : \A recursive \in BOOLEAN :
            Diffs!TargetsAgree(outs, targets, recursive, files)

DParamFiles ==
    DPartial({"params", "vars"},
             {[map |-> TRUE, val |-> "none", leaves |-> l] : l \in DPartial({<<"seed">>, <<"m", "lr">>}, {"1", "2"})})
ASSUME ParamsShown ==
    \A old, new \in DParamFiles : \A configs \in {{"params"}, {"params", "vars"}} :
        \A vars \in UNION {[{f} -> SUBSET {<<"seed">>, <<"m", "lr">>}] : f \in {"params", "vars"}} :
            Diffs!ParamsReported(configs, old, new, vars)
=============================================================================
