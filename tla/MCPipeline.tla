------------------------------- MODULE MCPipeline -------------------------------
(* Pipeline with a data source, a stage that prepares it and one that      *)
(* evaluates what was prepared into metrics git keeps; files share two     *)
(* contents, so that the objects of the cache are shared too.              *)
EXTENDS Pipeline, FiniteSets, Functions, TLC

CONSTANTS raw, prep, eval

MCStage == {raw, prep, eval}

MCPath == {"src", "data", "metrics"}

MCDeps == raw :> {} @@ prep :> {"src"} @@ eval :> {"data"}

MCOuts == raw :> {"src"} @@ prep :> {"data"} @@ eval :> {"metrics"}

MCOrder == raw :> 1 @@ prep :> 2 @@ eval :> 3

MCCmd == {1, 2}

MCContent == 0..1

(* The commands read every dependency.                                     *)
MCResult(c, o, vals) ==
    (c + Cardinality({"metrics"} \cap {o}) + FoldFunction(+, 0, vals)) % 2
=============================================================================
