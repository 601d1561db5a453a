----------------------------- MODULE MCStageFiles ------------------------------
(* Two processes, a pipeline of up to three stages on two pieces of data.  *)
EXTENDS StageFiles, MCParsing

a == <<"a">>
b == <<"b">>
c == <<"c">>
d == <<"d">>
df == <<"d", "f">>

NamedStage(n, deps, outs) == Record(<<"dvc.yaml", n>>, deps, outs, FALSE)

P == NamedStage("p", {a}, {b})
Q == NamedStage("q", {a, b}, {c})
Qback == NamedStage("q", {b}, {a})      \* a cycle with p, or the data a twice
R == NamedStage("r", {c, df}, {<<"e">>})

MCRunDefs == {P, Qback, R}
MCAddGroups == {<<<<a>>>>, <<<<df>>, <<a>>>>, <<<<a, df>>>>}
MCImports == {a, d}
MCMoveTo == {b, d}
Variants(s) == {{}, {s}, {[s EXCEPT !.frozen = TRUE]}}
MCProjects ==
    {x \cup y \cup z \cup t : x \in Variants(P) \ {{}}, y \in Variants(Q), z \in {{}, {R}},
        t \in {{}, {DataStage(a), DataStage(df)}}}
MCOrders == {<<a, df, d, c, b, <<"e">>, P.key, Q.key, R.key>>,
             <<R.key, Q.key, P.key, <<"e">>, b, c, d, df, a>>}
MCSymmetry == Permutations(Proc)
================================================================================
