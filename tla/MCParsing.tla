------------------------------ MODULE MCParsing ------------------------------
(* Parsing over small files: two of them and a copy of one in another        *)
(* directory, every way of loading them in up to three steps, and stages     *)
(* that interpolate and loop.                                                *)
EXTENDS Naturals, Sequences, FiniteSets, TLC

Parsed == INSTANCE Parsing WITH LocalSource <- "local"

(* Nested data, from the values in it.                                       *)
MapN == [kind |-> "map", val |-> ""]
ListN == [kind |-> "list", val |-> ""]
V(x) == [kind |-> "value", val |-> x]
Ref(p) == [kind |-> "ref", val |-> p]

Plain == <<"a">> :> V("1") @@ <<"b">> :> V("2")
Nested == <<"a">> :> MapN @@ <<"a", "x">> :> V("1")
NestedToo == <<"a">> :> MapN @@ <<"a", "y">> :> V("2") @@ <<"b">> :> V("e")
NestedEmpty == <<"a">> :> MapN @@ <<"b">> :> V("3")
Items == <<"a">> :> ListN @@ <<"a", "0">> :> V("1") @@ <<"a", "1">> :> V("2") @@ <<"b">> :> V("3")
Swapped == <<"a">> :> ListN @@ <<"a", "0">> :> V("2") @@ <<"a", "1">> :> V("1") @@ <<"b">> :> V("4")
Deep == <<"a">> :> MapN @@ <<"a", "x">> :> MapN @@ <<"a", "x", "u">> :> V("1")
        @@ <<"a", "y">> :> MapN @@ <<"a", "y", "u">> :> V("2") @@ <<"b">> :> V("e")
Hiding == <<"a">> :> V("e") @@ <<"item">> :> MapN @@ <<"item", "x">> :> V("1") @@ <<"key">> :> V("4")

MCData == {Plain, Nested, NestedToo, NestedEmpty, Items, Swapped, Deep, Hiding}
File(d, f) == <<d, f>>
MCFiles == {File("d", Parsed!DefaultParams) :> x @@ File("d", "o") :> y @@ File("e", "o") :> z :
                x \in MCData, y \in {Nested, NestedToo, Items, Hiding}, z \in {Plain}}

Whole(f) == [inline |-> FALSE, file |-> f, keys |-> {}]
Part(f, k) == [inline |-> FALSE, file |-> f, keys |-> {k}]
Inline(data) == [inline |-> TRUE, data |-> data]
MCItem == {Whole(Parsed!DefaultParams), Part(Parsed!DefaultParams, "a"), Whole("o"), Part("o", "a"), Part("o", "b"),
           Inline(Nested), Inline(<<"c">> :> V("7"))}
MCItems == UNION {[1..n -> MCItem] : n \in 0..2} \cup
           [1..3 -> {Whole("o"), Part("o", "a"), Part("o", "b"), Inline(Nested)}]
Backwards(s) == [i \in DOMAIN s |-> s[Len(s) + 1 - i]]

Use(p) == [path |-> p, joined |-> FALSE]
InString(p) == [path |-> p, joined |-> TRUE]
Fields == {"cmd" :> Use(<<"a">>), "cmd" :> InString(<<"a", "x">>), "cmd" :> Use(<<"a", "1">>),
           "wdir" :> Use(<<"b">>) @@ "cmd" :> InString(<<"c">>)}
Looped == {"cmd" :> InString(<<"item">>), "cmd" :> Use(<<"item">>) @@ "deps" :> InString(<<"item", "x">>), "cmd" :> InString(<<"item", "u">>),
           "cmd" :> InString(<<"key">>) @@ "deps" :> Use(<<"b">>),
           "wdir" :> Use(<<"a">>) @@ "cmd" :> Use(<<"item", "x">>),
           "cmd" :> InString(<<"item">>) @@ "outs" :> Use(<<"a", "0">>)}
Over == {<<>> :> Ref(<<"a">>), <<>> :> Ref(<<"item">>),
         <<>> :> ListN @@ <<"0">> :> Ref(<<"b">>) @@ <<"1">> :> V("8"),
         <<>> :> MapN @@ <<"k">> :> MapN @@ <<"k", "u">> :> Ref(<<"b">>) @@ <<"l">> :> Ref(<<"a">>)}
StageVars == {<<>>, <<Whole("o")>>, <<Part("o", "a"), Inline(<<"c">> :> V("9"))>>,
              <<Inline(<<"item">> :> V("5"))>>}

MCDef == {[name |-> <<"s">>, foreach |-> FALSE, vars |-> v, fields |-> f] : v \in StageVars, f \in Fields}
         \cup {[name |-> <<"g">>, foreach |-> TRUE, over |-> o, vars |-> v, fields |-> f] :
                  o \in Over, v \in {<<>>, <<Inline(<<"item">> :> V("5"))>>}, f \in Looped}
Literal == [name |-> <<"g", "1">>, foreach |-> FALSE, vars |-> <<>>, fields |-> "cmd" :> Use(<<"b">>)]
MCDefs == {<<d>> : d \in MCDef} \cup {<<d, Literal>> : d \in {d \in MCDef : d.foreach /\ d.vars = <<>>}}
MCOrder == <<"0", "1", "k", "l", "u", "x", "y">>

-----------------------------------------------------------------------------
ASSUME ValuesTraceable ==
    \A files \in MCFiles : \A items \in MCItems : Parsed!GlobalsTraceable(files, "d", items)

ASSUME VarsOrderFree ==
    \A files \in MCFiles : \A items \in MCItems :
        /\ Parsed!OrderFree(files, "d", items, Backwards(items))
        /\ Len(items) = 3 => Parsed!OrderFree(files, "d", items, <<items[2], items[1], items[3]>>)

ASSUME TrackedVarsSound ==
    \A files \in MCFiles : \A defs \in MCDefs :
        (\A i \in DOMAIN defs : ~Parsed!HidesItself(defs[i]))
            => /\ Parsed!VarsFound(files, "d", <<>>, defs, MCOrder)
               /\ Parsed!TrackedSound(files, "d", <<>>, defs, MCOrder)

ASSUME TrackedVarsDecide ==
    \A x, y \in MCData : \A defs \in MCDefs :
        LET files == File("d", Parsed!DefaultParams) :> x @@ File("d", "o") :> Nested @@ File("e", "o") :> Plain
            edited == [files EXCEPT ![File("d", Parsed!DefaultParams)] = y]
        IN Parsed!TrackedDecides(files, edited, "d", <<>>, defs, MCOrder)

ASSUME WorkingDirectoryStable ==
    \A files \in MCFiles : \A defs \in MCDefs : Parsed!WdirStable(files, "d", <<>>, defs, MCOrder)
=============================================================================
