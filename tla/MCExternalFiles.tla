--------------------------- MODULE MCExternalFiles ----------------------------
(* ExternalFiles over all trees with up to three files in two directories,   *)
(* any of them outputs, and all parts of the objects on the remote.          *)
EXTENDS Naturals, Sequences, FiniteSets, TLC

Elsewhere == INSTANCE ExternalFiles WITH NoUrl <- "none"

XFile == {<<"d", "x">>, <<"d", "e", "y">>, <<"s", "z">>}
XDir == {<<"d">>, <<"d", "e">>, <<"s">>}
XPath == XFile \cup XDir \cup {<<>>, <<"d", "n">>}
XPrefix(p, q) == Len(p) <= Len(q) /\ SubSeq(q, 1, Len(p)) = p

(* Outputs are not in one another, have files, and are not repositories; Git *)
(* has the directories of its files, and others where DVC's own files are.   *)
XOuts(files, repos) ==
    {O \in SUBSET (XFile \cup XDir) :
        /\ O \cap repos = {}
        /\ \A p \in O : \E x \in DOMAIN files : XPrefix(p, x)
        /\ \A p, q \in O : XPrefix(p, q) => p = q}
XDirs(files, outs) ==
    LET git == {x \in DOMAIN files : ~\E p \in outs : XPrefix(p, x)}
        free == {d \in XDir : ~\E p \in outs : XPrefix(p, d)}
        most == {d \in free : \E p \in outs : XPrefix(d, p)}
        least == {d \in free : \E x \in git : XPrefix(d, x)}
    IN {least, least \cup most}
XTree ==
    UNION {UNION {UNION {UNION {
        {[files |-> files, outs |-> outs, dirouts |-> outs \ XFile, dirs |-> dirs,
          ignores |-> ignores, repos |-> repos] : ignores \in SUBSET (dirs \cap {<<"d">>})} :
            dirs \in XDirs(files, outs)} : outs \in XOuts(files, repos)} :
            files \in UNION {[P -> {"a", "b"}] : P \in SUBSET XFile}} : repos \in {{}, {<<"s">>}}}

AllObjects(t) == Elsewhere!Needed(t, <<>>) \cup Elsewhere!Needed(t, <<"s">>)

ASSUME Restorable ==
    \A t \in XTree : \A q \in XPath : \A held \in SUBSET AllObjects(t) : \A cached \in {{}, Elsewhere!Objects(t, DOMAIN t.files)} :
        Elsewhere!ImportRestorable(t, q, cached, held) /\ Elsewhere!NothingInvented(t, q, held)

ASSUME ListsWhatThereIs ==
    \A t \in XTree : \A q \in XDir : \A held \in {{}, AllObjects(t)} : Elsewhere!ListedCanBeGot(t, q, held)

ASSUME StatusOfImports ==
    \A t \in {t \in XTree : t.ignores = {} /\ t.repos = {}} :
        \A u \in {u \in XTree : u.ignores = {} /\ u.repos = {} /\ u.outs = t.outs} : \A q \in XDir :
            \A has \in {Elsewhere!Listings(t, q), Elsewhere!Listings(t, q) \cup Elsewhere!Listings(u, q)} :
                Elsewhere!ChecksumTells(t, u, q, has)

XConf == {[remote |-> r, url |-> [n \in {"up"} |-> u]] :
             r \in {"none", "up"}, u \in {[relative |-> b, path |-> "store"] : b \in BOOLEAN}}
ASSUME SourcesReached ==
    \A conf \in XConf : Elsewhere!SourceReached("clone", [conf |-> conf, dir |-> "source", cache |-> [dir |-> "source", path |-> "cache"]])
=============================================================================
