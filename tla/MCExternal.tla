------------------------------ MODULE MCExternal ------------------------------
(* External over a repository with two branches and a tag that are moved,    *)
(* rewritten and deleted while a process opens revisions of it, for all      *)
(* sequences of up to MaxSteps such steps.                                   *)
EXTENDS Naturals, Sequences, FiniteSets, TLC

MaxSteps == 4

Rev(name) == <<name>>
Main == Rev("main")
Dev == Rev("dev")
Feed == Rev("feed")   \* a branch whose name looks like a hash
Tag == Rev("v1")
NoRev == <<>>

(* A change that a commit ends with decides its data.                        *)
MCDataOf(commit) == IF commit[Len(commit)] = "other" THEN Rev("old data")
                    ELSE <<"data", commit[Len(commit)]>>
MCIsSha(rev) == rev = Feed \/ (rev # <<>> /\ rev[1] = "init")

E == INSTANCE External WITH Nothing <- NoRev, IsSha <- MCIsSha, DataOf <- MCDataOf

First == [branches |-> Main :> <<"init">>, tags |-> <<>>, default |-> Main]

Commit(up, b, x) == [up EXCEPT !.branches[b] = Append(@, x)]
Branches(up) == DOMAIN up.branches
Changes(up) ==
    {Commit(up, b, x) : b \in {b \in Branches(up) : Len(up.branches[b]) < 3}, x \in {"a", "other"}}
    \cup {[up EXCEPT !.branches = E!With(@, b, up.branches[Main])] : b \in {Dev, Feed} \ Branches(up)}
    \cup {[up EXCEPT !.branches[b] = <<"init", "rewritten">>] : b \in Branches(up)}
    \cup {[up EXCEPT !.tags = E!With(@, Tag, up.branches[b])] : b \in Branches(up)}
    \cup {[up EXCEPT !.branches = E!Without(@, b)] : b \in (Branches(up) \cap {Dev}) \ {up.default}}
    \cup {[up EXCEPT !.default = b] : b \in Branches(up)}

Revs == {NoRev, Main, Dev, Feed, Tag, <<"init">>, <<"init", "a">>}
There(up, rev) == E!Upstream(up, rev) \in E!Ancestry(E!Tips(up))

Steps(p) ==
    {<<p[1], up>> : up \in Changes(p[2])}
    \cup {<<E!Open(p[1], p[2], rev, m).clone, p[2]>> :
              rev \in {r \in Revs : There(p[2], r)}, m \in BOOLEAN}

Reached[n \in 0..MaxSteps] ==
    IF n = 0 THEN {<<<<>>, First>>}
    ELSE Reached[n - 1] \cup UNION {Steps(p) : p \in Reached[n - 1]}
MCReached == Reached[MaxSteps]

Imports(p) == {r \in {E!Import(p[1], p[2], rev, TRUE) : rev \in {r \in Revs : There(p[2], r)}} : r.ok}

-----------------------------------------------------------------------------
ASSUME OpenedIsCurrent ==
    \A p \in MCReached : \A rev \in Revs : \A m \in BOOLEAN : E!OpensCurrent(p[1], p[2], rev, m)

ASSUME ImportsRecorded ==
    \A p \in Reached[MaxSteps - 1] : \A r \in Imports(p) :
        /\ E!LockIsData(r.dep)
        /\ E!StatusTells(r.clone, p[2], r.dep, TRUE)
        /\ \A later \in Changes(p[2]) :
              /\ E!Reproducible(r.clone, later, r.dep, TRUE)
              /\ E!Reproducible(<<>>, later, r.dep, TRUE)
              /\ E!StatusTells(r.clone, later, r.dep, TRUE)
              /\ LET u == E!UpdateImport(r.clone, later, r.dep, NoRev, TRUE)
                 IN IF u.ok THEN E!LockIsData(u.dep) ELSE u.dep = r.dep
=============================================================================
