------------------------------- MODULE Overlay -------------------------------
(* How tree/repo.py shows a workspace and the outputs of DVC as one tree: it *)
(* walks the files of the workspace, or of a commit, and the outputs of the  *)
(* stages side by side, with one generator for each, and decides for every   *)
(* directory which of the two has to be advanced.                            *)
(*                                                                           *)
(* The two generators are used up by one recursion: a directory that one of  *)
(* them skips would pair the rest of the walk wrongly.                       *)
EXTENDS Naturals, Sequences, FiniteSets, SequencesExt

CONSTANTS
    Node,        \* bound: the paths that may be there, as sequences of names
    MaxEdits     \* bound: of edits by the user and dvc commands before the walk

Name == {Last(p) : p \in Node}

ASSUME OverlayAssumption ==
    /\ IsFiniteSet(Node) /\ Node \subseteq Seq(Name) \ {<<>>} /\ MaxEdits \in Nat
    /\ \A p \in Node : \A n \in 1..Len(p) : SubSeq(p, 1, n) \in Node

VARIABLES
    ws,          \* what is at each path of the workspace, or of the commit
    outs,        \* the outputs of the stages of each repository
    subrepos,    \* the directories that are DVC repositories of their own
    mode,        \* how the tree was made: of a commit, looking into subrepos
    edits,       \* counter
    walk         \* RepoTree.walk: its generators, what is left to do, the files it lists

vars == <<ws, outs, subrepos, mode, edits, walk>>

Root == <<>>
Path == Node \cup {Root}

(* PathInfo.isin_or_eq and isin. *)
InOrEq(p, q) == IsPrefix(q, p)
In(p, q) == IsStrictPrefix(q, p)
At(p) == IF p = Root THEN "dir" ELSE ws[p]

Out == [repo : Path, path : Node, dir : BOOLEAN, entries : SUBSET Node]

Task(kind, gen, d) == [kind |-> kind, gen |-> gen, dir |-> d]

TypeOK ==
    /\ ws \in [Node -> {"none", "file", "dir", "link"}]
    /\ \A o \in outs : o \in Out /\ In(o.path, o.repo)
    /\ subrepos \subseteq Node
    /\ mode \in [git : BOOLEAN, traverse : BOOLEAN]
    /\ edits \in 0..MaxEdits
    /\ walk.pc \in {"idle", "walking", "done", "failed"}
    /\ walk.top \in Path
    /\ \A g \in DOMAIN walk.gens :
          g \in Seq(Name) /\ walk.gens[g] \in [repo : Seq(Seq(Name)), dvc : Seq(Seq(Name))]
    /\ walk.todo \in Seq([kind : {"repo", "dvc", "both", "subrepo"},
                          gen : DOMAIN walk.gens, dir : Seq(Name)])
    /\ walk.listed \subseteq Seq(Name)

Idle == [pc |-> "idle", top |-> Root, gens |-> <<>>, todo |-> <<>>, listed |-> {}]

Init ==
    /\ ws = [p \in Node |-> "none"]
    /\ outs = {} /\ subrepos = {} /\ edits = 0 /\ walk = Idle
    /\ mode \in [git : BOOLEAN, traverse : BOOLEAN]

-----------------------------------------------------------------------------
(* The repository of a path, and its two trees.                              *)

(* The repository that a path is in, as dvc add in that directory sees it.  *)
Home(p) ==
    LET above == {s \in subrepos \cup {Root} : InOrEq(p, s)}
    IN CHOOSE s \in above : \A q \in above : InOrEq(s, q)

(* RepoTree._get_repo: subrepositories only when it traverses them. *)
RepoOf(p) == IF mode.traverse THEN Home(p) ELSE Root

(* LocalTree, GitTree: subrepositories are ignored, like all that is in     *)
(* them.                                                                    *)
Ignored(r, p) == \E s \in subrepos : In(s, r) /\ InOrEq(p, s)
TreeExists(r, p) == At(p) # "none" /\ ~Ignored(r, p)

(* A link to a directory is a directory for os.walk, which does not follow  *)
(* it, and a file in a commit.                                              *)
Kind(p) == IF At(p) = "link" THEN IF mode.git THEN "file" ELSE "dir" ELSE At(p)

TreeFiles(r, d) == {n \in Name : Append(d, n) \in Node /\ Kind(Append(d, n)) = "file"
                                                     /\ ~Ignored(r, Append(d, n))}

(* With ignore_subrepos=False the ignored subrepositories are listed again. *)
TreeDirs(r, d) == {n \in Name : Append(d, n) \in Node /\ Kind(Append(d, n)) = "dir"
                     /\ \/ ~Ignored(r, Append(d, n))
                        \/ mode.traverse /\ Append(d, n) \in subrepos}

(* DvcTree: the outputs at, above and below a path, of one repository. *)
Outs(r) == {o \in outs : o.repo = r}
OutsBy(r, p) == {o \in Outs(r) : InOrEq(p, o.path) \/ In(o.path, p)}

(* DvcTree.metadata: what is below an output of one file, or in a directory *)
(* without being an entry of it, passes for a directory.                    *)
ContainsOutputs(r, p) ==
    Cardinality(OutsBy(r, p)) > 1 \/ \E o \in OutsBy(r, p) : In(o.path, p)
CheckIsDir(r, p) ==
    \E o \in OutsBy(r, p) : IF o.dir THEN p \notin o.entries ELSE p # o.path
MetaIsDir(r, p) == ContainsOutputs(r, p) \/ CheckIsDir(r, p)

IsDvc(r, p) == \E o \in Outs(r) : OutsBy(r, p) = {o} /\ o.path = p

(* DvcTree._walk: the keys of its trie are the outputs, and the entries of  *)
(* the directories that it has come to. The tree is one that may fetch, or  *)
(* stream: another one has no entries (_add_dir).                           *)
Keys(r, d) ==
    {o.path : o \in Outs(r)} \cup UNION {o.entries : o \in {q \in Outs(r) : q.dir /\ InOrEq(d, q.path)}}

(* Broken form: the output of a directory taken for a file. *)
DvcDirsBelow(r, d) == {n \in Name : \E k \in Keys(r, d) : In(k, Append(d, n))}

DvcDirs(r, d) ==
    {n \in Name : \E k \in Keys(r, d) :
        \/ In(k, Append(d, n))
        \/ k = Append(d, n) /\ \E o \in Outs(r) : o.path = k /\ o.dir}
DvcFiles(r, d) == {n \in Name : Append(d, n) \in Keys(r, d)} \ DvcDirs(r, d)

(* trie.iteritems(prefix=...) raises KeyError for a prefix of no key.       *)
HasKey(r, d) == \E k \in Keys(r, d) : InOrEq(k, d)

-----------------------------------------------------------------------------
(* RepoTree.exists, isdir, isfile and open. A directory that is not there   *)
(* and has two outputs makes exists and isdir fail: "(out,) = meta.outs".   *)

OfMissingOut(r, p) ==
    \E o \in Outs(r) : OutsBy(r, p) = {o} /\ ~TreeExists(r, o.path)

Exists(p) == LET r == RepoOf(p) IN TreeExists(r, p) \/ OfMissingOut(r, p)
IsDir(p) ==
    LET r == RepoOf(p) IN
    IF TreeExists(r, p) THEN At(p) \in {"dir", "link"} /\ ~(mode.git /\ At(p) = "link")
    ELSE OfMissingOut(r, p) /\ MetaIsDir(r, p)
IsFile(p) ==
    LET r == RepoOf(p) IN
    IF TreeExists(r, p) THEN At(p) = "file"
    ELSE OfMissingOut(r, p) /\ ~MetaIsDir(r, p)

(* DvcTree.open: the object of an output, or of an entry. *)
DvcOpens(r, p) ==
    \E o \in Outs(r) : {q \in Outs(r) : InOrEq(p, q.path)} = {o} /\ (o.dir => p \in o.entries)

(* RepoTree.open: a file of the workspace, or an output if the path is not  *)
(* there; a file in the place of a directory is another error.              *)
Opens(p) ==
    \/ Kind(p) = "file"
    \/ /\ At(p) = "none" /\ \A q \in Node : In(p, q) => At(q) # "file"
       /\ DvcOpens(RepoOf(p), p)

-----------------------------------------------------------------------------
(* What users and other commands do before.                                  *)

Edit ==
    /\ walk.pc = "idle" /\ edits < MaxEdits
    /\ edits' = edits + 1
    /\ UNCHANGED <<mode, walk>>

Above(p) == {q \in Node : In(p, q)}
Gone(w, p) == [q \in Node |-> IF InOrEq(q, p) THEN "none" ELSE w[q]]

(* A file, or a link to a directory somewhere else. *)
Put(p, kind) ==
    /\ Edit
    /\ ws[p] \in {"none", "file"} /\ ws[p] # kind
    /\ \A q \in Above(p) : ws[q] \in {"none", "dir"}
    /\ ws' = [q \in Node |-> IF q = p THEN kind ELSE IF q \in Above(p) THEN "dir" ELSE ws[q]]
    /\ UNCHANGED <<outs, subrepos>>

RemovePath(p) ==
    /\ Edit
    /\ ws[p] # "none"
    /\ ws' = Gone(ws, p)
    /\ subrepos' = {s \in subrepos : ~InOrEq(s, p)}
    /\ outs' = {o \in outs : ~InOrEq(o.repo, p)}

(* dvc init --subdir, where the outer repository has no output. *)
InitSubrepo(d) ==
    /\ Edit
    /\ ws[d] = "dir" /\ d \notin subrepos
    /\ \A o \in outs : ~InOrEq(o.path, d) /\ ~InOrEq(d, o.path)
    /\ subrepos' = subrepos \cup {d}
    /\ UNCHANGED <<ws, outs>>

(* dvc add, or a stage with this output. Git does not commit outputs. *)
AddOut(p) ==
    LET r == Home(p) IN
    /\ Edit
    /\ ws[p] \in {"file", "dir"} /\ p \notin subrepos
    /\ \A o \in Outs(r) : ~InOrEq(o.path, p) /\ ~InOrEq(p, o.path)
    /\ outs' = outs \cup {[repo |-> r, path |-> p, dir |-> ws[p] = "dir",
                           entries |-> {q \in Node : In(q, p) /\ ws[q] = "file" /\ Home(q) = r}]}
    /\ ws' = IF mode.git THEN Gone(ws, p) ELSE ws
    /\ subrepos' = IF mode.git THEN {s \in subrepos : ~In(s, p)} ELSE subrepos

-----------------------------------------------------------------------------
(* RepoTree.walk.                                                            *)

(* The generators of tree.walk and dvc_tree.walk: the directories that they *)
(* will come to. DvcTree.walk ends at once where it has no directory.       *)
Generators(r, d) ==
    [repo |-> IF TreeExists(r, d) THEN <<d>> ELSE <<>>,
     dvc  |-> IF OutsBy(r, d) # {} /\ MetaIsDir(r, d) THEN <<d>> ELSE <<>>]

Start(top) ==
    LET r == RepoOf(top)
        kind == IF ~TreeExists(r, top) THEN "dvc"
                ELSE IF IsDvc(r, top) \/ OutsBy(r, top) = {} THEN "repo" ELSE "both"
    IN /\ walk.pc = "idle"
       /\ Exists(top) /\ IsDir(top)
       /\ walk' = [pc |-> "walking", top |-> top,
                   gens |-> [g \in {top} |-> [Generators(r, top) EXCEPT
                                                 !.dvc = IF kind = "repo" THEN <<>> ELSE @]],
                   todo |-> <<Task(kind, top, top)>>, listed |-> {}]
       /\ UNCHANGED <<ws, outs, subrepos, mode, edits>>

Current == Head(walk.todo)
Gen == walk.gens[Current.gen]

Walking(kind) ==
    /\ walk.pc = "walking" /\ walk.todo # <<>>
    /\ Current.kind = kind
    /\ UNCHANGED <<ws, outs, subrepos, mode, edits>>

(* The next() of the outputs' generator raises KeyError.                    *)
KeyMissing == Gen.dvc # <<>> /\ ~HasKey(RepoOf(Current.gen), Head(Gen.dvc))

Orders(S) == SetToSeqs(S)
Full(d, names) == [i \in DOMAIN names |-> Append(d, names[i])]

(* Broken form: the generator keeps an order of its own. *)
FollowOwnOrder(names, S) == SelectSeq(Reverse(names), LAMBDA n : n \in S)

(* "dirs[:] =": the generator goes on with these names, in this order.      *)
Follow(names, S) ==
    LET kept[i \in 0..Len(names)] ==
            IF i = 0 THEN <<>>
            ELSE IF names[i] \in S THEN Append(kept[i - 1], names[i]) ELSE kept[i - 1]
    IN kept[Len(names)]

(* The names of two directories, those that both have first.                *)
Merged(D, R) ==
    {part[1] \o part[2] \o part[3] :
        part \in Orders(D \cap R) \X Orders(D \ R) \X Orders(R \ D)}

(* Broken form: the walk goes on into them. *)
SubreposOfNone(d, R) == {}

(* The subrepositories that the walk enters with a tree of their own. *)
SubreposOf(d, R) == {n \in R : mode.traverse /\ Append(d, n) \in subrepos}

(* RepoTree._walk, when its generators have come to rd and dd. *)
Step(rd, dd, D, R, files, dvcLeft) ==
    \E names \in Merged(D, R) :
        LET sub == SubreposOf(rd, R \ D)
            kind(n) == IF n \in sub THEN "subrepo" ELSE IF n \in D \cap R THEN "both"
                       ELSE IF n \in D THEN "dvc" ELSE "repo"
            linked == {n \in R : At(Append(rd, n)) = "link"}
        IN walk' = [walk EXCEPT
               !.gens[Current.gen] = [repo |-> Full(rd, Follow(names, (R \ sub) \ linked)) \o Tail(Gen.repo),
                                      dvc |-> Full(dd, Follow(names, D)) \o dvcLeft],
               !.todo = [i \in DOMAIN names |-> Task(kind(names[i]), Current.gen, Append(rd, names[i]))]
                            \o Tail(@),
               !.listed = @ \cup {Append(rd, n) : n \in files}]

(* A generator has ended. *)
Stop(gen) == walk' = [walk EXCEPT !.gens[Current.gen] = gen, !.todo = Tail(@)]

WalkBoth ==
    LET r == RepoOf(Current.gen) IN
    /\ Walking("both") /\ ~KeyMissing
    /\ IF Gen.dvc = <<>> THEN Stop(Gen)
       ELSE LET dd == Head(Gen.dvc) IN
            IF Gen.repo = <<>> THEN Stop([Gen EXCEPT !.dvc = Tail(@)])
            ELSE LET rd == Head(Gen.repo) IN
                 Step(rd, dd, DvcDirs(r, dd), TreeDirs(r, rd),
                      DvcFiles(r, dd) \cup TreeFiles(r, rd), Tail(Gen.dvc))

WalkRepo ==
    LET r == RepoOf(Current.gen) IN
    /\ Walking("repo")
    /\ IF Gen.repo = <<>> THEN Stop(Gen)
       ELSE LET rd == Head(Gen.repo) IN
            Step(rd, Root, {}, TreeDirs(r, rd), TreeFiles(r, rd), Gen.dvc)

(* RepoTree._dvc_walk. *)
WalkDvc ==
    LET r == RepoOf(Current.gen) IN
    /\ Walking("dvc") /\ ~KeyMissing
    /\ IF Gen.dvc = <<>> THEN Stop(Gen)
       ELSE LET dd == Head(Gen.dvc) IN
            \E names \in Orders(DvcDirs(r, dd)) :
                walk' = [walk EXCEPT
                    !.gens[Current.gen].dvc = Full(dd, names) \o Tail(@),
                    !.todo = [i \in DOMAIN names |-> Task("dvc", Current.gen, Append(dd, names[i]))] \o Tail(@),
                    !.listed = @ \cup {Append(dd, n) : n \in DvcFiles(r, dd)}]

(* RepoTree._subrepo_walk: it takes dvc_tree.walk also where there is no    *)
(* output, and so ends at once.                                             *)
EnterSubrepo ==
    /\ Walking("subrepo")
    /\ walk' = [walk EXCEPT
           !.gens = [g \in DOMAIN walk.gens \cup {Current.dir} |->
                        IF g = Current.dir THEN Generators(RepoOf(g), g) ELSE walk.gens[g]],
           !.todo = <<Task("both", Current.dir, Current.dir)>> \o Tail(@)]

(* Nothing catches the KeyError: the walk is over for its caller.           *)
WalkFails ==
    /\ \E kind \in {"both", "dvc"} : Walking(kind)
    /\ KeyMissing
    /\ walk' = [walk EXCEPT !.pc = "failed"]

WalkEnds ==
    /\ walk.pc = "walking" /\ walk.todo = <<>>
    /\ walk' = [walk EXCEPT !.pc = "done"]
    /\ UNCHANGED <<ws, outs, subrepos, mode, edits>>

Next ==
    \/ \E p \in Node : \/ \E kind \in {"file", "link"} : Put(p, kind)
                       \/ RemovePath(p) \/ InitSubrepo(p) \/ AddOut(p)
    \/ \E top \in Path : Start(top)
    \/ WalkBoth \/ WalkRepo \/ WalkDvc \/ EnterSubrepo \/ WalkFails \/ WalkEnds

Spec == Init /\ [][Next]_vars

-----------------------------------------------------------------------------
(* Out of step are linked directories, which are listed and not walked, so   *)
(* that their turn takes the next directory of the generator, and outputs in *)
(* whose place something of another kind is; a subrepository without outputs *)
(* is not walked.                                                            *)
Replaced ==
    \E o \in outs : \E p \in {o.path} \cup o.entries : \E q \in Node :
        LET kind == IF q \in o.entries \/ (q = o.path /\ ~o.dir) THEN "file" ELSE "dir"
        IN InOrEq(p, q) /\ At(q) \notin {"none", kind}
Regular == ~Replaced /\ (mode.git \/ \A p \in Node : ws[p] # "link")
Unwalked(p) ==
    \E s \in subrepos : mode.traverse /\ InOrEq(p, s) /\ In(s, walk.top)
                        /\ (OutsBy(s, s) = {})

(* _walk: the turn of a directory takes that directory from each generator, *)
(* however sets order the names, and both end with the walk.                *)
Ahead(gen, d) == gen # <<>> /\ Head(gen) = d
InStep ==
    Regular /\ walk.pc = "walking" =>
        IF walk.todo = <<>>
        THEN \A g \in DOMAIN walk.gens : Unwalked(g) \/ walk.gens[g] = [repo |-> <<>>, dvc |-> <<>>]
        ELSE \/ Unwalked(Current.dir) \/ Current.kind = "subrepo"
             \/ /\ Current.kind # "dvc" => Ahead(Gen.repo, Current.dir)
                /\ Current.kind # "repo" => Ahead(Gen.dvc, Current.dir)

(* A path in an output, which has nothing there or below.                   *)
NotInOutput(o, d) == In(d, o.path) /\ \A e \in o.entries : ~InOrEq(e, d)

(* Every file below the top, of the workspace or of an output, is listed,   *)
(* or the walk fails, but only where its top is in an output that has       *)
(* nothing there, as a directory has that is new.                           *)
WalkComplete ==
    Regular =>
        /\ walk.pc = "done" =>
              \A p \in Node : In(p, walk.top) /\ IsFile(p) /\ ~Unwalked(p) => p \in walk.listed
        /\ walk.pc = "failed" => \E o \in Outs(RepoOf(walk.top)) : NotInOutput(o, walk.top)

(* "by default errors are ignored" (RepoTree.walk): a walk of a directory   *)
(* of the workspace ends. It does not hold: DvcTree._walk raises KeyError   *)
(* for a directory that is new in an output (tree/dvc.py:178).              *)
ErrorsIgnored == Regular /\ TreeExists(RepoOf(walk.top), walk.top) => walk.pc # "failed"

(* What walk lists below the top can be opened (copytree opens it), and is  *)
(* a file unless only a part of a directory is in the workspace, or it is   *)
(* a link of a commit.                                                      *)
WalkSound ==
    Regular /\ walk.pc = "done" =>
        \A p \in walk.listed :
            /\ In(p, walk.top) /\ Opens(p)
            /\ \/ IsFile(p) \/ At(p) = "link"
               \/ \E o \in Outs(RepoOf(p)) : p \in o.entries /\ At(o.path) = "dir"
=============================================================================
