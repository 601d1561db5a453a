----------------------------- MODULE ExternalFiles -----------------------------
(* external_repo.py: what is taken out of a commit of another repository, as *)
(* dvc get, dvc import and dvc status do, and the remote that it comes from. *)
(*                                                                           *)
(* A tree has files, the content of every file of the commit, those of Git   *)
(* and those of outputs; outs, the paths of the outputs; dirouts, those that *)
(* are directories; dirs, the directories that Git has; ignores, those with a*)
(* .dvcignore; and repos, the repositories in it. DVC's own files are left   *)
(* out. Content is a function from relative paths, that of a file from <<>>, *)
(* and stands for its hash.                                                  *)
EXTENDS Naturals, Sequences, FiniteSets, SequencesExt

CONSTANT NoUrl   \* there is no remote

-----------------------------------------------------------------------------
(* ExternalRepo._fix_upstream. A configuration has the name of its remote,   *)
(* or NoUrl, and URLs, which are relative to the repository or are not.      *)

UrlOf(conf, name, dir) ==
    IF conf.url[name].relative THEN [dir |-> dir, path |-> conf.url[name].path]
    ELSE [dir |-> "", path |-> conf.url[name].path]

(* conf is the configuration of the commit, which is cloned to dir; source is*)
(* the repository that was cloned, <<>> if it is not on this machine. A      *)
(* remote that the source has no more is an error.                           *)
RemoteOf(conf, dir, source) ==
    CASE conf.remote # NoUrl /\ source # <<>> ->
             IF conf.remote \notin DOMAIN conf.url \cap DOMAIN source[1].conf.url
             THEN NoUrl ELSE UrlOf(source[1].conf, conf.remote, source[1].dir)
      [] conf.remote # NoUrl /\ source = <<>> ->
             IF conf.remote \notin DOMAIN conf.url THEN NoUrl ELSE UrlOf(conf, conf.remote, dir)
      [] conf.remote = NoUrl /\ source # <<>> -> source[1].cache
      [] OTHER -> NoUrl

-----------------------------------------------------------------------------
(* The tree of a commit.                                                     *)

RootOf(t, q) ==
    LET above == {r \in t.repos \cup {<<>>} : IsPrefix(r, q)}
    IN CHOOSE r \in above : \A s \in above : IsPrefix(s, r)

Relative(q, x) == SubSeq(x, Len(q) + 1, Len(x))

(* _get_tree_for: subrepositories are not looked into. *)
FilesBelow(t, q) == {x \in DOMAIN t.files : IsPrefix(q, x) /\ RootOf(t, x) = RootOf(t, q)}
ContentOf(t, q, X) == [r \in {Relative(q, x) : x \in X} |-> t.files[q \o r]]
Content(t, q) == ContentOf(t, q, FilesBelow(t, q))

(* RepoTree.metadata: the outputs at, above and below a path. *)
OutsAt(t, q) == {p \in t.outs : RootOf(t, p) = RootOf(t, q) /\ (IsPrefix(q, p) \/ IsPrefix(p, q))}
InGit(t, q) == q \in t.dirs \/ (q \in DOMAIN t.files /\ ~\E p \in t.outs : IsPrefix(p, q))
HasPath(t, q) == InGit(t, q) \/ OutsAt(t, q) # {}

(* RepoTree.exists fails for a directory of several outputs that is not in   *)
(* Git; below an output only its entries can be walked.                      *)
Walkable(t, q) ==
    /\ InGit(t, q) \/ Cardinality(OutsAt(t, q)) = 1
    /\ (\E p \in OutsAt(t, q) : IsStrictPrefix(p, q)) => FilesBelow(t, q) # {}

(* BaseTree._collect_dir: a .dvcignore is not collected. *)
Refused(t, q) == \E d \in t.ignores : IsPrefix(q, d) /\ RootOf(t, d) = RootOf(t, q)

(* DvcTree._fetch_dir and open: the listings of the directories and the files*)
(* of outputs, as far as they are asked for.                                 *)
Listings(t, q) == {Content(t, p) : p \in OutsAt(t, q) \cap t.dirouts}
OfOuts(t, q) == {x \in FilesBelow(t, q) : \E p \in t.outs : IsPrefix(p, x)}
Objects(t, X) == {[r \in {<<>>} |-> t.files[x]] : x \in X}
Needed(t, q) == Listings(t, q) \cup Objects(t, OfOuts(t, q))

(* _fetch_to_cache: hashed, which saves the listing, and saved. *)
Saved(t, q) == Needed(t, q) \cup Objects(t, FilesBelow(t, q)) \cup {Content(t, q)}

(* fetch_external and _check_repo, then the checkout: of a path that is not  *)
(* there or is a whole repository nothing is taken. cached and held are what *)
(* the cache and the remote have.                                            *)
FetchExternal(t, q, cached, held) ==
    IF /\ HasPath(t, q) /\ q # RootOf(t, q) /\ Walkable(t, q) /\ ~Refused(t, q)
       /\ Needed(t, q) \subseteq cached \cup held
    THEN [ok |-> TRUE, data |-> Content(t, q), cached |-> cached \cup Saved(t, q)]
    ELSE [ok |-> FALSE, data |-> <<>>, cached |-> cached]

(* get_external, with a cache of its own: what has no outputs is copied. *)
GetExternal(t, q, held) ==
    IF HasPath(t, q) /\ q # RootOf(t, q) /\ OutsAt(t, q) = {}
    THEN [ok |-> TRUE, data |-> Content(t, q)]
    ELSE LET f == FetchExternal(t, q, {}, held) IN [ok |-> f.ok, data |-> f.data]

(* get_checksum, which streams: a listing that is nowhere counts as empty,   *)
(* but for an output as a whole, whose hash is recorded.                     *)
Checksum(t, q, has) ==
    LET lost == {p \in OutsAt(t, q) \cap t.dirouts : Content(t, p) \notin has}
        seen == {x \in FilesBelow(t, q) : ~\E p \in lost : IsPrefix(p, x)}
        inside == \E p \in lost : IsStrictPrefix(p, q)
    IN IF ~HasPath(t, q) \/ ~Walkable(t, q) \/ (q \notin t.outs /\ (Refused(t, q) \/ inside))
       THEN [ok |-> FALSE, data |-> <<>>]
       ELSE [ok |-> TRUE, data |-> IF q \in t.outs THEN Content(t, q) ELSE ContentOf(t, q, seen)]

-----------------------------------------------------------------------------
(* _ls and its entries, not recursive: names below a directory, or the file. *)
Entries(t, q) ==
    LET below == {Append(q, x[Len(q) + 1]) :
                     x \in {x \in DOMAIN t.files \cup t.dirs : IsStrictPrefix(q, x)}}
    IN IF below = {} /\ q \in DOMAIN t.files THEN {q} ELSE below
Ls(t, q, dvcOnly) ==
    {[path |-> e, isout |-> e \in t.outs, isdir |-> e \notin DOMAIN t.files] :
        e \in {e \in Entries(t, q) : OutsAt(t, e) # {} \/ ~dvcOnly}}

-----------------------------------------------------------------------------
(* What those who import rely on.                                            *)

(* What the source has kept or pushed where its own configuration says, is   *)
(* looked for there, wherever the clone is ("If a remote URL is relative to  *)
(* the source repo ... Restore the old one here").                           *)
KeptAt(source) ==
    IF source.conf.remote = NoUrl THEN source.cache
    ELSE UrlOf(source.conf, source.conf.remote, source.dir)
SourceReached(dir, source) == RemoteOf(source.conf, dir, <<source>>) = KeptAt(source)

(* After an import the cache can restore what was imported, without the      *)
(* remote; and dvc get takes the same out of the repository.                 *)
ImportRestorable(t, q, cached, held) ==
    LET f == FetchExternal(t, q, cached, held)
    IN f.ok => /\ \A r \in DOMAIN f.data : [x \in {<<>>} |-> f.data[r]] \in f.cached
               /\ f.data \in f.cached
               /\ FetchExternal(t, q, f.cached, {}) = f
               /\ cached = {} => GetExternal(t, q, held) = [ok |-> TRUE, data |-> f.data]

(* Nothing is taken that is neither in Git nor on the remote, and where there*)
(* is no file an error is reported, never an empty directory.                *)
NothingInvented(t, q, held) ==
    LET g == GetExternal(t, q, held)
    IN g.ok => /\ \A x \in FilesBelow(t, q) : InGit(t, x) \/ Objects(t, {x}) \subseteq held
               /\ g.data # <<>> \/ q \in t.dirs

(* Two commits have the same checksum at a path exactly when what would be   *)
(* imported is the same, if the remote has the listings of both.             *)
ChecksumTells(t, u, q, has) ==
    LET a == Checksum(t, q, has)
        b == Checksum(u, q, has)
    IN a.ok /\ b.ok /\ (Listings(t, q) \cup Listings(u, q) \subseteq has \/ q \in t.outs \cap u.outs)
       => (a.data = b.data <=> Content(t, q) = Content(u, q))

(* What dvc list shows, and only that, can be taken, unless it is refused or *)
(* the remote does not have it.                                              *)
ListedCanBeGot(t, q, held) ==
    \A e \in Entries(t, q) :
        /\ HasPath(t, e)
        /\ RootOf(t, e) # e /\ ~Refused(t, e) /\ Walkable(t, e) /\ Needed(t, e) \subseteq held
           => GetExternal(t, e, held).ok
=============================================================================
