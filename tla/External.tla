------------------------------- MODULE External --------------------------------
(* external_repo.py and dependency/repo.py: the repositories that a project  *)
(* imports from. A process clones each of them once and brings the clone up  *)
(* to date when it needs to; a stage records the commit that it has imported.*)
(*                                                                           *)
(* A commit is the sequence of the changes that led to it, so an ancestor is *)
(* a prefix. Of the repository, branches and tags, and which is the default  *)
(* branch, may change at any time between two steps.                         *)
EXTENDS Naturals, Sequences, FiniteSets, SequencesExt

CONSTANTS Nothing,     \* no revision, no lock, no output
          IsSha(_),    \* revisions that look like the hash of a commit
          DataOf(_)    \* what a commit holds at the path that is imported

Without(f, k) == [x \in DOMAIN f \ {k} |-> f[x]]
With(f, k, v) == [x \in DOMAIN f \cup {k} |-> IF x = k THEN v ELSE f[x]]
Over(f, g) == [x \in DOMAIN f \cup DOMAIN g |-> IF x \in DOMAIN f THEN f[x] ELSE g[x]]
Values(f) == {f[x] : x \in DOMAIN f}
Ancestry(S) == UNION {{SubSeq(h, 1, n) : n \in 1..Len(h)} : h \in S}

-----------------------------------------------------------------------------
(* Git, as external_repo uses it.                                            *)

Tips(up) == Values(up.branches) \cup Values(up.tags)

(* Git.clone: the default branch, or with depth 1 a branch or a tag, which   *)
(* leaves HEAD on no branch. All branches are fetched (no_single_branch).    *)
Clone(up, shallow) ==
    LET b == IF shallow = Nothing THEN up.default ELSE shallow
        on == b \in DOMAIN up.branches
    IN [head |-> IF on THEN b ELSE Nothing,
        local |-> IF on THEN [x \in {b} |-> up.branches[b]] ELSE <<>>,
        remote |-> up.branches, default |-> up.default, tags |-> up.tags,
        shallow |-> shallow # Nothing,
        known |-> IF shallow = Nothing THEN Ancestry(Tips(up)) ELSE Tips(up)]

(* git fetch: branches follow, those that are gone stay, and so do tags that *)
(* were moved.                                                               *)
Fetched(c, up) ==
    [c EXCEPT !.remote = Over(up.branches, @), !.tags = Over(@, up.tags), !.shallow = FALSE,
              !.known = Ancestry(@ \cup Tips(up))]

(* git pull on a branch: fast-forward, or when the branch was rewritten, a   *)
(* merge or an error, as Git is set up.                                      *)
Pull(c, up, merges) ==
    LET f == Fetched(c, up)
        mine == c.local[c.head]
        new == up.branches[c.head]
    IN IF c.head \notin DOMAIN up.branches THEN [ok |-> FALSE, clone |-> <<f>>]
       ELSE IF IsPrefix(mine, new)
            THEN [ok |-> TRUE, clone |-> <<[f EXCEPT !.local[c.head] = new]>>]
       ELSE IF IsPrefix(new, mine) THEN [ok |-> TRUE, clone |-> <<f>>]
       ELSE IF merges
            THEN LET m == Append(new, "merge")
                 IN [ok |-> TRUE, clone |-> <<[f EXCEPT !.local[c.head] = m, !.known = @ \cup {m}]>>]
       ELSE [ok |-> FALSE, clone |-> <<f>>]

(* _unshallow: from a tag, to the default branch first.                      *)
Unshallow(c, up, merges) ==
    LET on == IF c.head # Nothing THEN c
              ELSE [c EXCEPT !.head = c.default,
                             !.local = [x \in {c.default} |-> c.remote[c.default]]]
    IN Pull(on, up, merges)

(* resolve_rev: a commit, a tag, a local branch, or a branch of origin; a    *)
(* name that looks like a hash is not looked for in origin.                  *)
DefaultRev == <<"refs/remotes/origin/HEAD">>

Resolve(c, rev) ==
    CASE rev = DefaultRev -> c.remote[c.default]
      [] rev \in c.known -> rev
      [] rev \in DOMAIN c.tags -> c.tags[rev]
      [] rev \notin DOMAIN c.tags /\ rev \in DOMAIN c.local -> c.local[rev]
      [] /\ rev \notin DOMAIN c.tags \cup DOMAIN c.local
         /\ ~IsSha(rev) /\ rev \in DOMAIN c.remote -> c.remote[rev]
      [] OTHER -> Nothing

-----------------------------------------------------------------------------
(* external_repo: the clone of a URL, <<>> at first, and the commit that  *)
(* is opened in it.                                                          *)

(* _clone_default_branch: a commit that is there needs no pull.              *)
Update(clone, up, rev, merges) ==
    IF clone = <<>>
    THEN LET shallow == IF rev # Nothing /\ ~IsSha(rev)
                           /\ rev \in DOMAIN up.branches \cup DOMAIN up.tags
                        THEN rev ELSE Nothing
         IN [ok |-> TRUE, clone |-> <<Clone(up, shallow)>>]
    ELSE IF rev # Nothing /\ IsSha(rev) /\ Resolve(clone[1], rev) # Nothing
         THEN [ok |-> TRUE, clone |-> clone]
    ELSE IF clone[1].shallow THEN Unshallow(clone[1], up, merges)
    ELSE Pull(clone[1], up, merges)

(* external_repo, for reading: the tree of the revision that was asked for,  *)
(* or of the default branch of the clone.                                    *)
Open(clone, up, rev, merges) ==
    LET u == Update(clone, up, rev, merges)
        commit == Resolve(u.clone[1], IF rev = Nothing THEN DefaultRev ELSE rev)
    IN [ok |-> u.ok /\ commit # Nothing, clone |-> u.clone, commit |-> commit]

-----------------------------------------------------------------------------
(* RepoDependency: rev is what was asked for, lock what was imported, out    *)
(* what the workspace has of it.                                             *)

Locked(d) == IF d.lock # Nothing THEN d.lock ELSE d.rev

(* download: the commit and its data are of one tree. What the stage records *)
(* is written after the whole import or update (repo/update.py).             *)
Download(clone, up, d, merges) ==
    LET o == Open(clone, up, Locked(d), merges)
    IN IF ~o.ok THEN [ok |-> FALSE, clone |-> o.clone, dep |-> d]
       ELSE [ok |-> TRUE, clone |-> o.clone,
             dep |-> [d EXCEPT !.lock = IF @ = Nothing THEN o.commit ELSE @,
                               !.out = DataOf(o.commit)]]

(* imp.                                                                      *)
Import(clone, up, rev, merges) ==
    Download(clone, up, [rev |-> rev, lock |-> Nothing, out |-> Nothing], merges)

(* update, update_import and sync_import: nothing is downloaded when the     *)
(* lock is the same and the output is there; otherwise the output is removed *)
(* first.                                                                    *)
UpdateImport(clone, up, d, rev, merges) ==
    LET e == IF rev = Nothing THEN d ELSE [d EXCEPT !.rev = rev]
        o == Open(clone, up, e.rev, merges)
        r == Download(o.clone, up, [e EXCEPT !.lock = o.commit], merges)
    IN IF ~o.ok THEN [ok |-> FALSE, clone |-> o.clone, dep |-> d]
       ELSE IF o.commit = d.lock /\ e.rev = d.rev /\ d.out # Nothing
            THEN [ok |-> TRUE, clone |-> o.clone, dep |-> d]
       ELSE IF r.ok THEN r ELSE [r EXCEPT !.dep = [d EXCEPT !.out = Nothing]]

(* workspace_status: the data of the lock and of the revision.               *)
Status(clone, up, d, merges) ==
    LET o == Open(clone, up, Locked(d), merges)
        p == Open(o.clone, up, d.rev, merges)
    IN [ok |-> o.ok /\ p.ok, clone |-> p.clone,
        available |-> o.ok /\ p.ok /\ DataOf(o.commit) # DataOf(p.commit)]

-----------------------------------------------------------------------------
(* What the importing project relies on.                                     *)

Upstream(up, rev) ==
    CASE rev = Nothing -> up.branches[up.default]
      [] rev # Nothing /\ rev \in DOMAIN up.tags -> up.tags[rev]
      [] rev # Nothing /\ rev \in DOMAIN up.branches /\ rev \notin DOMAIN up.tags -> up.branches[rev]
      [] OTHER -> rev

(* The clone has seen nothing that was rewritten since: no branch but for    *)
(* new commits, no moved tag, no other default.                              *)
Followed(clone, up) ==
    \A i \in DOMAIN clone :
        LET c == clone[i] IN
        /\ \A b \in DOMAIN c.local :
               b \in DOMAIN up.branches /\ IsPrefix(c.local[b], up.branches[b])
        /\ IsPrefix(c.remote[c.default], up.branches[up.default])
        /\ \A t \in DOMAIN c.tags : t \in DOMAIN up.tags /\ c.tags[t] = up.tags[t]
        /\ c.default = up.default

(* An open repository is the one of now, whatever was opened before: "even   *)
(* if we have already cloned this repo, we may need to fetch" (_cached_clone)*)
OpensCurrent(clone, up, rev, merges) ==
    LET o == Open(clone, up, rev, merges)
    IN /\ Followed(clone, up)
       /\ Upstream(up, rev) \in Ancestry(Tips(up))
       /\ ~(IsSha(rev) /\ rev \in DOMAIN up.branches)
       => o.ok /\ o.commit = Upstream(up, rev)

(* What is recorded is what was imported, and importing it again gives the   *)
(* same, however the branches move.                                          *)
LockIsData(d) == d.lock # Nothing /\ d.out = DataOf(d.lock)

Reproducible(clone, later, d, merges) ==
    LET again == Download(clone, later, d, merges)
    IN again.ok => again.dep = d

(* An update is reported as available exactly when it would change the data, *)
(* and after it none is.                                                     *)
StatusTells(clone, up, d, merges) ==
    LET s == Status(clone, up, d, merges)
        u == UpdateImport(clone, up, d, Nothing, merges)
    IN s.ok /\ u.ok =>
        /\ s.available <=> u.dep.out # d.out
        /\ LET t == Status(u.clone, up, u.dep, merges) IN t.ok => ~t.available
=============================================================================
