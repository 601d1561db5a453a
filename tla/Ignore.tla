------------------------------- MODULE Ignore --------------------------------
(* ignore.py and pathspec_math.py: which paths of a repository are ignored.  *)
(* The patterns of all .dvcignore files above a directory are moved to the   *)
(* root and put in one list, of which the last pattern that matches decides. *)
(*                                                                           *)
(* A pattern is the names it spells, with what "!", a slash at the end, and  *)
(* a slash before it mean.                                                   *)
EXTENDS Naturals, Sequences, FiniteSets, SequencesExt

Pattern(P) == [neg : BOOLEAN, dirOnly : BOOLEAN, deep : BOOLEAN, base : {<<>>}, path : P]

(* GitWildMatchPattern: a pattern matches its target and all that is in it. *)
Targets(t, q) ==
    {n \in 1..Len(q) :
        LET head == SubSeq(q, 1, n) IN
        IF t.deep THEN IsPrefix(t.base, head) /\ IsSuffix(t.path, head)
                         /\ n >= Len(t.base) + Len(t.path)
        ELSE head = t.base \o t.path}
Matches(t, q, isDir) == \E n \in Targets(t, q) : t.dirOnly => n < Len(q) \/ isDir

(* DvcIgnorePatterns.ignore: the last that matches decides.                 *)
Decides(T, q, isDir) == {i \in DOMAIN T : Matches(T[i], q, isDir)}
IgnoredBy(T, q, isDir) ==
    LET S == Decides(T, q, isDir)
    IN S # {} /\ \A i \in S : (\A j \in S : j <= i) => ~T[i].neg

(* change_rule, _change_dirname: a pattern of the directory rel, for the    *)
(* root.                                                                    *)
Rebased(T, rel) == [i \in DOMAIN T |-> [T[i] EXCEPT !.base = rel \o @]]

(* merge_patterns, when the first list is of a directory above.             *)
MergePatterns(A, B, rel) == A \o Rebased(B, rel)

IgnoreFile == ".dvcignore"

(* DvcIgnoreFilter._update and _update_sub_repo: the list of a directory,   *)
(* from that of its parent, its own .dvcignore unless that is ignored, and  *)
(* the repositories in it. files has the patterns of each .dvcignore.       *)
OwnPatterns(old, files, d) ==
    IF d \in DOMAIN files /\ ~IgnoredBy(old, Append(d, IgnoreFile), FALSE)
    THEN MergePatterns(old, files[d], d) ELSE old

SubRepo(s) == [neg |-> FALSE, dirOnly |-> TRUE, deep |-> FALSE, base |-> <<>>, path |-> <<s>>]

Patterns(files, subrepos, d) ==
    LET names(e) == SetToSeq({Last(s) : s \in {s \in subrepos : Front(s) = e}})
        list[n \in 0..Len(d)] ==
            LET e == SubSeq(d, 1, n)
                own == OwnPatterns(IF n = 0 THEN <<>> ELSE list[n - 1], files, e)
                subs == [i \in DOMAIN names(e) |-> SubRepo(names(e)[i])]
            IN MergePatterns(own, subs, e)
    IN list[Len(d)]

(* is_ignored_dir and is_ignored_file. *)
IsIgnored(files, subrepos, q, isDir) == IgnoredBy(Patterns(files, subrepos, Front(q)), q, isDir)

(* DvcIgnoreFilter.__call__ in a walk: what is in a directory that is       *)
(* ignored is not looked at.                                                *)
Walked(files, subrepos, q, isDir) ==
    \A n \in 1..Len(q) : ~IsIgnored(files, subrepos, SubSeq(q, 1, n), n < Len(q) \/ isDir)

-----------------------------------------------------------------------------
(* gitignore: a path is ignored when one of the directories above it is, or *)
(* when the last pattern for exactly this path says so, those of deeper     *)
(* directories being later.                                                 *)
GitMatches(t, q, isDir) ==
    /\ t.dirOnly => isDir
    /\ IF t.deep THEN IsSuffix(t.path, q) ELSE q = t.path

GitIgnores(files, q, isDir) ==
    LET S == {s \in (0..(Len(q) - 1)) \X (1..9) :
                /\ SubSeq(q, 1, s[1]) \in DOMAIN files
                /\ s[2] \in DOMAIN files[SubSeq(q, 1, s[1])]
                /\ GitMatches(files[SubSeq(q, 1, s[1])][s[2]], SubSeq(q, s[1] + 1, Len(q)), isDir)}
        later(s, u) == s[1] > u[1] \/ (s[1] = u[1] /\ s[2] >= u[2])
    IN \E s \in S : (\A u \in S : later(s, u)) /\ ~files[SubSeq(q, 1, s[1])][s[2]].neg

GitWalked(files, q, isDir) ==
    \A n \in 1..Len(q) : ~GitIgnores(files, SubSeq(q, 1, n), n < Len(q) \/ isDir)

(* A pattern with "!" that names a directory takes back what earlier ones   *)
(* say of all that is in it, which gitignore does not.                      *)
Unignores(files, q) ==
    \E d \in DOMAIN files : \E i \in DOMAIN files[d] :
        /\ IsPrefix(d, q) /\ files[d][i].neg
        /\ \E n \in 1..(Len(q) - 1) : n \in Targets(Rebased(files[d], d)[i], q)

(* "All the operations follow the documents of `gitignore`"                 *)
(* (pathspec_math.py): a walk sees the same paths.                          *)
FollowsGitignore(files, q, isDir) ==
    ~Unignores(files, q) => (Walked(files, {}, q, isDir) <=> GitWalked(files, q, isDir))

(* exists, isfile and isdir of LocalTree do not look at the directories     *)
(* above: they answer like a walk wherever nothing is taken back.           *)
AnswersLikeWalk(files, subrepos, q, isDir) ==
    (\A d \in DOMAIN files : \A i \in DOMAIN files[d] : ~files[d][i].neg) =>
        (Walked(files, subrepos, q, isDir) <=> ~IsIgnored(files, subrepos, q, isDir))

(* A repository in a directory is out of sight, whatever the patterns say.  *)
SubreposHidden(files, subrepos, q, isDir) ==
    (\E s \in subrepos : IsPrefix(s, q) /\ (s # q \/ isDir)) => ~Walked(files, subrepos, q, isDir)
=============================================================================
