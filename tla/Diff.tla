--------------------------------- MODULE Diff ----------------------------------
(* What changed between two commits, or a commit and the workspace: dvc diff *)
(* for outputs (repo/diff.py), the status of parameters (dependency/param.py)*)
(* and the diffs of parameters and metrics (utils/diff.py).                  *)
(*                                                                           *)
(* Data stands for its hash: a file is a directory of one nameless entry.    *)
EXTENDS Naturals, Sequences, FiniteSets, SequencesExt

CONSTANTS None,       \* no file, no value
          Unparsed,   \* "unable to parse", shown for the value of a mapping
          Number(_),  \* the values that metrics may have
          Dotted(_)   \* a path with its names joined, as a path of one name

FileOf(c) == [dir |-> FALSE, entries |-> [n \in {""} |-> c]]

-----------------------------------------------------------------------------
(* dvc diff. A line names an output <<p>>, a directory <<p, "/">> or an entry*)
(* of a directory <<p, n>>. outs is what the stages record at each path, disk*)
(* what is there, cached the files and the listings of directories in the    *)
(* cache.                                                                    *)

Label(p, out) == IF out.dir THEN <<p, "/">> ELSE <<p>>

(* brancher: the revisions of one commit are yielded together, as one name.  *)
Yielded(revs, commitOf) == {{r \in revs : commitOf[r] = c} : c \in {commitOf[r] : r \in revs}}

(* _output_paths, of a commit: what is recorded, as far as the listings are  *)
(* there.                                                                    *)
OfCommit(outs, cached) ==
    LET tops == {<<p, Label(p, outs[p])>> : p \in DOMAIN outs}
        inside == UNION {{<<p, n>> : n \in DOMAIN outs[p].entries} :
                            p \in {p \in DOMAIN outs : outs[p].dir /\ outs[p] \in cached}}
    IN [k \in {t[2] : t \in tops} \cup inside |->
            IF k \in inside THEN FileOf(outs[k[1]].entries[k[2]]) ELSE outs[k[1]]]

(* _output_paths, of the workspace: outputs are hashed; of the entries of a  *)
(* directory the hash that was recorded is taken (RepoTree.get_file_hash),   *)
(* and only new ones are hashed. Hashing a directory saves its listing.      *)
Listed(outs, disk, cached) ==
    cached \cup {disk[p] : p \in {p \in DOMAIN outs \cap DOMAIN disk : disk[p].dir}}

OfWorkspace(outs, disk, cached) ==
    LET there == DOMAIN outs \cap DOMAIN disk
        walked == {p \in there : outs[p].dir /\ disk[p].dir /\ outs[p] \in Listed(outs, disk, cached)}
        inside == UNION {{<<p, n>> : n \in DOMAIN disk[p].entries} : p \in walked}
        entry(k) == IF k[2] \in DOMAIN outs[k[1]].entries THEN outs[k[1]].entries[k[2]]
                    ELSE disk[k[1]].entries[k[2]]
    IN [k \in {Label(p, outs[p]) : p \in there} \cup inside |->
            IF k \in inside THEN FileOf(entry(k)) ELSE disk[k[1]]]

(* changed_cache: the listing or an entry of an output is not in the cache.  *)
NotInCache(out, cached) ==
    \/ out \notin cached
    \/ out.dir /\ \E n \in DOMAIN out.entries : FileOf(out.entries[n]) \notin cached

(* RepoTree.metadata finds paths on disk and those at or below an output.    *)
OnDisk(k, disk) ==
    /\ k[1] \in DOMAIN disk
    /\ \/ Len(k) = 1 \/ k[2] = "/"
       \/ disk[k[1]].dir /\ k[2] \in DOMAIN disk[k[1]].entries
Found(k, outs, disk) == k[1] \in DOMAIN outs \/ OnDisk(k, disk)

Missing(gone, outs, cached) == {k \in gone : k[1] \in DOMAIN outs /\ NotInCache(outs[k[1]], cached)}

Compare(old, new, missing) ==
    [ok |-> TRUE, added |-> DOMAIN new \ DOMAIN old, missing |-> missing,
     deleted |-> (DOMAIN old \ DOMAIN new) \ missing,
     modified |-> {k \in DOMAIN old \cap DOMAIN new : old[k] # new[k]}]
Failed == [ok |-> FALSE, added |-> {}, missing |-> {}, deleted |-> {}, modified |-> {}]

(* diff of two commits: results[a_rev] is there when no other name of the    *)
(* same commit was yielded with it.                                          *)
DiffCommits(a, b, revs, commitOf, outsOf, cached) ==
    IF {a} \notin Yielded(revs, commitOf) \/ a = b THEN Failed
    ELSE Compare(OfCommit(outsOf[commitOf[a]], cached), OfCommit(outsOf[commitOf[b]], cached), {})

(* diff of a commit and the workspace, which is hashed first; a path that is *)
(* gone and no output any more makes _filter_missing fail.                   *)
DiffWorkspace(old, outs, disk, cached) ==
    LET after == Listed(outs, disk, cached)
        new == OfWorkspace(outs, disk, cached)
        was == OfCommit(old, after)
        gone == DOMAIN was \ DOMAIN new
    IN IF \E k \in gone : ~Found(k, outs, disk) THEN Failed
       ELSE Compare(was, new, Missing(gone, outs, after))

Lines(d) == d.added \cup d.deleted \cup d.modified \cup d.missing

-----------------------------------------------------------------------------
(* ParamsDependency: params are the names that a stage tracks, lock the      *)
(* values in dvc.lock, file those of the file, <<>> if there is none.        *)

Only(params, values) == [p \in params \cap DOMAIN values |-> values[p]]
FillValues(params, lock) == Only(params, lock)

(* get_hash: a parameter that is missing is an error.                        *)
ReadParams(params, file) == IF file = <<>> THEN <<>> ELSE Only(params, file[1])
ParamsMissing(params, file) == params \ DOMAIN ReadParams(params, file) # {}

(* workspace_status, which hashes the file first (changed_checksum), so that *)
(* no parameter is ever reported as deleted.                                 *)
ParamsStatus(params, lock, file) ==
    LET saved == FillValues(params, lock)
        actual == ReadParams(params, file)
    IN IF file = <<>> THEN [ok |-> TRUE, deleted |-> TRUE, new |-> {}, modified |-> {}]
       ELSE IF ParamsMissing(params, file) THEN [ok |-> FALSE, deleted |-> FALSE, new |-> {}, modified |-> {}]
       ELSE [ok |-> TRUE, deleted |-> FALSE, new |-> params \ DOMAIN saved,
             modified |-> {p \in params \cap DOMAIN saved : actual[p] # saved[p]}]
Unchanged(s) == s.ok /\ ~s.deleted /\ s.new = {} /\ s.modified = {}

-----------------------------------------------------------------------------
(* utils/diff.py: a file holds a mapping, given by its leaves, or one value. *)

(* _flatten, as a value for every path: what is no mapping has no paths.     *)
AtPath(v, x) ==
    CASE v.map -> IF x \in DOMAIN v.leaves THEN v.leaves[x] ELSE None
      [] ~v.map /\ v.val = None -> None
      [] OTHER -> Unparsed

(* _diff and _diff_dicts; without all, only what differs. *)
DiffFile(old, new, all) ==
    LET mapping == old.map \/ new.map
        paths == IF mapping THEN DOMAIN old.leaves \cup DOMAIN new.leaves ELSE {<<>>}
        of(v, x) == IF mapping THEN AtPath(v, x) ELSE v.val
    IN {d \in {[path |-> x, old |-> of(old, x), new |-> of(new, x)] : x \in paths} :
            all \/ d.old # d.new}

NoFile == [map |-> FALSE, val |-> None, leaves |-> <<>>]
DiffFiles(old, new, all) ==
    LET of(fs, f) == IF f \in DOMAIN fs THEN fs[f] ELSE NoFile
        changes == [f \in DOMAIN old \cup DOMAIN new |-> DiffFile(of(old, f), of(new, f), all)]
    IN [f \in {f \in DOMAIN changes : changes[f] # {}} |-> changes[f]]

(* _extract_metrics and _read_metrics: numbers, and files that have some.    *)
Extract(v) == [v EXCEPT !.val = IF Number(@) THEN @ ELSE None,
                        !.leaves = [x \in {x \in DOMAIN @ : Number(@[x])} |-> @[x]]]
Metrics(files) ==
    LET of == [f \in DOMAIN files |-> Extract(files[f])]
    IN [f \in {f \in DOMAIN of : of[f].val # None \/ DOMAIN of[f].leaves # {}} |-> of[f]]

(* collect: the files of all metrics, or those of the targets; a directory   *)
(* only when asked to look into it.                                          *)
Collected(outs, targets, recursive, files) ==
    IF targets = {} THEN outs
    ELSE {f \in files : f \in targets \/ (recursive /\ \E t \in targets : IsStrictPrefix(t, f))}
MetricsOf(outs, targets, recursive, files) ==
    LET found == Collected(outs, targets, recursive, DOMAIN files) \cap DOMAIN files
    IN Metrics([f \in found |-> files[f]])

(* params show: the files that stages depend on, and params.yaml, as far as  *)
(* they are there and parse. The variables that the interpolation of stages  *)
(* has used are added under their dotted names, also where they are shown    *)
(* already: "if file in configs" compares a string with paths.               *)
ReadConfigs(configs, files, corrupt) == [f \in (configs \cap DOMAIN files) \ corrupt |-> files[f]]
AddVars(params, vars) ==
    LET added(f) == [k \in {Dotted(x) : x \in DOMAIN vars[f]} |->
                        vars[f][CHOOSE x \in DOMAIN vars[f] : Dotted(x) = k]]
        of(f) == IF f \in DOMAIN params THEN params[f].leaves ELSE <<>>
        with(f) == [k \in DOMAIN added(f) \cup DOMAIN of(f) |->
                       IF k \in DOMAIN added(f) THEN added(f)[k] ELSE of(f)[k]]
    IN [f \in DOMAIN params \cup DOMAIN vars |->
           IF f \in DOMAIN vars THEN [map |-> TRUE, val |-> None, leaves |-> with(f)] ELSE params[f]]
Params(configs, files, corrupt, vars) == AddVars(ReadConfigs(configs, files, corrupt), vars)

(* flatten_dict does not accept two paths with the same dotted name. *)
Flattens(v) == \A x, y \in DOMAIN v.leaves : Dotted(x) = Dotted(y) => x = y
Flat(v) == [v EXCEPT !.leaves = [k \in {Dotted(x) : x \in DOMAIN @} |-> @[CHOOSE x \in DOMAIN @ : Dotted(x) = k]]]
DiffParams(old, new) ==
    LET all == {old[f] : f \in DOMAIN old} \cup {new[f] : f \in DOMAIN new}
        flat(fs) == [f \in DOMAIN fs |-> Flat(fs[f])]
    IN IF \A v \in all : Flattens(v) THEN [ok |-> TRUE, files |-> DiffFiles(flat(old), flat(new), FALSE)]
       ELSE [ok |-> FALSE, files |-> <<>>]

(* show: of what was read in each revision, the workspace is left out when it*)
(* is like the active branch; _get_metrics takes one revision of it.         *)
Show(read, active) ==
    IF active \in DOMAIN read /\ "workspace" \in DOMAIN read /\ read["workspace"] = read[active]
    THEN [r \in DOMAIN read \ {"workspace"} |-> read[r]] ELSE read
Taken(read, active, rev) ==
    IF rev \in DOMAIN Show(read, active) THEN Show(read, active)[rev] ELSE <<>>

-----------------------------------------------------------------------------
(* What a user may conclude from them.                                       *)

(* Nothing is shown only when every output of the commit is there unchanged  *)
(* and there are no others (diff: "compares the workspace with the last      *)
(* commit's tree").                                                          *)
NothingMissed(old, outs, disk, cached) ==
    LET d == DiffWorkspace(old, outs, disk, cached)
    IN d.ok /\ Lines(d) = {} => old = [p \in DOMAIN outs \cap DOMAIN disk |-> disk[p]]

(* Where the directories are as recorded and their listings in the cache, the*)
(* lines are exactly the files and directories that differ.                  *)
Truth(outs) == OfCommit(outs, {outs[p] : p \in DOMAIN outs})
ExactLines(old, outs, disk, cached) ==
    LET d == DiffWorkspace(old, outs, disk, cached)
        now == Truth([p \in DOMAIN outs \cap DOMAIN disk |-> disk[p]])
        was == Truth(old)
    IN /\ d.ok /\ {old[p] : p \in DOMAIN old} \subseteq cached
       /\ \A p \in DOMAIN outs \cap DOMAIN disk : outs[p].dir \/ disk[p].dir => disk[p] = outs[p]
       => /\ d.added = DOMAIN now \ DOMAIN was
          /\ d.deleted \cup d.missing = DOMAIN was \ DOMAIN now
          /\ d.modified = {k \in DOMAIN was \cap DOMAIN now : was[k] # now[k]}

(* What is shown as deleted, of an output that is still there, can be checked*)
(* out again; what is shown as not in cache belongs to an output that cannot.*)
DeletedIsRestorable(old, outs, disk, cached) ==
    LET d == DiffWorkspace(old, outs, disk, cached)
        after == Listed(outs, disk, cached)
    IN /\ \A k \in d.deleted : k[1] \in DOMAIN outs => ~NotInCache(outs[k[1]], after)
       /\ \A k \in d.missing : NotInCache(outs[k[1]], after)

(* Parameters are reported as changed exactly when saving the stage would    *)
(* record other values than dvc.lock has, and an unchanged file is not an    *)
(* error (workspace_status against get_hash, which runs record).             *)
StatusIsHash(params, lock, file) ==
    LET s == ParamsStatus(params, lock, file)
    IN params # {} =>
        /\ Unchanged(s) <=> /\ ~ParamsMissing(params, file)
                            /\ FillValues(params, lock) = ReadParams(params, file)
        /\ file = <<lock>> /\ ~ParamsMissing(params, file) => Unchanged(s)

NumbersOf(files, f) ==
    IF f \notin DOMAIN files THEN <<>>
    ELSE IF files[f].map THEN Extract(files[f]).leaves
    ELSE [x \in {y \in {<<>>} : Number(files[f].val)} |-> files[f].val]

(* Whatever else is in the files, every number that differs is in the diff of*)
(* the metrics, and nothing else is, unless a file turned from one number    *)
(* into a mapping, which is never passed over either.                        *)
NumbersReported(old, new) ==
    LET d == DiffFiles(Metrics(old), Metrics(new), FALSE)
        of(n, x) == IF x \in DOMAIN n THEN n[x] ELSE None
    IN \A f \in DOMAIN old \cup DOMAIN new :
        LET was == NumbersOf(old, f)
            now == NumbersOf(new, f)
            turned == <<>> \in DOMAIN was \cup DOMAIN now /\ DOMAIN was # DOMAIN now
                      /\ was # <<>> /\ now # <<>>
        IN /\ f \in DOMAIN d <=> was # now
           /\ f \in DOMAIN d /\ ~turned =>
                 d[f] = {[path |-> x, old |-> of(was, x), new |-> of(now, x)] :
                            x \in {x \in DOMAIN was \cup DOMAIN now : of(was, x) # of(now, x)}}

(* Asking for some metrics shows of them what asking for all does.           *)
TargetsAgree(outs, targets, recursive, files) ==
    LET some == MetricsOf(outs, targets, recursive, files)
        all == MetricsOf(outs, {}, FALSE, files)
    IN \A f \in outs \cap DOMAIN files :
        /\ f \in DOMAIN some => f \in DOMAIN all /\ some[f] = all[f]
        /\ f \in targets /\ f \in DOMAIN all => f \in DOMAIN some

(* What is in a file of parameters, and of other files what stages use of    *)
(* them, is in the diff when it changes, unless the diff fails, which it does*)
(* just when a nested value of a file that is shown anyway is used.          *)
Used(f, files, vars) == [x \in vars[f] |-> files[f].leaves[x]]
ParamsReported(configs, old, new, vars) ==
    LET used(files) == [f \in DOMAIN vars \cap DOMAIN files |-> Used(f, files, [vars EXCEPT ![f] = @ \cap DOMAIN files[f].leaves])]
        d == DiffParams(Params(configs, old, {}, used(old)), Params(configs, new, {}, used(new)))
        shown(f, files) == IF f \notin DOMAIN files THEN {}
                           ELSE IF f \in configs THEN DOMAIN files[f].leaves
                           ELSE IF f \in DOMAIN vars THEN vars[f] \cap DOMAIN files[f].leaves ELSE {}
        value(f, files, x) == IF x \in shown(f, files) THEN files[f].leaves[x] ELSE None
        nested(files) == \E f \in configs \cap DOMAIN vars \cap DOMAIN files :
                            \E x \in vars[f] \cap DOMAIN files[f].leaves : Len(x) > 1
    IN /\ d.ok <=> ~nested(old) /\ ~nested(new)
       /\ d.ok => \A f \in DOMAIN old \cup DOMAIN new : \A x \in shown(f, old) \cup shown(f, new) :
              LET line == [path |-> Dotted(x), old |-> value(f, old, x), new |-> value(f, new, x)]
              IN line.old # line.new <=> f \in DOMAIN d.files /\ line \in d.files[f]
=============================================================================
