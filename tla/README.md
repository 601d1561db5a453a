# DVC: locks, data and remotes in TLA+

Models of the parts of DVC (`src/dvc`) in which the order of steps, or the
combination of inputs, decides whether data survives: the locks that processes
share, the commands that keep workspace, cache, `dvc.lock`, state database and
run cache in step, the files that say which stages there are, remotes and the
trees that reach them, experiments and checkpoints, and the algorithms on which
these rest.  TLC checks each on a small instance; TLAPS proves the central
invariants for every value of the constants.

Run TLC on the module and the `.cfg` that `PROJECT.json` lists for a run, e.g.
`tlc -config MCRWLock.cfg MCRWLock`; check proofs with `tlapm RWLockProofs.tla`.

1. [The system](#the-system)
2. [Modules](#modules)
3. [Runs, bounds and fairness](#runs)
4. [Proofs](#proofs)
5. [Findings](#findings), and [what the properties except](#what-the-properties-except)
6. [Not modelled](#not-modelled), and [what is left](#what-is-left)

## The system

DVC versions data beside git.  A *stage* has a command, dependencies and
outputs; it lives in `dvc.yaml` (with its hashes in `dvc.lock`) or, for a data
source, in a `.dvc` file.  Outputs are kept by hash in the *cache*
(`.dvc/cache`) and linked into the workspace.  Clones of one git repository
exchange cached objects through *remotes*.

| Component | State | Operations | Hard because | Module |
|---|---|---|---|---|
| Repository lock (`lock.py`, `repo/__init__.py`) | `.dvc/tmp/lock` | lock with retries, unlock; given up while a command runs (`unlocked_repo`), taken back for checkpoints (`relock_repo`) | time-outs, processes that die, hard-link locks that outlive them | `RWLock` |
| Path locks (`rwlock.py`) | JSON file of readers and writers | acquire and release, nested per stage method | read-truncate-write without atomicity, entries of dead processes | `RWLock` |
| Stages (`stage/`, `repo/reproduce.py`) | stage objects, `dvc.lock`, `.dvc` files | reproduce, run, save, commit, checkout | long sequences, failures half way, users who edit | `Pipeline` |
| Run cache (`stage/cache.py`) | entries by command and dependencies | save, restore | entries outlive the outputs they name | `Pipeline` |
| Cache (`cache/`, `output/`) | objects by hash, links | save, commit, checkout, safe_remove, gc | two-step moves, trust in read-only objects | `Pipeline`, `LocalData` |
| State database (`state.py`) | hash by inode, mtime, size; links | save, get, VACUUM | staleness, width of integers, a transaction per command | `State`, `LocalData` |
| Versions of a directory (`dir_info.py`) | listings | three-way merge in a git merge driver | every combination of added, removed and changed | `DirInfo`, `LocalData` |
| Stage files (`dvcfile.py`, `stage/`, `repo/`) | `dvc.yaml`, `dvc.lock`, `.dvc`, `.gitignore` | run, add, import-url, update, repro, remove, move, freeze | several files per change, rewritten in place, the lock given up in between | `StageFiles` |
| Graph (`repo/graph.py`, `repo/trie.py`) | stages and edges | overlap, cycles, the plan of repro | frozen stages, targets inside directories | `Graph` |
| Parametrisation (`parsing/`) | contexts | load, merge, resolve, foreach | the order of merging, what is recorded as used | `Parsing` |
| Experiments (`repo/experiments`) | git stash as queue, references, executors | run, queue, run-all, gc, apply, branch, push, pull | executors side by side, a workspace put aside and brought back | `Experiments` |
| Checkpoints (`stage/run.py`, `api.py`) | signal file, monitor thread | signal, callback, kill | two threads and child processes | `Checkpoint` |
| Remote (`remote/`, `data_cloud.py`) | objects; the index in every clone | push, pull, status, gc | no locks across clones, partial failure, stale index | `RemoteSync` |
| Trees (`tree/`) | a store of objects for each kind of cloud | upload, download, exists, walk, remove | parts of objects, retries, directories that are only prefixes | `Trees`, `Listing` |
| Queries of a remote (`cache/base.py`) | | hashes_exist, all | estimates from a part of the remote | `Query` |
| Configuration (`config.py`) | files of four levels | remote add, modify, remove, rename, default | names that refer across levels | `Config` |
| External repositories (`external_repo.py`) | clones kept by a process | import, update, get, ls, status | branches that move, clones reused | `External`, `ExternalFiles` |
| Views (`tree/repo.py`, `tree/dvc.py`) | two generators | exists, isdir, open, walk | two walks advanced in step | `Overlay` |
| Ignore rules (`ignore.py`, `pathspec_math.py`) | lists of patterns | merge, match | the last match decides, across directories | `Ignore` |
| Diffs (`repo/diff.py`, `repo/params`, `repo/metrics`) | | diff, params diff, metrics diff | missing objects, uncommitted listings | `Diff` |

How they meet: a command takes the repository lock; methods of a stage take
path locks; a stage's methods call outputs, which call the cache, which asks the
state database, links and moves files; `dump` then writes what was saved.
`push`, `pull` and `gc` collect the objects that stages name (`used_cache`) and
hand them to the remote or the cache; the remote asks its tree.  `exp run` puts
the workspace aside and lets executors run `repro` in directories of their own.
Nothing joins two clones but the remote and git.

What makes each correct:

* locks: two processes never work on overlapping paths when one writes; no
  process leaves an entry behind, or hangs;
* pipeline and data: objects hold what their hash says; what is recorded can be
  restored; a record of a run tells what the command makes of its dependencies;
  repro ends with everything up to date; the state database never vouches for a
  hash that is wrong; no command loses the only copy of a file;
* stage files: no command loses another stage's record; what was checked before
  a command ran still holds when it is written down;
* experiments: the user's changes, the queue and the results survive failures,
  interrupts and crashes, and what was recorded only grows;
* remote and trees: whoever finds a directory on the remote finds its files, and
  whoever finds an object finds all of it; what a clone believes about the remote
  without asking is true; every kind of tree answers alike;
* algorithms: each agrees with a definition that does not follow its code.

`PROJECT.json` lists the hazards one by one, with the line where each bites.

## Modules

### RWLock

`Lock`, `rwlock` and the decorators of `Stage` (`MCRWLock`, `RWLockProofs`).
`repoLock` is the owner of `.dvc/tmp/lock`, `file` the content of
`.dvc/tmp/rwlock`, and each process has a stack `frames` of rwlocked calls with
the entries each one added.  `Call` loads the file, looks for blockers and
changes the dictionary; `Truncate` and `Dump` are the two halves of the
rewrite; `Return` releases.  `StartCmd` gives the repository lock up and
`Relock` and `CallbackRelock` are attempts to take it back.  `Crash` kills a
process anywhere; the lock of zc.lockfile vanishes with it, that of the
hard-link implementation does not.  Which methods call which is `Callees`.
Reading: a `Corrupt` file is any content that `SCHEMA` or JSON refuses.

### Pipeline

`repro`, `commit`, `add`, `checkout` and `gc` on stages, cache, `dvc.lock` and
run cache (`MCPipeline`, `PipelineProofs`).  Hashes are named by the content they are of, so
`cache[h] = h` says that an object is intact.  `op` is the executing command:
the set of stages it has still to do, of which `First` by `Order`, a place for each
stage in a topological order, is in work; its phase, the outputs `left` in that phase,
the hashes `mem` of the stage object, and in `linking` an output that has been
removed or moved and not been linked yet.  `strays` are the contents that a
command which died in `MoveCutShort`, between the two renames of `move()`, has left
in the cache under a temporary name, until `GcRemoveStray`.  A stage of `repro` goes through
`check`, `remove`, `restored` or `run`, `save`, `runcache`, `commit`, `dump`.
Every file is a step of its own, and a command may be killed, and a user may
write, between any two.  The commands of stages are functions (`Result`) that
read their dependencies when they start.  Three history variables serve the
properties: `uncommitted` (records written with `--no-commit`), `vouched`
(records that `dvc commit --force` took from the workspace) and `meddled`
(somebody wrote while a command was executing).

Left out of it: directories, which are LocalData's subject; frozen,
always-changed, callback, import, `persist` and checkpoint outputs; writes of
`dvc.lock` that are cut off, which are StageFiles' subject; the link type, whose
effects are alternatives of `CommitOut`; two commands at a time, which is
RWLock's subject; writes through a hard link into an object, which its mode
forbids.

### LocalData, State, DirInfo

`State` is the database by itself, as operators on `[rows, links, count,
inserts]`: what `get`, `save`, `get_unused_links` and the clean-up before a
commit make of it, with inodes folded into the signed integers of sqlite.
`DirInfo` is the three-way merge.  `LocalData` (`MCLocalData`,
`LocalDataProofs`) composes them with a directory of the workspace, the cache,
and a user who writes in place, writes anew, renames, deletes, switches
branches or loses the database at any time.

A file is an inode of `disk` with an mtime, a content and a mode; `ws` and
`objs` are the names in the directory and in the cache, and `strays` the contents
under temporary names there (`MoveCutShort`, as in `Pipeline`).  The variables follow
the code: `stored` is the database on disk, `db` the transaction of the running
command, which is loaded by `Load` and committed by `Dump`, `CleanUp` and
`Count`, also when the command fails.  `Hash`, `SaveDirHash`, `CommitFile`,
`CommitDir`, `Compare`, `CheckoutFile`, `RemoveRedundant`, `CheckoutDir`,
`RemoveUnused`, `MergeDriver` and `Gc` are the steps of status, add, checkout,
merge driver and gc.  `blind` and `doubt` are histories: the inodes
whose last change no mtime and no inode number shows, since the user made it
without changing either, or since it came between the hashing of a file and the
look at its metadata, in the database and in the transaction.  `ours` and `laid`
are the version whose links DVC has recorded in each, or `None` once a change has
come that the recorded mtimes do not show.  The definitions from `FilesKnown` to
`InStride` are what the proofs need to know of a state.

### StageFiles and Graph

`Graph` has the checks a set of stages must pass (`ValidGraph`) and the plan of
`dvc repro` (`_get_pipeline`, the active graph without what only frozen stages
need, order of networkx' depth-first walk, upstream and downstream), on stages
with sets of paths.  Loops over a sequence are recursive functions of the turns
taken, and so is networkx' search (`Search`: a stack, what has been met, what has
been left), so that they can be reasoned about for graphs of any size.  `StageFiles` (`MCStageFiles`) has the files as sets of
records: `yaml`, `lock`, `dvc`, and `ignored` for `.gitignore`; `broken` has the
files that no longer parse.  `op[p]` is what a process does, its stages to do
and what it has loaded.  The commands are `Run`, `Add`, `Create`, `Import`,
`Update`, `Move`, `Freeze`, `Repro` and the `Drop...` steps of `remove`;
`Reproduce` and `Run` release `holder` for the stage's command, and whoever has
started in between may have changed every file by the time `Save` and the dumps
go on.  Each file is loaded again before it is rewritten, record by record,
as `dump` does.  `CrashWriting` leaves a file truncated.  `.gitignore` is
rewritten in place as well, by `ignore_remove`: in `IgnoreCutShort` the process dies
there and any part of the file goes, be it in `dvc remove` (`UnignoreCutShort`) or
when a failing command takes back what it has added (`Fail`, `TakenBack`).  Three
variables are histories: `overtaken`, that the repository lock was given up while
another process worked; `found`, the entries of `.gitignore` that have been there
since before a command began; and `exposed`, the entries that a command has taken
out again which it had put there itself, or that were cut off.

### Parsing

`resolve` and `DataResolver` as operators (`MCParsing`, `RemoteSyncProofs`).  Nested
data is a function from paths to nodes, each with the file and the path it was
read at (`Meta`).  `Load` is `Context.load_from_vars` with its checks for
repeated files, `Merged` is `_merge`, and `Resolved` yields for every stage, or
every element of `foreach`, its fields and the variables it is recorded to use.

### Experiments and ExperimentStore

`refs/exps`, `refs/exps/stash`, `refs/stash`, HEAD and branches
(`MCExperiments`, `ExperimentsProofs`).  A commit is the sequence of what it was built from, so an
ancestor is a prefix.  A command is a sequence of phases in `op`: `exp run`
puts the workspace aside (`StashWorkspace`), applies an experiment to resume,
detaches HEAD, commits to the queue (`PushEntry`), and puts HEAD and workspace
back (`RestoreHead`, `ResetHard`, `PopApply`, `PopDrop`), which are the
`finally` clauses of `stash_workspace` and `detach_head`; each may fail (git may
refuse to apply a stash at any time, `PopApply`), and a
failure unwinds through those that remain.  `StartRunAll`, `InitExecutors`,
`ExecCommit`, `ExecEnd` and `Collect` are the executors, side by side, and
the collection of what they have made; `StartGc`, `StartApply`, `BranchExp`,
`PushExp` and `PullExp` the other commands; what is to be dropped from the queue is
a set of indexes, of which the largest goes first; and `Interrupt` and `Crash` may come
after any step.  `OtherPush` is another clone.

`ExperimentStore` is the abstract specification: an experiment that is recorded
only grows, unless it has been permitted that it be replaced or discarded.
`StoreSpec` is that specification INSTANCEd with `refs` for its store and, for
`permit`, what the running command was asked to force or not to keep: the run
shows that every step of `Experiments` is a step of the store or a stutter.

### Checkpoint

A stage of `dvc exp run` whose commands call `make_checkpoint`
(`MCCheckpoint`, `ExperimentsProofs`).  `main` is the thread in `_run`, `monitor`
the one in `_checkpoint_run`, `proc` the process of Popen, `worker` the
processes that call `make_checkpoint`, `signal` the file between them; `done`
and `killed` are the two events.  The callback is three steps, `CallbackSave`
(hashes), `CallbackCommit` (contents, into the cache) and `CallbackRecord` (the
git commit of the experiment), and may fail at each.  `Wrapped` says that the
process of Popen is a shell around the workers, as `_make_cmd` has it for any
compound command; then `Terminate` does not reach the workers and the shell may
hide that one has died.  `HandlesTerm` says that the process may handle SIGTERM and
go on as it pleases.  A checkpoint stage runs in the temporary directory of
an executor, so a signal file is never left over from another run, but it may be
from an earlier command of the same stage.

`FirstSignalAnswered` is about the worker that creates the file.  A worker that
finds the file there may return without a checkpoint of its data: the file may
be a dead worker's, or be removed after the outputs have been saved.

### RemoteSync

`Remote.push`, `pull` and `gc` with `RemoteIndex` (`MCRemoteSync`,
`RemoteSyncProofs`).  `remote` and `cache[c]` are sets of hashes, `index[c]`
the committed index of a clone and `work[c]` the open transaction.  A command
goes through `indexed`, `new` and `files`, the three queries of `_status`, and
`transfer`; every transfer and removal is a step that may fail.  A `.dir`
object names its files by `Contents`.  `Granular` says whether a target may
lie inside a directory; `GcAlone` that nobody uses the remote while a clone
collects its garbage; `Forced` that a gc may go on although a `.dir` object in use
could not be pulled, in which case it does not know the directory's files
(`collect_used_dir_cache`); otherwise it gives up.  Only intact objects count, which is `Trees`' subject.

### Trees, Listing, Query

`Trees` (`MCTrees`, `CloudProofs`) has the threads of two processes upload, download and remove
objects on one remote.  What a kind of cloud does for an upload is a sequence of
steps (`SSHUpload`, `HDFSUpload`, `WebDAVUpload`, ...): one request for a bucket;
a temporary object, which is then renamed, for local, ssh and hdfs; writing
under the final name for webdav and webhdfs; for Google Drive `Resolve`,
`CreateDir` under a lock and the creation of a file, whose identity is not its
name.  A call may fail, may take effect and not be heard of (`PutItemUnheard`,
`DirCreatedUnheard`), and a process may be killed, which leaves its temporary
file.  `made` and `unheard` count the directories that a process has had Drive
make, and those of them for which the answer was an error.  `Download` is `_download_dir`, which cancels the other threads when one
fails.

`Listing` has exists, isfile, isdir, walk, remove and makedirs of every tree as
operators over the flat keys of a bucket and over directories, where a name
(`data2`) may begin with another.  `Query` (`CloudProofs`) is `hashes_exist`:
the estimate of the size of a remote from the hashes that start with `000`, which
may stop early, and the choice between asking for each hash and listing the
remote by prefixes.

### Config

The files of the four levels (system, global, repository, local), each with a
default remote and sections of remotes (`MCConfig`, `RemoteSyncProofs`).  `Edit` is
the context manager in which every command writes one level and validates the
whole; `Removing` and `Renaming` are loops over levels that such edits make, of
which `down` is how far they have come, so that the properties also speak of a
command that was killed between two.

### External and ExternalFiles

`External` (`MCExternal`) is a repository whose branches and tags are committed
to, rewritten, moved and deleted while a process opens revisions of it:
`Clone`, `Fetched`, `Pull`, `Unshallow` and `Resolve` are git, as
`_cached_clone` and `_git_checkout` use it, `Import`, `UpdateImport`, `Status`
and `Download` are `RepoDependency`.  `ExternalFiles` (`MCExternalFiles`) is what
comes out of such a commit: the remote it pulls from (`RemoteOf`, i.e.
`_fix_upstream`), `FetchExternal`, `GetExternal`, `Checksum` and `Ls`, on trees
with files of git, outputs, `.dvcignore` and repositories inside.

### Overlay and Ignore

`Overlay` (`MCOverlay`, `OverlayProofs`) lets a user, `dvc add` and `dvc init` make a workspace
(or a commit) and then walks it: `walk` has the generators of `_walk`, one over
files and one over outputs for every repository, and the directories whose turn
it is; `WalkBoth`, `WalkRepo`, `WalkDvc` and `EnterSubrepo` advance them as the
code does, with the names of a directory in any order a set may have.  `WalkFails` is
the KeyError of a directory of which the outputs' tree has no entry.  The tree is one
that may fetch, or stream: without either, a directory output has no entries
(`tree/dvc.py:160`).  `Exists`,
`IsDir`, `IsFile` and `Opens` are the queries of `RepoTree`.

`Ignore` has the list of patterns of a directory as `DvcIgnoreFilter` builds it
(`Patterns`, `Rebased`), and gitignore (`GitIgnores`) as its documentation
defines it, file by file.

### Diff

`dvc diff` between two commits or with the workspace, the status of parameters,
and the diffs of parameters and metrics (`MCDiff`), as operators on what the
stages record, what is on disk and what is in the cache.

## Runs

| Run | Instance | Shows |
|---|---|---|
| `rwlock` | 2 processes, 2 stages, one writing a directory in which the other reads a file, 3 calls per command, 2 attempts per lock, 1 crash | exclusion, assertions of the release, no leaks, every start of a command ends |
| `rwlock_relock` | as above with a third stage, 2 calls, hard-link lock | violation: see findings |
| `remote` | 2 clones, 2 directories that share a file, 4 commands | complete directories, sound index, complete pushes of directories |
| `remote_granular` | as `remote` with granular targets, 2 commands | violation |
| `pipeline` | a data source and two stages, one with an output that is not cached, 2 contents, 2 versions of a command, 3 commands, 1 edit, 1 crash | intact objects, durable records, sound runs, repro up to date, nothing lost |
| `checkpoint` | 2 workers under a shell, 2 commands, 2 epochs each, 1 death, SIGTERM handled or not | answered signals, kills told from failures, every stage ends but in the ring that a handled SIGTERM closes |
| `experiments` | 2 contents, 1 name, 2 branches, 3 commits, a queue of 2, 3 commands, 1 edit, 1 crash, 1 push of another clone | changes of the user, workspace, results and queue survive; the references implement `ExperimentStore` |
| `experiments_run_all` | as `experiments`, 2 commands, no edits or crashes | violation |
| `stage_files` | 2 processes with one command each on any of 72 projects of up to 3 stages and 2 sources, 2 orders of files | no record of another stage lost, valid graph, `dvc.lock` follows `dvc.yaml`, `.gitignore`, plan of repro |
| `local_data` | 2 names, 2 contents, 6 inodes, at most 3 rows, 2 commands, 2 steps of the user, crashes | sound hashes, bounded table, three-way merge, only DVC's own files removed, checkouts restore |
| `clouds` | each kind of remote, 2 processes with 2 and 1 threads, 2 objects, 3 operations, 2 faults | whole objects, one directory but for creations answered with an error, whole downloads |
| `views` | 7 paths in 3 levels, 5 edits, then a walk from any directory | generators in step, walks complete and sound |

### Assumptions that the runs evaluate

The pure algorithms have no states of their own.  Their properties are operators
and their checks ASSUMEs over all small inputs, which TLC evaluates before the
run that extends their module:

| Run | Module | Assumptions |
|---|---|---|
| `stage_files` | `MCParsing` | every value is the one its file has (`ValuesTraceable`); the order of `vars` does not matter (`VarsOrderFree`); recorded variables are what the files have (`TrackedVarsSound`) and decide the stage (`TrackedVarsDecide`); `wdir` is not changed by the vars of its stage (`WorkingDirectoryStable`) |
| `clouds` | `MCTrees` | the trees agree with each other and with the objects there are (`ListingsAgree`); ranges of a copy (`CopiesWhole`); queries are exact for 48 settings of the traversal (`QueriesExact`) and take both ways (`QueriesDiffer`) |
| `clouds` | `MCConfig` | commands leave no default undefined (`RemotesKeepDefaults`), fail without a trace (`CommandsFailClean`), rename one remote only (`RenamesOnlyOne`) |
| `clouds` | `MCExternalFiles` | an import can be restored, and equals what `get` takes (`Restorable`); what is listed can be taken (`ListsWhatThereIs`); checksums tell versions apart (`StatusOfImports`); the remote is found from anywhere (`SourcesReached`) |
| `views` | `MCOverlay` | ignore rules are gitignore's (`GitignoreFollowed`); queries answer like walks (`TreesAnswerLikeWalks`) |
| `views` | `MCExternal` | an opened repository is the present one (`OpenedIsCurrent`); a lock is what was imported, can be imported again, and status tells (`ImportsRecorded`), over all histories of up to 4 steps |
| `local_data` | `MCDiff` | an empty diff means equal, lines are the differences, deleted is not missing (`WorkspaceDiffs`, `CommitDiffs`); parameters and metrics (`ParamsDiffs`, `MetricDiffs`, `MetricTargets`, `ParamsShown`) |

`TypeOK` of `Experiments`, `StageFiles`, `LocalData`, `Trees`, `Overlay` and
`Pipeline` documents the types of their variables and is not listed in a run;
add it to the `INVARIANTS` of the `.cfg` to check it.

### Bounds

Every bound of a state machine is a constant whose name starts with `Max`, is
`Retries`, or is the set of actors.

Two processes suffice for a conflict, three calls reach `reproduce > run >
commit` and a checkpoint, and two attempts make a lock time out both at once and
after a retry; `HardlinkLock` in the violation run keeps the lock from the
survivors for ever, which the real lifetime of a year amounts to.  Two
directories that share a file are the smallest case in which collecting one must
not hurt the other, and four commands allow push, push by another clone, gc and
push again.  For the pipeline, two contents in
three paths make outputs share objects; three commands and an edit allow repro,
edit, repro, gc and every failure in between.  Two workers are the least that
can disturb each other's signal, and two commands let a signal outlive one of
them.

Of experiments, three commits allow a checkpoint to be resumed and two
executors to make different commits of one name, and a third command can collect
or run again what the first two left.  In `stage_files` one command for each
process is all that two commands which overlap can do to each other; that a
command starts from any state others have left is what the 72 projects stand for,
with or without frozen stages.  In `local_data` every write has an mtime of its
own, but for the writes that set the old mtime back; the user answers "yes"
exactly when the command is forced; rows of objects in the cache are left out,
since nobody asks for them; gc is one step; the merge driver comes only as the
first command, from versions that git may hand it.  `MaxInt = 3` folds half of
the six inodes, and three rows with a quota of one are exceeded by a directory
and two files that change once.  In `clouds`, gs, azure and oss take the steps of
s3, and two faults allow a retry that fails as well.  The seven paths of `views`
are the smallest tree with a sibling on every level, which is what makes a
generator that lags behind meet the wrong directory.

Symmetry is used for contents, names and processes that no definition tells
apart, in runs without liveness.

Deadlock is checked in `rwlock`, `pipeline` and `checkpoint`: a process, or a
command, can always go on (`Terminating` is the state without a command, or with
a stage that has ended).  In the other runs the number of commands is bounded and
the system stops there.

### Fairness

Fairness is assumed in `rwlock` and `checkpoint`, which have liveness properties.
In the first, `WF_vars(Step(p))` says that a live process goes on and that the
commands of stages end.  It covers neither `Begin`, nor `Crash`, nor the user.
`CommandsEnd` needs no more, because `Lock.lock` gives up after a bounded number
of attempts: no assumption is made that the holder ever lets go.  In
`checkpoint` threads and processes are scheduled, a callback ends (its lock is
given up after some attempts), and a command trains a bounded number of epochs;
nothing makes a worker die or a callback succeed.

## Proofs

The proof modules extend their component and have the same shape: lemmas about
operators or one per action, an inductive invariant, and theorems that weaken it.
The parts of an inductive invariant are definitions at the end of the component's
module, so that TLC can be asked about them first: add them to the `INVARIANTS` of
the `.cfg` (those of `Overlay` are in `OverlayProofs`, next to the lemmas that use
them).  The assumptions on constants are those that TLC evaluates, and no more
than the code gives: stages have a topological order (`Order`, of
`StageAssumption`, since dvc refuses cycles), an output belongs to one stage, and
values that stand for "nothing" are none of the others (`NoneAssumption`, `NoData`,
`NoCmd`, the branch `"none"`).  Nothing else is assumed of the number of processes,
paths, stages, commits or files.

`PipelineProofs`.  None of its properties is inductive, and they need each other.
`Phased`, `Linked` and `Shapes` say what a command may be at in which phase.  `Held`
is what makes objects intact (`ObjectsAreIntact`): from `save` to `dump` the stage
object has the hash of what is in the workspace, but for an output whose link
failed; so what `CommitOut` moves has the name it is moved to.  `Committed` says
that an output that is no longer `left` in `commit` is in the cache and that gc is to
remove nothing which a record names, whence `WhatIsLockedIsCached`.  `RunHeld`
follows a run from the start of the command, through restored outputs, to what
`save` hashes, whence `RecordsAreSound`: a record that claims what the command did
not make is one that `dvc commit` has taken from the user.  `Followed` says that
the stages of the target which `repro` has behind it are still as recorded, because
later stages write no outputs of earlier ones; `ReproIsComplete` is its last step.
`NoContentsLost` is an action property of the same invariant; the step between the
two renames of `move()` is its one exception.

`ExperimentsProofs`.  `ImplementsStore` is the refinement: one lemma per step that
touches `refs`, each a step of the store or permitted, and one that all others leave
`refs` alone.  `ChangesAreKept` and `WorkspaceIsRestored` follow the phases of
`stash_workspace` and `detach_head` (`Safe`, `Restoring`): what a command may take
out of the workspace is on top of `refs/stash` until it is back, and `HEAD` is away
only between `detach` and `restore`.  `QueueIsKept` needs `Droppable`, that no index
still to be dropped has moved; that nothing which has run well is dropped either is
what `SuccessDropped` is violated by.  `ResultsAreKept` needs `Collected` for the executors
that are done, and that a reference nobody forces only grows while the rest are
fetched.  `ResultKept` is about the contents of what was made: an experiment whose
contents are there already is left alone (`_collect_executor`), so its commit need
not be, and another executor may have gone on from there.

`RWLockProofs`.  `TypeCorrect` is inductive by itself.  Exclusion is not: it
needs `Discipline`, that every edit of the file is made under the repository
lock from a dictionary that has the entries of all open calls (`FileCovers`,
`EditCovers`), and that an inner call takes back nothing an outer one relies on
(`Nested`, `OwnChanges`).  `ExclusionHolds` and `ReleaseAssertions` follow.
`NothingIsLeaked` needs the converse, `NoStrays`: every entry in the file, and in
each dictionary that is about to become the file, is one that an open call added and
will take back.  All are guarded by `~unguarded`, the exception of the first finding.

`CloudProofs`.  `TreesTypes` has the types and two facts it is inductive with: the
steps of a thread are those of its cloud (`StepsFit`), and the lock of `_create_dir`
covers both the look and the creation (`OneCreator`), from which `DirectoryMadeOnce`
follows: a process has Drive make the directory once, and again only after an answer
that was an error, which `_gdrive_retry` cannot tell from a failure.  `ObjectsAreWhole` is inductive with these.  `DownloadsAreWhole` needs
`Downloads`: each file of a running download is still to be begun, under way or
copied.  `QueryIsExact` and `AllIsExact` hold for any base, page, threshold,
weight and number of jobs.  Two facts carry them: every hash starts with the
prefix of the estimate or with one of those that are traversed (`PrefixesCover`),
and an estimate that was stopped early is always too large for a traversal
(`StoppedIsTooLarge`), so that a cut-off listing is never taken for the remote.

`RemoteSyncProofs`.  `DirectoriesComplete`, `IndexesClosed` and
`ValidationSound` come from one invariant `IInv` under
`Promised == GcAlone /\ ~Granular /\ ~Forced`: while no gc is at work the remote is
complete, whatever is planned for upload has its files on the remote or in the
plan, and gc removes files only when the `.dir` objects of its plan are gone.
A gc that is not forced has all `.dir` objects in use, so it knows their files.
No set is assumed finite.  `PushesComplete` adds `Planned`, what becomes of each
object of a push.  A directory whose file was nowhere when the push was planned is
held back even if another clone has brought that file by the time the push ends, so
`DirPushComplete` says "on neither side" of the plan only.

`ExperimentsProofs`, of `Checkpoint`.  `CheckpointTypeOK` has the confinement of the monitor and is inductive;
with it so is `KilledTold`.  `FirstSignalIsAnswered` is an action property; it
follows from `AnswerInv`: while the monitor answers, the file exists, so whoever
creates it does so before the monitor looks, and from then on each phase of the
callback has the data of the waiting worker.

`LocalDataProofs`.  `Folding` is arithmetic: inodes folded at any width fit, come
back, and never share a row.  `MergeKept` needs `MergeInv`: a merge that is under
way is of the versions its command has named, and `_merge` was allowed for them;
that an allowed merge is the three-way merge is the lemma `MergeIsThreeWay`.
`RowsStayBounded` needs `RowsInv`: outside a clean-up, `count` and the inserts of
the transaction add up to the rows (`Exact`), since an insert adds a row and an
update does not, and what VACUUM leaves is within the limit.
`HashesAreSound`, `CheckoutSucceeds` and `UsersFilesKept` come from one invariant
`IInv`.  No two inodes share an mtime and none has one that is still to come
(`FilesKnown`), so a row that agrees with a file's mtime was written for that very
content: `Truthful` says so of the database and of the transaction, row by row, but
for the inodes in `blind` and `doubt`, and of the links as of the version in `ours`
and `laid`.  `InStride` has what each step of a command may rely on: what was hashed
is what is there, or a change has come in between and the directory is in doubt; a
file of which a checkout is done has the content it should have, or its row says so
and is in doubt.  A write that no mtime shows ends up in these two sets, which is all
the theorems exempt.  `FilesAssumption`, finitely many contents and an inode for each,
is for the cache that `Init` fills.

`StageFilesProofs`.  The first part is about graphs.  A search ends after two turns
for each node, with all it has met left again, each node after those it needs
(`SearchEnds`): its stack is a path of the graph, without a cycle no node on it is
needed by a node above it (`AllLeft`), and each turn meets or leaves one node more
(`MetMore`).  A loop of any number of turns has a function of what it comes to
(`LoopExists`), of which an invariant holds after each turn (`Turns`); so
`ActiveGraphIs` says which edges and stages cutting frozen stages may take out, and
`GetPipelineIs` that the stages of several targets, one after the other, are there
once, in order and with all they need.  `PlansAreComplete` puts these together: what
is reached through stages that are not frozen is still in the active graph, as a
stage that was taken out is needed by another, so that it is below a root only
through frozen stages.  `Base` has the types,
what a command has in hand at each of its phases (`InHand`, `InFile`), and that only
one process is outside a stage's command at a time (`Held`), which is why a step of
one leaves the others as they were but for `overtaken` (`Same`, `Unmoved`).
`OtherRecordsKept` follows from it, record by record.  `RecordedAreIgnored` needs
`Hidden`: a stage that is about to be dumped has its outputs in `.gitignore` already,
what a stage that is being removed shares with others is in `exposed`, and a stage
that is moved has left its file before its outputs are taken out of `.gitignore`.
What a failing command takes back it has put there itself: `Remembers` says that
nothing it has found there is among what it remembers, so an entry it takes back is
excepted only for that reason.
`NoOrphanIsLeft` needs `InYaml`: what is dumped into `dvc.lock` is in `dvc.yaml`,
unless another process has overtaken the command, and a stage leaves `dvc.yaml` after
its entry has left `dvc.lock`.  `GraphStaysValid` needs `Fits`: the stages in hand,
together with all that are in the files, still pass the checks they have passed; it
rests on two lemmas about `ValidGraph`, that fewer stages pass when more do
(`FewerFit`), and that only keys, dependencies and outputs count (`AlikeFit`).
Assumed are that `"none"` is no process, that each project starts with one record for
each stage, that a file system lists all paths, in some order (so that they are
finitely many), and that what add, import-url and move write is data, not a stage of
`dvc.yaml` (`ProcessNames`, `GivenStages`, `ListedPaths`, `DataPaths`, `AddedGroups`).

`OverlayProofs`.  `GeneratorsInStep`, `WalkIsComplete` and `WalkIsSound` come from one
invariant `Inv` (`InvHolds`), for any tree of paths and every order of names.  What it
says of the workspace (`WsOK`): what is in a directory that is there is below
directories (`Layout`), the entries of an output are files below it (`Flat`), outputs
of a repository do not overlap, as `dvc add` sees to, and none has a path in a
subrepository (`Clear`, `Outputs`), which is what keeps the outputs' tree of one
repository out of the next.  What it says of a walk (`Going`): the directories left to
do are apart, none above another (`Apart`), each is below the top of its generators and
not ignored (`Rooted`); the directories that a generator is still to give are, in that
order, those of the turns left that take from it (`Lined`, `Matched`); and each file
that is due is listed or below a directory left to do, whose turn is of a kind that
shows it (`Suits`, `Reaches`).  `InStep` is the head of `Matched`, `WalkComplete` what
`Reaches` comes to when nothing is left.  A directory that is not the top has come out of
the merged names, so that the outputs' tree has a key in it (`Keyed`): only the top can
raise KeyError.  The proof of `Matched` is that of
`dirs[:] = ...` in `_walk`: the names that each generator is told to follow are a
subsequence of the merged ones (`Picks`, `FollowPicks`), each once (`MergedAreOnce`),
so its new directories are lined up with the new turns (`NewTurnsLined`), and the rest
is as before (`LinedBoth`, `TurnGoes`).  The one repository without this is a
subrepository without outputs: the outputs' generator is at its end at once, so that
the walk takes its name and none of its files (`Bare`, `Unwalked`).
`OverlayAssumption` has that the paths are finitely many, not empty, and made of
names, each with the directories above it.

`RemoteSyncProofs`, of what a project says of parameters and remotes (modules
`Parsing` and `Config`).  `LoadKeepsValues`, `LoadKeepsTraceable` and `MergeCommutes` are
what the order of `vars`, the early resolution of `wdir` and the recording of
variables rest on, for any files, since `_merge` refuses to overwrite.
`RemoveKeepsDefaults`: `remote remove` clears the default of every
level that names the remote, so that what remains is defined, for any number of
remotes; each turn of the loop keeps what the turns before it have cleared
(`TurnForgets`).

Only model-checked:

* `CommandsEnd` and `StageEnds` of `RWLock` and `Checkpoint`: liveness under
  fairness is out of the prover's reach, as is `ENABLED`;
* the assumptions listed above that have no theorem: what `LoadVars`, `Walk` and
  the like compute is defined by recursion over data.  The induction theorems of the
  library cannot be instantiated.  Where a function on the naturals is defined by
  recursion, as `Executors` and the loops of `Graph` are, what holds of each of its
  values is proved by the least counterexample instead (`LeastExists`, `Turns`).


## Findings

* `rwlock_relock`: `unlocked_repo` takes the repository lock back in a
  `finally`.  If the attempts run out, the exception unwinds through
  `rwlock()`, which rewrites the path locks without the repository lock, and
  may overwrite what another process has just entered.  `GuardedExclusion` says
  that this is the only way to lose exclusion.
* `remote_granular`: `dvc push dir/file` uploads the `.dir` object with that
  file alone; other clones then take the directory for complete.
* `experiments_run_all`: the entries of the queue that have run well are to be dropped
  (`repo/experiments/__init__.py:427`), but results are looked up under another commit
  than the one they are kept under, so none ever is.  `QueueKept` says the other half, that
  no entry goes which should stay.

Five more promises do not hold.  Each is a property of its module, without a run of its
own; the property that is checked instead holds but for exactly this case.  To see the
counterexample, put it in place of the properties in the named `.cfg`:

* `PushComplete` (`MCRemoteSync.cfg`): a push of plain files consults the index
  without validating it, so what another clone has collected is not pushed again
  (`remote/base.py:125`). `DirPushComplete` is about pushes with a directory.
* `DirPushComplete` with `Forced = TRUE` (`MCRemoteSync.cfg`): `gc -c` in a clone
  that lacks the `.dir` object of a directory in use, and cannot pull it, keeps that
  object on the remote and removes its files when it is forced
  (`output/base.py:459`); a clone that has the files then pushes the directory and
  uploads nothing, since it finds the `.dir` object.
* `Aborted` (`MCCheckpoint.cfg`): the monitor removes the signal file only after it
  has waited for the command it has sent SIGTERM (`stage/run.py:201`); a command
  that handles the signal and waits in `make_checkpoint` closes the ring.
  `StageEnds` names it as the only way not to end.
* `MoveAtomic` (`MCLocalData.cfg`): `move()` promises to be atomic
  (`utils/fs.py:88`) and is two renames; a `dvc add` or `commit` killed between them
  leaves the file under a temporary name alone, which the next gc removes.
  `NothingLost` and `OnlyOursRemoved` except this one step.
* `ErrorsIgnored` (`MCOverlay.cfg`): a walk from a directory that is new inside a
  directory output raises KeyError (`tree/dvc.py:178`), where `RepoTree.walk` is
  said to ignore errors. `WalkComplete` says that a walk fails nowhere else.

Not a violation of what the code promises, but needed as an assumption: `gc
--cloud` of one clone while another pushes breaks `DirComplete`; with
`GcAlone = FALSE` TLC shows how.

### What the properties except

A property says what holds, so it has to name the cases in which the code does
otherwise.  These are the cases, and those that the models leave out, where a
reader of the properties might expect them covered.

Locks, stages and checkpoints:

* a failing checkpoint terminates only the shell of the command
  (`stage/run.py:200`, `:28`); its workers go on, and later calls of
  `make_checkpoint` wait for ever, although `stage/run.py:186` says that the
  stage "will be aborted";
* dependencies are hashed again after the command has run
  (`stage/__init__.py:435`): what a user writes meanwhile is recorded as used, so
  `RunsSound` and `UpToDate` hold while nobody meddles.

Local data:

* a `.dir` object that is not in the cache counts as an empty directory
  (`cache/base.py:66`), also for the merge driver, so `MergeKeeps` asks for the
  objects; the merge does not see a file `x` beside `x/y` (`dir_info.py:41`);
* two files with equal mtimes whose inodes stay are swapped unseen
  (`utils/fs.py:49`); in `state.py:412` the metadata are read after the hash was
  taken;
* a crash between VACUUM and the update of the count leaves the count too low;
  inodes at the end of the range of 64 bits stop the command with an assertion;
* the merge driver (`git_hook.py:72`) and `open_by_relpath`
  (`repo/__init__.py:420`) open the state database without the repository lock,
  although `state.py:255` assumes it;
* checkout removes the links that are no longer used without asking whether the
  cache has their content: `OnlyOursRemoved` allows just what DVC has linked.

Stage files:

* between the checks of `dvc run` and its dump (`repo/run.py:127`, `:139`) other
  commands may have added stages: `GraphKept` excepts a command that was
  overtaken, and `dvc move`, which checks nothing and overwrites the record at its
  target;
* `repro` dumps a `.dvc` file after its command has run, and so brings back or
  overwrites what another command has removed or changed meanwhile;
* `_get_active_graph` (`repo/reproduce.py:57`) raises for a stage that it has
  already removed, despite the comment at `:68`, and leaves stages that only a
  frozen one needs; `repro` of a stage that only frozen stages need fails;
  `repro -P --downstream` reproduces the roots alone; several targets with
  `--downstream` may be ordered a stage before its dependency;
* a failing command takes what it has itself put into `.gitignore` out again, also for
  stages that it has recorded by then, as a `dvc add` of several targets or a `repro`
  does; a process that is killed while it rewrites `.gitignore`
  (`scm/git/__init__.py:159`) loses any of its entries: `exposed` in `RecordedIgnored`;
  a crash while `dvc.yaml` is written leaves an empty file,
  which parses as no stages.

Parametrisation:

* a `foreach` over `${item}` or `${key}` of the parameters fails, or records
  another value, though `_resolve_foreach_data` only warns; of two stages with one
  generated name the last stays; a whole mapping that is interpolated is not
  recorded; `wdir: ${mapping}` becomes the text of a dict;
* the keys by which a file was loaded replace earlier ones, so that `f:a, f:b,
  f:a` is found only because the merge clashes.

Experiments:

* of two experiments that were queued from one commit, `run --run-all` runs one
  (`repo/experiments/__init__.py:470`);
* a conflict while results are collected leaves the later executors uncollected
  and their entries in the queue; asking a cancelled future for its exception
  raises outside the `try`, and a missing process identifier is a `KeyError` after
  Ctrl-C;
* `exp apply` drops its stash even when git refuses to apply it: the reason for
  `refused` in `UserChangesKept`;
* `params=[]` makes `allow_multiple` true whenever an experiment is resumed;
  `exp gc --all-branches` keeps no detached HEAD; `EXEC_CHECKPOINT` may name a
  commit that no branch has.

Remotes and trees:

* uploads to webdav and webhdfs are written under their final name, so a part of
  an object is taken for the object when they are cut off (`InPlace`); temporary
  files of killed uploads look like hashes, and gc removes them;
* Google Drive keeps two files of one name (`tree/gdrive.py:560`); the rename of
  ssh refuses an object that is there;
* `webhdfs.py:106` joins the names of files cumulatively, so its walk is right only
  where no directory has two files, and its removal is not recursive; a directory
  never exists on azure and oss; webdav makes a directory where a file is.

Configuration:

* `remote remove` and `remote rename`, where a higher level has a section of the
  same remote without `url`, write a file that can no longer be loaded; outside a
  repository with `--global` they always fail after their first edit;
* `remote rename a B` does not turn the new name to lower case and overwrites an
  existing `b`; `core.remote` set by `dvc config` is not checked; `remote://`
  references are not followed by any command; edits take no lock.

External repositories:

* a process keeps what it has cloned: a moved tag or another default branch is not
  noticed (`_cached_clone` says "branches and tags might move"); a branch that was
  rewritten is merged locally, so the lock may name a commit that exists nowhere,
  or fails; if the branch first cloned is deleted, later opens fail; branches whose
  names look like hashes are not found: `Followed` and `IsSha` in `OpensCurrent`;
* an update removes the output before it has the new one;
* a directory that contains an output whose listing is nowhere counts that as
  empty in `status`; a path that does not exist, or is new, inside a directory output
  ends with a `KeyError`; several outputs in a directory that git does not have cannot be
  imported (`tree/repo.py:170`); `dvc import` of a directory with a `.dvcignore` is
  refused where `dvc get` copies it.

Views and ignore rules:

* linked directories are listed and not walked, and their turn then takes the next
  directory from the generators; outputs in whose place something of another kind
  is, and subrepositories without outputs (`tree/repo.py:257`), break the walk as
  well: `Regular` and `Unwalked`;
* a walk lists missing entries of a directory that is partly there, while exists
  and isfile deny them; any path below a file output is said to exist;
* a pattern with `!` that names a directory takes back earlier patterns for all
  that is in it (`pathspec_math.py:4`), which gitignore does not; `is_ignored` does
  not look at directories above; with `ignore_subrepos=False`, `is_ignored_dir`
  answers the opposite.

Diffs:

* `dvc diff A B` with two names of one commit fails (`repo/diff.py:33`), and so
  does a diff in which a path is gone together with its stage (`repo/diff.py:122`);
* files that were modified inside a directory of the workspace are not listed, only
  the directory; entries of a directory are "not in cache" when it is as a whole;
* a parameter is never reported as deleted, since `workspace_status` has asked for
  its hash first (`dependency/param.py:63`, `:108`); `dvc params diff` fails when a
  nested parameter of a file that is shown anyway is tracked, since `_add_vars`
  compares a string with a path (`repo/params/show.py:59`).

## Not modelled

* The command line, display, usage reports and plots: they format data, and keep
  no state that another component reads.
* The transfer of the run cache between clones, the status of a cloud (it only
  reads), `get-url`, `init` and `destroy`.
* In `Pipeline`: frozen, always-changed, callback, import and `persist` outputs.
  Frozen stages are in `Graph` and `StageFiles`, imports in `External`.
* Symbolic links and reflinks: to what is modelled they are like hard links and
  copies.
* What is text: the formatting and comments of YAML, interpolated strings and
  their collisions, wildcards in ignore patterns, URLs; authentication and etags.
* `Context.set`, which the schema does not allow, and stage vars that extend the
  mapping of an `item`, which changes the shared context.
* Other hooks of git, `describe`, and repositories opened for writing, which no
  command does.

## What is left

In this order:

1. The transfer of runs between clones, against an abstract store that
   `RemoteSync` implements: a push makes all of a request visible at once.
2. `Pipeline` with the remaining kinds of outputs and stages.
