------------------------------ MODULE Experiments ------------------------------
(***************************************************************************)
(* Experiments of one repository (dvc/repo/experiments) over its git       *)
(* repository (dvc/scm/git): the queue, which is a git stash of its own,   *)
(* the executors that run queued changes in directories of their own, the  *)
(* references that keep what they commit, and the user's workspace, which  *)
(* the commands put aside and bring back.                                  *)
(*                                                                         *)
(* The repository lock admits one command at a time, which a failure, an   *)
(* interrupt or a crash may cut off after any step; executors run side by  *)
(* side.  A commit is the sequence of the <<tree, number>> it has been     *)
(* built from: an ancestor is a prefix, and two commits of one tree differ *)
(* by their numbers.                                                       *)
(***************************************************************************)
EXTENDS Naturals, FiniteSets, SequencesExt

CONSTANTS
    Tree,         \* contents that a run may leave to be committed
    Name,         \* names of experiments, given or derived from a hash
    Branch,       \* names of git branches; the first one is "main"
    MaxCommits,   \* bound: commits of users and executors
    MaxQueue,     \* bound: entries in the queue
    MaxCommands,  \* bound: commands of dvc
    MaxEdits,     \* bound: what a user changes or commits
    MaxCrashes,   \* bound: crashes of the main process
    MaxPushes     \* bound: pushes of another clone

ASSUME ConstantsAssumption ==
    /\ "main" \in Branch
    /\ "none" \notin Branch
    /\ "stash" \notin Tree
    /\ {MaxCommits, MaxQueue, MaxCommands, MaxEdits, MaxCrashes, MaxPushes} \subseteq Nat

VARIABLES
    heads,        \* heads[b]: tip of the git branch b, where it exists
    HEAD,         \* the branch checked out, or "none" and a commit
    home,         \* history: HEAD as the user has chosen it
    work,         \* what the workspace has beside the commit checked out
    changes,      \* history: what the user has changed and not given up
    refused,      \* history: git has refused to bring changes back
    stash,        \* refs/stash: what commands have put aside, newest first
    queue,        \* refs/exps/stash, newest first
    refs,         \* refs[k]: experiment references
    checkpoint,   \* EXEC_CHECKPOINT, or NoCommit
    remote,       \* experiment references of a git remote
    op,           \* the command that executes
    execs,        \* its executors, in the order of their creation
    number,       \* number of the next commit
    commands, edits, crashes, pushes

git == <<heads, HEAD, home>>
user == <<work, changes, stash, refused>>
counters == <<commands, edits, crashes, pushes>>
vars == <<git, user, queue, refs, checkpoint, remote, op, execs, number, counters>>

-----------------------------------------------------------------------------
(* Commits and references.                                                 *)

NoCommit == <<>>
NoKey == [base |-> NoCommit, name |-> "none"]

First == <<<<"first", 0>>>>

TreeOf(c) == Last(c)[1]

(* ExpRefInfo: a reference is named by its baseline and a name.            *)
Key(base, name) == [base |-> base, name |-> name]

SetRef(f, k, c) == [j \in DOMAIN f \cup {k} |-> IF j = k THEN c ELSE f[j]]

(* exp_refs_by_rev: the references that contain a commit.                  *)
Containing(c) == {k \in DOMAIN refs : IsPrefix(c, refs[k])}

(* A name that refers to several experiments means the one of the current   *)
(* commit, or none.                                                        *)
ByName(f, name, rev) ==
    LET named == {k \in DOMAIN f : k.name = name}
    IN  IF Cardinality(named) > 1 THEN {k \in named : k.base = rev} ELSE named

Rev == IF HEAD.branch = "none" THEN HEAD.rev ELSE heads[HEAD.branch]

Attached(b) == [branch |-> b, rev |-> NoCommit]
Detached(c) == [branch |-> "none", rev |-> c]

(* An entry of the queue is a commit on top of the one it was made from.   *)
StashRev(e) == Append(e.rev, <<"stash", e.id>>)

(* An edit is a <<kind, number>>; git tells tracked from untracked files.   *)
Tracked(S) == {x \in S : x[1] = "tracked"}

(* The commits that are somewhere in the repository.                       *)
Commits ==
    (UNION {Prefixes(c) : c \in {refs[k] : k \in DOMAIN refs} \cup {checkpoint}}) \ {NoCommit}

Idle == [cmd |-> "none", phase |-> "idle"]

Init ==
    /\ heads = [b \in {"main"} |-> First]
    /\ HEAD = Attached("main")
    /\ home = HEAD
    /\ work = [user |-> {}, exp |-> FALSE]
    /\ changes = {}
    /\ refused = FALSE
    /\ stash = <<>>
    /\ queue = <<>>
    /\ refs = <<>>
    /\ checkpoint = NoCommit
    /\ remote = <<>>
    /\ op = Idle
    /\ execs = <<>>
    /\ number = 1
    /\ commands = 0 /\ edits = 0 /\ crashes = 0 /\ pushes = 0

MayStart ==
    /\ op = Idle
    /\ commands < MaxCommands
    /\ commands' = commands + 1
    /\ UNCHANGED <<edits, crashes, pushes>>

Phase(p) == op' = [op EXCEPT !.phase = p]

(* The command ends with an error.                                         *)
Stop ==
    /\ op' = Idle
    /\ execs' = <<>>

-----------------------------------------------------------------------------
(* exp run: a new entry of the queue (Experiments.new, _stash_exp).        *)

Start(target, name, force, queued) ==
    op' = [cmd |-> "new", phase |-> "stash", target |-> target, name |-> name,
           force |-> force, queued |-> queued, orig |-> HEAD, stashed |-> FALSE]

(* The workspace is to be restored; what was asked for is no longer needed. *)
Unwind(failed, p) ==
    op' = [cmd |-> "new", phase |-> p, orig |-> op.orig, stashed |-> op.stashed,
           failed |-> failed, queued |-> failed \/ op.queued]

(* What the workspace holds becomes an experiment on the current commit.   *)
StartNew(name, force, queued) ==
    /\ MayStart
    /\ Len(queue) < MaxQueue
    /\ Start([rev |-> Rev, baseline |-> Rev, key |-> NoKey, include |-> FALSE],
             name, force, queued)
    /\ UNCHANGED <<git, user, queue, refs, checkpoint, remote, execs, number>>

(* _resume_checkpoint: of the references that contain the commit the first  *)
(* in the order of hashes is taken.  With parameters a new branch starts   *)
(* at the commit, otherwise the branch goes on from its tip.               *)
StartResume(c, k, params, name, force, queued) ==
    /\ MayStart
    /\ Len(queue) < MaxQueue
    /\ k \in Containing(c)
    /\ Start(IF params
             THEN [rev |-> c, baseline |-> k.base, key |-> NoKey, include |-> TRUE]
             ELSE [rev |-> refs[k], baseline |-> k.base, key |-> k, include |-> TRUE],
             name, force, queued)
    /\ UNCHANGED <<git, user, queue, refs, checkpoint, remote, execs, number>>

(* stash_workspace: git stash push, with untracked files or without.       *)
StashWorkspace ==
    /\ op.phase = "stash"
    /\ LET taken == IF op.target.include THEN work.user ELSE Tracked(work.user)
       IN  /\ stash' = IF taken = {} THEN stash ELSE <<taken>> \o stash
           /\ work' = [work EXCEPT !.user = @ \ taken]
           /\ op' = [op EXCEPT !.stashed = taken # {}, !.phase = "apply"]
    /\ UNCHANGED <<git, changes, refused, queue, refs, checkpoint, remote, execs, number, counters>>

(* The changes are applied again, for the experiment, and lock files reset. *)
ApplyChanges ==
    /\ op.phase = "apply"
    /\ IF op.stashed /\ ~op.target.include
       THEN work' = [work EXCEPT !.user = @ \cup stash[1]]
       ELSE UNCHANGED work
    /\ Phase("detach")
    /\ UNCHANGED <<git, changes, stash, refused, queue, refs, checkpoint, remote, execs, number, counters>>

(* An error here, after the changes are back, is outside of the try that    *)
(* resets the workspace.                                                   *)
ApplyFails ==
    /\ op.phase = "apply"
    /\ op.stashed /\ ~op.target.include
    /\ work' \in {work, [work EXCEPT !.user = @ \cup stash[1]]}
    /\ Unwind(TRUE, "pop")
    /\ UNCHANGED <<git, changes, stash, refused, queue, refs, checkpoint, remote, execs, number, counters>>

(* detach_head, which git may refuse.                                      *)
DetachHead ==
    /\ op.phase = "detach"
    /\ \/ HEAD' = Detached(op.target.rev) /\ Phase("prepare")
       \/ Unwind(TRUE, "reset") /\ UNCHANGED HEAD
    /\ UNCHANGED <<heads, home, user, queue, refs, checkpoint, remote, execs, number, counters>>

(* _update_params and _pack_args write into the workspace; either may fail. *)
Prepare ==
    /\ op.phase = "prepare"
    /\ work' = [work EXCEPT !.exp = TRUE]
    /\ \/ Phase("push")
       \/ Unwind(TRUE, "restore")
    /\ UNCHANGED <<git, changes, stash, refused, queue, refs, checkpoint, remote, execs, number, counters>>

Entry ==
    [rev |-> op.target.rev, baseline |-> op.target.baseline, key |-> op.target.key,
     name |-> op.name, force |-> op.force, queued |-> op.queued, id |-> commands]

(* Stash.push on EXPS_STASH resets the workspace.                          *)
PushEntry ==
    /\ op.phase = "push"
    /\ queue' = <<Entry>> \o queue
    /\ work' = [user |-> work.user \ Tracked(work.user), exp |-> FALSE]
    /\ Unwind(FALSE, "restore")
    /\ UNCHANGED <<git, changes, stash, refused, refs, checkpoint, remote, execs, number, counters>>

(* Broken form: HEAD stays where the experiment has been prepared. *)
RestoreHeadForgotten ==
    /\ op.phase = "restore"
    /\ Phase("reset")
    /\ UNCHANGED <<git, user, queue, refs, checkpoint, remote, execs, number, counters>>

(* The end of detach_head.  What a failure has left in the workspace may    *)
(* make git refuse to check another commit out.                            *)
RestoreHead ==
    /\ op.phase = "restore"
    /\ \/ HEAD' = op.orig /\ UNCHANGED home
       \/ work.exp /\ UNCHANGED HEAD /\ home' = HEAD
    /\ Phase("reset")
    /\ UNCHANGED <<heads, user, queue, refs, checkpoint, remote, execs, number, counters>>

ResetHard ==
    /\ op.phase = "reset"
    /\ work' = [user |-> work.user \ Tracked(work.user), exp |-> FALSE]
    /\ Phase("pop")
    /\ UNCHANGED <<git, changes, stash, refused, queue, refs, checkpoint, remote, execs, number, counters>>

(* reproduce_one goes on with the new entry, unless it was to be queued.   *)
NewDone(o) ==
    op' = IF o.failed \/ o.queued THEN Idle
          ELSE [cmd |-> "run", phase |-> "init", run |-> <<queue[1]>>, keep |-> FALSE]

(* Stash.pop: git may refuse to apply the entry, as it does over other      *)
(* changes, and then the entry is not dropped.                             *)
PopApply ==
    /\ op.phase = "pop"
    /\ \/ /\ ~op.stashed
          /\ NewDone(op)
          /\ UNCHANGED <<work, refused>>
       \/ /\ op.stashed
          /\ op' = Idle /\ refused' = TRUE
          /\ UNCHANGED work
       \/ /\ op.stashed /\ stash[1] \cap work.user = {}
          /\ work' = [work EXCEPT !.user = @ \cup stash[1]]
          /\ Phase("popdrop")
          /\ UNCHANGED refused
    /\ UNCHANGED <<git, changes, stash, queue, refs, checkpoint, remote, execs, number, counters>>

(* Broken form: the workspace is reset when the changes are back. *)
PopDropResets ==
    /\ op.phase = "popdrop"
    /\ stash' = Tail(stash)
    /\ work' = [work EXCEPT !.user = @ \ Tracked(@)]
    /\ NewDone(op)
    /\ UNCHANGED <<git, changes, refused, queue, refs, checkpoint, remote, execs, number, counters>>

PopDrop ==
    /\ op.phase = "popdrop"
    /\ stash' = Tail(stash)
    /\ NewDone(op)
    /\ UNCHANGED <<git, work, changes, refused, queue, refs, checkpoint, remote, execs, number, counters>>

-----------------------------------------------------------------------------
(* Experiments.reproduce: executors run entries of the queue.              *)

(* exp run --run-all.                                                      *)
StartRunAll ==
    /\ MayStart
    /\ queue # <<>>
    /\ op' = [cmd |-> "run", phase |-> "init", run |-> queue, keep |-> TRUE]
    /\ UNCHANGED <<git, user, queue, refs, checkpoint, remote, execs, number>>

(* BaseExecutor._init_git: the branch of the entry, where it has one, or    *)
(* its commit is checked out, and the stashed changes are merged.          *)
Executor(e) ==
    [entry |-> e, head |-> IF e.key = NoKey THEN e.rev ELSE refs[e.key],
     key |-> e.key, ckpt |-> FALSE, status |-> "running"]

(* _init_executors keeps executors by the commit they start from: an entry  *)
(* takes the place of an earlier one from the same commit.                 *)
AddExecutor(es, e) ==
    IF \E i \in DOMAIN es : es[i].entry.rev = e.rev
    THEN [i \in DOMAIN es |-> IF es[i].entry.rev = e.rev THEN Executor(e) ELSE es[i]]
    ELSE Append(es, Executor(e))

(* The executors of the entries of run, one after the other.               *)
Executors(run) ==
    LET added[n \in 0..Len(run)] ==
            IF n = 0 THEN <<>> ELSE AddExecutor(added[n - 1], run[n])
    IN  added[Len(run)]

InitExecutors ==
    /\ op.phase = "init"
    /\ \A i \in DOMAIN op.run : op.run[i].key \in {NoKey} \cup DOMAIN refs
    /\ execs' = Executors(op.run)
    /\ op' = [cmd |-> "run", phase |-> "run", run |-> op.run, keep |-> op.keep]
    /\ UNCHANGED <<git, user, queue, refs, checkpoint, remote, number, counters>>

(* The branch of an entry has been removed since, or git refuses to merge.  *)
InitFails ==
    /\ op.phase = "init"
    /\ Stop
    /\ UNCHANGED <<git, user, queue, refs, checkpoint, remote, number, counters>>

(* BaseExecutor.commit, at a checkpoint or at the end: to the branch of the *)
(* executor, which the first commit creates.  Only stages with checkpoints *)
(* commit more than once, and set EXEC_CHECKPOINT.                         *)
ExecCommit(i, t, ckpt) ==
    /\ op.phase = "run"
    /\ execs[i].status = "running"
    /\ number <= MaxCommits
    /\ t # TreeOf(execs[i].head)
    /\ number' = number + 1
    /\ LET x == execs[i] e == x.entry
       IN  /\ x.head # Executor(e).head => x.ckpt /\ ckpt
           /\ execs' = [execs EXCEPT ![i] =
                 [x EXCEPT !.head = Append(x.head, <<t, number>>),
                           !.key = IF x.key = NoKey THEN Key(e.baseline, e.name) ELSE x.key,
                           !.ckpt = ckpt]]
    /\ UNCHANGED <<git, user, queue, refs, checkpoint, remote, op, counters>>

(* An executor that ends with an exception is cleaned up without a fetch:   *)
(* what it has committed, checkpoints too, goes with its directory.        *)
Ended(x, status) ==
    IF status = "ok" THEN [x EXCEPT !.status = "ok"]
    ELSE [entry |-> x.entry, head |-> x.entry.rev, key |-> NoKey, ckpt |-> FALSE,
          status |-> status]

(* A stage fails, is killed or interrupted, or everything has been run.    *)
ExecEnd(i, status) ==
    /\ op.phase = "run"
    /\ execs[i].status = "running"
    /\ execs' = [execs EXCEPT ![i] = Ended(@, status)]
    /\ UNCHANGED <<git, user, queue, refs, checkpoint, remote, op, number, counters>>

(* Ctrl-C: executors that have not begun are cancelled, and asking for the  *)
(* exception of a cancelled one raises; or an executor counts as running    *)
(* and has not told its process yet, and the command ends at once.         *)
Interrupt ==
    /\ op.phase = "run"
    /\ \/ Stop
       \/ /\ \E begun \in SUBSET DOMAIN execs :
                /\ \A i \in DOMAIN execs :
                      execs[i].head # Executor(execs[i].entry).head => i \in begun
                /\ execs' = [i \in DOMAIN execs |->
                      IF execs[i].status # "running" THEN execs[i]
                      ELSE Ended(execs[i], IF i \in begun THEN "failed" ELSE "cancelled")]
          /\ UNCHANGED op
    /\ UNCHANGED <<git, user, queue, refs, checkpoint, remote, number, counters>>

(* The executors have ended and their results are collected in order.      *)
AllEnded ==
    /\ op.phase = "run"
    /\ \A i \in DOMAIN execs : execs[i].status # "running"
    /\ op' = [cmd |-> "run", phase |-> "collect", run |-> op.run, keep |-> op.keep, at |-> 1]
    /\ UNCHANGED <<git, user, queue, refs, checkpoint, remote, execs, number, counters>>

Next1 == [op EXCEPT !.at = @ + 1]

Collecting == op.phase = "collect" /\ op.at \in DOMAIN execs

Diverged(old, new) == ~IsPrefix(old, new)

(* fetch_exps: a reference that has diverged is overwritten by force only,  *)
(* and left alone when the result is the same.                             *)
FetchRef(x) ==
    IF /\ x.key \in DOMAIN refs
       /\ Diverged(refs[x.key], x.head)
       /\ ~x.entry.force
    THEN /\ TreeOf(refs[x.key]) = TreeOf(x.head)
         /\ UNCHANGED refs
    ELSE refs' = SetRef(refs, x.key, x.head)

(* _collect_executor of one that has ended without an exception.           *)
Collect ==
    /\ Collecting
    /\ LET x == execs[op.at]
       IN  /\ x.status = "ok"
           /\ IF x.key = NoKey THEN UNCHANGED refs ELSE FetchRef(x)
           /\ checkpoint' = IF x.ckpt THEN x.head ELSE checkpoint
    /\ op' = Next1
    /\ UNCHANGED <<git, user, queue, remote, execs, number, counters>>

(* Broken form: the conflict is reported and the loop goes on. *)
CollectConflictGoesOn ==
    /\ Collecting
    /\ LET x == execs[op.at]
       IN  /\ x.status = "ok"
           /\ x.key \in DOMAIN refs
           /\ Diverged(refs[x.key], x.head)
           /\ ~x.entry.force
           /\ TreeOf(refs[x.key]) # TreeOf(x.head)
    /\ op' = Next1
    /\ UNCHANGED <<git, user, queue, refs, checkpoint, remote, execs, number, counters>>

(* ExperimentExistsError or CheckpointExistsError ends the command: what    *)
(* other executors have made is not collected.                             *)
CollectConflict ==
    /\ Collecting
    /\ LET x == execs[op.at]
       IN  /\ x.status = "ok"
           /\ x.key \in DOMAIN refs
           /\ Diverged(refs[x.key], x.head)
           /\ ~x.entry.force
           /\ TreeOf(refs[x.key]) # TreeOf(x.head)
    /\ Stop
    /\ UNCHANGED <<git, user, queue, refs, checkpoint, remote, number, counters>>

(* An exception of the executor is logged, and what it has committed goes   *)
(* with its directory; a cancelled one raises here.                        *)
CollectFailed ==
    /\ Collecting
    /\ \/ execs[op.at].status = "failed" /\ op' = Next1 /\ UNCHANGED execs
       \/ execs[op.at].status = "cancelled" /\ Stop
    /\ UNCHANGED <<git, user, queue, refs, checkpoint, remote, number, counters>>

(* Results are kept under the commits that executors have started from      *)
(* (item.rev), and looked up among the commits of the stash, where none of  *)
(* them is.                                                                *)
Succeeded == {execs[i].entry.rev : i \in {j \in DOMAIN execs : execs[j].status = "ok"}}

(* Broken form: whatever was to run is dropped. *)
ToDropAll == {i \in DOMAIN queue : \E j \in DOMAIN op.run : op.run[j] = queue[i]}

ToDrop ==
    IF op.keep
    THEN {i \in DOMAIN queue : StashRev(queue[i]) \in Succeeded}
    ELSE {i \in DOMAIN queue : \E j \in DOMAIN op.run : op.run[j] = queue[i]}

CollectEnd ==
    /\ op.phase = "collect"
    /\ op.at \notin DOMAIN execs
    /\ op' = [cmd |-> "run", phase |-> "drop", run |-> op.run, drop |-> ToDrop]
    /\ UNCHANGED <<git, user, queue, refs, checkpoint, remote, execs, number, counters>>

(* Stash.drop by index, one entry after the other, the last one first: what *)
(* follows an entry moves up when it is dropped.                           *)
DropEntry ==
    /\ op.phase = "drop"
    /\ \E i \in op.drop :
          /\ \A j \in op.drop : j <= i
          /\ queue' = RemoveAt(queue, i)
          /\ op' = [op EXCEPT !.drop = @ \ {i}]
    /\ UNCHANGED <<git, user, refs, checkpoint, remote, execs, number, counters>>

DropEnd ==
    /\ op.phase = "drop"
    /\ op.drop = {}
    /\ Stop
    /\ UNCHANGED <<git, user, queue, refs, checkpoint, remote, number, counters>>

-----------------------------------------------------------------------------
(* exp gc.                                                                 *)

(* Entries to drop; --queued keeps those of a baseline that is kept.       *)
ToCollect(keep, queued) ==
    {i \in DOMAIN queue : ~queued \/ queue[i].baseline \notin keep}

(* The baselines to keep: the commit of the workspace, or the tips of all   *)
(* branches.                                                               *)
StartGc(keep, queued) ==
    /\ MayStart
    /\ op' = [cmd |-> "gc", phase |-> "gc", keep |-> keep,
              discard |-> {e \in ToSet(queue) : ~queued \/ e.baseline \notin keep},
              drop |-> ToCollect(keep, queued)]
    /\ UNCHANGED <<git, user, queue, refs, checkpoint, remote, execs, number>>

GcRef(k) ==
    /\ op.phase = "gc"
    /\ k \in DOMAIN refs
    /\ k.base \notin op.keep
    /\ refs' = Restrict(refs, DOMAIN refs \ {k})
    /\ UNCHANGED <<git, user, queue, checkpoint, remote, op, execs, number, counters>>

GcRefsDone ==
    /\ op.phase = "gc"
    /\ \A k \in DOMAIN refs : k.base \in op.keep
    /\ Phase("drop")
    /\ UNCHANGED <<git, user, queue, refs, checkpoint, remote, execs, number, counters>>

-----------------------------------------------------------------------------
(* exp apply, exp branch, exp push and exp pull.                           *)

(* check_baseline and get_branch_by_rev: the experiment of an entry or of   *)
(* exactly one reference, made from the current commit.                    *)
MayApply(c) ==
    \/ \E i \in DOMAIN queue : StashRev(queue[i]) = c /\ queue[i].baseline = Rev
    \/ Cardinality(Containing(c)) = 1 /\ \A k \in Containing(c) : k.base = Rev \/ c = Rev

StartApply(c) ==
    /\ MayStart
    /\ MayApply(c)
    /\ op' = [cmd |-> "apply", phase |-> "astash", stashed |-> FALSE]
    /\ UNCHANGED <<git, user, queue, refs, checkpoint, remote, execs, number>>

ApplyStash ==
    /\ op.phase = "astash"
    /\ stash' = IF work.user = {} THEN stash ELSE <<work.user>> \o stash
    /\ op' = [op EXCEPT !.stashed = work.user # {}, !.phase = "merge"]
    /\ work' = [work EXCEPT !.user = {}]
    /\ UNCHANGED <<git, changes, refused, queue, refs, checkpoint, remote, execs, number, counters>>

(* git merge --squash; when it fails, nobody takes the changes back.       *)
ApplyMerge ==
    /\ op.phase = "merge"
    /\ \/ work' = [work EXCEPT !.exp = TRUE] /\ Phase("unstash") /\ UNCHANGED refused
       \/ op' = Idle /\ refused' = (refused \/ op.stashed) /\ UNCHANGED work
    /\ UNCHANGED <<git, changes, stash, queue, refs, checkpoint, remote, execs, number, counters>>

(* stash.apply; after a conflict the experiment is preferred, and what the  *)
(* user had changed may be given up.                                       *)
ApplyUnstash ==
    /\ op.phase = "unstash"
    /\ IF op.stashed
       THEN \E kept \in SUBSET stash[1] :
               /\ work' = [work EXCEPT !.user = @ \cup kept]
               /\ changes' = changes \ (stash[1] \ kept)
       ELSE UNCHANGED <<work, changes>>
    /\ Phase("adrop")
    /\ UNCHANGED <<git, stash, refused, queue, refs, checkpoint, remote, execs, number, counters>>

(* The stash is dropped; what has been applied is now the user's to commit. *)
ApplyEnd ==
    /\ op.phase = "adrop"
    /\ stash' = IF op.stashed THEN Tail(stash) ELSE stash
    /\ work' = [user |-> work.user \cup {<<"tracked", 0>>}, exp |-> FALSE]
    /\ changes' = changes \cup {<<"tracked", 0>>}
    /\ op' = Idle
    /\ UNCHANGED <<git, refused, queue, refs, checkpoint, remote, execs, number, counters>>

(* exp branch: a new git branch at the tip of the experiment.              *)
BranchExp(c, b) ==
    /\ MayStart
    /\ b \in Branch \ DOMAIN heads
    /\ \E k \in Containing(c) :
          /\ Cardinality(Containing(c)) > 1 => k.base = Rev
          /\ heads' = SetRef(heads, b, refs[k])
    /\ UNCHANGED <<HEAD, home, user, queue, refs, checkpoint, remote, op, execs, number>>

(* exp push: a reference that has diverged is replaced by force only.      *)
PushExp(name, force) ==
    /\ MayStart
    /\ \E k \in ByName(refs, name, Rev) :
          /\ (k \in DOMAIN remote /\ Diverged(remote[k], refs[k])) => force
          /\ remote' = SetRef(remote, k, refs[k])
    /\ UNCHANGED <<git, user, queue, refs, checkpoint, op, execs, number>>

StartPull(name, force) ==
    /\ MayStart
    /\ \E k \in ByName(remote, name, Rev) :
          op' = [cmd |-> "pull", phase |-> "pull", key |-> k, force |-> force]
    /\ UNCHANGED <<git, user, queue, refs, checkpoint, remote, execs, number>>

(* Broken form: what has diverged is replaced. *)
PullExpOverwrites ==
    /\ op.phase = "pull"
    /\ refs' = SetRef(refs, op.key, remote[op.key])
    /\ op' = Idle
    /\ UNCHANGED <<git, user, queue, checkpoint, remote, execs, number, counters>>

(* exp pull.                                                               *)
PullExp ==
    /\ op.phase = "pull"
    /\ IF op.key \in DOMAIN refs /\ Diverged(refs[op.key], remote[op.key]) /\ ~op.force
       THEN UNCHANGED refs
       ELSE refs' = SetRef(refs, op.key, remote[op.key])
    /\ op' = Idle
    /\ UNCHANGED <<git, user, queue, checkpoint, remote, execs, number, counters>>

-----------------------------------------------------------------------------
(* The user, another clone, and crashes.  What users do matters only to a    *)
(* command that follows.                                                   *)

BetweenCommands == op = Idle /\ commands < MaxCommands

UserEdit(kind) ==
    /\ BetweenCommands
    /\ edits < MaxEdits
    /\ edits' = edits + 1
    /\ changes' = changes \cup {<<kind, edits'>>}
    /\ work' = [work EXCEPT !.user = @ \cup {<<kind, edits'>>}]
    /\ UNCHANGED <<git, stash, refused, queue, refs, checkpoint, remote, op, execs, number,
                   commands, crashes, pushes>>

UserCommit ==
    /\ BetweenCommands
    /\ HEAD.branch # "none"
    /\ Tracked(work.user) # {}
    /\ number <= MaxCommits
    /\ heads' = [heads EXCEPT ![HEAD.branch] = Append(@, <<"user", number>>)]
    /\ number' = number + 1
    /\ work' = [work EXCEPT !.user = @ \ Tracked(@)]
    /\ changes' = changes \ Tracked(work.user)
    /\ UNCHANGED <<HEAD, home, stash, refused, queue, refs, checkpoint, remote, op, execs, counters>>

UserCheckout(b) ==
    /\ BetweenCommands
    /\ b \in DOMAIN heads
    /\ work.user = {}
    /\ HEAD # Attached(b)
    /\ HEAD' = Attached(b)
    /\ home' = HEAD'
    /\ UNCHANGED <<heads, user, queue, refs, checkpoint, remote, op, execs, number, counters>>

(* Another clone pushes an experiment, new, grown or by force.  It matters  *)
(* to a command only before it looks at the remote.                        *)
OtherPush(k, t) ==
    /\ BetweenCommands \/ op.cmd = "pull"
    /\ pushes < MaxPushes
    /\ number <= MaxCommits
    /\ pushes' = pushes + 1
    /\ number' = number + 1
    /\ \E c \in {k.base} \cup (IF k \in DOMAIN remote THEN {remote[k]} ELSE {}) :
          remote' = SetRef(remote, k, Append(c, <<t, number>>))
    /\ UNCHANGED <<git, user, queue, refs, checkpoint, op, execs, commands, edits, crashes>>

(* The main process dies; its executors and what they have made are gone.   *)
(* While they are set up or run, this is what InitFails and Interrupt do.  *)
Crash ==
    /\ op # Idle
    /\ op.phase \notin {"init", "run"}
    /\ crashes < MaxCrashes
    /\ crashes' = crashes + 1
    /\ Stop
    /\ home' = HEAD
    /\ work' = [user |-> IF work.exp THEN work.user \cup {<<"tracked", 0>>} ELSE work.user,
                exp |-> FALSE]
    /\ UNCHANGED <<heads, HEAD, changes, stash, refused, queue, refs, checkpoint, remote, number,
                   commands, edits, pushes>>

-----------------------------------------------------------------------------
Stashing ==
    \/ StashWorkspace \/ ApplyChanges \/ ApplyFails \/ DetachHead \/ Prepare
    \/ PushEntry \/ RestoreHead \/ ResetHard \/ PopApply \/ PopDrop

Reproducing ==
    \/ InitExecutors \/ InitFails \/ Interrupt \/ AllEnded
    \/ \E i \in DOMAIN execs :
          \/ \E t \in Tree, ckpt \in BOOLEAN : ExecCommit(i, t, ckpt)
          \/ \E status \in {"ok", "failed"} : ExecEnd(i, status)
    \/ Collect \/ CollectConflict \/ CollectFailed \/ CollectEnd
    \/ DropEntry \/ DropEnd

Starting ==
    \/ \E name \in Name, force, queued \in BOOLEAN :
          \/ StartNew(name, force, queued)
          \/ \E c \in Commits, k \in DOMAIN refs, params \in BOOLEAN :
                StartResume(c, k, params, name, force, queued)
    \/ StartRunAll
    \/ \E keep \in {{Rev}, {heads[b] : b \in DOMAIN heads}}, queued \in BOOLEAN :
          StartGc(keep, queued)
    \/ \E c \in Commits \cup {StashRev(queue[i]) : i \in DOMAIN queue} : StartApply(c)
    \/ \E c \in Commits, b \in Branch : BranchExp(c, b)
    \/ \E name \in Name, force \in BOOLEAN : PushExp(name, force) \/ StartPull(name, force)

Others ==
    \/ \E kind \in {"tracked", "untracked"} : UserEdit(kind)
    \/ UserCommit
    \/ \E b \in Branch : UserCheckout(b)
    \/ \E name \in Name, t \in Tree : OtherPush(Key(First, name), t)
    \/ Crash

Next ==
    \/ Starting \/ Stashing \/ Reproducing
    \/ \E k \in DOMAIN refs : GcRef(k)
    \/ GcRefsDone
    \/ ApplyStash \/ ApplyMerge \/ ApplyUnstash \/ ApplyEnd
    \/ PullExp
    \/ Others

Spec == Init /\ [][Next]_vars
-----------------------------------------------------------------------------
Commit == Seq((Tree \cup {"first", "user"}) \X Nat) \ {NoCommit}
KeyType == [base : Commit, name : Name]
Place == [branch : Branch, rev : {NoCommit}] \cup [branch : {"none"}, rev : Commit]
Edit == {"tracked", "untracked"} \X Nat

EntryType ==
    [rev : Commit, baseline : Commit, key : KeyType \cup {NoKey}, name : Name,
     force : BOOLEAN, queued : BOOLEAN, id : Nat]

ExecutorType ==
    [entry : EntryType, head : Commit, key : KeyType \cup {NoKey}, ckpt : BOOLEAN,
     status : {"running", "ok", "failed", "cancelled"}]

(* What a command remembers, by what it does.                              *)
Preparing ==
    [cmd : {"new"}, phase : {"stash", "apply", "detach", "prepare", "push"},
     target : [rev : Commit, baseline : Commit, key : KeyType \cup {NoKey}, include : BOOLEAN],
     name : Name, force : BOOLEAN, queued : BOOLEAN, orig : Place, stashed : BOOLEAN]
Unwinding ==
    [cmd : {"new"}, phase : {"restore", "reset", "pop", "popdrop"}, orig : Place,
     stashed : BOOLEAN, failed : BOOLEAN, queued : BOOLEAN]
Running == [cmd : {"run"}, phase : {"init", "run"}, run : Seq(EntryType), keep : BOOLEAN]
Fetching == [cmd : {"run"}, phase : {"collect"}, run : Seq(EntryType), keep : BOOLEAN, at : Nat \ {0}]
Dropping == [cmd : {"run"}, phase : {"drop"}, run : Seq(EntryType), drop : SUBSET Nat]
Cleaning ==
    [cmd : {"gc"}, phase : {"gc", "drop"}, keep : SUBSET Commit, discard : SUBSET EntryType,
     drop : SUBSET Nat]
Applying == [cmd : {"apply"}, phase : {"astash", "merge", "unstash", "adrop"}, stashed : BOOLEAN]
Pulling == [cmd : {"pull"}, phase : {"pull"}, key : KeyType, force : BOOLEAN]

Operation ==
    {Idle} \cup Preparing \cup Unwinding \cup Running \cup Fetching \cup Dropping
    \cup Cleaning \cup Applying \cup Pulling

GitTypes ==
    /\ heads \in [DOMAIN heads -> Commit] /\ DOMAIN heads \subseteq Branch
    /\ \A h \in {HEAD, home} :
          h \in Place /\ (h.branch # "none" => h.branch \in DOMAIN heads)

UserTypes ==
    /\ work \in [user : SUBSET Edit, exp : BOOLEAN]
    /\ changes \subseteq Edit
    /\ refused \in BOOLEAN
    /\ stash \in Seq(SUBSET Edit)

StoreTypes ==
    /\ queue \in Seq(EntryType)
    /\ refs \in [DOMAIN refs -> Commit] /\ DOMAIN refs \subseteq KeyType
    /\ remote \in [DOMAIN remote -> Commit] /\ DOMAIN remote \subseteq KeyType
    /\ checkpoint \in Commit \cup {NoCommit}

CommandTypes ==
    /\ op \in Operation
    /\ op.phase = "pull" => op.key \in DOMAIN remote
    /\ execs \in Seq(ExecutorType)
    /\ execs # <<>> => op.cmd = "run"

Counted == {number, commands, edits, crashes, pushes} \subseteq Nat

(* Type correctness; a branch that is checked out exists, an experiment has *)
(* commits, and executors are there only while the command is that runs     *)
(* them (Experiments._reproduce).                                          *)
TypeOK == GitTypes /\ UserTypes /\ StoreTypes /\ CommandTypes /\ Counted

(* What the user has changed is in the workspace or in refs/stash, whatever *)
(* step of a command fails or dies; only a conflict in exp apply gives it   *)
(* up ("prefer experiment changes over prior stashed changes", apply.py).  *)
UserChangesKept == changes \subseteq work.user \cup UNION ToSet(stash)

(* A command that is over has put HEAD back, and the changes of the user    *)
(* into the workspace, unless it died or git refused (stash_workspace,     *)
(* detach_head).                                                           *)
WorkspaceRestored ==
    op = Idle =>
        /\ HEAD = home
        /\ crashes = 0 /\ ~refused => changes \subseteq work.user /\ stash = <<>>

Recorded(x) ==
    /\ x.key \in DOMAIN refs
    /\ \E n \in DOMAIN refs[x.key] : refs[x.key][n][1] = TreeOf(x.head)

(* When exp run has collected its executors, what each of them has made     *)
(* under a name that nobody forced is among the commits of the reference:   *)
(* as such, or as one with the same contents, where it was left alone       *)
(* ("Reproduced existing experiment", _collect_executor).                  *)
ResultKept ==
    op.cmd = "run" /\ op.phase = "drop" =>
        \A x \in ToSet(execs) :
            /\ x.status = "ok" /\ x.key # NoKey
            /\ \A y \in ToSet(execs) : y.key = x.key => ~y.entry.force
            => Recorded(x)

OnlyDropped ==
    \A e \in ToSet(queue) \ ToSet(queue') : (op.cmd = "gc" /\ e \in op.discard) \/ ~e.queued

(* An entry that was queued for later leaves the queue only because gc has  *)
(* decided so: entries are dropped by index, and the index is that of the   *)
(* entry that was meant, whatever has been queued, run and dropped before.  *)
(* One that fails to run is kept, as it should be ("preserved if they fail  *)
(* to reproduce successfully", __init__.py:398), but so is one that         *)
(* succeeds: see SuccessDropped.                                           *)
QueueKept == [][OnlyDropped]_vars

(* "only drop successfully run stashed experiments" (__init__.py:427): when *)
(* --run-all has dropped what it drops, the entries that ran well are gone. *)
SuccessDropped ==
    op.cmd = "run" /\ op.phase = "drop" /\ op.drop = {} =>
        \A x \in ToSet(execs) : x.status = "ok" => x.entry \notin ToSet(queue)

(* What the user has permitted to replace or discard: the experiment that   *)
(* a forced run or pull is about, and those that gc does not keep.         *)
Permit ==
    IF Collecting
    THEN IF execs[op.at].entry.force THEN {execs[op.at].key} ELSE {}
    ELSE CASE op.phase = "pull" -> IF op.force THEN {op.key} ELSE {}
           [] op.phase = "gc" -> {k \in DOMAIN refs : k.base \notin op.keep}
           [] OTHER -> {}

Store == INSTANCE ExperimentStore WITH store <- refs, permit <- Permit

(* The references implement ExperimentStore: an experiment that is recorded *)
(* only grows unless the user permits otherwise (fetch_exps, exp pull, gc). *)
StoreSpec == Store!Spec

-----------------------------------------------------------------------------
(* What the properties rest on.                                            *)

(* What a command may take out of the workspace is in refs/stash, from when *)
(* it has been put aside until it is back.                                 *)
Safe ==
    /\ UserChangesKept
    /\ op.cmd \in {"new", "apply"} /\ op.stashed => stash # <<>>
    /\ op.phase \in {"apply", "detach", "prepare", "push", "restore", "reset"} =>
          Tracked(work.user) \subseteq IF op.stashed THEN stash[1] ELSE {}
    /\ op.phase = "popdrop" => op.stashed /\ stash[1] \subseteq work.user
    /\ op.phase = "adrop" /\ op.stashed => changes \cap stash[1] \subseteq work.user

(* HEAD is elsewhere only where detach_head has put it, and refs/stash holds *)
(* one entry while its command goes on, unless one died or git refused.     *)
Restoring ==
    /\ op.phase \in {"stash", "apply", "detach", "prepare", "push", "restore"} => op.orig = home
    /\ op.phase \notin {"prepare", "push", "restore"} => HEAD = home
    /\ op.phase \in {"stash", "astash"} => ~op.stashed
    /\ crashes = 0 /\ ~refused =>
          Len(stash) = IF op.cmd \in {"new", "apply"} /\ op.stashed THEN 1 ELSE 0

(* What executors have made, up to the one that is collected next.         *)
Collected ==
    op.cmd = "run" /\ op.phase \in {"collect", "drop"} =>
        \A i \in DOMAIN execs :
            /\ op.phase = "collect" => i < op.at
            /\ execs[i].status = "ok" /\ execs[i].key # NoKey
            /\ \A j \in DOMAIN execs : execs[j].key = execs[i].key => ~execs[j].entry.force
            => Recorded(execs[i])

(* Of the entries of the queue only those are dropped that gc is to discard *)
(* or that were made to run at once.                                       *)
Droppable ==
    /\ op.phase \in {"restore", "reset", "pop", "popdrop"} /\ ~op.failed =>
          queue # <<>> /\ queue[1].queued = op.queued
    /\ op.phase \in {"init", "run", "collect"} /\ ~op.keep =>
          \A j \in DOMAIN op.run : ~op.run[j].queued
    /\ op.phase \in {"gc", "drop"} =>
          \A i \in op.drop :
              /\ i \in DOMAIN queue
              /\ op.cmd = "gc" => queue[i] \in op.discard
              /\ op.cmd = "run" => ~queue[i].queued
=============================================================================
