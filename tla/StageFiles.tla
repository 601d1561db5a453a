------------------------------ MODULE StageFiles -------------------------------
(***************************************************************************)
(* The files that say which stages there are: dvc.yaml, dvc.lock, the .dvc *)
(* files and .gitignore, and the commands that rewrite them record by      *)
(* record: run, add, import-url, update, repro, remove, move, freeze and   *)
(* unfreeze.                                                               *)
(*                                                                         *)
(* A command holds the repository lock (module RWLock), except while the   *)
(* command of a stage runs; then other dvc processes work on the same      *)
(* files, and only the rwlock keeps them from the paths of that stage.     *)
(* Every file is rewritten in place, by dump_yaml and by ignore_remove:    *)
(* it is truncated first.                                                  *)
(***************************************************************************)
EXTENDS Graph

CONSTANTS Proc,          \* dvc processes, each of which runs one command
          RunDefs,       \* stages dvc run may be asked for
          AddGroups,     \* sequences of groups of targets of dvc add
          Imports,       \* paths dvc import-url may write
          MoveTo,        \* paths dvc move may move to
          Projects,      \* sets of stages to start from
          Orders         \* orders in which a file system lists the paths

VARIABLES yaml,          \* the stages of dvc.yaml
          lock,          \* the entries of dvc.lock: key, deps and outs
          dvc,           \* the stages of the .dvc files
          broken,        \* files that do not parse
          ignored,       \* the paths .gitignore lists
          holder,        \* the process with the repository lock, or "none"
          op,            \* what every process is doing
          torn,          \* has a crash cut a file short?
          found,         \* per process: entries of .gitignore that have been
                         \* there since before its command began
          exposed        \* outputs whose .gitignore entry was lost, or taken
                         \* back by the command that had put it there

files == <<yaml, lock, dvc, broken>>
vars == <<yaml, lock, dvc, broken, ignored, holder, op, torn, found, exposed>>

YamlFile == <<"dvc.yaml">>
LockFile == <<"dvc.lock">>

Record(key, deps, outs, frozen) ==
    [key |-> key, deps |-> deps, outs |-> outs, frozen |-> frozen]
DataStage(path) == Record(path, {}, {path}, FALSE)

(* The paths and stages there may be.  What add, import-url and move write *)
(* is data: dvc.yaml is none of it.                                        *)
Targets == UNION {ToSet(g) : g \in UNION {ToSet(groups) : groups \in AddGroups}}
Given == RunDefs \cup UNION Projects
Paths ==
    Targets \cup Imports \cup MoveTo
    \cup UNION {{s.key} \cup s.deps \cup s.outs : s \in Given}
Stage == [key : Paths, deps : SUBSET Paths, outs : SUBSET Paths, frozen : BOOLEAN]
Entry == [key : Paths, deps : SUBSET Paths, outs : SUBSET Paths]

OneRecordEach(records) == \A s, t \in records : s.key = t.key => s = t

ASSUME ProcessNames == "none" \notin Proc
ASSUME GivenStages == Given \subseteq Stage /\ \A stages \in Projects : OneRecordEach(stages)
ASSUME DataPaths == \A path \in Targets \cup Imports \cup MoveTo : ~PipelineKey(path)
ASSUME ListedPaths == \A order \in Orders : order \in Seq(Paths) /\ Paths \subseteq ToSet(order)
ASSUME AddedGroups == AddGroups \subseteq Seq(Seq(Targets)) \ {<<>>}

PutRecord(records, s) == {t \in records : t.key # s.key} \cup {s}
Drop(records, keys) == {t \in records : t.key \notin keys}
KeysOf(records) == {s.key : s \in records}
LockEntry(s) == [key |-> s.key, deps |-> s.deps, outs |-> s.outs]

(* Repo.stages, which loads every file *)
Stages == yaml \cup dvc
FileOf(s) == IF PipelineKey(s.key) THEN YamlFile ELSE s.key

(* fill_from_lock: an output has a hash when the entry has its path; the   *)
(* outputs of .dvc files have theirs beside them.                          *)
RecordedOuts ==
    (UNION {s.outs : s \in dvc})
    \cup (UNION {x[1].outs \cap x[2].outs :
                    x \in {y \in yaml \X lock : y[1].key = y[2].key}})

NoOp == [cmd |-> "idle", pc |-> "none", work |-> <<>>, later |-> <<>>, names |-> {},
         mine |-> {}, noExec |-> FALSE, target |-> <<>>, downstream |-> FALSE,
         overtaken |-> FALSE]
Ended == [NoOp EXCEPT !.cmd = "ended"]
Active(p) == op[p].cmd \notin {"idle", "ended"}
Current(p) == Head(op[p].work)

Commands == {"idle", "ended", "run", "add", "import", "update", "repro", "remove", "move"}
Phases == {"none", "exec", "save", "yaml", "lock", "dvc", "create", "next",
           "unignore", "droplock", "dropyaml", "dropdvc"}
All == <<"all">>

Operation ==
    [cmd : Commands, pc : Phases, work : Seq(Stage), later : Seq(Seq(Targets)),
     names : SUBSET Paths, mine : SUBSET Paths, noExec : BOOLEAN,
     target : Paths \cup {All, <<>>}, downstream : BOOLEAN, overtaken : BOOLEAN]

(* Every file has one record of a stage, and stages of dvc.yaml and of     *)
(* .dvc files (dvcfile.py:332) are never in each other's file.             *)
TypeOK ==
    /\ yaml \subseteq Stage /\ dvc \subseteq Stage /\ lock \subseteq Entry
    /\ \A s \in yaml : PipelineKey(s.key)
    /\ \A s \in dvc : ~PipelineKey(s.key)
    /\ OneRecordEach(yaml) /\ OneRecordEach(dvc) /\ OneRecordEach(lock)
    /\ ignored \subseteq Paths /\ exposed \subseteq Paths
    /\ found \in [Proc -> SUBSET Paths]
    /\ broken \subseteq Paths \cup {YamlFile, LockFile}
    /\ holder \in Proc \cup {"none"}
    /\ op \in [Proc -> Operation]
    /\ torn \in BOOLEAN

(***************************************************************************)
(* Any project whose graph is valid; every stage that is recorded has its  *)
(* outputs in .gitignore, and a stage may not have run yet.                *)
(***************************************************************************)
Init ==
    /\ \E stages \in Projects :
          /\ ValidGraph(stages)
          /\ yaml = {s \in stages : PipelineKey(s.key)}
          /\ dvc = stages \ yaml
    /\ lock \in {{}, {LockEntry(s) : s \in yaml}}
    /\ ignored = RecordedOuts
    /\ broken = {} /\ torn = FALSE /\ exposed = {}
    /\ holder = "none"
    /\ op = [p \in Proc |-> NoOp]
    /\ found = [p \in Proc |-> {}]

(* What has been in .gitignore all through the command of a process.       *)
Recall ==
    found' = [q \in Proc |->
                IF op'[q].cmd \in {"idle", "ended"} THEN {}
                ELSE (IF Active(q) THEN found[q] ELSE ignored) \cap ignored']

(* What p does next.  A process that has looked at the stages before is    *)
(* overtaken when another one changes them.                                *)
Become(p, new) ==
    /\ op' = [q \in Proc |->
                IF q = p THEN new
                ELSE [op[q] EXCEPT !.overtaken =
                        @ \/ (Active(q) /\ <<yaml', dvc'>> # <<yaml, dvc>>)]]
    /\ Recall

Goto(p, pc) == Become(p, [op[p] EXCEPT !.pc = pc])

Start(p) == op[p].cmd = "idle" /\ holder = "none"

(* A command that is refused changes nothing. *)
Refuse(p) ==
    /\ UNCHANGED <<files, ignored, holder, torn, exposed>>
    /\ Become(p, Ended)

(* The rwlock: only a process in the command of its stage holds entries    *)
(* while another one is at work.                                           *)
Collide(P, Q) == {x \in P \X Q : Overlap(x[1], x[2])} # {}
LockedOut(p, reads, writes) ==
    {q \in Proc \ {p} :
        /\ op[q].pc = "exec"
        /\ \/ Collide(writes, Current(q).deps \cup Current(q).outs)
           \/ Collide(reads, Current(q).outs)} # {}

(***************************************************************************)
(* The end of a command.  scm_context forgets what the command has put     *)
(* into .gitignore when it succeeds; when it fails, cleanup_ignores takes  *)
(* it out again, whatever has been recorded meanwhile.                     *)
(***************************************************************************)
ScmContext == {"run", "add", "import", "repro", "move"}
TakenBack(p) == IF op[p].cmd \in ScmContext THEN op[p].mine ELSE {}

(* ignore_remove truncates the .gitignore of the path and writes the other *)
(* lines: a process killed in it leaves any part of the file.              *)
IgnoreCutShort(paths) ==
    \E lost \in SUBSET {x \in ignored : \E path \in paths : Front(x) = Front(path)} :
       /\ ignored' = ignored \ lost
       /\ exposed' = exposed \cup lost

Fail(p) ==
    /\ \/ /\ ignored' = ignored \ TakenBack(p)
          /\ exposed' = exposed \cup (TakenBack(p) \ found[p])
       \/ IgnoreCutShort(TakenBack(p))
    /\ holder' = "none"
    /\ Become(p, Ended)
    /\ UNCHANGED torn

(* The first step of the next stage of the command, or its end. *)
NextStage(p) ==
    LET rest == Tail(op[p].work) IN
    IF rest # <<>> THEN
        /\ Become(p, [op[p] EXCEPT !.work = rest,
                        !.pc = IF op[p].cmd = "repro" THEN "next" ELSE "save"])
        /\ UNCHANGED holder
    ELSE IF op[p].later # <<>> THEN
        /\ Become(p, [op[p] EXCEPT !.work = rest, !.pc = "create"])
        /\ UNCHANGED holder
    ELSE Become(p, Ended) /\ holder' = "none"

(***************************************************************************)
(* dvc run: create_stage, the check of the graph with the stage that has   *)
(* the name taken out under force, and then the command without the        *)
(* repository lock, or with --no-exec only the dump of dvc.yaml.           *)
(***************************************************************************)
(* Broken form: the graph is checked without the new stage. *)
OnlyOldStages(stages, d, force) == IF force THEN Drop(stages, {d.key}) ELSE stages

WithNewStage(stages, d, force) ==
    (IF force THEN Drop(stages, {d.key}) ELSE stages) \cup {d}

(* can_be_skipped: the stage is there as it is asked for and recorded. *)
MaybeCached(d) ==
    /\ d \in Stages
    /\ PipelineKey(d.key) => LockEntry(d) \in lock

RunAccepted(p, d, force, noExec) ==
    /\ broken = {}
    /\ force \/ d.key \notin KeysOf(Stages)
    /\ ValidGraph(WithNewStage(Stages, d, force))
    /\ noExec \/ ~LockedOut(p, d.deps, d.outs)

Run(p) ==
    /\ Start(p)
    /\ \E d \in RunDefs, force, noExec \in BOOLEAN :
          \/ /\ \/ ~RunAccepted(p, d, force, noExec)
                \/ MaybeCached(d)
             /\ Refuse(p)
          \/ /\ RunAccepted(p, d, force, noExec)
             /\ holder' = IF noExec THEN p ELSE "none"
             /\ UNCHANGED <<files, ignored, torn, exposed>>
             /\ Become(p, [NoOp EXCEPT !.cmd = "run", !.work = <<d>>,
                            !.names = {d.key}, !.noExec = noExec,
                            !.pc = IF noExec THEN "save" ELSE "exec"])

(* The command has ended and the repository lock is taken back. *)
ExecOk(p) ==
    /\ op[p].pc = "exec" /\ holder = "none"
    /\ holder' = p
    /\ UNCHANGED <<files, ignored, torn, exposed>>
    /\ Goto(p, "save")

ExecFails(p) ==
    /\ op[p].pc = "exec" /\ holder = "none"
    /\ UNCHANGED files
    /\ Fail(p)

(***************************************************************************)
(* save_outs or ignore_outs: every output enters .gitignore.  An output    *)
(* that is missing, or that Git tracks, ends the command: what entered     *)
(* before it is taken out with the rest, unless the command (update) has   *)
(* no scm_context.                                                         *)
(***************************************************************************)
FirstDump(p) ==
    IF ~PipelineKey(Current(p).key) THEN "dvc"
    ELSE IF op[p].cmd = "run" THEN "yaml" ELSE "lock"

(* Broken form: what is in .gitignore already is remembered as put there. *)
SaveClaims(p) ==
    /\ op[p].pc = "save"
    /\ ignored' = ignored \cup Current(p).outs
    /\ exposed' = exposed \ Current(p).outs
    /\ UNCHANGED <<files, holder, torn>>
    /\ Become(p, [op[p] EXCEPT !.pc = FirstDump(p), !.mine = @ \cup Current(p).outs])

Save(p) ==
    /\ op[p].pc = "save"
    /\ ignored' = ignored \cup Current(p).outs
    /\ exposed' = exposed \ Current(p).outs
    /\ UNCHANGED <<files, holder, torn>>
    /\ Become(p, [op[p] EXCEPT !.pc = FirstDump(p),
                    !.mine = @ \cup (Current(p).outs \ ignored)])

SaveFails(p) ==
    /\ op[p].pc = "save"
    /\ UNCHANGED files
    /\ Fail(p)

(***************************************************************************)
(* The dumps.  dvc.yaml and dvc.lock are read, changed in one record and   *)
(* rewritten; one that does not parse ends the command.  A .dvc file is    *)
(* rewritten from the stage in memory, whatever it held.                   *)
(***************************************************************************)
(* Broken form: the file is written from the stages of the check. *)
DumpAlone(records, s) == {s}

Modified(records, s) == PutRecord(records, s)

DumpYaml(p) ==
    /\ op[p].pc = "yaml" /\ YamlFile \notin broken
    /\ yaml' = Modified(yaml, Current(p))
    /\ UNCHANGED <<lock, dvc, broken, ignored, torn, exposed>>
    /\ IF op[p].cmd = "run" /\ ~op[p].noExec
       THEN Goto(p, "lock") /\ UNCHANGED holder
       ELSE NextStage(p)

DumpLock(p) ==
    /\ op[p].pc = "lock" /\ LockFile \notin broken
    /\ lock' = PutRecord(lock, LockEntry(Current(p)))
    /\ UNCHANGED <<yaml, dvc, broken, ignored, torn, exposed>>
    /\ NextStage(p)

DumpDvc(p) ==
    /\ op[p].pc = "dvc"
    /\ dvc' = PutRecord(dvc, Current(p))
    /\ broken' = broken \ {Current(p).key}
    /\ UNCHANGED <<yaml, lock, ignored, torn, exposed>>
    /\ NextStage(p)

DumpFails(p) ==
    /\ \/ op[p].pc = "yaml" /\ YamlFile \in broken
       \/ op[p].pc = "lock" /\ LockFile \in broken
    /\ UNCHANGED files
    /\ Fail(p)

(***************************************************************************)
(* dvc add: group by group of targets, the .dvc files of the group are     *)
(* removed, the graph is checked with the new stages, and they are saved   *)
(* and dumped one by one.  What did not change is left out.                *)
(***************************************************************************)
Add(p) ==
    /\ Start(p)
    /\ \E groups \in AddGroups :
          /\ holder' = p
          /\ UNCHANGED <<files, ignored, torn, exposed>>
          /\ Become(p, [NoOp EXCEPT !.cmd = "add", !.pc = "create",
                         !.names = UNION {ToSet(g) : g \in ToSet(groups)},
                         !.later = groups])

(* _create_stages: the stages of the group, in its order. *)
Made(group, kept) ==
    LET made[i \in 0..Len(group)] ==
            IF i = 0 THEN <<>>
            ELSE IF group[i] \in kept THEN Append(made[i - 1], DataStage(group[i]))
            ELSE made[i - 1]
    IN  made[Len(group)]

CreateFits(kept) ==
    ValidGraph(yaml \cup Drop(dvc, kept) \cup {DataStage(t) : t \in kept})

Create(p) ==
    /\ op[p].pc = "create"
    /\ LET group == Head(op[p].later)
           there == {t \in ToSet(group) : MaybeCached(DataStage(t))}
       IN \E skipped \in SUBSET there :
          LET kept == ToSet(group) \ skipped
              work == Made(group, kept)
          IN
          /\ kept \cap broken = {}
          /\ dvc' = Drop(dvc, kept)
          /\ UNCHANGED <<yaml, lock, broken, torn>>
          /\ \/ /\ broken = {} /\ CreateFits(kept)
                /\ work # <<>>
                /\ UNCHANGED <<ignored, holder, exposed>>
                /\ Become(p, [op[p] EXCEPT !.work = work, !.pc = "save",
                                !.later = Tail(@)])
             \/ /\ broken = {} /\ work = <<>>
                /\ UNCHANGED <<ignored, exposed>>
                /\ IF Len(op[p].later) > 1
                   THEN /\ Become(p, [op[p] EXCEPT !.later = Tail(@)])
                        /\ UNCHANGED holder
                   ELSE Become(p, Ended) /\ holder' = "none"
             \/ /\ broken # {} \/ ~CreateFits(kept)
                /\ Fail(p)

(* A .dvc file of a target that does not parse. *)
CreateFails(p) ==
    /\ op[p].pc = "create"
    /\ ToSet(Head(op[p].later)) \cap broken # {}
    /\ UNCHANGED files
    /\ Fail(p)

(***************************************************************************)
(* dvc import-url: the .dvc file is removed before the check of the graph, *)
(* and a frozen stage is written in the end.                               *)
(***************************************************************************)
Import(p) ==
    /\ Start(p)
    /\ \E path \in Imports :
          LET s == Record(path, {}, {path}, TRUE)
              fits == /\ broken = {}
                      /\ ValidGraph(yaml \cup Drop(dvc, {path}) \cup {s})
                      /\ ~LockedOut(p, {}, {path})
          IN \/ /\ path \in broken \/ MaybeCached(s)
                /\ Refuse(p)
             \/ /\ path \notin broken /\ ~fits
                /\ dvc' = Drop(dvc, {path})
                /\ UNCHANGED <<yaml, lock, broken, ignored, holder, torn, exposed>>
                /\ Become(p, [Ended EXCEPT !.names = {path}])
             \/ /\ fits
                /\ dvc' = Drop(dvc, {path})
                /\ holder' = p
                /\ UNCHANGED <<yaml, lock, broken, ignored, torn, exposed>>
                /\ Become(p, [NoOp EXCEPT !.cmd = "import", !.pc = "save",
                               !.names = {path}, !.work = <<s>>])

(***************************************************************************)
(* dvc update of an import: the output is removed and downloaded again and *)
(* the stage dumped as it was.  There is no scm_context.                   *)
(***************************************************************************)
Update(p) ==
    /\ Start(p)
    /\ \E s \in dvc :
          /\ s.frozen /\ s.key \notin broken
          /\ \/ LockedOut(p, {}, s.outs) /\ Refuse(p)
             \/ /\ ~LockedOut(p, {}, s.outs)
                /\ holder' = p
                /\ UNCHANGED <<files, ignored, torn, exposed>>
                /\ Become(p, [NoOp EXCEPT !.cmd = "update", !.pc = "save",
                               !.names = {s.key}, !.work = <<s>>])

(***************************************************************************)
(* dvc remove: the outputs leave .gitignore, then the entry leaves         *)
(* dvc.lock, then the stage leaves dvc.yaml, or the .dvc file goes.        *)
(***************************************************************************)
Loadable(s) == IF PipelineKey(s.key) THEN broken \cap {YamlFile, LockFile} = {}
               ELSE s.key \notin broken

RemoveStage(p) ==
    /\ Start(p)
    /\ \E s \in Stages :
          \/ /\ ~Loadable(s) \/ LockedOut(p, {}, s.outs)
             /\ Refuse(p)
          \/ /\ Loadable(s) /\ ~LockedOut(p, {}, s.outs)
             /\ holder' = p
             /\ UNCHANGED <<files, ignored, torn, exposed>>
             /\ Become(p, [NoOp EXCEPT !.cmd = "remove", !.pc = "unignore",
                            !.names = {s.key}, !.work = <<s>>])

(* The outputs of the other stages that are taken out as well: only where  *)
(* two stages have one output. *)
Shared(s) == s.outs \cap UNION {t.outs : t \in Drop(Stages, {s.key})}

Unignore(p) ==
    /\ op[p].pc = "unignore"
    /\ ignored' = ignored \ Current(p).outs
    /\ exposed' = exposed \cup Shared(Current(p))
    /\ UNCHANGED <<files, holder, torn>>
    /\ Become(p, IF op[p].cmd = "move"
                 THEN [op[p] EXCEPT !.work = Tail(@), !.pc = "save"]
                 ELSE [op[p] EXCEPT !.pc =
                         IF PipelineKey(Current(p).key) THEN "droplock" ELSE "dropdvc"])

(* The process is killed while it rewrites .gitignore. *)
UnignoreCutShort(p) ==
    /\ op[p].pc = "unignore"
    /\ IgnoreCutShort(Current(p).outs)
    /\ holder' = "none"
    /\ UNCHANGED <<files, torn>>
    /\ Become(p, Ended)

(* Broken form: the stage leaves dvc.yaml first. *)
DropLockLate(p) ==
    /\ op[p].pc = "droplock"
    /\ yaml' = Drop(yaml, op[p].names)
    /\ UNCHANGED <<lock, dvc, broken, ignored, holder, torn, exposed>>
    /\ Goto(p, "dropyaml")

DropLock(p) ==
    /\ op[p].pc = "droplock"
    /\ lock' = Drop(lock, op[p].names)
    /\ UNCHANGED <<yaml, dvc, broken, ignored, holder, torn, exposed>>
    /\ Goto(p, "dropyaml")

DropYaml(p) ==
    /\ op[p].pc = "dropyaml"
    /\ yaml' = Drop(yaml, op[p].names)
    /\ UNCHANGED <<lock, dvc, broken, ignored, torn, exposed>>
    /\ NextStage(p)

DropDvc(p) ==
    /\ op[p].pc = "dropdvc"
    /\ dvc' = Drop(dvc, op[p].names)
    /\ UNCHANGED <<yaml, lock, broken, ignored, torn, exposed>>
    /\ NextStage(p)

(***************************************************************************)
(* dvc move of data that dvc tracks: the .dvc file goes first, then the    *)
(* entry of .gitignore; the data is moved and saved under the new name.    *)
(* The graph is not checked, and what is at the new name is overwritten.   *)
(***************************************************************************)
Move(p) ==
    /\ Start(p)
    /\ \E s \in dvc, to \in MoveTo :
          \/ /\ \/ broken # {}
                \/ Cardinality({x \in Outs(Stages) : x[2] = s.key}) # 1
             /\ Refuse(p)
          \/ /\ broken = {}
             /\ Cardinality({x \in Outs(Stages) : x[2] = s.key}) = 1
             /\ to # s.key
             /\ dvc' = Drop(dvc, {s.key})
             /\ holder' = p
             /\ UNCHANGED <<yaml, lock, broken, ignored, torn, exposed>>
             /\ Become(p, [NoOp EXCEPT !.cmd = "move", !.pc = "unignore",
                            !.names = {s.key, to},
                            !.work = <<s, Record(to, {}, {to}, s.frozen)>>])

(***************************************************************************)
(* dvc freeze and unfreeze: one dump, of dvc.yaml alone or the .dvc file.  *)
(***************************************************************************)
Freeze(p) ==
    /\ Start(p)
    /\ \E s \in Stages :
          \/ ~Loadable(s) /\ Refuse(p)
          \/ /\ Loadable(s)
             /\ LET new == [s EXCEPT !.frozen = ~@]
                IN IF PipelineKey(s.key)
                   THEN yaml' = Modified(yaml, new) /\ UNCHANGED dvc
                   ELSE dvc' = PutRecord(dvc, new) /\ UNCHANGED yaml
             /\ UNCHANGED <<lock, broken, ignored, holder, torn, exposed>>
             /\ Become(p, [Ended EXCEPT !.names = {s.key}])

(***************************************************************************)
(* dvc repro of one target, up or down the active graph, or of all         *)
(* pipelines.  The stages are loaded once, in the beginning.               *)
(***************************************************************************)
Listed(order) == Kept(order, KeysOf(Stages))

Frozen(stages) == KeysOf({s \in stages : s.frozen})

Plan(order, target, downstream) ==
    LET G == GraphOf(Stages, order)
        A == ActiveGraph(G, order, Frozen(Stages))
        active == Successors(A, G)
        targets == IF target = All
                   THEN Kept(order, RootsOf(active))
                   ELSE <<target>>
    IN  IF A.failed \/ ~(ToSet(targets) \subseteq A.nodes) THEN <<>>
        ELSE GetPipeline(active, order, targets, downstream)

Work(order, target, downstream) ==
    LET plan == Plan(Listed(order), target, downstream)
    IN  [i \in DOMAIN plan |-> ByKey(Stages, plan[i])]

Repro(p) ==
    /\ Start(p)
    /\ \/ /\ broken # {} \/ ~ValidGraph(Stages)
          /\ Refuse(p)
       \/ /\ broken = {} /\ ValidGraph(Stages)
          /\ \E order \in Orders, target \in KeysOf(Stages) \cup {All}, downstream \in BOOLEAN :
                LET work == Work(order, target, downstream) IN
                \/ work = <<>> /\ Refuse(p)
                \/ /\ work # <<>>
                   /\ holder' = p
                   /\ UNCHANGED <<files, ignored, torn, exposed>>
                   /\ Become(p, [NoOp EXCEPT !.cmd = "repro", !.pc = "next",
                                  !.work = work,
                                  !.names = KeysOf(ToSet(work)), !.target = target,
                                  !.downstream = downstream])

(* Stage.reproduce: nothing when it did not change; a stage with a command *)
(* that is not frozen runs it without the repository lock. *)
Reproduce(p) ==
    /\ op[p].pc = "next"
    /\ UNCHANGED <<files, torn>>
    /\ LET s == Current(p) IN
       \/ LockedOut(p, s.deps, s.outs) /\ Fail(p)
       \/ /\ ~LockedOut(p, s.deps, s.outs)
          /\ UNCHANGED <<ignored, exposed>>
          /\ \/ NextStage(p)
             \/ /\ PipelineKey(s.key) /\ ~s.frozen
                /\ Goto(p, "exec") /\ holder' = "none"
             \/ /\ ~PipelineKey(s.key) \/ s.frozen
                /\ Goto(p, "save") /\ UNCHANGED holder

(***************************************************************************)
(* A process dies: between two files, or while it writes one, which is     *)
(* then empty or ends early: it has some of the records, or does not parse.*)
(***************************************************************************)
Die(p) ==
    /\ holder' = IF holder = p THEN "none" ELSE holder
    /\ exposed' = exposed \cup IF op[p].pc \in {"droplock", "dropyaml", "dropdvc"}
                               THEN Current(p).outs ELSE {}

Crash(p) ==
    /\ Active(p)
    /\ Die(p)
    /\ UNCHANGED <<files, ignored, torn>>
    /\ Become(p, Ended)

CrashWriting(p) ==
    /\ op[p].pc \in {"yaml", "lock", "dvc", "droplock", "dropyaml"}
    /\ torn' = TRUE
    /\ UNCHANGED ignored
    /\ LET s == Current(p)
           pc == op[p].pc
           new == IF pc = "yaml" THEN PutRecord(yaml, s)
                  ELSE IF pc = "lock" THEN PutRecord(lock, LockEntry(s))
                  ELSE IF pc = "droplock" THEN Drop(lock, op[p].names)
                  ELSE Drop(yaml, op[p].names)
       IN \/ /\ pc \in {"yaml", "dropyaml"}
             /\ \/ yaml' \in SUBSET new /\ UNCHANGED broken
                \/ yaml' = {} /\ broken' = broken \cup {YamlFile}
             /\ UNCHANGED <<lock, dvc>>
          \/ /\ pc \in {"lock", "droplock"}
             /\ \/ lock' \in SUBSET new /\ UNCHANGED broken
                \/ lock' = {} /\ broken' = broken \cup {LockFile}
             /\ UNCHANGED <<yaml, dvc>>
          \/ /\ pc = "dvc"
             /\ \/ dvc' = Drop(dvc, {s.key}) /\ UNCHANGED broken
                \/ dvc' = Drop(dvc, {s.key}) /\ broken' = broken \cup {s.key}
             /\ UNCHANGED <<yaml, lock>>
    /\ Die(p)
    /\ Become(p, Ended)

Step(p) ==
    \/ Run(p) \/ ExecOk(p) \/ ExecFails(p) \/ Save(p) \/ SaveFails(p)
    \/ DumpYaml(p) \/ DumpLock(p) \/ DumpDvc(p) \/ DumpFails(p)
    \/ Add(p) \/ Create(p) \/ CreateFails(p) \/ Import(p) \/ Update(p)
    \/ RemoveStage(p) \/ Unignore(p) \/ UnignoreCutShort(p)
    \/ DropLock(p) \/ DropYaml(p) \/ DropDvc(p)
    \/ Move(p) \/ Freeze(p) \/ Repro(p) \/ Reproduce(p)
    \/ Crash(p) \/ CrashWriting(p)

Next == \E p \in Proc : Step(p)

Spec == Init /\ [][Next]_vars

--------------------------------------------------------------------------------
(* The process that takes the step. *)
Moves(p) == [op[p] EXCEPT !.overtaken = FALSE] # [op'[p] EXCEPT !.overtaken = FALSE]

(* What a command checks before it runs a stage's command still holds when *)
(* it writes the stage: the graph of the files becomes invalid (an output  *)
(* twice or inside another, a cycle) only by dvc move, which does not      *)
(* check it (repo/move.py:45), or by a command that another process has    *)
(* overtaken while the repository lock was free (repo/run.py:127 and 139). *)
GraphKept ==
    [][ValidGraph(Stages) /\ ~ValidGraph(Stages')
       => \E p \in Proc : Moves(p) /\ (op[p].overtaken \/ op[p].cmd = "move")]_vars

(* dvc.lock never has an entry without a stage in dvc.yaml: dump writes    *)
(* the stage first and remove_stage the entry (dvcfile.py:195 and 253), so *)
(* that dying between the two files leaves none either.  Exceptions are a  *)
(* file cut short, and repro of a stage that was removed while its command *)
(* ran.                                                                    *)
Orphans == KeysOf(lock) \ KeysOf(yaml)
LockFollows ==
    [][~torn' /\ ~(Orphans' \subseteq Orphans)
       => \E p \in Proc : Moves(p) /\ op[p].overtaken /\ op[p].cmd = "repro"]_vars

(* A command never loses or changes the record of a stage it was not asked *)
(* for, in whichever order commands overlap (dvcfile.py:213 and 295 read   *)
(* the file again before they rewrite it): only a crash while a file is    *)
(* written does. *)
Changed(old, new) == KeysOf((old \ new) \cup (new \ old))
OthersKept ==
    [][~torn'
       => \E p \in Proc :
             Changed(yaml, yaml') \cup Changed(lock, lock') \cup Changed(dvc, dvc')
                 \subseteq op[p].names \cup op'[p].names]_vars

(* Every output with a recorded hash is in .gitignore, in whichever order  *)
(* commands overlap, fail and die: a failing command takes out again       *)
(* (scm/git/__init__.py:221) no entry that was there when it began and has *)
(* been since.  Exceptions are what the failing command had put there      *)
(* itself, even for a stage it has recorded before; what a process killed  *)
(* in the rewriting of .gitignore (scm/git/__init__.py:159) has cut off;   *)
(* what a killed remove has taken out; and what two stages share.          *)
BeingRemoved ==
    UNION {Current(p).outs : p \in {q \in Proc : op[q].pc \in {"droplock", "dropyaml", "dropdvc"}}}
RecordedIgnored == RecordedOuts \subseteq ignored \cup exposed \cup BeingRemoved

(* What dvc repro works on: everything the target needs through stages     *)
(* that are not frozen (or, downstream, everything that needs the target), *)
(* stages all, and none before what it needs (repo/reproduce.py:57 and     *)
(* 208).                                                                   *)
Closed(C) == \A s \in Stages : s.key \in C /\ ~s.frozen =>
                \A t \in Stages : Depends(s, t) => t.key \in C
Needed(roots) ==
    {n \in KeysOf(Stages) : \A C \in SUBSET KeysOf(Stages) : roots \subseteq C /\ Closed(C) => n \in C}
Roots == {s.key : s \in {x \in Stages : \A y \in Stages : ~Depends(y, x)}}
PlanStands ==
    \A p \in Proc : op[p].cmd = "idle" /\ op'[p].cmd = "repro" =>
       /\ LET targets == IF op'[p].target = All THEN Roots ELSE {op'[p].target}
          IN (IF op'[p].downstream
              THEN {n \in Needed(Roots) : targets \cap Needed({n}) # {}}
              ELSE Needed(targets)) \subseteq op'[p].names
       /\ op'[p].work \in Seq(Stages)
       /\ \A i, j \in DOMAIN op'[p].work :
             i < j => op'[p].work[i].frozen \/ ~Depends(op'[p].work[i], op'[p].work[j])
ReproPlan == [][PlanStands]_vars

--------------------------------------------------------------------------------
(* What StageFilesProofs needs to know of a state.                           *)

(* What a command can be at, and what it has in hand there.                  *)
PhasesOf(cmd) ==
    CASE cmd = "run"    -> {"exec", "save", "yaml", "lock", "dvc"}
      [] cmd = "add"    -> {"create", "save", "dvc"}
      [] cmd = "repro"  -> {"next", "exec", "save", "lock", "dvc"}
      [] cmd = "remove" -> {"unignore", "droplock", "dropyaml", "dropdvc"}
      [] cmd = "move"   -> {"unignore", "save", "dvc"}
      [] cmd \in {"import", "update"} -> {"save", "dvc"}
      [] OTHER          -> {"none"}

Holds(o) == o.pc \notin {"none", "exec"}

InHand(o) ==
    /\ o.pc \in PhasesOf(o.cmd)
    /\ o.pc \notin {"none", "create"} => o.work # <<>>
    /\ o.pc = "create" => o.later # <<>>
    /\ o.cmd # "add" => o.later = <<>>
    /\ o.cmd \in {"run", "import", "update", "remove"} => Tail(o.work) = <<>>
    /\ \A i \in DOMAIN o.work : o.work[i].key \in o.names
    /\ \A g \in DOMAIN o.later : ToSet(o.later[g]) \subseteq o.names

(* Which file a stage in hand is in.                                         *)
InFile(o) ==
    /\ o.cmd \in {"add", "import", "update", "move"} =>
          \A i \in DOMAIN o.work : ~PipelineKey(o.work[i].key)
    /\ o.pc \in {"yaml", "lock", "droplock", "dropyaml"} => PipelineKey(Head(o.work).key)
    /\ o.pc \in {"dvc", "dropdvc"} => ~PipelineKey(Head(o.work).key)
    /\ o.pc \in {"droplock", "dropyaml", "dropdvc"} => o.names = {Head(o.work).key}
    /\ o.cmd = "remove" => o.names = {Head(o.work).key}
    /\ o.cmd = "move" /\ o.pc = "unignore" => Tail(o.work) # <<>>

(* One process at a time has the repository lock, save in a stage's command. *)
Held == \A p \in Proc : Holds(op[p]) => holder = p

(* What has been in .gitignore all the time, the command has not put there.  *)
Remembers(p) ==
    /\ found[p] \subseteq ignored
    /\ op[p].mine \cap found[p] = {}
    /\ ~Active(p) => op[p].mine = {}

Base ==
    /\ TypeOK
    /\ \A p \in Proc : InHand(op[p]) /\ InFile(op[p]) /\ Remembers(p)
    /\ Held

(* A stage that is dumped has its outputs in .gitignore; one that is removed *)
(* has left those of other stages in exposed; what is moved has left its     *)
(* file.                                                                     *)
Saved(p) ==
    op[p].pc \in {"yaml", "lock", "dvc"} => Current(p).outs \subseteq ignored \cup exposed
Removing(p) ==
    op[p].pc \in {"droplock", "dropyaml", "dropdvc"} => Shared(Current(p)) \subseteq exposed
Moving(p) ==
    op[p].cmd = "move" /\ op[p].pc = "unignore" => Current(p).key \notin KeysOf(dvc)

Hidden == RecordedIgnored /\ \A p \in Proc : Saved(p) /\ Removing(p) /\ Moving(p)

(* A stage whose entry is dumped is in dvc.yaml, unless the process has been *)
(* overtaken, and one that leaves dvc.yaml has no entry.                     *)
InYaml(p) ==
    /\ op[p].cmd = "run" /\ op[p].pc = "lock" => Current(p).key \in KeysOf(yaml)
    /\ op[p].cmd = "repro" /\ ~op[p].overtaken =>
          \A i \in DOMAIN op[p].work :
             PipelineKey(op[p].work[i].key) => op[p].work[i].key \in KeysOf(yaml)
    /\ op[p].pc = "dropyaml" => op[p].names \cap KeysOf(lock) = {}
Yamls == \A p \in Proc : InYaml(p)

(* The graph a command has checked: of the files with what it has in hand.   *)
Fits(p) ==
    ~op[p].overtaken =>
       /\ op[p].cmd = "run" /\ op[p].pc \in {"exec", "save", "yaml", "dvc"} =>
             ValidGraph(Drop(Stages, {Current(p).key}) \cup {Current(p)})
       /\ op[p].cmd \in {"import", "repro"} => ValidGraph(Stages \cup ToSet(op[p].work))
       /\ op[p].cmd = "add" /\ op[p].pc # "create" => ValidGraph(Stages \cup ToSet(op[p].work))
       /\ op[p].cmd = "update" => ToSet(op[p].work) \subseteq Stages
Fitting == \A p \in Proc : Fits(p)

================================================================================
