-------------------------------- MODULE Pipeline --------------------------------
(***************************************************************************)
(* The stages of a pipeline, the workspace, the object cache, dvc.lock and *)
(* the run cache of one repository, and the commands that keep them in     *)
(* step: repro (dvc/repo/reproduce.py, stage/__init__.py), commit, add,    *)
(* checkout and gc, with the run cache of stage/cache.py.                  *)
(*                                                                         *)
(* One command executes at a time, under the repository lock; it may fail  *)
(* or be killed between any two of the files it touches.  Hashes are named *)
(* by the contents they are of, so cache[h] = h says an object is intact.  *)
(***************************************************************************)
EXTENDS Naturals

CONSTANTS
    Stage,        \* stages; data sources (dvc add) are stages without command
    Path,         \* dependencies and outputs
    Deps,         \* Deps[s]: dependencies of s
    Outs,         \* Outs[s]: outputs of s
    HasCmd,       \* stages that have a command
    NoCache,      \* outputs declared with cache: false
    Cmd,          \* versions of the commands in dvc.yaml
    FirstCmd,     \* the version it starts with
    Content,      \* what a file may hold
    Written,      \* what users write
    Result(_, _, _), \* Result(c, o, vals): what version c of the command of a
                     \* stage writes to o from the contents of its dependencies
    Order,        \* the place of a stage in a topological order of the graph
    MaxEdits,     \* bound: edits of users
    MaxCrashes,   \* bound: commands that are killed
    MaxCommands,  \* bound: commands
    NoData, NoCmd

Data == Content \cup {NoData}

Nothing == [p \in Path |-> NoData]

Only(f, P) == [p \in Path |-> IF p \in P THEN f[p] ELSE NoData]

ASSUME StageAssumption ==
    /\ Stage # {}
    /\ Deps \in [Stage -> SUBSET Path]
    /\ Outs \in [Stage -> SUBSET Path]
    /\ HasCmd \subseteq Stage
    /\ NoCache \subseteq Path
    /\ \A s \in HasCmd : Deps[s] # {} /\ Outs[s] # {}
    /\ \A s \in Stage \ HasCmd : Deps[s] = {} /\ Outs[s] \cap NoCache = {}
    /\ \A s, t \in Stage : s # t => Outs[s] \cap Outs[t] = {}
    /\ Order \in [Stage -> Nat]
    /\ \A s, t \in Stage : Order[s] = Order[t] => s = t
    /\ \A s, t \in Stage : Outs[s] \cap Deps[t] # {} => Order[s] < Order[t]

ASSUME ContentAssumption ==
    /\ NoData \notin Content
    /\ FirstCmd \in Cmd /\ NoCmd \notin Cmd
    /\ Written \subseteq Content
    /\ \A s \in HasCmd : \A c \in Cmd, o \in Outs[s], vals \in [Deps[s] -> Content] :
          Result(c, o, vals) \in Content

ASSUME BoundAssumption ==
    /\ MaxEdits \in Nat
    /\ MaxCrashes \in Nat
    /\ MaxCommands \in Nat

VARIABLES
    ws,        \* the files of the workspace
    cache,     \* objects of the cache, by hash
    strays,    \* contents under temporary names in the directory of the cache
    lock,      \* lock[s]: what dvc.lock or the .dvc file records of s
    runs,      \* the run cache .dvc/cache/runs
    cmd,       \* commands in dvc.yaml
    op,        \* the command that executes
    uncommitted, \* history: stages whose record was written with --no-commit
    vouched,   \* history: records of outputs that dvc commit took from users
    meddled,   \* history: a user wrote to a file while a command executed
    budget     \* edits, crashes and commands so far

vars == <<ws, cache, strays, lock, runs, cmd, op, uncommitted, vouched, meddled, budget>>

Record == [cmd : Cmd \cup {NoCmd}, deps : [Path -> Data], outs : [Path -> Data]]

NoRecord == [cmd |-> NoCmd, deps |-> Nothing, outs |-> Nothing]

Phase == {"idle", "check", "remove", "restored", "run", "save", "runcache",
          "commit", "dump", "checkout", "gc"}

Op == [kind     : {"none", "repro", "commit", "add", "checkout", "gc"},
       todo     : SUBSET Stage,      \* the stages left, the first of them in work
       phase    : Phase,
       left     : SUBSET Path,       \* outputs the phase still has to treat
       mem      : Record,            \* hash infos of the stage object
       linking  : SUBSET Path,       \* the output removed or moved, not yet linked
       broken   : BOOLEAN,           \* link_failures
       garbage  : SUBSET Content,    \* objects gc has still to remove
       force    : BOOLEAN,
       nocommit : BOOLEAN]

Command(kind, todo, force, nocommit) ==
    [kind |-> kind, todo |-> todo, phase |-> "idle", left |-> {}, mem |-> NoRecord,
     linking |-> {}, broken |-> FALSE, garbage |-> {}, force |-> force, nocommit |-> nocommit]

Idle == Command("none", {}, FALSE, FALSE)

TypeOK ==
    /\ ws \in [Path -> Data]
    /\ cache \in [Content -> Data]
    /\ strays \subseteq Content
    /\ lock \in [Stage -> Record]
    /\ runs \subseteq [stage : Stage, record : Record]
    /\ cmd \in [Stage -> Cmd]
    /\ op \in Op /\ op.linking \subseteq op.left
    /\ (op.kind = "none") <=> (op.phase = "idle")
    /\ uncommitted \subseteq Stage
    /\ vouched \subseteq [stage : Stage, record : Record]
    /\ meddled \in BOOLEAN
    /\ budget \in [edits : 0..MaxEdits, crashes : 0..MaxCrashes,
                   commands : 0..MaxCommands]

Init ==
    /\ \E v \in Written : ws = Only([p \in Path |-> v],
                                    UNION {Outs[s] : s \in Stage \ HasCmd})
    /\ cache = [h \in Content |-> NoData]
    /\ strays = {}
    /\ lock = [s \in Stage |-> NoRecord]
    /\ runs = {}
    /\ cmd = [s \in Stage |-> FirstCmd]
    /\ op = Idle
    /\ uncommitted = {}
    /\ vouched = {}
    /\ meddled = FALSE
    /\ budget = [edits |-> 0, crashes |-> 0, commands |-> 0]

-----------------------------------------------------------------------------
(* Questions the commands ask.                                             *)

(* changed_cache_file: an object that is there is read-only, and unchanged  *)
(* for that reason alone.                                                  *)
InCache(h) == h # NoData /\ cache[h] # NoData

AllCached(outs, P) == \A p \in P : InCache(outs[p])

(* Broken form: what the cache holds is not looked at. *)
OutsChangedInWorkspace(s) ==
    \E p \in Outs[s] : ws[p] = NoData \/ ws[p] # lock[s].outs[p]

(* Output.workspace_status, and status. *)
Differs(p, h) == ws[p] = NoData \/ ws[p] # h

DepsChanged(s) == \E p \in Deps[s] : Differs(p, lock[s].deps[p])

OutsChanged(s) ==
    \E p \in Outs[s] : \/ Differs(p, lock[s].outs[p])
                       \/ p \notin NoCache /\ ~InCache(lock[s].outs[p])

CmdChanged(s) == lock[s].cmd \notin {NoCmd, cmd[s]}

(* Broken form: outputs are not compared. *)
StageChangedInputs(s) == CmdChanged(s) \/ DepsChanged(s)

(* Stage.changed *)
StageChanged(s) == CmdChanged(s) \/ DepsChanged(s) \/ OutsChanged(s)

(* Stage.changed_entries *)
EntriesChanged(s) ==
    CmdChanged(s) \/ \E p \in Deps[s] \cup Outs[s] :
                        Differs(p, IF p \in Deps[s] THEN lock[s].deps[p]
                                                    ELSE lock[s].outs[p])

(* Broken form: the key of the run cache leaves the command out. *)
RestorableAnyCmd(s) ==
    {r \in Record : /\ [stage |-> s, record |-> r] \in runs
                    /\ r.deps = Only(ws, Deps[s])}

(* StageCache.restore: the record of the stage if only its outputs are     *)
(* gone, else an entry of the run cache for the command and the            *)
(* dependencies as they are.                                               *)
Restorable(s) ==
    IF ~CmdChanged(s) /\ ~DepsChanged(s) /\ \A p \in Outs[s] : lock[s].outs[p] # NoData
    THEN {lock[s]}
    ELSE {e.record : e \in {r \in runs : /\ r.stage = s
                                         /\ r.record.cmd = cmd[s]
                                         /\ r.record.deps = Only(ws, Deps[s])}}

(* The stages a target depends on, and the target (_get_pipeline). *)
Upstream(t) ==
    {s \in Stage :
        \A S \in SUBSET Stage :
            (t \in S /\ \A u \in S, v \in Stage : Outs[v] \cap Deps[u] # {} => v \in S)
            => s \in S}

(* Stages are treated in topological order. *)
First(T) == CHOOSE s \in T : \A t \in T : Order[s] <= Order[t]

s0 == First(op.todo)

(* The command goes on with a stage in the phase given. *)
Enter(o, phase, left) == [o EXCEPT !.phase = phase, !.left = left]

(* An output is done. *)
Treated(o, p) == [o EXCEPT !.left = @ \ {p}, !.linking = {}]

EnterWith(o, phase, left, mem) == [Enter(o, phase, left) EXCEPT !.mem = mem]

AtStage(o) ==
    CASE o.kind = "repro"    -> Enter(o, "check", {})
      [] o.kind = "checkout" -> EnterWith(o, "checkout", Outs[First(o.todo)] \ NoCache,
                                         lock[First(o.todo)])
      [] OTHER               -> Enter(o, "save", {})

(* The stage is done: the next one, or the end of the command. *)
NextStage ==
    IF op.todo = {s0} THEN Idle
    ELSE AtStage(Command(op.kind, op.todo \ {s0}, op.force, op.nocommit))

At(phase) == op.phase = phase /\ op.linking = {}

Done(phase) == At(phase) /\ op.left = {}

-----------------------------------------------------------------------------
(* A command starts. *)
StartWith(records, o) ==
    /\ op.kind = "none"
    /\ budget.commands < MaxCommands
    /\ budget' = [budget EXCEPT !.commands = @ + 1]
    /\ op' = o
    /\ lock' = records
    /\ UNCHANGED <<ws, cache, strays, runs, cmd, uncommitted, vouched, meddled>>

Start(o) == StartWith(lock, o)

StartRepro ==
    \E t \in Stage, force, nocommit \in BOOLEAN :
        Start(AtStage(Command("repro", Upstream(t), force, nocommit)))

StartCommit ==
    \E s \in Stage, force \in BOOLEAN :
        Start(AtStage(Command("commit", {s}, force, FALSE)))

(* dvc add: the .dvc file goes before the output is hashed, unless the     *)
(* output is cached as recorded (can_be_skipped), which commits it anew.   *)
StartAdd ==
    \E s \in Stage \ HasCmd, nocommit \in BOOLEAN :
        IF OutsChanged(s)
        THEN /\ StartWith([lock EXCEPT ![s] = NoRecord],
                          AtStage(Command("add", {s}, FALSE, nocommit)))
        ELSE Start(EnterWith(Command("commit", {s}, FALSE, FALSE), "commit", Outs[s], lock[s]))

StartCheckout ==
    \E force \in BOOLEAN :
        Start(AtStage(Command("checkout", Stage, force, FALSE)))

(* Broken form: gc keeps the outputs of commands only. *)
UsedOfCommands == {lock[s].outs[p] : s \in HasCmd, p \in Path \ NoCache}

(* used_cache: the recorded outputs of every stage, but for those that are *)
(* not cached.                                                             *)
Used == {lock[s].outs[p] : s \in Stage, p \in Path \ NoCache}

StartGc ==
    Start([Enter(Command("gc", {}, FALSE, FALSE), "gc", {})
              EXCEPT !.garbage = {h \in Content : InCache(h)} \ Used])

(* The command fails, and what it did stays. *)
Abort ==
    /\ op' = Idle
    /\ UNCHANGED <<ws, cache, strays, lock, runs, cmd, uncommitted, vouched, meddled, budget>>

-----------------------------------------------------------------------------
(* repro of a stage.                                                       *)

(* Stage.reproduce: a stage that did not change is skipped; the outputs of *)
(* a changed one are removed if it has a command.                          *)
CheckStage ==
    /\ At("check")
    /\ op' = IF ~op.force /\ ~StageChanged(s0) THEN NextStage
             ELSE IF s0 \in HasCmd THEN Enter(op, "remove", Outs[s0])
             ELSE Enter(op, "save", {})
    /\ UNCHANGED <<ws, cache, strays, lock, runs, cmd, uncommitted, vouched, meddled, budget>>

RemoveOut ==
    /\ At("remove")
    /\ \E p \in op.left :
          /\ ws' = [ws EXCEPT ![p] = NoData]
          /\ op' = Treated(op, p)
    /\ UNCHANGED <<cache, strays, lock, runs, cmd, uncommitted, vouched, meddled, budget>>

MissingDeps(s) == \E p \in Deps[s] : ws[p] = NoData

(* run_stage: restore from the record or the run cache unless forced; run  *)
(* the command when there is nothing to restore, or not all of it is in    *)
(* the cache.                                                              *)
Restore ==
    /\ Done("remove")
    /\ ~op.force /\ ~MissingDeps(s0)
    /\ \E r \in Restorable(s0) :
          /\ AllCached(r.outs, Outs[s0])
          /\ op' = EnterWith(op, "restored", Outs[s0], r)
    /\ UNCHANGED <<ws, cache, strays, lock, runs, cmd, uncommitted, vouched, meddled, budget>>

StartRun ==
    /\ Done("remove")
    /\ op.force \/ (~MissingDeps(s0) /\ (Restorable(s0) # {} =>
                       \E r \in Restorable(s0) : ~AllCached(r.outs, Outs[s0])))
    /\ op' = EnterWith(op, "run", Outs[s0],
                     [cmd |-> cmd[s0], deps |-> Only(ws, Deps[s0]), outs |-> Nothing])
    /\ UNCHANGED <<ws, cache, strays, lock, runs, cmd, uncommitted, vouched, meddled, budget>>

(* The command writes an output. *)
RunOut ==
    /\ At("run")
    /\ \A p \in Deps[s0] : op.mem.deps[p] # NoData
    /\ \E p \in op.left :
          /\ ws' = [ws EXCEPT ![p] =
                        Result(op.mem.cmd, p, [d \in Deps[s0] |-> op.mem.deps[d]])]
          /\ op' = Treated(op, p)
    /\ UNCHANGED <<cache, strays, lock, runs, cmd, uncommitted, vouched, meddled, budget>>

EndRun ==
    /\ Done("run") \/ Done("restored")
    /\ op' = Enter(op, "save", {})
    /\ UNCHANGED <<ws, cache, strays, lock, runs, cmd, uncommitted, vouched, meddled, budget>>

(* The command fails (StageCmdFailedError), or a dependency is missing. *)
RunFails ==
    /\ op.phase = "run" \/ (Done("remove") /\ ~op.force /\ MissingDeps(s0))
    /\ Abort

-----------------------------------------------------------------------------
(* Objects and files: checkout, and the commit of an output.               *)

(* Output.checkout and Cache.checkout; left out of the set, an output is   *)
(* done, or could not be restored (CheckoutError, reported at the end).    *)
CheckoutDone(p) ==
    /\ ws[p] = op.mem.outs[p] /\ InCache(ws[p])
    /\ op' = Treated(op, p)
    /\ UNCHANGED ws

(* Broken form: safe_remove that does not ask. *)
MayRemoveAlways(p) == TRUE

(* safe_remove: contents that the cache does not hold go only by force. *)
MayRemove(p) == op.force \/ ws[p] = NoData \/ InCache(ws[p])

CheckoutMissing(p) ==
    /\ ~InCache(op.mem.outs[p]) /\ MayRemove(p)
    /\ ws' = [ws EXCEPT ![p] = NoData]
    /\ op' = Treated(op, p)

CheckoutReplace(p) ==
    /\ InCache(op.mem.outs[p]) /\ ws[p] # op.mem.outs[p] /\ MayRemove(p)
    /\ ws' = [ws EXCEPT ![p] = NoData]
    /\ op' = [op EXCEPT !.linking = {p}]

CheckoutOut ==
    /\ At("restored") \/ At("checkout")
    /\ \E p \in op.left : CheckoutDone(p) \/ CheckoutMissing(p) \/ CheckoutReplace(p)
    /\ UNCHANGED <<cache, strays, lock, runs, cmd, uncommitted, vouched, meddled, budget>>

(* ConfirmRemoveError *)
CheckoutRefused ==
    /\ At("restored") \/ At("checkout")
    /\ \E p \in op.left : ~MayRemove(p)
    /\ Abort

EndCheckout ==
    /\ Done("checkout")
    /\ op' = NextStage
    /\ UNCHANGED <<ws, cache, strays, lock, runs, cmd, uncommitted, vouched, meddled, budget>>

(* Cache.link: the output is back in the workspace, unless a file is there. *)
LinkOut ==
    /\ \E p \in op.linking :
          /\ ws[p] = NoData
          /\ ws' = [ws EXCEPT ![p] = cache[op.mem.outs[p]]]
          /\ op' = Treated(op, p)
    /\ UNCHANGED <<cache, strays, lock, runs, cmd, uncommitted, vouched, meddled, budget>>

(* CacheLinkError: Stage.commit goes on with the other outputs. *)
LinkFails ==
    /\ op.linking # {}
    /\ \/ /\ op.phase = "commit"
          /\ \E p \in op.linking : op' = [Treated(op, p) EXCEPT !.broken = TRUE]
          /\ UNCHANGED <<ws, cache, strays, lock, runs, cmd, uncommitted, vouched, meddled, budget>>
       \/ op.phase # "commit" /\ Abort

(* Stage.commit of an output, and StageCache.save of one that is not       *)
(* cached: the file moves into the cache under the hash taken before, and  *)
(* is linked back; one that is there already is linked anew, or left when  *)
(* the cache copies.                                                       *)
CommitOut ==
    /\ At("commit") \/ At("runcache")
    /\ \E p \in op.left :
          LET h == op.mem.outs[p]
          IN  /\ ws[p] # NoData
              /\ \/ /\ ~InCache(h)
                    /\ cache' = [cache EXCEPT ![h] = ws[p]]
                    /\ ws' = [ws EXCEPT ![p] = NoData]
                    /\ op' = [op EXCEPT !.linking = {p}]
                 \/ /\ InCache(h)
                    /\ ws' = [ws EXCEPT ![p] = NoData]
                    /\ op' = [op EXCEPT !.linking = {p}]
                    /\ UNCHANGED cache
                 \/ /\ InCache(h)
                    /\ op' = Treated(op, p)
                    /\ UNCHANGED <<ws, cache>>
    /\ UNCHANGED <<strays, lock, runs, cmd, uncommitted, vouched, meddled, budget>>

(* move() renames the output to a temporary name next to the object, and   *)
(* that to the object: a command that is killed in between leaves it under *)
(* the temporary name.                                                     *)
MoveCutShort ==
    /\ At("commit") \/ At("runcache")
    /\ budget.crashes < MaxCrashes
    /\ budget' = [budget EXCEPT !.crashes = @ + 1]
    /\ \E p \in op.left :
          /\ ws[p] # NoData /\ ~InCache(op.mem.outs[p])
          /\ ws' = [ws EXCEPT ![p] = NoData]
          /\ strays' = strays \cup {ws[p]}
    /\ op' = Idle
    /\ UNCHANGED <<cache, lock, runs, cmd, uncommitted, vouched, meddled>>

(* OutputDoesNotExistError *)
CommitOutGone ==
    /\ At("commit") \/ At("runcache")
    /\ \E p \in op.left : ws[p] = NoData
    /\ Abort

-----------------------------------------------------------------------------
(* Saving a stage.                                                         *)

MissingEntries(s) == \E p \in Deps[s] \cup Outs[s] : ws[p] = NoData

(* Broken form: outputs that have a hash keep it. *)
SavedOldOuts(s) ==
    [cmd |-> IF s \in HasCmd THEN cmd[s] ELSE NoCmd,
     deps |-> Only(ws, Deps[s]),
     outs |-> [p \in Path |-> IF lock[s].outs[p] # NoData THEN lock[s].outs[p]
                               ELSE Only(ws, Outs[s])[p]]]

Saved(s) == [cmd |-> IF s \in HasCmd THEN cmd[s] ELSE NoCmd,
             deps |-> Only(ws, Deps[s]), outs |-> Only(ws, Outs[s])]

ToCommit(o) ==
    IF o.nocommit THEN Enter(o, "dump", {})
    ELSE Enter(o, "commit", Outs[First(o.todo)] \ NoCache)

(* repo.commit: what did not change is committed as recorded. *)
CommitRecorded ==
    /\ At("save")
    /\ op.kind = "commit" /\ ~EntriesChanged(s0)
    /\ op' = ToCommit([op EXCEPT !.mem = lock[s0]])
    /\ UNCHANGED <<ws, cache, strays, lock, runs, cmd, uncommitted, vouched, meddled, budget>>

(* Stage.save, up to the run cache. *)
Save ==
    /\ At("save")
    /\ op.kind = "commit" => op.force /\ EntriesChanged(s0)
    /\ ~MissingEntries(s0)
    /\ LET o == [op EXCEPT !.mem = Saved(s0)]
       IN  op' = IF s0 \in HasCmd THEN Enter(o, "runcache", Outs[s0] \cap NoCache)
                 ELSE ToCommit(o)
    /\ vouched' = IF op.kind = "commit" /\ s0 \in HasCmd
                  THEN vouched \cup {[stage |-> s0, record |-> Saved(s0)]}
                  ELSE vouched
    /\ UNCHANGED <<ws, cache, strays, lock, runs, cmd, uncommitted, meddled, budget>>

(* StageCommitError, or an entry that does not exist. *)
SaveRefused ==
    /\ At("save")
    /\ \/ op.kind = "commit" /\ EntriesChanged(s0) /\ ~op.force
       \/ (op.kind = "commit" => EntriesChanged(s0)) /\ MissingEntries(s0)
    /\ Abort

(* StageCache.save: the entry, once its uncached outputs are in the cache. *)
RunCacheSave ==
    /\ Done("runcache")
    /\ runs' = runs \cup {[stage |-> s0, record |-> op.mem]}
    /\ op' = ToCommit(op)
    /\ UNCHANGED <<ws, cache, strays, lock, cmd, uncommitted, vouched, meddled, budget>>

(* Stage.commit raises what links failed; add reports them, and goes on. *)
EndCommit ==
    /\ Done("commit")
    /\ \/ /\ op.broken => op.kind = "add"
          /\ op' = Enter(op, "dump", {})
          /\ UNCHANGED <<ws, cache, strays, lock, runs, cmd, uncommitted, vouched, meddled, budget>>
       \/ op.broken /\ op.kind # "add" /\ Abort

(* Dvcfile.dump *)
Dump ==
    /\ At("dump")
    /\ lock' = [lock EXCEPT ![s0] = op.mem]
    /\ uncommitted' = IF op.nocommit THEN uncommitted \cup {s0} ELSE uncommitted \ {s0}
    /\ op' = NextStage
    /\ UNCHANGED <<ws, cache, strays, runs, cmd, vouched, meddled, budget>>

-----------------------------------------------------------------------------
(* The rest of gc, and what happens around the commands.                   *)

GcRemove ==
    /\ At("gc")
    /\ \E h \in op.garbage :
          /\ cache' = [cache EXCEPT ![h] = NoData]
          /\ op' = [op EXCEPT !.garbage = @ \ {h}]
    /\ UNCHANGED <<ws, strays, lock, runs, cmd, uncommitted, vouched, meddled, budget>>

(* A temporary name counts as an object that nobody uses. *)
GcRemoveStray ==
    /\ At("gc")
    /\ \E v \in strays : strays' = strays \ {v}
    /\ UNCHANGED <<ws, cache, lock, runs, cmd, op, uncommitted, vouched, meddled, budget>>

EndGc == At("gc") /\ op.garbage = {} /\ strays = {} /\ Abort

(* The command is killed. *)
Crash ==
    /\ op.kind # "none"
    /\ budget.crashes < MaxCrashes
    /\ budget' = [budget EXCEPT !.crashes = @ + 1]
    /\ op' = Idle
    /\ UNCHANGED <<ws, cache, strays, lock, runs, cmd, uncommitted, vouched, meddled>>

Edit ==
    /\ budget.edits < MaxEdits
    /\ budget' = [budget EXCEPT !.edits = @ + 1]
    /\ UNCHANGED <<cache, strays, lock, runs, op, uncommitted, vouched>>

(* A user writes or removes a file, which no lock of dvc's prevents. *)
UserWrite ==
    /\ Edit
    /\ \E p \in Path : \E v \in (Written \cup {NoData}) \ {ws[p]} : ws' = [ws EXCEPT ![p] = v]
    /\ meddled' = (meddled \/ op.kind # "none")
    /\ UNCHANGED cmd

(* A user edits dvc.yaml, which a command has read when it starts. *)
EditCmd ==
    /\ Edit
    /\ op.kind = "none"
    /\ \E s \in HasCmd, c \in Cmd : cmd' = [cmd EXCEPT ![s] = c]
    /\ UNCHANGED <<ws, meddled>>

(* No command is given any more. *)
Terminating == op.kind = "none" /\ budget.commands = MaxCommands /\ UNCHANGED vars

Next ==
    \/ StartRepro \/ StartCommit \/ StartAdd \/ StartCheckout \/ StartGc
    \/ CheckStage \/ RemoveOut \/ Restore \/ StartRun \/ RunOut \/ EndRun \/ RunFails
    \/ CheckoutOut \/ CheckoutRefused \/ EndCheckout \/ LinkOut \/ LinkFails
    \/ CommitOut \/ MoveCutShort \/ CommitOutGone
    \/ CommitRecorded \/ Save \/ SaveRefused \/ RunCacheSave \/ EndCommit \/ Dump
    \/ GcRemove \/ GcRemoveStray \/ EndGc \/ Crash \/ UserWrite \/ EditCmd
    \/ Terminating

Spec == Init /\ [][Next]_vars

-----------------------------------------------------------------------------
(* The object of a hash has the content of the hash: no object is cut      *)
(* short, swapped or kept under the hash of another, whatever is killed    *)
(* and whenever, so long as nobody writes under a command's feet           *)
(* (Cache.changed_cache_file trusts any read-only object).                 *)
CacheIntact == ~meddled => \A h \in Content : cache[h] \in {NoData, h}

(* What dvc.lock and .dvc files record as output and was committed is in   *)
(* the cache: no crash between commit and dump, gc or failure loses it.    *)
LockedInCache ==
    \A s \in Stage \ uncommitted : \A p \in Outs[s] \ NoCache :
        lock[s].outs[p] = NoData \/ InCache(lock[s].outs[p])

(* The outputs are what the command makes of the dependencies. *)
Genuine(s, r) ==
    \A p \in Outs[s] : r.outs[p] = Result(r.cmd, p, [d \in Deps[s] |-> r.deps[d]])

(* No record of a run, in dvc.lock or in the run cache, claims outputs     *)
(* that the command does not make of these dependencies, but for those a   *)
(* user has had recorded with dvc commit --force (StageCache.save and      *)
(* restore, Dvcfile.dump).                                                 *)
RunsSound ==
    ~meddled =>
        \A e \in runs \cup {[stage |-> s, record |-> lock[s]] : s \in HasCmd} :
            e.record = NoRecord \/ Genuine(e.stage, e.record) \/ e \in vouched

(* A repro that ends well leaves every stage its target depends on as      *)
(* recorded: dependencies, outputs and command agree with dvc.lock         *)
(* (_reproduce_stages).                                                    *)
ReproEnds ==
    /\ op.kind = "repro" /\ op' = Idle
    /\ op.phase \in {"check", "dump"} /\ op.todo = {s0}
    /\ budget' = budget

EndsUpToDate == ReproEnds /\ ~meddled => \A s \in Upstream(s0) : ~EntriesChanged(s)'

UpToDate == [][EndsUpToDate]_vars

(* No command loses a file of the workspace that the cache does not hold,  *)
(* but for repro, which removes and rewrites the outputs of a stage, and   *)
(* checkout --force, so long as nobody writes under its feet               *)
(* (Cache.safe_remove, Cache._save_file); one that is killed within move() *)
(* leaves it under a temporary name, where the next gc finds it.           *)
LosesNothing ==
    \A p \in Path :
        (/\ ~meddled
         /\ ws[p] # NoData /\ ws'[p] # ws[p]
         /\ budget'.edits = budget.edits /\ ~op.force /\ op.phase \notin {"remove", "run"})
        => (\E h \in Content : cache'[h] = ws[p]) \/ ws[p] \in strays'

NothingLost == [][LosesNothing]_vars

-----------------------------------------------------------------------------
(* The invariant that the proofs rest on, in parts.                        *)

Saving == {"runcache", "commit", "dump"}

(* A phase belongs to a command and to the outputs it treats. *)
Phased ==
    /\ (op.kind = "gc") <=> (op.phase = "gc")
    /\ (op.kind = "checkout") <=> (op.phase = "checkout")
    /\ (op.todo = {}) <=> (op.kind \in {"none", "gc"})
    /\ op.phase \in {"check", "remove", "restored", "run"} => op.kind = "repro"
    /\ op.phase \in {"remove", "restored", "run", "runcache"} => s0 \in HasCmd
    /\ op.kind \in {"add", "commit"} => op.todo = {s0}
    /\ op.kind = "add" => s0 \notin HasCmd
    /\ op.broken => op.phase \in {"commit", "dump"} /\ op.kind \in {"add", "commit", "repro"}
    /\ op.phase = "dump" /\ op.broken => op.kind = "add"
    /\ op.phase \in {"idle", "check", "save", "dump", "gc"} => op.left = {}
    /\ op.todo # {} => op.left \subseteq Outs[s0]
    /\ op.phase = "runcache" => op.left \subseteq NoCache
    /\ op.phase \in {"commit", "checkout"} => op.left \cap NoCache = {}

(* One output at a time is out of the workspace, and in the cache. *)
Linked ==
    /\ op.linking # {} => op.phase \in {"restored", "checkout", "runcache", "commit"}
    /\ \A p, q \in op.linking : p = q
    /\ \A p \in op.linking : InCache(op.mem.outs[p])

(* A record has the dependencies and outputs of its stage, and a command   *)
(* if it is of a run.                                                      *)
Shaped(s, r) ==
    /\ r.deps = Only(r.deps, Deps[s])
    /\ r.outs = Only(r.outs, Outs[s])
    /\ s \in HasCmd /\ r.cmd = NoCmd => r = NoRecord
    /\ s \notin HasCmd => r.cmd = NoCmd

Shapes ==
    /\ \A s \in Stage : Shaped(s, lock[s])
    /\ \A e \in runs : Shaped(e.stage, e.record) /\ e.stage \in HasCmd
    /\ op.phase \in Saving => Shaped(s0, op.mem)

(* While a stage is saved, its object holds the hashes of what is in the   *)
(* workspace, but for an output that could not be linked back.             *)
Held ==
    op.phase \in Saving =>
        /\ \A p \in Outs[s0] : op.mem.outs[p] # NoData
        /\ op.mem.cmd \in {NoCmd, cmd[s0]}
        /\ ~meddled =>
            /\ \A p \in Deps[s0] : op.mem.deps[p] # NoData /\ ws[p] = op.mem.deps[p]
            /\ \A p \in Outs[s0] \ op.linking :
                  \/ ws[p] = op.mem.outs[p]
                  \/ op.broken /\ p \notin op.left

(* What was committed is in the cache before it is recorded, and gc leaves *)
(* what is recorded alone.                                                 *)
Committed ==
    /\ op.phase = "commit" =>
          \A p \in Outs[s0] \ NoCache : p \in op.left \/ InCache(op.mem.outs[p])
    /\ op.phase = "dump" /\ ~op.nocommit =>
          \A p \in Outs[s0] \ NoCache : InCache(op.mem.outs[p])
    /\ op.garbage # {} => op.phase = "gc"
    /\ op.garbage \cap Used = {}

Sound(s, r) == r = NoRecord \/ Genuine(s, r) \/ [stage |-> s, record |-> r] \in vouched

(* What a run has written, or what was restored in its place, is what the  *)
(* stage makes of its dependencies, and it is what is saved.               *)
RunHeld ==
    /\ op.phase \in {"run", "restored"} => op.mem.cmd = cmd[s0]
    /\ ~meddled =>
        /\ op.phase = "run" =>
              /\ op.mem.deps = Only(ws, Deps[s0])
              /\ \A p \in Outs[s0] \ op.left :
                    ws[p] = Result(cmd[s0], p, [d \in Deps[s0] |-> ws[d]])
        /\ op.phase = "restored" =>
              /\ Sound(s0, op.mem) /\ Shaped(s0, op.mem)
              /\ op.mem.deps = Only(ws, Deps[s0])
              /\ \A p \in Outs[s0] \ op.left : ws[p] \in {op.mem.outs[p], NoData}
        /\ op.phase = "save" /\ op.kind = "repro" /\ s0 \in HasCmd /\ ~MissingEntries(s0) =>
              Sound(s0, Saved(s0))
        /\ op.phase \in Saving /\ s0 \in HasCmd => Sound(s0, op.mem)

(* repro has left the stages before as recorded. *)
Followed ==
    op.kind = "repro" /\ ~meddled =>
        \E t \in op.todo :
            /\ op.todo \subseteq Upstream(t)
            /\ \A s \in Upstream(t) \ op.todo : Order[s] < Order[s0] /\ ~EntriesChanged(s)
=============================================================================
