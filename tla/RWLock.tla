-------------------------------- MODULE RWLock --------------------------------
(***************************************************************************)
(* The two locks that DVC processes working on one repository share:       *)
(*                                                                         *)
(*  - the repository lock .dvc/tmp/lock (dvc/lock.py), which a process     *)
(*    holds while it executes a command, but gives up while the command of *)
(*    a stage runs (unlocked_repo) and takes back for every checkpoint     *)
(*    callback (relock_repo);                                              *)
(*  - the reader/writer lock of paths .dvc/tmp/rwlock (dvc/rwlock.py), a   *)
(*    JSON file that records who reads and who writes which path.  The     *)
(*    methods of a stage take it (rwlocked) and keep it while the          *)
(*    command runs.  It is edited by loading, truncating and rewriting the *)
(*    file, three steps that only the repository lock makes atomic.        *)
(***************************************************************************)
EXTENDS Naturals, Sequences, FiniteSets

CONSTANTS
    Proc,          \* DVC processes; one has one pid and one command line (info)
    Path,          \* path infos of the dependencies and the outputs
    Overlap,       \* pairs of paths one of which is the other or lies in it
    Stage,         \* stages of the repository
    Deps,          \* Deps[s]: paths of the dependencies of s
    Outs,          \* Outs[s]: paths of the outputs of s
    Retries,       \* attempts of Lock.lock() before it raises LockError
    MaxCalls,      \* bound: rwlocked calls and checkpoints per DVC command
    MaxCrashes,    \* bound: processes that die
    HardlinkLock,  \* core.hardlink_lock: a lock file that outlives its process
    NoProc, Corrupt

ASSUME OverlapAssumption ==
    /\ Overlap \subseteq Path \X Path
    /\ \A x \in Path : <<x, x>> \in Overlap
    /\ \A x, y \in Path : <<x, y>> \in Overlap => <<y, x>> \in Overlap

ASSUME ConstantsAssumption ==
    /\ Deps \in [Stage -> SUBSET Path]
    /\ Outs \in [Stage -> SUBSET Path]
    /\ Retries \in Nat \ {0}
    /\ MaxCalls \in Nat
    /\ MaxCrashes \in Nat
    /\ HardlinkLock \in BOOLEAN
    /\ NoProc \notin Proc

(* The contents of the rwlock file, as SCHEMA describes them. *)
Dict == [read : [Path -> SUBSET Proc], write : [Path -> Proc \cup {NoProc}]]

EmptyDict == [read |-> [x \in Path |-> {}], write |-> [x \in Path |-> NoProc]]

ASSUME CorruptAssumption == Corrupt \notin Dict

(* The methods of Stage that @rwlocked decorates. *)
Method == {"reproduce", "run", "changed", "status", "commit", "checkout",
           "remove", "remove_outs"}

(* A method call that holds its rwlock, with the entries it added.  *)
Frame == [method : Method, stage : Stage,
          rchanges : SUBSET Path, wchanges : SUBSET Path]

ReadSet(m, s) ==
    CASE m \in {"reproduce", "run"} -> Deps[s]
      [] m \in {"changed", "status"} -> Deps[s] \cup Outs[s]
      [] OTHER -> {}

WriteSet(m, s) == IF m \in {"changed", "status"} THEN {} ELSE Outs[s]

(* Who calls whom.  A method with no caller is called by a command. *)
Callees(m) ==
    CASE m = "reproduce" -> {"changed", "run"}
      [] m = "run"       -> {"remove_outs", "commit"}
      [] m = "remove"    -> {"remove_outs"}
      [] OTHER           -> {}

VARIABLES
    repoLock,    \* the process that holds .dvc/tmp/lock, or NoProc
    file,        \* contents of .dvc/tmp/rwlock; Corrupt once truncated
    pc,          \* where each process is
    tries,       \* failed attempts of the current Lock.lock()
    frames,      \* its rwlocked calls, innermost last
    lock,        \* the dictionary _edit_rwlock is about to write
    raised,      \* an exception is propagating
    callback,    \* inside _run_callback of the checkpoint monitor
    ran,         \* the command of the current run() has been started
    calls,       \* calls made by this DVC command (bounded by MaxCalls)
    unguarded    \* history: some unlocked_repo failed to lock again

vars == <<repoLock, file, pc, tries, frames, lock, raised, callback,
          ran, calls, unguarded>>

Pc == {"idle", "locking", "in", "acquired", "acquiring", "released",
       "releasing", "running", "relock", "callback_relock", "dead"}

TypeOK ==
    /\ repoLock \in Proc \cup {NoProc}
    /\ file \in Dict \cup {Corrupt}
    /\ pc \in [Proc -> Pc]
    /\ tries \in [Proc -> 0..Retries]
    /\ frames \in [Proc -> Seq(Frame)]
    /\ lock \in [Proc -> Dict]
    /\ raised \in [Proc -> BOOLEAN]
    /\ callback \in [Proc -> BOOLEAN]
    /\ ran \in [Proc -> BOOLEAN]
    /\ calls \in [Proc -> 0..MaxCalls]
    /\ unguarded \in BOOLEAN

Init ==
    /\ repoLock = NoProc
    /\ file = EmptyDict                      \* FileNotFoundError: SCHEMA({})
    /\ pc = [p \in Proc |-> "idle"]
    /\ tries = [p \in Proc |-> 0]
    /\ frames = [p \in Proc |-> <<>>]
    /\ lock = [p \in Proc |-> EmptyDict]
    /\ raised = [p \in Proc |-> FALSE]
    /\ callback = [p \in Proc |-> FALSE]
    /\ ran = [p \in Proc |-> FALSE]
    /\ calls = [p \in Proc |-> 0]
    /\ unguarded = FALSE

-----------------------------------------------------------------------------
(* Pure operations on the loaded dictionary. *)

(* Processes other than p with an entry of the given mode that overlaps x. *)
WriteBlockers(d, p, x) ==
    {q \in Proc \ {p} : \E y \in Path : <<x, y>> \in Overlap /\ d.write[y] = q}

ReadBlockers(d, p, x) ==
    {q \in Proc \ {p} : \E y \in Path : <<x, y>> \in Overlap /\ q \in d.read[y]}

(* Broken form: a writer is not blocked by the readers of its paths. *)
CheckBlockersOfWritersOnly(d, p, R, W) ==
    \E x \in R \cup W : WriteBlockers(d, p, x) # {}

CheckBlockers(d, p, R, W) ==
    \/ \E x \in R \cup W : WriteBlockers(d, p, x) # {}
    \/ \E x \in W : ReadBlockers(d, p, x) # {}

(* Broken form: an entry the process already has is counted as a change. *)
AcquireReadChangesAll(d, p, R) == R

AcquireReadChanges(d, p, R) == {x \in R : p \notin d.read[x]}

AcquireWriteChanges(d, p, W) == {x \in W : d.write[x] # p}

Acquire(d, p, R, W) ==
    [read  |-> [x \in Path |-> IF x \in R THEN d.read[x] \cup {p} ELSE d.read[x]],
     write |-> [x \in Path |-> IF x \in W THEN p ELSE d.write[x]]]

(* The assertions of _release_write and _release_read. *)
ReleaseOK(d, p, rchanges, wchanges) ==
    /\ \A x \in wchanges : d.write[x] = p
    /\ \A x \in rchanges : p \in d.read[x]

(* Broken form: the entries of the readers stay. *)
ReleaseWritesOnly(d, p, rchanges, wchanges) ==
    [d EXCEPT !.write = [x \in Path |-> IF x \in wchanges THEN NoProc ELSE @[x]]]

(* Broken form: the write entry is emptied, as defaultdict(dict) would make *)
(* it, and not deleted.                                                     *)
ReleaseEmptiesEntry(d, p, rchanges, wchanges) ==
    [d EXCEPT !.write = [x \in Path |-> IF x \in wchanges THEN {} ELSE @[x]]]

Release(d, p, rchanges, wchanges) ==
    [read  |-> [x \in Path |-> IF x \in rchanges THEN d.read[x] \ {p} ELSE d.read[x]],
     write |-> [x \in Path |-> IF x \in wchanges THEN NoProc ELSE d.write[x]]]

Top(p) == frames[p][Len(frames[p])]

Pop(p) == [frames EXCEPT ![p] = SubSeq(@, 1, Len(@) - 1)]

(* Methods the code may call next: at the top level any but remove_outs,   *)
(* inside a frame its callees; a callback and what follows the command     *)
(* only commit.                                                            *)
MayCall(p, m) ==
    IF frames[p] = <<>> THEN m # "remove_outs"
    ELSE /\ m \in Callees(Top(p).method)
         /\ Top(p).method = "run" /\ ran[p] => m = "commit"

-----------------------------------------------------------------------------
(* with repo.lock (lock_repo): a DVC command starts. *)
Begin(p) ==
    /\ pc[p] = "idle"
    /\ pc' = [pc EXCEPT ![p] = "locking"]
    /\ UNCHANGED <<repoLock, file, tries, frames, lock, raised, callback, ran,
                   calls, unguarded>>

(* Broken form: lock() that retries without a limit. *)
TryLockForever(p) ==
    /\ pc[p] = "locking"
    /\ repoLock = NoProc
    /\ repoLock' = p
    /\ pc' = [pc EXCEPT ![p] = "in"]
    /\ tries' = [tries EXCEPT ![p] = 0]
    /\ UNCHANGED <<file, frames, lock, raised, callback, ran, calls, unguarded>>

(* Lock.lock(): one attempt.  After the last one LockError ends the command. *)
TryLock(p) ==
    /\ pc[p] = "locking"
    /\ \/ /\ repoLock = NoProc
          /\ repoLock' = p
          /\ pc' = [pc EXCEPT ![p] = "in"]
          /\ tries' = [tries EXCEPT ![p] = 0]
       \/ /\ repoLock # NoProc
          /\ tries[p] + 1 < Retries
          /\ tries' = [tries EXCEPT ![p] = @ + 1]
          /\ UNCHANGED <<repoLock, pc>>
       \/ /\ repoLock # NoProc
          /\ tries[p] + 1 >= Retries
          /\ pc' = [pc EXCEPT ![p] = "idle"]
          /\ tries' = [tries EXCEPT ![p] = 0]
          /\ UNCHANGED repoLock
    /\ UNCHANGED <<file, frames, lock, raised, callback, ran, calls,
                   unguarded>>

(* A rwlocked method is called: the file is loaded, the blockers checked   *)
(* and the changes made in memory.                                         *)
Call(p, m, s) ==
    LET R  == ReadSet(m, s)
        W  == WriteSet(m, s)
    IN
    /\ pc[p] = "in"
    /\ ~raised[p]
    /\ repoLock = p                          \* assert stage.repo.lock.is_locked
    /\ frames[p] # <<>> => s = Top(p).stage
    /\ MayCall(p, m)
    /\ calls[p] < MaxCalls
    /\ calls' = [calls EXCEPT ![p] = @ + 1]
    /\ IF file = Corrupt \/ CheckBlockers(file, p, R, W)
       THEN /\ raised' = [raised EXCEPT ![p] = TRUE]
            /\ UNCHANGED <<pc, frames, lock, ran>>
       ELSE /\ lock' = [lock EXCEPT ![p] = Acquire(file, p, R, W)]
            /\ frames' = [frames EXCEPT ![p] = Append(@,
                             [method   |-> m,
                              stage    |-> s,
                              rchanges |-> AcquireReadChanges(file, p, R),
                              wchanges |-> AcquireWriteChanges(file, p, W)])]
            /\ ran' = IF m = "run" THEN [ran EXCEPT ![p] = FALSE] ELSE ran
            /\ pc' = [pc EXCEPT ![p] = "acquired"]
            /\ UNCHANGED raised
    /\ UNCHANGED <<repoLock, file, tries, callback, unguarded>>

(* A rwlocked method returns or raises: the file is loaded and the changes *)
(* of the innermost call are taken back.  An error of the load or of an    *)
(* assertion leaves the file as it is.                                     *)
Return(p) ==
    /\ pc[p] = "in"
    /\ frames[p] # <<>>
    /\ ~(callback[p] /\ Top(p).method = "run")
    /\ frames' = Pop(p)
    /\ IF file = Corrupt \/ ~ReleaseOK(file, p, Top(p).rchanges, Top(p).wchanges)
       THEN /\ raised' = [raised EXCEPT ![p] = TRUE]
            /\ UNCHANGED <<pc, lock>>
       ELSE /\ lock' = [lock EXCEPT ![p] =
                          Release(file, p, Top(p).rchanges, Top(p).wchanges)]
            /\ pc' = [pc EXCEPT ![p] = "released"]
            /\ UNCHANGED raised
    /\ UNCHANGED <<repoLock, file, tries, callback, ran, calls, unguarded>>

(* open(path, "w+") *)
Truncate(p) ==
    /\ pc[p] \in {"acquired", "released"}
    /\ file' = Corrupt
    /\ pc' = [pc EXCEPT ![p] = IF @ = "acquired" THEN "acquiring" ELSE "releasing"]
    /\ UNCHANGED <<repoLock, tries, frames, lock, raised, callback, ran,
                   calls, unguarded>>

(* json.dump(lock, fobj) and the close that flushes it *)
Dump(p) ==
    /\ pc[p] \in {"acquiring", "releasing"}
    /\ file' = lock[p]
    /\ lock' = [lock EXCEPT ![p] = EmptyDict]
    /\ pc' = [pc EXCEPT ![p] = "in"]
    /\ UNCHANGED <<repoLock, tries, frames, raised, callback, ran,
                   calls, unguarded>>

-----------------------------------------------------------------------------
(* unlocked_repo(cmd_run): the command of the stage starts, the lock is free. *)
StartCmd(p) ==
    /\ pc[p] = "in"
    /\ ~raised[p] /\ ~callback[p]
    /\ frames[p] # <<>> /\ Top(p).method = "run"
    /\ ~ran[p]
    /\ ran' = [ran EXCEPT ![p] = TRUE]
    /\ repoLock' = NoProc
    /\ pc' = [pc EXCEPT ![p] = "running"]
    /\ UNCHANGED <<file, tries, frames, lock, raised, callback, calls,
                   unguarded>>

(* The command ends, or fails (StageCmdFailedError). *)
CmdExit(p) ==
    /\ pc[p] = "running"
    /\ \E failed \in BOOLEAN : raised' = [raised EXCEPT ![p] = failed]
    /\ pc' = [pc EXCEPT ![p] = "relock"]
    /\ UNCHANGED <<repoLock, file, tries, frames, lock, callback, ran, calls,
                   unguarded>>

(* The monitor finds the signal file and enters relock_repo(_run_callback). *)
CheckpointSignal(p) ==
    /\ pc[p] = "running"
    /\ calls[p] < MaxCalls
    /\ calls' = [calls EXCEPT ![p] = @ + 1]
    /\ pc' = [pc EXCEPT ![p] = "callback_relock"]
    /\ UNCHANGED <<repoLock, file, tries, frames, lock, raised, callback, ran,
                   unguarded>>

(* repo.lock.lock() of unlocked_repo's finally: one attempt.  When the last *)
(* attempt fails the exception unwinds the frames without the lock.         *)
Relock(p) ==
    /\ pc[p] = "relock"
    /\ \/ /\ repoLock = NoProc
          /\ repoLock' = p
          /\ pc' = [pc EXCEPT ![p] = "in"]
          /\ tries' = [tries EXCEPT ![p] = 0]
          /\ UNCHANGED <<raised, unguarded>>
       \/ /\ repoLock # NoProc
          /\ tries[p] + 1 < Retries
          /\ tries' = [tries EXCEPT ![p] = @ + 1]
          /\ UNCHANGED <<repoLock, pc, raised, unguarded>>
       \/ /\ repoLock # NoProc
          /\ tries[p] + 1 >= Retries
          /\ pc' = [pc EXCEPT ![p] = "in"]
          /\ raised' = [raised EXCEPT ![p] = TRUE]
          /\ tries' = [tries EXCEPT ![p] = 0]
          /\ unguarded' = TRUE
          /\ UNCHANGED repoLock
    /\ UNCHANGED <<file, frames, lock, callback, ran, calls>>

(* repo.lock.lock() of relock_repo: one attempt.  When the last one fails  *)
(* the monitor kills the command, and the main thread relocks.             *)
CallbackRelock(p) ==
    /\ pc[p] = "callback_relock"
    /\ \/ /\ repoLock = NoProc
          /\ repoLock' = p
          /\ pc' = [pc EXCEPT ![p] = "in"]
          /\ callback' = [callback EXCEPT ![p] = TRUE]
          /\ tries' = [tries EXCEPT ![p] = 0]
          /\ UNCHANGED raised
       \/ /\ repoLock # NoProc
          /\ tries[p] + 1 < Retries
          /\ tries' = [tries EXCEPT ![p] = @ + 1]
          /\ UNCHANGED <<repoLock, pc, raised, callback>>
       \/ /\ repoLock # NoProc
          /\ tries[p] + 1 >= Retries
          /\ pc' = [pc EXCEPT ![p] = "relock"]
          /\ tries' = [tries EXCEPT ![p] = 0]
          /\ raised' = [raised EXCEPT ![p] = TRUE]
          /\ UNCHANGED <<repoLock, callback>>
    /\ UNCHANGED <<file, frames, lock, ran, calls, unguarded>>

(* _run_callback ends: the lock is released; an error kills the command. *)
CallbackEnd(p) ==
    /\ pc[p] = "in"
    /\ callback[p]
    /\ Top(p).method = "run"
    /\ repoLock' = NoProc
    /\ callback' = [callback EXCEPT ![p] = FALSE]
    /\ pc' = [pc EXCEPT ![p] = IF raised[p] THEN "relock" ELSE "running"]
    /\ UNCHANGED <<file, tries, frames, lock, raised, ran, calls, unguarded>>

(* The command of DVC ends; with repo.lock releases the lock if it has it. *)
Exit(p) ==
    /\ pc[p] = "in"
    /\ frames[p] = <<>>
    /\ repoLock' = IF repoLock = p THEN NoProc ELSE repoLock
    /\ raised' = [raised EXCEPT ![p] = FALSE]
    /\ ran' = [ran EXCEPT ![p] = FALSE]
    /\ calls' = [calls EXCEPT ![p] = 0]
    /\ pc' = [pc EXCEPT ![p] = "idle"]
    /\ UNCHANGED <<file, tries, frames, lock, callback, unguarded>>

-----------------------------------------------------------------------------
(* The process is killed.  The operating system frees the lock of          *)
(* zc.lockfile; a hard-link lock stays for the 365 days of its lifetime.   *)
Crash(p) ==
    /\ pc[p] \notin {"idle", "dead"}
    /\ Cardinality({q \in Proc : pc[q] = "dead"}) < MaxCrashes
    /\ pc' = [pc EXCEPT ![p] = "dead"]
    /\ frames' = [frames EXCEPT ![p] = <<>>]
    /\ repoLock' = IF repoLock = p /\ ~HardlinkLock THEN NoProc ELSE repoLock
    /\ lock' = [lock EXCEPT ![p] = EmptyDict]
    /\ tries' = [tries EXCEPT ![p] = 0]
    /\ calls' = [calls EXCEPT ![p] = 0]
    /\ raised' = [raised EXCEPT ![p] = FALSE]
    /\ callback' = [callback EXCEPT ![p] = FALSE]
    /\ ran' = [ran EXCEPT ![p] = FALSE]
    /\ UNCHANGED <<file, unguarded>>

(* The user follows the advice of the blocker's message: with no live      *)
(* process behind an entry, remove .dvc/tmp/rwlock by hand.                *)
UserRemovesFile ==
    /\ \E p \in Proc : pc[p] = "dead"
    /\ \A p \in Proc : pc[p] \in {"idle", "dead"}
    /\ file # EmptyDict
    /\ file' = EmptyDict
    /\ UNCHANGED <<repoLock, pc, tries, frames, lock, raised, callback,
                   ran, calls, unguarded>>

Step(p) ==
    \/ TryLock(p)
    \/ \E m \in Method, s \in Stage : Call(p, m, s)
    \/ Return(p)
    \/ Truncate(p)
    \/ Dump(p)
    \/ StartCmd(p)
    \/ CmdExit(p)
    \/ CheckpointSignal(p)
    \/ Relock(p)
    \/ CallbackRelock(p)
    \/ CallbackEnd(p)
    \/ Exit(p)

Next ==
    \/ \E p \in Proc : Begin(p) \/ Step(p) \/ Crash(p)
    \/ UserRemovesFile

Spec == Init /\ [][Next]_vars

(* A live process keeps executing and the commands of the stages end. *)
FairSpec == Spec /\ \A p \in Proc : WF_vars(Step(p))

-----------------------------------------------------------------------------
(* What p may be reading and writing: the paths of its open calls. *)
FrameReads(f) == ReadSet(f.method, f.stage)

FrameWrites(f) == WriteSet(f.method, f.stage)

Reads(p) == UNION {FrameReads(frames[p][i]) : i \in DOMAIN frames[p]}

Writes(p) == UNION {FrameWrites(frames[p][i]) : i \in DOMAIN frames[p]}

(* Two processes never work on overlapping paths when one of them writes:  *)
(* what rwlock() promises, with its nested calls and while the repository  *)
(* lock is given up for the command of a stage.                            *)
Exclusion ==
    \A p, q \in Proc : p # q =>
        \A x \in Writes(p), y \in Reads(q) \cup Writes(q) :
            <<x, y>> \notin Overlap

(* Exclusion holds as long as every process could take the repository lock *)
(* back after the command of its stage (decorators.py, unlocked_repo).     *)
GuardedExclusion == ~unguarded => Exclusion

(* The assertions of _release_write and _release_read never fail: nobody   *)
(* removes or overwrites an entry that an open call still has to release.  *)
ReleaseAssertionsHold ==
    ~unguarded => \A p \in Proc :
        (/\ pc[p] = "in"
         /\ repoLock = p
         /\ frames[p] # <<>>
         /\ file # Corrupt)
        => ReleaseOK(file, p, Top(p).rchanges, Top(p).wchanges)

(* A process that is out of DVC leaves no entry behind, whatever nesting   *)
(* of calls and exceptions it went through: only a crash leaks entries.    *)
NothingLeaks ==
    (~unguarded /\ file # Corrupt) => \A p \in Proc : pc[p] \in {"idle", "locking"} =>
        \A x \in Path : file.write[x] # p /\ p \notin file.read[x]

(* Every DVC command ends, by success or by an error, however long the     *)
(* others keep the repository lock and whatever a dead process left behind. *)
CommandsEnd ==
    \A p \in Proc : pc[p] = "locking" ~> pc[p] \in {"idle", "dead"}

-----------------------------------------------------------------------------
(* Between the load of the file and the end of the write. *)
EditPc == {"acquired", "acquiring", "released", "releasing"}

(* The dictionary d has the entries that the open calls of p rely on. *)
Covers(d, p) ==
    \A i \in DOMAIN frames[p] :
        /\ \A x \in FrameWrites(frames[p][i]) : d.write[x] = p
        /\ \A x \in FrameReads(frames[p][i]) : p \in d.read[x]

(* What an inner call takes back on its return is not what an outer call   *)
(* relies on.                                                              *)
Nested(p) ==
    \A i, j \in DOMAIN frames[p] : i < j =>
        /\ frames[p][j].wchanges \cap FrameWrites(frames[p][i]) = {}
        /\ frames[p][j].rchanges \cap FrameReads(frames[p][i]) = {}

(* A call takes back only what it asked for. *)
OwnChanges(p) ==
    \A i \in DOMAIN frames[p] :
        /\ frames[p][i].wchanges \subseteq FrameWrites(frames[p][i])
        /\ frames[p][i].rchanges \subseteq FrameReads(frames[p][i])

LockHeld ==
    \A p \in Proc :
        /\ pc[p] \in EditPc \cup {"in"} => repoLock = p
        /\ pc[p] \in {"idle", "locking", "dead"} => frames[p] = <<>>

FileCovers == file # Corrupt => \A p \in Proc : pc[p] # "acquired" => Covers(file, p)

EditCovers ==
    \A p \in Proc : pc[p] \in EditPc => \A q \in Proc : Covers(lock[p], q)

(* The discipline by which the two locks make Exclusion true: every edit   *)
(* is made under the repository lock, from a dictionary with the entries   *)
(* of all the open calls, and takes back only the entries of one call.     *)
Discipline ==
    ~unguarded =>
        /\ LockHeld
        /\ FileCovers
        /\ EditCovers
        /\ \A p \in Proc : Nested(p) /\ OwnChanges(p)
        /\ Exclusion

(* Every entry of p in the dictionary d was added by an open call of p.    *)
Owned(d, p) ==
    \A x \in Path :
        /\ d.write[x] = p => \E i \in DOMAIN frames[p] : x \in frames[p][i].wchanges
        /\ p \in d.read[x] => \E i \in DOMAIN frames[p] : x \in frames[p][i].rchanges

FileOwned ==
    file # Corrupt =>
        \A p \in Proc : pc[p] \notin EditPc \cup {"dead"} => Owned(file, p)

EditOwned ==
    \A p \in Proc : pc[p] \in EditPc =>
        \A q \in Proc : pc[q] # "dead" => Owned(lock[p], q)

(* The converse of the discipline, by which nothing leaks: the file, and   *)
(* every dictionary about to become it, hold no entries but those that an  *)
(* open call added and will take back.                                     *)
NoStrays == ~unguarded => FileOwned /\ EditOwned
=============================================================================
