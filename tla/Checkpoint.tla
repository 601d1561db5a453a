------------------------------- MODULE Checkpoint -------------------------------
(***************************************************************************)
(* A stage whose commands ask for checkpoints while they run: the main     *)
(* thread of DVC that waits for a command, the monitor thread beside it    *)
(* (dvc/stage/run.py), the processes of the command that call              *)
(* make_checkpoint (dvc/api.py), and the signal file between them.         *)
(*                                                                         *)
(* A worker is a process of the command with an output of its own; the     *)
(* contents of the output are counted in epochs.  Unless Wrapped, the      *)
(* process that Popen starts is the only worker; otherwise it is a shell   *)
(* that waits for the workers and may hide their failure.                  *)
(***************************************************************************)
EXTENDS Naturals, FiniteSets

CONSTANTS
    Worker,       \* processes of a command that call make_checkpoint
    Wrapped,      \* whether the process of the command is a shell around them
    HandlesTerm,  \* whether that process may handle SIGTERM and go on
    Commands,     \* number of commands in the list of the stage
    MaxEpochs,    \* bound: epochs of each worker
    MaxDeaths     \* bound: workers that die of themselves or of a signal

ASSUME CheckpointAssumption ==
    /\ {Wrapped, HandlesTerm} \subseteq BOOLEAN
    /\ ~Wrapped => \E w : Worker = {w}
    /\ Commands \in Nat \ {0}
    /\ MaxEpochs \in Nat
    /\ MaxDeaths \in Nat

VARIABLES
    main,         \* main thread of DVC
    cmd,          \* number of the command it is at
    proc,         \* the process it has started: "none", "alive" or its result
    monitor,      \* monitor thread
    done,         \* event: the command has ended
    killed,       \* event: the monitor has killed the command
    signal,       \* whether .dvc/tmp/DVC_CHECKPOINT exists
    worker,       \* worker[w]: what w is doing
    created,      \* workers whose last call has created the signal file
    data,         \* data[w]: epochs in the output of w
    hashes,       \* what stage.save has found in the outputs
    object,       \* what stage.commit has moved to the cache under hashes
    lastCheckpoint, \* hashes and contents of the last checkpoint
    deaths

checkpointVars ==
    <<main, cmd, proc, monitor, done, killed, signal, worker, created, data, hashes, object,
      lastCheckpoint, deaths>>

command == <<worker, created, data, deaths>>
saved == <<hashes, object, lastCheckpoint>>

Snapshot == [Worker -> 0..MaxEpochs]

Alive == {w \in Worker : worker[w] \in {"work", "trained", "waiting"}}

(* The monitor is between its look at the signal file and its removal.     *)
Answering == monitor \in {"save", "commit", "record", "kill", "reap", "remove"}

CheckpointInit ==
    /\ main = "start"
    /\ cmd = 1
    /\ proc = "none"
    /\ monitor = "off"
    /\ done = FALSE
    /\ killed = FALSE
    /\ signal = FALSE
    /\ worker = [w \in Worker |-> "off"]
    /\ created = {}
    /\ data = [w \in Worker |-> 0]
    /\ hashes = data
    /\ object = data
    /\ lastCheckpoint = [hashes |-> data, object |-> data]
    /\ deaths = 0

-----------------------------------------------------------------------------
(* Main thread.                                                            *)

(* _run: Popen, then checkpoint_monitor starts its thread with new events. *)
StartCmd ==
    /\ main = "start"
    /\ main' = "communicate"
    /\ proc' = "alive"
    /\ worker' = [w \in Worker |-> "work"]
    /\ created' = {}
    /\ monitor' = "look"
    /\ done' = FALSE
    /\ killed' = FALSE
    /\ UNCHANGED <<cmd, signal, data, deaths, saved>>

(* communicate returns and the finally clause of checkpoint_monitor says so *)
(* to the monitor.                                                         *)
CommandEnded ==
    /\ main = "communicate"
    /\ proc # "alive"
    /\ done' = TRUE
    /\ main' = "join"
    /\ UNCHANGED <<cmd, proc, monitor, killed, signal, command, saved>>

(* cmd_run goes on to the next command of the stage, if there is one.      *)
NextCmd ==
    IF cmd < Commands
    THEN main' = "start" /\ cmd' = cmd + 1
    ELSE main' = "ok" /\ UNCHANGED cmd

(* Broken form: nobody joins the monitor. *)
JoinedAtOnce ==
    /\ main = "join"
    /\ IF proc = "ok"
       THEN NextCmd
       ELSE main' = (IF killed THEN "killed" ELSE "failed") /\ UNCHANGED cmd
    /\ UNCHANGED <<proc, monitor, done, killed, signal, command, saved>>

(* The monitor has been joined and the return code decides: "killed" stands *)
(* for CheckpointKilledError and "failed" for StageCmdFailedError.         *)
Joined ==
    /\ main = "join"
    /\ monitor = "off"
    /\ IF proc = "ok"
       THEN NextCmd
       ELSE main' = (IF killed THEN "killed" ELSE "failed") /\ UNCHANGED cmd
    /\ UNCHANGED <<proc, monitor, done, killed, signal, command, saved>>

-----------------------------------------------------------------------------
(* Monitor thread: _checkpoint_run.                                        *)

(* Broken form: the signal is taken away when it is seen. *)
LookAndRemove ==
    /\ monitor = "look"
    /\ monitor' = IF signal THEN "save" ELSE "pause"
    /\ signal' = FALSE
    /\ UNCHANGED <<main, cmd, proc, done, killed, command, saved>>

Look ==
    /\ monitor = "look"
    /\ monitor' = IF signal THEN "save" ELSE "pause"
    /\ UNCHANGED <<main, cmd, proc, done, killed, signal, command, saved>>

(* _run_callback under the repository lock: stage.save ...                 *)
CallbackSave ==
    /\ monitor = "save"
    /\ hashes' = data
    /\ monitor' = "commit"
    /\ UNCHANGED <<main, cmd, proc, done, killed, signal, command, object, lastCheckpoint>>

(* ... stage.commit, which moves what the outputs hold by now ...          *)
CallbackCommit ==
    /\ monitor = "commit"
    /\ object' = data
    /\ monitor' = "record"
    /\ UNCHANGED <<main, cmd, proc, done, killed, signal, command, hashes, lastCheckpoint>>

(* ... and the callback, which dumps the stage and commits to git; nothing  *)
(* to commit is not an error.                                              *)
CallbackRecord ==
    /\ monitor = "record"
    /\ lastCheckpoint' = [hashes |-> hashes, object |-> object]
    /\ monitor' = "remove"
    /\ UNCHANGED <<main, cmd, proc, done, killed, signal, command, hashes, object>>

(* The lock is not to be had, an output cannot be read, git refuses.       *)
CallbackFail ==
    /\ monitor \in {"save", "commit", "record"}
    /\ monitor' = "kill"
    /\ UNCHANGED <<main, cmd, proc, done, killed, signal, command, saved>>

(* _kill: the signal reaches the process of the command only, which dies of *)
(* it, unless it handles it and goes on as it pleases.                     *)
Terminate ==
    /\ monitor = "kill"
    /\ monitor' = "reap"
    /\ \/ /\ proc = "alive"
          /\ proc' = "failed"
          /\ worker' = [w \in Worker |-> IF ~Wrapped /\ w \in Alive
                                         THEN "dead" ELSE worker[w]]
       \/ /\ proc # "alive" \/ HandlesTerm
          /\ UNCHANGED <<proc, worker>>
    /\ UNCHANGED <<main, cmd, done, killed, signal, created, data, deaths, saved>>

(* proc.wait *)
Reap ==
    /\ monitor = "reap"
    /\ proc # "alive"
    /\ killed' = TRUE
    /\ monitor' = "remove"
    /\ UNCHANGED <<main, cmd, proc, done, signal, command, saved>>

(* The finally clause, after success as after failure.                     *)
RemoveSignal ==
    /\ monitor = "remove"
    /\ signal' = FALSE
    /\ monitor' = "pause"
    /\ UNCHANGED <<main, cmd, proc, done, killed, command, saved>>

(* Broken form: the monitor answers once. *)
PauseForGood ==
    /\ monitor = "pause"
    /\ monitor' = "off"
    /\ UNCHANGED <<main, cmd, proc, done, killed, signal, command, saved>>

(* done.wait(1): the loop ends when it is set, and goes on after a second. *)
Pause ==
    /\ monitor = "pause"
    /\ monitor' = IF done THEN "off" ELSE "look"
    /\ UNCHANGED <<main, cmd, proc, done, killed, signal, command, saved>>

-----------------------------------------------------------------------------
(* The command.                                                            *)

Train(w) ==
    /\ worker[w] = "work"
    /\ data[w] < MaxEpochs
    /\ data' = [data EXCEPT ![w] = @ + 1]
    /\ worker' = [worker EXCEPT ![w] = "trained"]
    /\ UNCHANGED <<main, cmd, proc, monitor, done, killed, signal, created, deaths, saved>>

(* make_checkpoint opens the signal file for writing, there or not ...      *)
MakeCheckpoint(w) ==
    /\ worker[w] = "trained"
    /\ signal' = TRUE
    /\ created' = IF signal THEN created \ {w} ELSE created \cup {w}
    /\ worker' = [worker EXCEPT ![w] = "waiting"]
    /\ UNCHANGED <<main, cmd, proc, monitor, done, killed, data, deaths, saved>>

(* ... and sleeps while it exists.                                         *)
CheckpointReturns(w) ==
    /\ worker[w] = "waiting"
    /\ ~signal
    /\ worker' = [worker EXCEPT ![w] = "work"]
    /\ UNCHANGED <<main, cmd, proc, monitor, done, killed, signal, created, data, deaths, saved>>

WorkerExit(w) ==
    /\ worker[w] = "work"
    /\ worker' = [worker EXCEPT ![w] = "exited"]
    /\ UNCHANGED <<main, cmd, proc, monitor, done, killed, signal, created, data, deaths, saved>>

(* A worker fails, is interrupted or killed, wherever it is.               *)
WorkerDies(w) ==
    /\ w \in Alive
    /\ deaths < MaxDeaths
    /\ deaths' = deaths + 1
    /\ worker' = [worker EXCEPT ![w] = "dead"]
    /\ UNCHANGED <<main, cmd, proc, monitor, done, killed, signal, created, data, saved>>

(* The process of the command ends when its workers have; a shell may      *)
(* report what it likes, a worker that is the process itself may not.      *)
ProcEnds ==
    /\ proc = "alive"
    /\ Alive = {}
    /\ proc' \in IF ~Wrapped /\ \E w \in Worker : worker[w] = "dead"
                 THEN {"failed"} ELSE {"ok", "failed"}
    /\ UNCHANGED <<main, cmd, monitor, done, killed, signal, command, saved>>

Main == StartCmd \/ CommandEnded \/ Joined

Callback == CallbackSave \/ CallbackCommit \/ CallbackRecord \/ CallbackFail

Monitor == Look \/ Callback \/ Terminate \/ Reap \/ RemoveSignal \/ Pause

Work(w) == Train(w) \/ MakeCheckpoint(w) \/ CheckpointReturns(w) \/ WorkerExit(w)

(* The stage has ended and whoever is left waits for a signal file that     *)
(* nobody removes; or the monitor waits for the command, which waits for    *)
(* the monitor to remove that file (Ring).                                 *)
StageOver == main \in {"ok", "failed", "killed"}

Ring == monitor = "reap" /\ proc = "alive" /\ \E w \in Worker : worker[w] = "waiting"

Terminating ==
    /\ StageOver \/ Ring
    /\ \A w \in Alive : worker[w] = "waiting" /\ signal
    /\ UNCHANGED checkpointVars

CheckpointNext ==
    \/ Main \/ Monitor \/ ProcEnds
    \/ \E w \in Worker : Work(w) \/ WorkerDies(w)
    \/ Terminating

(* Threads are scheduled, the repository lock is had or given up after some *)
(* attempts, and a command trains for a number of epochs and ends.         *)
Fairness ==
    /\ WF_checkpointVars(Main) /\ WF_checkpointVars(Monitor) /\ WF_checkpointVars(ProcEnds)
    /\ \A w \in Worker : WF_checkpointVars(Work(w))

CheckpointSpec == CheckpointInit /\ [][CheckpointNext]_checkpointVars /\ Fairness
-----------------------------------------------------------------------------
(* Type correctness; the monitor exists only while the main thread waits   *)
(* for the command or for the monitor itself, so that the two never use the *)
(* stage or the repository lock together (checkpoint_monitor).             *)
CheckpointTypeOK ==
    /\ main \in {"start", "communicate", "join", "ok", "failed", "killed"}
    /\ cmd \in 1..Commands
    /\ proc \in {"none", "alive", "ok", "failed"}
    /\ monitor \in {"off", "look", "save", "commit", "record", "kill", "reap",
                    "remove", "pause"}
    /\ {done, killed, signal} \subseteq BOOLEAN
    /\ worker \in [Worker -> {"off", "work", "trained", "waiting", "exited", "dead"}]
    /\ created \subseteq Worker
    /\ {data, hashes, object} \subseteq Snapshot
    /\ lastCheckpoint \in [hashes : Snapshot, object : Snapshot]
    /\ deaths \in 0..MaxDeaths
    /\ monitor # "off" => main \in {"communicate", "join"}

(* make_checkpoint "will block until DVC has finished creating the          *)
(* checkpoint" (api.py): the worker whose call has created the signal file  *)
(* returns only after a checkpoint with its data, recorded under the hash   *)
(* that the data has, or after the monitor has killed the command.  A call  *)
(* that finds the file of another worker has no such promise.              *)
FirstSignalAnswered ==
    [][\A w \in created : CheckpointReturns(w) =>
          \/ killed
          \/ /\ lastCheckpoint.hashes[w] = data[w]
             /\ lastCheckpoint.object[w] = data[w]]_checkpointVars

(* A command that fails because the monitor killed it is reported as such:  *)
(* _run tells CheckpointKilledError from StageCmdFailedError by an event    *)
(* that the monitor sets after it has killed the command.                  *)
KilledTold == main = "failed" => ~killed

(* A stage with checkpoints ends: nobody waits for ever in the ring of main *)
(* thread, command, worker, signal file and monitor (_run, _kill,           *)
(* make_checkpoint), unless the command has handled the SIGTERM of _kill    *)
(* (run.py:200) and called or stayed in make_checkpoint (api.py:141): the   *)
(* signal file goes only when proc.wait (run.py:201) has returned.         *)
StageEnds == <>StageOver \/ <>[]Ring

(* "Error generating checkpoint, %s will be aborted" (run.py:186): once the *)
(* monitor says so, the stage ends. It does not hold where a command handles *)
(* SIGTERM (HandlesTerm), which closes Ring.                               *)
Aborted == monitor = "kill" ~> StageOver
=============================================================================
