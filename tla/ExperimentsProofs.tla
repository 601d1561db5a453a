-------------------------- MODULE ExperimentsProofs --------------------------
(***************************************************************************)
(* Proofs about Experiments: the references implement ExperimentStore, no  *)
(* change of the user is lost whichever step of a command fails, HEAD and  *)
(* the workspace are as before when a command is over, the queue loses only *)
(* what it may lose, and what executors have made is recorded. Then about  *)
(* Checkpoint, which a stage of an experiment runs with: a command that the *)
(* monitor killed is reported as such, and a checkpoint that is asked for  *)
(* is made before the answer, for any number of workers and epochs.        *)
(***************************************************************************)
EXTENDS Experiments, Checkpoint, FiniteSetTheorems, SequenceTheorems, WellFoundedInduction,
        TLAPS

-----------------------------------------------------------------------------
(* References.                                                             *)

(* A reference that is set as an executor or a pull sets it is a step of    *)
(* the store: it is new, it grows, or it is permitted to be replaced.      *)
LEMMA SettingIsStoring ==
    ASSUME NEW k, NEW c, refs' = SetRef(refs, k, c),
           k \in DOMAIN refs => ~Diverged(refs[k], c) \/ k \in Permit
    PROVE  Store!Next
<1>1. /\ DOMAIN refs' = DOMAIN refs \cup {k}
      /\ refs'[k] = c
      /\ \A j \in DOMAIN refs : j # k => refs'[j] = refs[j]
  BY DEF SetRef
<1>2. Store!Others(k)
  BY <1>1 DEF Store!Others, Store!Unchanged
<1>3. CASE k \notin DOMAIN refs
  BY <1>1, <1>2, <1>3 DEF Store!Next, Store!Record
<1>4. CASE k \in DOMAIN refs /\ ~Diverged(refs[k], c)
  <2>1. Store!Grow(k)
    BY <1>1, <1>2, <1>4 DEF Store!Grow, Diverged, IsPrefix, Store!IsPrefix
  <2> QED
    BY <1>1, <2>1 DEF Store!Next
<1>5. CASE k \in DOMAIN refs /\ k \in Permit
  BY <1>1, <1>2, <1>5 DEF Store!Next, Store!ReplaceOrDiscard
<1> QED
  BY <1>3, <1>4, <1>5

(* Actions that have nothing to do with the references of experiments.     *)
RefsAlone ==
    \/ Stashing
    \/ InitExecutors \/ InitFails \/ Interrupt \/ AllEnded
    \/ \E i \in DOMAIN execs :
          \/ \E t \in Tree, ckpt \in BOOLEAN : ExecCommit(i, t, ckpt)
          \/ \E status \in {"ok", "failed"} : ExecEnd(i, status)
    \/ CollectConflict \/ CollectFailed \/ CollectEnd \/ DropEntry \/ DropEnd
    \/ Starting \/ GcRefsDone
    \/ ApplyStash \/ ApplyMerge \/ ApplyUnstash \/ ApplyEnd
    \/ Others

LEMMA NextSplit == Next <=> RefsAlone \/ Collect \/ (\E k \in DOMAIN refs : GcRef(k)) \/ PullExp
BY Zenon DEF Next, Reproducing, RefsAlone

LEMMA OthersLeaveRefs == RefsAlone => UNCHANGED refs
<1>1. Stashing => UNCHANGED refs
  BY DEF Stashing, StashWorkspace, ApplyChanges, ApplyFails, DetachHead, Prepare, PushEntry,
         RestoreHead, ResetHard, PopApply, PopDrop
<1>2. ASSUME NEW i, NEW t, NEW ckpt, NEW status
      PROVE  /\ ExecCommit(i, t, ckpt) => UNCHANGED refs
             /\ ExecEnd(i, status) => UNCHANGED refs
  BY DEF ExecCommit, ExecEnd
<1>3. /\ InitExecutors \/ InitFails \/ Interrupt \/ AllEnded => UNCHANGED refs
      /\ CollectConflict \/ CollectFailed \/ CollectEnd \/ DropEntry \/ DropEnd => UNCHANGED refs
  BY DEF InitExecutors, InitFails, Interrupt, AllEnded, CollectConflict, CollectFailed,
         CollectEnd, DropEntry, DropEnd
<1>4. Starting => UNCHANGED refs
  BY DEF Starting, StartNew, StartResume, StartRunAll, StartGc, StartApply, BranchExp, PushExp,
         StartPull
<1>5. /\ GcRefsDone => UNCHANGED refs
      /\ ApplyStash \/ ApplyMerge \/ ApplyUnstash \/ ApplyEnd => UNCHANGED refs
  BY DEF GcRefsDone, ApplyStash, ApplyMerge, ApplyUnstash, ApplyEnd
<1>6. Others => UNCHANGED refs
  BY DEF Others, UserEdit, UserCommit, UserCheckout, OtherPush, Crash
<1> QED
  BY <1>1, <1>2, <1>3, <1>4, <1>5, <1>6 DEF RefsAlone

(* The references of experiments implement ExperimentStore: an executor's   *)
(* result, a pull and gc replace or remove an experiment only where the     *)
(* user has permitted it (fetch_exps, exp pull, gc).                       *)
THEOREM ImplementsStore == Spec => StoreSpec
<1>1. Init => Store!Init
  BY DEF Init, Idle, Store!Init, Permit, Collecting
<1>2. ASSUME [Next]_vars
      PROVE  [Store!Next]_<<refs, Permit>>
  <2>1. CASE UNCHANGED refs
    BY <2>1 DEF Store!Next
  <2>2. CASE Collect
    <3> DEFINE x == execs[op.at]
    <3>1. Collecting /\ (UNCHANGED refs \/ FetchRef(x))
      BY <2>2 DEF Collect
    <3>2. CASE FetchRef(x) /\ refs' # refs
      <4>1. refs' = SetRef(refs, x.key, x.head)
        BY <3>2 DEF FetchRef
      <4>2. x.key \in DOMAIN refs => ~Diverged(refs[x.key], x.head) \/ x.entry.force
        BY <3>2 DEF FetchRef
      <4>3. x.entry.force => x.key \in Permit
        BY <3>1 DEF Permit
      <4> QED
        BY <4>1, <4>2, <4>3, SettingIsStoring
    <3> QED
      BY <2>1, <3>1, <3>2
  <2>3. ASSUME NEW k \in DOMAIN refs, GcRef(k)
        PROVE  Store!Next
    <3>1. op.phase = "gc" /\ k.base \notin op.keep /\ refs' = Restrict(refs, DOMAIN refs \ {k})
      BY <2>3 DEF GcRef
    <3>2. k \in Permit
      BY <3>1 DEF Permit, Collecting
    <3>3. Store!Others(k)
      BY <3>1 DEF Store!Others, Store!Unchanged, Restrict
    <3> QED
      BY <3>2, <3>3 DEF Store!Next, Store!ReplaceOrDiscard
  <2>4. CASE PullExp
    <3>1. op.phase = "pull"
      BY <2>4 DEF PullExp
    <3>2. op.force => op.key \in Permit
      BY <3>1 DEF Permit, Collecting
    <3>3. CASE refs' = SetRef(refs, op.key, remote[op.key])
               /\ (op.key \in DOMAIN refs => ~Diverged(refs[op.key], remote[op.key]) \/ op.force)
      BY <3>2, <3>3, SettingIsStoring
    <3> QED
      BY <2>1, <2>4, <3>3 DEF PullExp
  <2>5. UNCHANGED vars => UNCHANGED refs
    BY DEF vars
  <2> QED
    BY <1>2, <2>1, <2>2, <2>3, <2>4, <2>5, NextSplit, OthersLeaveRefs
<1> QED
  BY <1>1, <1>2, PTL DEF Spec, StoreSpec, Store!Spec

-----------------------------------------------------------------------------
(* Types of what the operators give.                                       *)

LEMMA AppendCommit ==
    ASSUME NEW c \in Commit, NEW t \in Tree \cup {"first", "user"}, NEW n \in Nat
    PROVE  Append(c, <<t, n>>) \in Commit
<1> DEFINE E == (Tree \cup {"first", "user"}) \X Nat
           e == <<t, n>>
<1>1. e \in E /\ c \in Seq(E)
  BY DEF Commit
<1> HIDE DEF E, e
<1>2. Append(c, e) \in Seq(E) /\ Len(Append(c, e)) = Len(c) + 1 /\ Len(c) \in Nat
  BY <1>1
<1>3. Len(<<>>) = 0
  OBVIOUS
<1> QED
  BY <1>2, <1>3 DEF Commit, NoCommit, E, e

LEMMA PrefixIsCommit ==
    ASSUME NEW c \in Commit \cup {NoCommit}, NEW d \in Prefixes(c), d # NoCommit
    PROVE  d \in Commit
<1> DEFINE E == (Tree \cup {"first", "user"}) \X Nat
<1>1. c \in Seq(E)
  BY EmptySeq DEF Commit, NoCommit
<1> HIDE DEF E
<1>2. PICK l \in 0..Len(c) : d = SubSeq(c, 1, l)
  BY DEF Prefixes
<1>3. \A i \in 1..l : c[i] \in E
  BY <1>1, <1>2
<1>4. d \in Seq(E)
  BY <1>2, <1>3, SubSeqProperties
<1> QED
  BY <1>4 DEF Commit, NoCommit, E

LEMMA CommitsAreCommits ==
    ASSUME StoreTypes, NEW c \in Commits
    PROVE  c \in Commit
<1>1. PICK d \in {refs[k] : k \in DOMAIN refs} \cup {checkpoint} : c \in Prefixes(d)
  BY DEF Commits
<1>2. d \in Commit \cup {NoCommit}
  BY <1>1 DEF StoreTypes
<1>3. c # NoCommit
  BY DEF Commits
<1> QED
  BY <1>1, <1>2, <1>3, PrefixIsCommit

LEMMA FirstIsCommit == First \in Commit
BY DEF First, Commit, NoCommit

LEMMA RevIsCommit == GitTypes => Rev \in Commit
BY ConstantsAssumption DEF GitTypes, Rev, Place

LEMMA SetRefType ==
    ASSUME NEW f, f \in [DOMAIN f -> Commit], DOMAIN f \subseteq KeyType,
           NEW k \in KeyType, NEW c \in Commit
    PROVE  /\ SetRef(f, k, c) \in [DOMAIN SetRef(f, k, c) -> Commit]
           /\ DOMAIN SetRef(f, k, c) \subseteq KeyType
BY DEF SetRef

(* What a command remembers in each of its phases.                         *)
LEMMA WhatIsRemembered ==
    ASSUME op \in Operation
    PROVE  /\ op.phase = "idle" => op = Idle
           /\ op.phase \in {"stash", "apply", "detach", "prepare", "push"} => op \in Preparing
           /\ op.phase \in {"restore", "reset", "pop", "popdrop"} => op \in Unwinding
           /\ op.phase \in {"init", "run"} => op \in Running
           /\ op.phase = "collect" => op \in Fetching
           /\ op.phase = "drop" => op \in Dropping \cup Cleaning
           /\ op.phase = "gc" => op \in Cleaning
           /\ op.phase \in {"astash", "merge", "unstash", "adrop"} => op \in Applying
           /\ op.phase = "pull" => op \in Pulling
BY DEF Operation, Idle, Preparing, Unwinding, Running, Fetching, Dropping, Cleaning, Applying,
       Pulling

LEMMA IdleTypes ==
    ASSUME CommandTypes, op' = Idle, execs' = <<>>
    PROVE  CommandTypes'
BY DEF CommandTypes, Operation, Idle

LEMMA IdleHasNoExecutors ==
    ASSUME CommandTypes, op.cmd # "run"
    PROVE  execs = <<>>
BY DEF CommandTypes

(* A command that runs no executors goes on.                               *)
LEMMA GoesOn ==
    ASSUME CommandTypes, op.cmd # "run", op' \in Operation, op'.phase # "pull", UNCHANGED execs
    PROVE  CommandTypes'
BY DEF CommandTypes

-----------------------------------------------------------------------------
(* Type correctness of the steps that put aside, prepare and restore.      *)

LEMMA TakenAside ==
    ASSUME stash \in Seq(SUBSET Edit), NEW taken \in SUBSET Edit
    PROVE  /\ <<taken>> \o stash \in Seq(SUBSET Edit)
           /\ (<<taken>> \o stash)[1] = taken
           /\ Len(<<taken>> \o stash) = Len(stash) + 1
           /\ \A i \in 1..Len(stash) : (<<taken>> \o stash)[i + 1] = stash[i]
<1>1. <<taken>> \in Seq(SUBSET Edit) /\ Len(<<taken>>) = 1
  OBVIOUS
<1>2. Len(stash) \in Nat
  BY LenProperties
<1> QED
  BY <1>1, <1>2, ConcatProperties

LEMMA UnwindType ==
    ASSUME op \in Preparing \cup Unwinding, NEW failed \in BOOLEAN,
           NEW p \in {"restore", "reset", "pop", "popdrop"}, Unwind(failed, p)
    PROVE  op' \in Unwinding /\ op'.orig = op.orig /\ op'.stashed = op.stashed
           /\ op'.phase = p /\ op'.failed = failed /\ op'.queued = (failed \/ op.queued)
BY DEF Preparing, Unwinding, Unwind

LEMMA NewDoneType ==
    ASSUME op \in Unwinding, queue \in Seq(EntryType), ~op.failed => queue # <<>>, NewDone(op)
    PROVE  op' \in {Idle} \cup Running /\ op'.phase \in {"idle", "init"}
<1>1. CASE op.failed \/ op.queued
  BY <1>1 DEF NewDone, Idle
<1>2. CASE ~op.failed /\ ~op.queued
  <2>1. queue[1] \in EntryType
    BY <1>2
  <2>2. <<queue[1]>> \in Seq(EntryType)
    BY <2>1
  <2>3. op' = [cmd |-> "run", phase |-> "init", run |-> <<queue[1]>>, keep |-> FALSE]
    BY <1>2 DEF NewDone
  <2> QED
    BY <2>2, <2>3 DEF Running
<1> QED
  BY <1>1, <1>2 DEF Unwinding

LEMMA StashWorkspaceTypes ==
    ASSUME TypeOK, StashWorkspace
    PROVE  TypeOK'
<1> DEFINE taken == IF op.target.include THEN work.user ELSE Tracked(work.user)
<1>1. op \in Preparing
  BY WhatIsRemembered DEF StashWorkspace, TypeOK, CommandTypes
<1>2. taken \in SUBSET Edit /\ work.user \ taken \in SUBSET Edit
  BY DEF TypeOK, UserTypes, Tracked
<1> HIDE DEF taken
<1>3. /\ stash' = IF taken = {} THEN stash ELSE <<taken>> \o stash
      /\ work' = [work EXCEPT !.user = @ \ taken]
      /\ op' = [op EXCEPT !.stashed = taken # {}, !.phase = "apply"]
  BY DEF StashWorkspace, taken
<1>4. UserTypes'
  <2>1. stash' \in Seq(SUBSET Edit)
    BY <1>2, <1>3, TakenAside DEF TypeOK, UserTypes
  <2>2. work' \in [user : SUBSET Edit, exp : BOOLEAN]
    BY <1>2, <1>3 DEF TypeOK, UserTypes
  <2> QED
    BY <2>1, <2>2 DEF TypeOK, UserTypes, StashWorkspace
<1>5. op' \in Operation /\ op'.phase = "apply"
  BY <1>1, <1>3 DEF Operation, Preparing
<1>6. CommandTypes'
  BY <1>1, <1>5, GoesOn DEF TypeOK, Preparing, StashWorkspace
<1> QED
  BY <1>4, <1>6 DEF TypeOK, GitTypes, StoreTypes, Counted, git, counters, StashWorkspace

LEMMA ApplyingTypes ==
    ASSUME TypeOK, Safe, ApplyChanges \/ ApplyFails
    PROVE  TypeOK'
<1>1. op \in Preparing /\ op.phase = "apply"
  BY WhatIsRemembered DEF ApplyChanges, ApplyFails, TypeOK, CommandTypes
<1>2. op.stashed => stash[1] \in SUBSET Edit
  BY <1>1 DEF Safe, TypeOK, UserTypes, Preparing
<1>3. UserTypes'
  <2>1. work' = work \/ (op.stashed /\ work' = [work EXCEPT !.user = @ \cup stash[1]])
    <3>1. CASE ApplyChanges
      BY <3>1 DEF ApplyChanges
    <3>2. CASE ApplyFails
      <4>1. op.stashed /\ work' \in {work, [work EXCEPT !.user = @ \cup stash[1]]}
        BY <3>2 DEF ApplyFails
      <4> QED
        BY <4>1, Zenon
    <3> QED
      BY <3>1, <3>2
  <2> QED
    BY <1>2, <2>1 DEF TypeOK, UserTypes, ApplyChanges, ApplyFails
<1>4. op' \in Operation /\ op'.phase # "pull"
  <2>1. CASE Phase("detach")
    BY <1>1, <2>1 DEF Phase, Preparing, Operation
  <2>2. CASE Unwind(TRUE, "pop")
    BY <1>1, <2>2, UnwindType DEF Operation
  <2> QED
    BY <2>1, <2>2 DEF ApplyChanges, ApplyFails
<1>5. CommandTypes'
  BY <1>1, <1>4, GoesOn DEF TypeOK, Preparing, ApplyChanges, ApplyFails
<1> QED
  BY <1>3, <1>5 DEF TypeOK, GitTypes, StoreTypes, Counted, git, counters, ApplyChanges, ApplyFails

LEMMA DetachHeadTypes ==
    ASSUME TypeOK, DetachHead
    PROVE  TypeOK'
<1>1. op \in Preparing /\ op.phase = "detach"
  BY WhatIsRemembered DEF DetachHead, TypeOK, CommandTypes
<1>2. op' \in Operation /\ op'.phase # "pull"
  <2>1. CASE Phase("prepare")
    BY <1>1, <2>1 DEF Phase, Preparing, Operation
  <2>2. CASE Unwind(TRUE, "reset")
    BY <1>1, <2>2, UnwindType DEF Operation
  <2> QED
    BY <2>1, <2>2 DEF DetachHead
<1>3. CommandTypes'
  BY <1>1, <1>2, GoesOn DEF TypeOK, Preparing, DetachHead
<1>4. GitTypes'
  <2>1. op.target.rev \in Commit
    BY <1>1 DEF Preparing
  <2>2. HEAD' = Detached(op.target.rev) \/ UNCHANGED HEAD
    BY DEF DetachHead
  <2> QED
    BY <2>1, <2>2 DEF TypeOK, GitTypes, DetachHead, Detached, Place
<1> QED
  BY <1>3, <1>4 DEF TypeOK, UserTypes, StoreTypes, Counted, user, counters, DetachHead

LEMMA PreparingTypes ==
    ASSUME TypeOK, Prepare
    PROVE  TypeOK'
<1>1. op \in Preparing /\ op.phase = "prepare"
  BY WhatIsRemembered DEF Prepare, TypeOK, CommandTypes
<1>2. op' \in Operation /\ op'.phase # "pull"
  <2>1. CASE Phase("push")
    BY <1>1, <2>1 DEF Phase, Preparing, Operation
  <2>2. CASE Unwind(TRUE, "restore")
    BY <1>1, <2>2, UnwindType DEF Operation
  <2> QED
    BY <2>1, <2>2 DEF Prepare
<1>3. CommandTypes'
  BY <1>1, <1>2, GoesOn DEF TypeOK, Preparing, Prepare
<1>4. UserTypes'
  BY DEF TypeOK, UserTypes, Prepare
<1> QED
  BY <1>3, <1>4 DEF TypeOK, GitTypes, StoreTypes, Counted, git, counters, Prepare

LEMMA QueuedInFront ==
    ASSUME queue \in Seq(EntryType), NEW e \in EntryType
    PROVE  /\ <<e>> \o queue \in Seq(EntryType)
           /\ <<e>> \o queue # <<>>
           /\ (<<e>> \o queue)[1] = e
           /\ Len(<<e>> \o queue) = Len(queue) + 1
           /\ \A i \in 1..Len(queue) : (<<e>> \o queue)[i + 1] = queue[i]
<1>1. <<e>> \in Seq(EntryType) /\ Len(<<e>>) = 1
  OBVIOUS
<1>2. Len(queue) \in Nat
  BY LenProperties
<1>3. /\ <<e>> \o queue \in Seq(EntryType)
      /\ (<<e>> \o queue)[1] = e
      /\ Len(<<e>> \o queue) = Len(queue) + 1
      /\ \A i \in 1..Len(queue) : (<<e>> \o queue)[i + 1] = queue[i]
  BY <1>1, <1>2, ConcatProperties
<1> QED
  BY <1>2, <1>3, EmptySeq

LEMMA EntryHasType ==
    ASSUME op \in Preparing, commands \in Nat
    PROVE  Entry \in EntryType /\ Entry.queued = op.queued
BY DEF Preparing, Entry, EntryType

LEMMA PushEntryTypes ==
    ASSUME TypeOK, PushEntry
    PROVE  TypeOK'
<1>1. op \in Preparing /\ op.phase = "push"
  BY WhatIsRemembered DEF PushEntry, TypeOK, CommandTypes
<1>2. op' \in Operation /\ op'.phase # "pull"
  BY <1>1, UnwindType DEF PushEntry, Operation, Unwinding
<1>3. CommandTypes'
  BY <1>1, <1>2, GoesOn DEF TypeOK, Preparing, PushEntry
<1>4. UserTypes'
  BY DEF TypeOK, UserTypes, PushEntry
<1>5. StoreTypes'
  <2>1. Entry \in EntryType
    BY <1>1, EntryHasType DEF TypeOK, Counted
  <2>2. queue' = <<Entry>> \o queue /\ UNCHANGED <<refs, checkpoint, remote>>
    BY DEF PushEntry
  <2>3. queue' \in Seq(EntryType)
    BY <2>1, <2>2, QueuedInFront DEF TypeOK, StoreTypes
  <2> QED
    BY <2>2, <2>3 DEF TypeOK, StoreTypes
<1> QED
  BY <1>3, <1>4, <1>5 DEF TypeOK, GitTypes, Counted, git, counters, PushEntry

LEMMA RestoringTypes ==
    ASSUME TypeOK, Restoring, RestoreHead \/ ResetHard
    PROVE  TypeOK'
<1>1. op \in Unwinding
  BY WhatIsRemembered DEF RestoreHead, ResetHard, TypeOK, CommandTypes
<1>2. op' \in Operation /\ op'.phase # "pull"
  <2>1. PICK p \in {"reset", "pop"} : Phase(p)
    BY DEF RestoreHead, ResetHard
  <2> QED
    BY <1>1, <2>1 DEF Phase, Unwinding, Operation
<1>3. CommandTypes'
  BY <1>1, <1>2, GoesOn DEF TypeOK, Unwinding, RestoreHead, ResetHard
<1>4. StoreTypes' /\ Counted'
  BY DEF TypeOK, StoreTypes, Counted, counters, RestoreHead, ResetHard
<1>5. CASE RestoreHead
  <2>1. op.orig \in Place /\ (op.orig.branch # "none" => op.orig.branch \in DOMAIN heads)
    BY <1>5 DEF Restoring, RestoreHead, TypeOK, GitTypes
  <2> QED
    BY <1>3, <1>4, <1>5, <2>1 DEF TypeOK, GitTypes, UserTypes, user, RestoreHead
<1>6. CASE ResetHard
  BY <1>3, <1>4, <1>6 DEF TypeOK, GitTypes, UserTypes, git, ResetHard
<1> QED
  BY <1>5, <1>6

LEMMA StashedIsEdits ==
    ASSUME UserTypes, stash # <<>>
    PROVE  /\ stash[1] \in SUBSET Edit
           /\ Tail(stash) \in Seq(SUBSET Edit)
           /\ Len(stash) \in Nat /\ Len(stash) >= 1
           /\ Len(Tail(stash)) = Len(stash) - 1
           /\ \A i \in 1..Len(Tail(stash)) : Tail(stash)[i] = stash[i + 1]
<1>1. stash \in Seq(SUBSET Edit)
  BY DEF UserTypes
<1>2. Len(stash) \in Nat /\ Len(stash) # 0
  BY <1>1, EmptySeq, LenProperties
<1> QED
  BY <1>1, <1>2, ElementOfSeq, HeadTailProperties

LEMMA PoppingTypes ==
    ASSUME TypeOK, Safe, Droppable, PopApply \/ PopDrop
    PROVE  TypeOK'
<1>1. op \in Unwinding /\ op.phase \in {"pop", "popdrop"}
  BY WhatIsRemembered DEF PopApply, PopDrop, TypeOK, CommandTypes
<1>2. op.stashed => stash # <<>>
  BY <1>1 DEF Safe, Unwinding
<1>3. ASSUME NewDone(op)
      PROVE  op' \in Operation /\ op'.phase # "pull"
  <2>1. ~op.failed => queue # <<>>
    BY <1>1 DEF Droppable
  <2> QED
    BY <1>1, <1>3, <2>1, NewDoneType DEF TypeOK, StoreTypes, Operation
<1>4. op' \in Operation /\ op'.phase # "pull"
  <2>1. CASE Phase("popdrop")
    BY <1>1, <2>1 DEF Phase, Unwinding, Operation
  <2>2. CASE op' = Idle
    BY <2>2 DEF Operation, Idle
  <2> QED
    BY <1>3, <2>1, <2>2 DEF PopApply, PopDrop
<1>5. CommandTypes'
  BY <1>1, <1>4, GoesOn DEF TypeOK, Unwinding, PopApply, PopDrop
<1>6. GitTypes' /\ StoreTypes' /\ Counted'
  BY DEF TypeOK, GitTypes, StoreTypes, Counted, git, counters, PopApply, PopDrop
<1>7. CASE PopApply
  <2>1. /\ work' = work \/ (op.stashed /\ work' = [work EXCEPT !.user = @ \cup stash[1]])
        /\ refused' \in {refused, TRUE}
    BY <1>1, <1>7 DEF PopApply, Unwinding
  <2>2. work' \in [user : SUBSET Edit, exp : BOOLEAN]
    BY <1>2, <2>1, StashedIsEdits DEF TypeOK, UserTypes
  <2> QED
    BY <1>5, <1>6, <1>7, <2>1, <2>2 DEF TypeOK, UserTypes, PopApply
<1>8. CASE PopDrop
  <2>1. op.stashed
    BY <1>8 DEF PopDrop, Safe
  <2>2. stash' \in Seq(SUBSET Edit)
    BY <1>2, <1>8, <2>1, StashedIsEdits DEF TypeOK, PopDrop
  <2> QED
    BY <1>5, <1>6, <1>8, <2>2 DEF TypeOK, UserTypes, PopDrop
<1> QED
  BY <1>7, <1>8

LEMMA StashingTypes ==
    ASSUME TypeOK, Safe, Restoring, Droppable, Stashing
    PROVE  TypeOK'
BY StashWorkspaceTypes, ApplyingTypes, DetachHeadTypes, PreparingTypes, PushEntryTypes,
   RestoringTypes, PoppingTypes DEF Stashing

-----------------------------------------------------------------------------
(* Executors.                                                              *)

LEMMA ExecutorHasType ==
    ASSUME StoreTypes, NEW e \in EntryType, e.key \in {NoKey} \cup DOMAIN refs
    PROVE  Executor(e) \in ExecutorType /\ Executor(e).entry = e
BY DEF StoreTypes, EntryType, Executor, ExecutorType

LEMMA ExecutorsReplaced ==
    ASSUME NEW es \in Seq(ExecutorType), NEW new,
           DOMAIN new = DOMAIN es, \A i \in DOMAIN es : new[i] \in ExecutorType,
           new = [i \in DOMAIN new |-> new[i]]
    PROVE  new \in Seq(ExecutorType)
<1>1. DOMAIN es = 1..Len(es) /\ Len(es) \in Nat
  BY LenProperties
<1>2. new \in [1..Len(es) -> ExecutorType]
  BY <1>1
<1> QED
  BY <1>1, <1>2, SeqDef

(* Entries take their places among the executors one after the other: each  *)
(* executor is of an entry of run.                                         *)
LEMMA AddingOne ==
    ASSUME StoreTypes, NEW run \in Seq(EntryType),
           \A i \in DOMAIN run : run[i].key \in {NoKey} \cup DOMAIN refs,
           NEW es \in Seq(ExecutorType), NEW n \in 1..Len(run)
    PROVE  AddExecutor(es, run[n]) \in Seq(ExecutorType)
<1>1. Executor(run[n]) \in ExecutorType
  BY ExecutorHasType, ElementOfSeq, LenProperties
<1>2. \A i \in DOMAIN es : es[i] \in ExecutorType
  BY ElementOfSeq, LenProperties
<1> DEFINE new == [i \in DOMAIN es |-> IF es[i].entry.rev = run[n].rev
                                       THEN Executor(run[n]) ELSE es[i]]
<1>3. new \in Seq(ExecutorType)
  BY <1>1, <1>2, ExecutorsReplaced
<1>4. Append(es, Executor(run[n])) \in Seq(ExecutorType)
  BY <1>1
<1> QED
  BY <1>3, <1>4 DEF AddExecutor

(* A set of naturals that is not empty has a least element: what holds of   *)
(* the least counterexample's predecessors holds of all naturals.          *)
LEMMA LeastExists ==
    ASSUME NEW S \in SUBSET Nat, S # {}
    PROVE  \E x \in S : \A y \in S : x <= y
<1> DEFINE R == {ss \in Nat \X Nat : ss[1] < ss[2]}
<1>1. IsWellFoundedOn(R, Nat)
  BY NatLessThanWellFounded DEF OpToRel
<1> HIDE DEF R
<1>2. PICK x \in S : \A y \in S : ~(<<y, x>> \in R)
  BY <1>1, WFMin
<1>3. \A y \in S : ~(y < x)
  BY <1>2 DEF R
<1> QED
  BY <1>3

(* The executors of the first n entries are a sequence of executors, for    *)
(* every n: the least n for which they are not would follow one for which  *)
(* they are.                                                               *)
LEMMA ExecutorsHaveType ==
    ASSUME StoreTypes, NEW run \in Seq(EntryType),
           \A i \in DOMAIN run : run[i].key \in {NoKey} \cup DOMAIN refs
    PROVE  Executors(run) \in Seq(ExecutorType)
<1> DEFINE Body(f, m) == IF m = 0 THEN <<>> ELSE AddExecutor(f[m - 1], run[m])
           Adds(f, n) == f = [m \in 0..n |-> Body(f, m)]
<1>1. Len(run) \in Nat
  BY LenProperties
<1>2. \A n \in 0..Len(run) : \E f : Adds(f, n)
  <2> DEFINE Bad == {n \in 0..Len(run) : ~\E f : Adds(f, n)}
  <2> SUFFICES ASSUME Bad # {} PROVE FALSE
    OBVIOUS
  <2>1. PICK n \in Bad : \A m \in Bad : n <= m
    <3>1. Bad \in SUBSET Nat
      BY <1>1
    <3> HIDE DEF Bad
    <3> QED
      BY <3>1, LeastExists
  <2>2. CASE n = 0
    <3> DEFINE f == [m \in 0..0 |-> <<>>]
    <3>1. Adds(f, 0)
      OBVIOUS
    <3> QED
      BY <2>1, <2>2, <3>1
  <2>3. CASE n # 0
    <3>1. n - 1 \in 0..Len(run) /\ n - 1 \notin Bad /\ n \in Nat
      <4>1. n \in Nat /\ n <= Len(run)
        BY <1>1
      <4>2. n - 1 \in 0..Len(run) /\ ~(n <= n - 1)
        BY <1>1, <2>3, <4>1
      <4> HIDE DEF Bad
      <4> QED
        BY <2>1, <4>1, <4>2
    <3>2. PICK f : Adds(f, n - 1)
      BY <3>1
    <3> DEFINE g == [m \in 0..n |-> IF m = n THEN AddExecutor(f[n - 1], run[n]) ELSE f[m]]
    <3>3. \A m \in 0..n : g[m] = Body(g, m)
      <4> SUFFICES ASSUME NEW m \in 0..n PROVE g[m] = Body(g, m)
        OBVIOUS
      <4>1. CASE m = n
        BY <3>1, <4>1, <2>3
      <4>2. CASE m # n
        <5>1. m \in 0..(n - 1) /\ (m # 0 => m - 1 \in 0..n /\ m - 1 # n)
          BY <3>1, <4>2
        <5>2. f[m] = Body(f, m)
          BY <3>2, <5>1
        <5>3. g[m] = f[m] /\ (m # 0 => g[m - 1] = f[m - 1])
          BY <4>2, <5>1
        <5> QED
          BY <5>2, <5>3
      <4> QED
        BY <4>1, <4>2
    <3>4. Adds(g, n)
      <4>1. g = [m \in 0..n |-> g[m]]
        OBVIOUS
      <4> HIDE DEF g
      <4>2. [m \in 0..n |-> g[m]] = [m \in 0..n |-> Body(g, m)]
        BY <3>3
      <4> QED
        BY <4>1, <4>2
    <3> QED
      BY <2>1, <3>4
  <2> QED
    BY <2>2, <2>3
<1> DEFINE added == CHOOSE f : Adds(f, Len(run))
<1>3. Adds(added, Len(run))
  <2>1. \E f : Adds(f, Len(run))
    BY <1>1, <1>2
  <2> HIDE DEF Adds
  <2> QED
    BY <2>1
<1>4. Executors(run) = added[Len(run)]
  BY DEF Executors
<1> HIDE DEF added
<1>5. \A n \in 0..Len(run) : added[n] = Body(added, n)
  BY <1>3
<1> HIDE DEF Adds
<1>6. \A n \in 0..Len(run) : added[n] \in Seq(ExecutorType)
  <2> DEFINE Bad == {n \in 0..Len(run) : added[n] \notin Seq(ExecutorType)}
  <2> SUFFICES ASSUME Bad # {} PROVE FALSE
    OBVIOUS
  <2>1. PICK n \in Bad : \A m \in Bad : n <= m
    <3>1. Bad \in SUBSET Nat
      BY <1>1
    <3> HIDE DEF Bad
    <3> QED
      BY <3>1, LeastExists
  <2>2. added[n] = IF n = 0 THEN <<>> ELSE AddExecutor(added[n - 1], run[n])
    BY <1>5, <2>1
  <2>3. n # 0
    BY <2>1, <2>2, EmptySeq
  <2>4. n - 1 \in 0..Len(run) /\ n - 1 \notin Bad /\ n \in 1..Len(run)
    BY <1>1, <2>1, <2>3
  <2>5. added[n - 1] \in Seq(ExecutorType)
    BY <2>4
  <2>6. added[n] \in Seq(ExecutorType)
    BY <2>2, <2>3, <2>4, <2>5, AddingOne
  <2> QED
    BY <2>1, <2>6
<1> QED
  BY <1>1, <1>4, <1>6

LEMMA ExecutorsMayBe ==
    ASSUME CommandTypes, op.cmd = "run", op'.cmd = "run", op' \in Operation,
           execs' \in Seq(ExecutorType)
    PROVE  CommandTypes'
<1>1. op'.phase # "pull"
  BY DEF Operation, Idle, Preparing, Unwinding, Running, Fetching, Dropping, Cleaning, Applying,
         Pulling
<1> QED
  BY <1>1 DEF CommandTypes

LEMMA ReplacedExecutor ==
    ASSUME execs \in Seq(ExecutorType), NEW i \in DOMAIN execs, NEW x \in ExecutorType
    PROVE  [execs EXCEPT ![i] = x] \in Seq(ExecutorType)
BY LenProperties, ExceptSeq

LEMMA EndedHasType ==
    ASSUME NEW x \in ExecutorType, NEW status \in {"ok", "failed", "cancelled"}
    PROVE  Ended(x, status) \in ExecutorType /\ Ended(x, status).status = status
           /\ Ended(x, status).entry = x.entry
<1>1. x.entry.rev \in Commit
  BY DEF ExecutorType, EntryType
<1> QED
  BY <1>1 DEF Ended, ExecutorType

LEMMA ExecutingTypes ==
    ASSUME TypeOK,
           \/ InitExecutors \/ InitFails \/ Interrupt \/ AllEnded
           \/ \E i \in DOMAIN execs :
                 \/ \E t \in Tree, ckpt \in BOOLEAN : ExecCommit(i, t, ckpt)
                 \/ \E status \in {"ok", "failed"} : ExecEnd(i, status)
    PROVE  TypeOK'
<1>1. op \in Running
  BY WhatIsRemembered DEF InitExecutors, InitFails, Interrupt, AllEnded, ExecCommit, ExecEnd,
     TypeOK, CommandTypes
<1>2. op \in Operation /\ op.cmd = "run" /\ execs \in Seq(ExecutorType)
  BY <1>1 DEF Running, TypeOK, CommandTypes
<1>3. GitTypes' /\ UserTypes' /\ StoreTypes'
  BY DEF TypeOK, GitTypes, UserTypes, StoreTypes, git, user, InitExecutors, InitFails, Interrupt,
         AllEnded, ExecCommit, ExecEnd
<1>4. \A i \in DOMAIN execs : execs[i] \in ExecutorType
  BY <1>2, ElementOfSeq, LenProperties
<1>5. CASE InitExecutors
  <2>1. execs' \in Seq(ExecutorType)
    BY <1>1, <1>5, ExecutorsHaveType DEF InitExecutors, Running, TypeOK
  <2>2. op' \in Operation /\ op'.cmd = "run"
    BY <1>1, <1>5 DEF InitExecutors, Running, Operation
  <2> QED
    BY <1>2, <1>3, <1>5, <2>1, <2>2, ExecutorsMayBe DEF InitExecutors, TypeOK, Counted, counters
<1>6. CASE InitFails
  BY <1>3, <1>6, IdleTypes DEF InitFails, Stop, TypeOK, Counted, counters
<1>7. CASE Interrupt
  <2>1. Counted'
    BY <1>7 DEF Interrupt, TypeOK, Counted, counters
  <2>2. CASE Stop
    BY <1>3, <2>1, <2>2, IdleTypes DEF Stop, TypeOK
  <2>3. CASE UNCHANGED op /\ \E begun \in SUBSET DOMAIN execs :
                execs' = [i \in DOMAIN execs |->
                    IF execs[i].status # "running" THEN execs[i]
                    ELSE Ended(execs[i], IF i \in begun THEN "failed" ELSE "cancelled")]
    <3>1. DOMAIN execs' = DOMAIN execs /\ execs' = [i \in DOMAIN execs' |-> execs'[i]]
      BY <2>3
    <3>2. \A i \in DOMAIN execs : execs'[i] \in ExecutorType
      BY <1>4, <2>3, EndedHasType
    <3>3. execs' \in Seq(ExecutorType)
      BY <1>2, <3>1, <3>2, ExecutorsReplaced
    <3> QED
      BY <1>2, <1>3, <2>1, <2>3, <3>3, ExecutorsMayBe DEF TypeOK
  <2> QED
    BY <1>7, <2>2, <2>3 DEF Interrupt
<1>8. CASE AllEnded
  <2>1. op' \in Operation /\ op'.cmd = "run"
    BY <1>1, <1>8 DEF AllEnded, Running, Fetching, Operation
  <2> QED
    BY <1>2, <1>3, <1>8, <2>1, ExecutorsMayBe DEF AllEnded, TypeOK, Counted, counters
<1>9. ASSUME NEW i \in DOMAIN execs, NEW t \in Tree, NEW ckpt \in BOOLEAN, ExecCommit(i, t, ckpt)
      PROVE  TypeOK'
  <2> DEFINE x == execs[i]
             c == Append(x.head, <<t, number>>)
             k == IF x.key = NoKey THEN Key(x.entry.baseline, x.entry.name) ELSE x.key
             y == [x EXCEPT !.head = c, !.key = k, !.ckpt = ckpt]
  <2>1. x \in ExecutorType
    BY <1>4
  <2>2. c \in Commit
    BY <2>1, AppendCommit DEF ExecutorType, TypeOK, Counted
  <2>3. k \in KeyType
    BY <2>1 DEF ExecutorType, EntryType, Key, KeyType
  <2> HIDE DEF c, k
  <2>4. y \in ExecutorType
    BY <2>1, <2>2, <2>3 DEF ExecutorType
  <2>5. execs' = [execs EXCEPT ![i] = y]
    BY <1>9 DEF ExecCommit, c, k
  <2> HIDE DEF x, y
  <2>6. execs' \in Seq(ExecutorType)
    BY <1>2, <2>4, <2>5, ReplacedExecutor
  <2>7. UNCHANGED <<op, counters>> /\ number' = number + 1
    BY <1>9 DEF ExecCommit
  <2>8. Counted'
    BY <2>7 DEF TypeOK, Counted, counters
  <2> QED
    BY <1>2, <1>3, <2>6, <2>7, <2>8, ExecutorsMayBe DEF TypeOK
<1>10. ASSUME NEW i \in DOMAIN execs, NEW status \in {"ok", "failed"}, ExecEnd(i, status)
       PROVE  TypeOK'
  <2>1. execs' = [execs EXCEPT ![i] = Ended(execs[i], status)]
    BY <1>10 DEF ExecEnd
  <2>2. execs' \in Seq(ExecutorType)
    BY <1>2, <1>4, <2>1, EndedHasType, ReplacedExecutor
  <2> QED
    BY <1>2, <1>3, <1>10, <2>2, ExecutorsMayBe DEF ExecEnd, TypeOK, Counted, counters
<1> QED
  BY <1>5, <1>6, <1>7, <1>8, <1>9, <1>10

(* What is collected has a commit; a name that nobody has used is recorded. *)
LEMMA FetchTypes ==
    ASSUME StoreTypes, NEW x \in ExecutorType, x.key # NoKey, FetchRef(x)
    PROVE  refs' \in [DOMAIN refs' -> Commit] /\ DOMAIN refs' \subseteq KeyType
<1>1. x.key \in KeyType /\ x.head \in Commit
  BY DEF ExecutorType
<1>2. UNCHANGED refs \/ refs' = SetRef(refs, x.key, x.head)
  BY DEF FetchRef
<1> QED
  BY <1>1, <1>2, SetRefType DEF StoreTypes

LEMMA CollectingTypes ==
    ASSUME TypeOK, Collect \/ CollectConflict \/ CollectFailed \/ CollectEnd
    PROVE  TypeOK'
<1>1. op \in Fetching /\ op.phase = "collect"
  BY WhatIsRemembered DEF Collect, CollectConflict, CollectFailed, CollectEnd, Collecting,
     TypeOK, CommandTypes
<1>2. op \in Operation /\ op.cmd = "run" /\ execs \in Seq(ExecutorType)
  BY <1>1 DEF Fetching, TypeOK, CommandTypes
<1>3. GitTypes' /\ UserTypes' /\ Counted'
  BY DEF TypeOK, GitTypes, UserTypes, Counted, git, user, counters, Collect, CollectConflict,
         CollectFailed, CollectEnd
<1>4. Next1 \in Operation /\ Next1.cmd = "run"
  BY <1>1 DEF Next1, Fetching, Operation
<1>5. CASE Collect
  <2>1. execs[op.at] \in ExecutorType
    BY <1>2, <1>5, ElementOfSeq, LenProperties DEF Collect, Collecting
  <2>2. refs' \in [DOMAIN refs' -> Commit] /\ DOMAIN refs' \subseteq KeyType
    BY <1>5, <2>1, FetchTypes DEF Collect, TypeOK, StoreTypes
  <2>3. checkpoint' \in Commit \cup {NoCommit}
    BY <1>5, <2>1 DEF Collect, TypeOK, StoreTypes, ExecutorType
  <2>4. StoreTypes'
    BY <1>5, <2>2, <2>3 DEF Collect, TypeOK, StoreTypes
  <2>5. CommandTypes'
    BY <1>2, <1>4, <1>5, ExecutorsMayBe DEF Collect, TypeOK
  <2> QED
    BY <1>3, <2>4, <2>5 DEF TypeOK
<1>6. CASE CollectConflict \/ CollectFailed \/ CollectEnd
  <2>1. StoreTypes'
    BY <1>6 DEF TypeOK, StoreTypes, CollectConflict, CollectFailed, CollectEnd
  <2>2. CASE Stop
    BY <1>3, <2>1, <2>2, IdleTypes DEF Stop, TypeOK
  <2>3. CASE CollectEnd
    <3>1. ToDrop \in SUBSET Nat
      BY LenProperties DEF ToDrop, TypeOK, StoreTypes
    <3>2. op' \in Operation /\ op'.cmd = "run"
      BY <1>1, <2>3, <3>1 DEF CollectEnd, Fetching, Dropping, Operation
    <3> QED
      BY <1>2, <1>3, <2>1, <2>3, <3>2, ExecutorsMayBe DEF CollectEnd, TypeOK
  <2>4. CASE op' = Next1 /\ UNCHANGED execs
    BY <1>2, <1>3, <1>4, <2>1, <2>4, ExecutorsMayBe DEF TypeOK
  <2> QED
    BY <1>6, <2>2, <2>3, <2>4 DEF CollectConflict, CollectFailed
<1> QED
  BY <1>5, <1>6

(* Removing an entry leaves those before it where they are.                *)
LEMMA RemovedEntry ==
    ASSUME NEW q \in Seq(EntryType), NEW i \in DOMAIN q
    PROVE  /\ RemoveAt(q, i) \in Seq(EntryType)
           /\ Len(RemoveAt(q, i)) = Len(q) - 1
           /\ \A j \in 1..(i - 1) : RemoveAt(q, i)[j] = q[j]
           /\ \A j \in i..(Len(q) - 1) : RemoveAt(q, i)[j] = q[j + 1]
<1>1. Len(q) \in Nat /\ i \in 1..Len(q) /\ \A j \in 1..Len(q) : q[j] \in EntryType
  BY LenProperties, ElementOfSeq
<1> DEFINE a == SubSeq(q, 1, i - 1)
           b == SubSeq(q, i + 1, Len(q))
<1>2. /\ a \in Seq(EntryType) /\ Len(a) = i - 1
      /\ \A j \in 1..(i - 1) : a[j] = q[j]
  <2>1. \A j \in 1..(i - 1) : q[j] \in EntryType
    BY <1>1
  <2> QED
    BY <1>1, <2>1, SubSeqProperties
<1>3. /\ b \in Seq(EntryType) /\ Len(b) = Len(q) - i
      /\ \A j \in 1..(Len(q) - i) : b[j] = q[i + j]
  <2>1. \A j \in (i + 1)..Len(q) : q[j] \in EntryType
    BY <1>1
  <2> QED
    BY <1>1, <2>1, SubSeqProperties
<1>4. RemoveAt(q, i) = a \o b
  BY DEF RemoveAt
<1> HIDE DEF a, b
<1>5. /\ a \o b \in Seq(EntryType)
      /\ Len(a \o b) = Len(q) - 1
      /\ \A j \in 1..(Len(q) - 1) : (a \o b)[j] = IF j <= i - 1 THEN a[j] ELSE b[j - (i - 1)]
  <2>1. Len(a) + Len(b) = Len(q) - 1
    BY <1>1, <1>2, <1>3
  <2>2. /\ a \o b \in Seq(EntryType)
        /\ Len(a \o b) = Len(a) + Len(b)
        /\ \A j \in 1..(Len(a) + Len(b)) : (a \o b)[j] = IF j <= Len(a) THEN a[j] ELSE b[j - Len(a)]
    BY <1>2, <1>3, ConcatProperties
  <2> QED
    BY <1>2, <2>1, <2>2
<1>6. \A j \in 1..(i - 1) : (a \o b)[j] = q[j]
  BY <1>1, <1>2, <1>5
<1>7. \A j \in i..(Len(q) - 1) : (a \o b)[j] = q[j + 1]
  <2> SUFFICES ASSUME NEW j \in i..(Len(q) - 1) PROVE (a \o b)[j] = q[j + 1]
    OBVIOUS
  <2>1. (a \o b)[j] = b[j - (i - 1)] /\ j - (i - 1) \in 1..(Len(q) - i)
    BY <1>1, <1>5
  <2>2. b[j - (i - 1)] = q[i + (j - (i - 1))]
    BY <1>3, <2>1
  <2>3. i + (j - (i - 1)) = j + 1
    BY <1>1
  <2> QED
    BY <2>1, <2>2, <2>3
<1> QED
  BY <1>4, <1>5, <1>6, <1>7

LEMMA DroppingTypes ==
    ASSUME TypeOK, Droppable, DropEntry \/ DropEnd
    PROVE  TypeOK'
<1>1. op \in Dropping \cup Cleaning /\ op.phase = "drop"
  BY WhatIsRemembered DEF DropEntry, DropEnd, TypeOK, CommandTypes
<1>2. GitTypes' /\ UserTypes' /\ Counted'
  BY DEF TypeOK, GitTypes, UserTypes, Counted, git, user, counters, DropEntry, DropEnd
<1>3. CASE DropEntry
  <2>1. PICK i \in op.drop : /\ queue' = RemoveAt(queue, i)
                             /\ op' = [op EXCEPT !.drop = @ \ {i}]
    BY <1>3 DEF DropEntry
  <2>2. i \in DOMAIN queue
    BY <1>1, <2>1 DEF Droppable
  <2>3. StoreTypes'
    BY <1>3, <2>1, <2>2, RemovedEntry DEF DropEntry, TypeOK, StoreTypes
  <2>4. op' \in Dropping \cup Cleaning /\ op'.cmd = op.cmd /\ op'.phase = op.phase
    BY <1>1, <2>1 DEF Dropping, Cleaning
  <2>5. CommandTypes'
    BY <1>1, <1>3, <2>4 DEF DropEntry, TypeOK, CommandTypes, Operation
  <2> QED
    BY <1>2, <2>3, <2>5 DEF TypeOK
<1>4. CASE DropEnd
  BY <1>2, <1>4, IdleTypes DEF DropEnd, Stop, TypeOK, StoreTypes
<1> QED
  BY <1>3, <1>4

LEMMA ReproducingTypes ==
    ASSUME TypeOK, Droppable, Reproducing
    PROVE  TypeOK'
BY ExecutingTypes, CollectingTypes, DroppingTypes DEF Reproducing

-----------------------------------------------------------------------------
(* The other commands, and what users, another clone and crashes do.       *)

LEMMA CleaningTypes ==
    ASSUME TypeOK, (\E k \in DOMAIN refs : GcRef(k)) \/ GcRefsDone
    PROVE  TypeOK'
<1>1. op \in Cleaning /\ op.phase = "gc"
  BY WhatIsRemembered DEF GcRef, GcRefsDone, TypeOK, CommandTypes
<1>2. GitTypes' /\ UserTypes' /\ Counted'
  BY DEF TypeOK, GitTypes, UserTypes, Counted, git, user, counters, GcRef, GcRefsDone
<1>3. ASSUME NEW k \in DOMAIN refs, GcRef(k)
      PROVE  TypeOK'
  <2>1. StoreTypes'
    BY <1>3 DEF GcRef, TypeOK, StoreTypes, Restrict
  <2>2. CommandTypes'
    BY <1>3 DEF GcRef, TypeOK, CommandTypes
  <2> QED
    BY <1>2, <2>1, <2>2 DEF TypeOK
<1>4. CASE GcRefsDone
  <2>1. op' \in Operation /\ op'.phase # "pull"
    BY <1>1, <1>4 DEF GcRefsDone, Phase, Cleaning, Operation
  <2>2. CommandTypes'
    BY <1>1, <1>4, <2>1, GoesOn DEF GcRefsDone, TypeOK, Cleaning
  <2> QED
    BY <1>2, <1>4, <2>2 DEF GcRefsDone, TypeOK, StoreTypes
<1> QED
  BY <1>3, <1>4

LEMMA ExpApplyTypes ==
    ASSUME TypeOK, Safe, ApplyStash \/ ApplyMerge \/ ApplyUnstash \/ ApplyEnd
    PROVE  TypeOK'
<1>1. op \in Applying
  BY WhatIsRemembered DEF ApplyStash, ApplyMerge, ApplyUnstash, ApplyEnd, TypeOK, CommandTypes
<1>2. GitTypes' /\ StoreTypes' /\ Counted'
  BY DEF TypeOK, GitTypes, StoreTypes, Counted, git, counters, ApplyStash, ApplyMerge,
         ApplyUnstash, ApplyEnd
<1>3. op' \in Operation /\ op'.phase # "pull"
  <2>1. CASE ApplyStash
    BY <1>1, <2>1 DEF ApplyStash, Applying, Operation
  <2>2. CASE op' = Idle
    BY <2>2 DEF Operation, Idle
  <2>3. CASE Phase("unstash") \/ Phase("adrop")
    BY <1>1, <2>3 DEF Phase, Applying, Operation
  <2> QED
    BY <2>1, <2>2, <2>3 DEF ApplyMerge, ApplyUnstash, ApplyEnd
<1>4. CommandTypes'
  BY <1>1, <1>3, GoesOn DEF ApplyStash, ApplyMerge, ApplyUnstash, ApplyEnd, TypeOK, Applying
<1>5. op.stashed => stash # <<>>
  BY <1>1 DEF Safe, Applying
<1>6. CASE ApplyStash
  <2>1. work.user \in SUBSET Edit
    BY DEF TypeOK, UserTypes
  <2>2. stash' \in Seq(SUBSET Edit)
    BY <1>6, <2>1, TakenAside DEF ApplyStash, TypeOK, UserTypes
  <2> QED
    BY <1>2, <1>4, <1>6, <2>2 DEF ApplyStash, TypeOK, UserTypes
<1>7. CASE ApplyMerge
  BY <1>1, <1>2, <1>4, <1>7 DEF ApplyMerge, TypeOK, UserTypes, Applying
<1>8. CASE ApplyUnstash
  <2>1. CASE op.stashed
    <3>1. PICK kept \in SUBSET stash[1] : /\ work' = [work EXCEPT !.user = @ \cup kept]
                                          /\ changes' = changes \ (stash[1] \ kept)
      BY <1>8, <2>1 DEF ApplyUnstash
    <3> QED
      BY <1>2, <1>4, <1>5, <1>8, <2>1, <3>1, StashedIsEdits DEF ApplyUnstash, TypeOK, UserTypes
  <2>2. CASE ~op.stashed
    BY <1>2, <1>4, <1>8, <2>2 DEF ApplyUnstash, TypeOK, UserTypes
  <2> QED
    BY <2>1, <2>2
<1>9. CASE ApplyEnd
  <2>1. stash' \in Seq(SUBSET Edit)
    BY <1>1, <1>5, <1>9, StashedIsEdits DEF ApplyEnd, TypeOK, UserTypes
  <2>2. <<"tracked", 0>> \in Edit
    BY DEF Edit
  <2> QED
    BY <1>2, <1>4, <1>9, <2>1, <2>2 DEF ApplyEnd, TypeOK, UserTypes
<1> QED
  BY <1>6, <1>7, <1>8, <1>9

LEMMA PullTypes ==
    ASSUME TypeOK, PullExp
    PROVE  TypeOK'
<1>1. op \in Pulling /\ op.key \in DOMAIN remote
  BY WhatIsRemembered DEF PullExp, TypeOK, CommandTypes
<1>2. op.key \in KeyType /\ remote[op.key] \in Commit
  BY <1>1 DEF TypeOK, StoreTypes
<1>3. UNCHANGED refs \/ refs' = SetRef(refs, op.key, remote[op.key])
  BY DEF PullExp
<1>4. StoreTypes'
  BY <1>2, <1>3, SetRefType DEF PullExp, TypeOK, StoreTypes
<1>5. CommandTypes'
  BY <1>1, IdleHasNoExecutors, IdleTypes DEF PullExp, TypeOK, Pulling
<1> QED
  BY <1>4, <1>5 DEF PullExp, TypeOK, GitTypes, UserTypes, Counted, git, user, counters

LEMMA NewStarts ==
    ASSUME TypeOK, MayStart, UNCHANGED <<git, user, queue, refs, checkpoint, remote, execs, number>>,
           op' \in Operation, op'.phase = "pull" => op'.key \in DOMAIN remote
    PROVE  TypeOK'
<1>1. op = Idle /\ Counted'
  BY DEF MayStart, TypeOK, Counted
<1>2. execs = <<>>
  BY <1>1, IdleHasNoExecutors DEF TypeOK, Idle
<1>3. CommandTypes'
  BY <1>2, EmptySeq DEF TypeOK, CommandTypes
<1> QED
  BY <1>1, <1>3 DEF TypeOK, GitTypes, UserTypes, StoreTypes, git, user

LEMMA StartHasType ==
    ASSUME TypeOK, op = Idle, NEW target, NEW name \in Name, NEW force \in BOOLEAN,
           NEW queued \in BOOLEAN, Start(target, name, force, queued), HEAD \in Place,
           target \in [rev : Commit, baseline : Commit, key : KeyType \cup {NoKey},
                       include : BOOLEAN]
    PROVE  op' \in Operation /\ op'.phase # "pull"
BY DEF Start, Preparing, Operation

LEMMA StartingNewTypes ==
    ASSUME TypeOK, NEW name \in Name, NEW force \in BOOLEAN, NEW queued \in BOOLEAN,
           \/ StartNew(name, force, queued)
           \/ \E c \in Commits, k \in DOMAIN refs, params \in BOOLEAN :
                 StartResume(c, k, params, name, force, queued)
    PROVE  TypeOK'
<1>1. HEAD \in Place /\ Rev \in Commit
  BY RevIsCommit DEF TypeOK, GitTypes
<1>2. CASE StartNew(name, force, queued)
  <2> DEFINE target == [rev |-> Rev, baseline |-> Rev, key |-> NoKey, include |-> FALSE]
  <2>1. target \in [rev : Commit, baseline : Commit, key : KeyType \cup {NoKey}, include : BOOLEAN]
    BY <1>1
  <2>2. Start(target, name, force, queued) /\ MayStart /\ op = Idle
    BY <1>2 DEF StartNew, MayStart
  <2> HIDE DEF target
  <2> QED
    BY <1>1, <1>2, <2>1, <2>2, StartHasType, NewStarts DEF StartNew
<1>3. ASSUME NEW c \in Commits, NEW k \in DOMAIN refs, NEW params \in BOOLEAN,
             StartResume(c, k, params, name, force, queued)
      PROVE  TypeOK'
  <2> DEFINE target == IF params
             THEN [rev |-> c, baseline |-> k.base, key |-> NoKey, include |-> TRUE]
             ELSE [rev |-> refs[k], baseline |-> k.base, key |-> k, include |-> TRUE]
  <2>1. c \in Commit /\ k \in KeyType /\ k.base \in Commit /\ refs[k] \in Commit
    BY CommitsAreCommits DEF TypeOK, StoreTypes, KeyType
  <2>2. target \in [rev : Commit, baseline : Commit, key : KeyType \cup {NoKey}, include : BOOLEAN]
    BY <2>1
  <2>3. Start(target, name, force, queued) /\ MayStart /\ op = Idle
    BY <1>3 DEF StartResume, MayStart
  <2> HIDE DEF target
  <2> QED
    BY <1>1, <1>3, <2>2, <2>3, StartHasType, NewStarts DEF StartResume
<1> QED
  BY <1>2, <1>3

LEMMA StartingTypes ==
    ASSUME TypeOK, Starting
    PROVE  TypeOK'
<1>1. CASE StartRunAll
  <2>1. op' \in Operation /\ op'.phase # "pull"
    BY <1>1 DEF StartRunAll, TypeOK, StoreTypes, Running, Operation
  <2> QED
    BY <1>1, <2>1, NewStarts DEF StartRunAll
<1>2. ASSUME NEW keep \in {{Rev}, {heads[b] : b \in DOMAIN heads}}, NEW queued \in BOOLEAN,
             StartGc(keep, queued)
      PROVE  TypeOK'
  <2> DEFINE discard == {e \in ToSet(queue) : ~queued \/ e.baseline \notin keep}
             drop == ToCollect(keep, queued)
  <2>1. keep \in SUBSET Commit
    BY RevIsCommit DEF TypeOK, GitTypes
  <2>2. discard \in SUBSET EntryType
    BY LenProperties, ElementOfSeq DEF TypeOK, StoreTypes, ToSet
  <2>3. drop \in SUBSET Nat
    BY LenProperties DEF TypeOK, StoreTypes, ToCollect
  <2>4. op' = [cmd |-> "gc", phase |-> "gc", keep |-> keep, discard |-> discard, drop |-> drop]
    BY <1>2 DEF StartGc
  <2> HIDE DEF discard, drop
  <2>5. op' \in Operation /\ op'.phase # "pull"
    BY <2>1, <2>2, <2>3, <2>4 DEF Cleaning, Operation
  <2> QED
    BY <1>2, <2>5, NewStarts DEF StartGc
<1>3. ASSUME NEW c, StartApply(c)
      PROVE  TypeOK'
  <2>1. op' \in Operation /\ op'.phase # "pull"
    BY <1>3 DEF StartApply, Applying, Operation
  <2> QED
    BY <1>3, <2>1, NewStarts DEF StartApply
<1>4. ASSUME NEW c \in Commits, NEW b \in Branch, BranchExp(c, b)
      PROVE  TypeOK'
  <2>1. PICK k \in Containing(c) : heads' = SetRef(heads, b, refs[k])
    BY <1>4 DEF BranchExp
  <2>2. refs[k] \in Commit
    BY DEF Containing, TypeOK, StoreTypes
  <2>3. GitTypes'
    BY <1>4, <2>1, <2>2 DEF BranchExp, TypeOK, GitTypes, SetRef
  <2> QED
    BY <1>4, <2>3 DEF BranchExp, MayStart, TypeOK, UserTypes, StoreTypes, CommandTypes, Counted, user
<1>5. ASSUME NEW name \in Name, NEW force \in BOOLEAN, PushExp(name, force)
      PROVE  TypeOK'
  <2>1. PICK k \in ByName(refs, name, Rev) : remote' = SetRef(remote, k, refs[k])
    BY <1>5 DEF PushExp
  <2>2. k \in KeyType /\ refs[k] \in Commit
    BY DEF ByName, TypeOK, StoreTypes
  <2>3. StoreTypes'
    BY <1>5, <2>1, <2>2, SetRefType DEF PushExp, TypeOK, StoreTypes
  <2>4. CommandTypes'
    BY <1>5 DEF PushExp, MayStart, TypeOK, CommandTypes, Idle
  <2> QED
    BY <1>5, <2>3, <2>4 DEF PushExp, MayStart, TypeOK, GitTypes, UserTypes, Counted, git, user
<1>6. ASSUME NEW name \in Name, NEW force \in BOOLEAN, StartPull(name, force)
      PROVE  TypeOK'
  <2>1. PICK k \in ByName(remote, name, Rev) :
            op' = [cmd |-> "pull", phase |-> "pull", key |-> k, force |-> force]
    BY <1>6 DEF StartPull
  <2>2. k \in DOMAIN remote /\ k \in KeyType
    BY DEF ByName, TypeOK, StoreTypes
  <2>3. op' \in Operation /\ op'.key \in DOMAIN remote
    BY <2>1, <2>2 DEF Pulling, Operation
  <2> QED
    BY <1>6, <2>3, NewStarts DEF StartPull
<1>7. Starting <=>
        \/ \E name \in Name, force, queued \in BOOLEAN :
              \/ StartNew(name, force, queued)
              \/ \E c \in Commits, k \in DOMAIN refs, params \in BOOLEAN :
                    StartResume(c, k, params, name, force, queued)
        \/ StartRunAll
        \/ \E keep \in {{Rev}, {heads[b] : b \in DOMAIN heads}}, queued \in BOOLEAN :
              StartGc(keep, queued)
        \/ \E c \in Commits \cup {StashRev(queue[i]) : i \in DOMAIN queue} : StartApply(c)
        \/ \E c \in Commits, b \in Branch : BranchExp(c, b)
        \/ \E name \in Name, force \in BOOLEAN : PushExp(name, force) \/ StartPull(name, force)
  BY DEF Starting
<1> QED
  BY <1>1, <1>2, <1>3, <1>4, <1>5, <1>6, <1>7, StartingNewTypes, Zenon

LEMMA OthersTypes ==
    ASSUME TypeOK, Others
    PROVE  TypeOK'
<1>1. ASSUME NEW kind \in {"tracked", "untracked"}, UserEdit(kind)
      PROVE  TypeOK'
  <2>1. Counted' /\ edits' \in Nat
    BY <1>1 DEF UserEdit, TypeOK, Counted
  <2>2. <<kind, edits'>> \in Edit
    BY <2>1 DEF Edit
  <2>3. UserTypes'
    BY <1>1, <2>2 DEF UserEdit, TypeOK, UserTypes
  <2> QED
    BY <1>1, <2>1, <2>3 DEF UserEdit, TypeOK, GitTypes, StoreTypes, CommandTypes, git
<1>2. CASE UserCommit
  <2> DEFINE b == HEAD.branch
             c == Append(heads[b], <<"user", number>>)
  <2>1. b \in DOMAIN heads
    BY <1>2 DEF UserCommit, TypeOK, GitTypes
  <2>2. heads[b] \in Commit /\ "user" \in Tree \cup {"first", "user"} /\ number \in Nat
    BY <2>1 DEF TypeOK, GitTypes, Counted
  <2>3. c \in Commit
    BY <2>2, AppendCommit
  <2>4. heads' = [heads EXCEPT ![b] = c]
    BY <1>2 DEF UserCommit
  <2> HIDE DEF b, c
  <2>5. GitTypes'
    BY <1>2, <2>1, <2>3, <2>4 DEF UserCommit, TypeOK, GitTypes
  <2>6. Counted' /\ UserTypes'
    BY <1>2 DEF UserCommit, TypeOK, Counted, counters, UserTypes, Tracked
  <2>7. StoreTypes' /\ CommandTypes'
    BY <1>2 DEF UserCommit, TypeOK, StoreTypes, CommandTypes
  <2> QED
    BY <2>5, <2>6, <2>7 DEF TypeOK
<1>3. ASSUME NEW b \in Branch, UserCheckout(b)
      PROVE  TypeOK'
  <2>1. GitTypes'
    BY <1>3 DEF UserCheckout, TypeOK, GitTypes, Attached, Place
  <2> QED
    BY <1>3, <2>1 DEF UserCheckout, TypeOK, UserTypes, StoreTypes, CommandTypes, Counted, user, counters
<1>4. ASSUME NEW name \in Name, NEW t \in Tree, OtherPush(Key(First, name), t)
      PROVE  TypeOK'
  <2> DEFINE k == Key(First, name)
  <2>1. k \in KeyType /\ k.base \in Commit
    BY FirstIsCommit DEF Key, KeyType
  <2> HIDE DEF k
  <2>2. PICK c \in {k.base} \cup (IF k \in DOMAIN remote THEN {remote[k]} ELSE {}) :
            remote' = SetRef(remote, k, Append(c, <<t, number>>))
    BY <1>4 DEF OtherPush, k
  <2>3. c \in Commit
    BY <2>1, <2>2 DEF TypeOK, StoreTypes
  <2>4. Append(c, <<t, number>>) \in Commit
    BY <2>3, AppendCommit DEF TypeOK, Counted
  <2>5. StoreTypes'
    BY <1>4, <2>1, <2>2, <2>4, SetRefType DEF OtherPush, TypeOK, StoreTypes
  <2>6. DOMAIN remote \subseteq DOMAIN remote'
    BY <2>2 DEF SetRef
  <2>7. CommandTypes' /\ Counted'
    BY <1>4, <2>6 DEF OtherPush, TypeOK, CommandTypes, Counted
  <2> QED
    BY <1>4, <2>5, <2>7 DEF OtherPush, TypeOK, GitTypes, UserTypes, git, user
<1>5. CASE Crash
  <2>1. CommandTypes'
    BY <1>5, IdleTypes DEF Crash, Stop, TypeOK
  <2>2. <<"tracked", 0>> \in Edit
    BY DEF Edit
  <2>3. UserTypes'
    BY <1>5, <2>2 DEF Crash, TypeOK, UserTypes
  <2> QED
    BY <1>5, <2>1, <2>3 DEF Crash, TypeOK, GitTypes, StoreTypes, Counted
<1> QED
  BY <1>1, <1>2, <1>3, <1>4, <1>5 DEF Others

-----------------------------------------------------------------------------
(* What the steps do to the workspace, HEAD and the queue.                 *)

(* Phases in which a command has put nothing aside.                        *)
Alone == {"idle", "init", "run", "collect", "drop", "gc", "pull"}

(* Steps that leave the workspace and HEAD alone.                          *)
Plain ==
    /\ UNCHANGED <<HEAD, home, user, crashes>>
    /\ op.phase \in Alone
    /\ op'.phase \in Alone \cup {"stash", "astash"}
    /\ op'.cmd \in {"new", "apply"} \/ op'.phase \in {"stash", "astash"} => ~op'.stashed
    /\ op'.phase = "stash" => op'.orig = HEAD

PlainAction ==
    \/ Reproducing \/ Starting \/ PullExp \/ GcRefsDone
    \/ \E k \in DOMAIN refs : GcRef(k)
    \/ \E name \in Name, t \in Tree : OtherPush(Key(First, name), t)

LEMMA AloneCommands ==
    ASSUME op \in Operation, op.phase \in Alone
    PROVE  op.cmd \notin {"new", "apply"}
BY DEF Operation, Idle, Preparing, Unwinding, Running, Fetching, Dropping, Cleaning, Applying,
       Pulling, Alone

(* A step to a phase in which nothing is put aside.                        *)
LEMMA PlainIf ==
    ASSUME UNCHANGED <<HEAD, home, user, crashes>>, op.phase \in Alone,
           op' \in Operation, op'.phase \in Alone
    PROVE  Plain
<1>1. op'.cmd \notin {"new", "apply"}
  BY DEF Operation, Idle, Preparing, Unwinding, Running, Fetching, Dropping, Cleaning, Applying,
         Pulling, Alone
<1> QED
  BY <1>1 DEF Plain, Alone

LEMMA ReproducingIsPlain ==
    ASSUME TypeOK, TypeOK', Reproducing
    PROVE  Plain
<1>1. op' \in Operation /\ op \in Operation
  BY DEF TypeOK, CommandTypes
<1>2. UNCHANGED <<HEAD, home, user, crashes>> /\ op.phase \in Alone
  BY DEF Reproducing, InitExecutors, InitFails, Interrupt, AllEnded, ExecCommit, ExecEnd, Collect,
         CollectConflict, CollectFailed, CollectEnd, Collecting, DropEntry, DropEnd, Alone, git,
         counters
<1>3. Next1.phase = op.phase /\ [op EXCEPT !.drop = {}].phase = op.phase
  <2>1. op.phase \in {"collect"} => Next1.phase = op.phase
    BY <1>1, WhatIsRemembered DEF Next1, Fetching
  <2> QED
    BY <1>1, <2>1 DEF Next1, Operation, Idle, Preparing, Unwinding, Running, Fetching, Dropping,
           Cleaning, Applying, Pulling
<1>4. op'.phase \in Alone
  <2>1. CASE op' = op
    BY <1>2, <2>1
  <2>2. CASE op' = Idle
    BY <2>2 DEF Idle, Alone
  <2>3. CASE op' = Next1
    BY <1>2, <1>3, <2>3
  <2>4. CASE InitExecutors \/ AllEnded \/ CollectEnd
    BY <2>4 DEF InitExecutors, AllEnded, CollectEnd, Alone
  <2>5. CASE DropEntry
    <3>1. op \in Dropping \cup Cleaning /\ op.phase = "drop"
      BY <1>1, <2>5, WhatIsRemembered DEF DropEntry
    <3> QED
      BY <2>5, <3>1 DEF DropEntry, Dropping, Cleaning, Alone
  <2> QED
    BY <2>1, <2>2, <2>3, <2>4, <2>5 DEF Reproducing, InitFails, Interrupt, ExecCommit, ExecEnd,
       Collect, CollectConflict, CollectFailed, DropEnd, Stop
<1> QED
  BY <1>1, <1>2, <1>4, PlainIf

LEMMA PlainActionIsPlain ==
    ASSUME TypeOK, TypeOK', PlainAction
    PROVE  Plain
<1>1. op' \in Operation /\ op \in Operation
  BY DEF TypeOK, CommandTypes
<1>2. CASE Reproducing
  BY <1>2, ReproducingIsPlain
<1>3. CASE Starting
  <2>1. UNCHANGED <<HEAD, home, user, crashes>> /\ op = Idle
    BY <1>3 DEF Starting, StartNew, StartResume, StartRunAll, StartGc, StartApply, BranchExp,
       PushExp, StartPull, MayStart, git
  <2>2. /\ op'.phase \in Alone \cup {"stash", "astash"}
        /\ op'.cmd \in {"new", "apply"} \/ op'.phase \in {"stash", "astash"} => ~op'.stashed
        /\ op'.phase = "stash" => op'.orig = HEAD
    <3>1. ASSUME NEW target, NEW name, NEW force, NEW queued, Start(target, name, force, queued)
          PROVE  /\ op'.phase = "stash" /\ op'.stashed = FALSE /\ op'.orig = HEAD
      BY <3>1 DEF Start
    <3>2. ASSUME \E target, name, force, queued : Start(target, name, force, queued)
          PROVE  /\ op'.phase = "stash" /\ op'.stashed = FALSE /\ op'.orig = HEAD
      BY <3>1, <3>2, Zenon
    <3>3. CASE op' = op
      BY <2>1, <3>3 DEF Idle, Alone
    <3>4. CASE op' = [cmd |-> "run", phase |-> "init", run |-> queue, keep |-> TRUE]
      BY <3>4 DEF Alone
    <3>5. ASSUME NEW keep, NEW queued, StartGc(keep, queued)
          PROVE  op'.cmd = "gc" /\ op'.phase = "gc"
      BY <3>5 DEF StartGc
    <3>6. ASSUME NEW c, StartApply(c)
          PROVE  op'.phase = "astash" /\ op'.stashed = FALSE
      BY <3>6 DEF StartApply
    <3>7. ASSUME NEW name, NEW force, StartPull(name, force)
          PROVE  op'.cmd = "pull" /\ op'.phase = "pull"
      BY <3>7 DEF StartPull
    <3>8. \/ \E target, name, force, queued : Start(target, name, force, queued)
          \/ op' = op
          \/ op' = [cmd |-> "run", phase |-> "init", run |-> queue, keep |-> TRUE]
          \/ \E keep, queued : StartGc(keep, queued)
          \/ \E c : StartApply(c)
          \/ \E name, force : StartPull(name, force)
      <4>1. ASSUME NEW name, NEW force, NEW queued, StartNew(name, force, queued)
            PROVE  \E target : Start(target, name, force, queued)
        BY <4>1, Zenon DEF StartNew
      <4>2. ASSUME NEW name, NEW force, NEW queued, NEW c, NEW k, NEW params,
                   StartResume(c, k, params, name, force, queued)
            PROVE  \E target : Start(target, name, force, queued)
        BY <4>2, Zenon DEF StartResume
      <4>3. ASSUME NEW c, NEW b, BranchExp(c, b) PROVE op' = op
        BY <4>3, Zenon DEF BranchExp
      <4>4. ASSUME NEW name, NEW force, PushExp(name, force) PROVE op' = op
        BY <4>4, Zenon DEF PushExp
      <4>5. StartRunAll => op' = [cmd |-> "run", phase |-> "init", run |-> queue, keep |-> TRUE]
        BY DEF StartRunAll
      <4> QED
        BY <1>3, <4>1, <4>2, <4>3, <4>4, <4>5, Zenon DEF Starting
    <3>9. op'.phase = "stash" \/ op'.phase = "astash" \/ op'.phase \in Alone
      BY <3>2, <3>3, <3>4, <3>5, <3>6, <3>7, <3>8 DEF Alone
    <3>10. op'.phase \in Alone => op'.cmd \notin {"new", "apply"}
      BY <1>1 DEF Operation, Idle, Preparing, Unwinding, Running, Fetching, Dropping, Cleaning,
         Applying, Pulling, Alone
    <3> QED
      BY <3>2, <3>3, <3>4, <3>5, <3>6, <3>7, <3>8, <3>9, <3>10 DEF Alone
  <2> QED
    BY <2>1, <2>2 DEF Plain, Idle, Alone
<1>4. CASE PullExp
  <2>1. UNCHANGED <<HEAD, home, user, crashes>> /\ op.phase = "pull" /\ op' = Idle
    BY <1>4 DEF PullExp, git, counters
  <2> QED
    BY <1>1, <2>1, PlainIf DEF Alone, Idle
<1>5. CASE GcRefsDone
  <2>1. op \in Cleaning
    BY <1>1, <1>5, WhatIsRemembered DEF GcRefsDone
  <2>2. UNCHANGED <<HEAD, home, user, crashes>> /\ op.phase = "gc" /\ op'.phase = "drop"
    BY <1>5, <2>1 DEF GcRefsDone, Phase, Cleaning, git, counters
  <2> QED
    BY <1>1, <2>2, PlainIf DEF Alone
<1>6. ASSUME NEW k, GcRef(k)
      PROVE  Plain
  <2>1. UNCHANGED <<HEAD, home, user, crashes>> /\ op.phase = "gc" /\ op' = op
    BY <1>6 DEF GcRef, git, counters
  <2> QED
    BY <1>1, <2>1, PlainIf DEF Alone
<1>7. ASSUME NEW k, NEW t, OtherPush(k, t)
      PROVE  Plain
  <2>1. UNCHANGED <<HEAD, home, user, crashes>> /\ op' = op /\ (op = Idle \/ op.cmd = "pull")
    BY <1>7 DEF OtherPush, BetweenCommands, git
  <2>2. op.phase \in Alone
    BY <1>1, <2>1 DEF Operation, Idle, Preparing, Unwinding, Running, Fetching, Dropping, Cleaning,
       Applying, Pulling, Alone
  <2> QED
    BY <1>1, <2>1, <2>2, PlainIf
<1> QED
  BY <1>2, <1>3, <1>4, <1>5, <1>6, <1>7, Zenon DEF PlainAction

LEMMA PlainIsSafe ==
    ASSUME Safe, Plain
    PROVE  Safe'
BY DEF Safe, Plain, Alone, UserChangesKept, user

LEMMA PlainRestores ==
    ASSUME op \in Operation, Restoring, Plain
    PROVE  Restoring'
<1>1. op.cmd \notin {"new", "apply"}
  BY AloneCommands DEF Plain
<1> QED
  BY <1>1 DEF Restoring, Plain, Alone, user

-----------------------------------------------------------------------------
(* No change of the user is lost.                                          *)

LEMMA AsideUnion ==
    ASSUME stash \in Seq(SUBSET Edit), NEW taken \in SUBSET Edit
    PROVE  UNION ToSet(<<taken>> \o stash) = taken \cup UNION ToSet(stash)
<1> DEFINE s == <<taken>> \o stash
<1>1. /\ s \in Seq(SUBSET Edit)
      /\ s[1] = taken
      /\ Len(s) = Len(stash) + 1
      /\ \A i \in 1..Len(stash) : s[i + 1] = stash[i]
  BY TakenAside
<1>2. Len(stash) \in Nat /\ DOMAIN stash = 1..Len(stash) /\ DOMAIN s = 1..Len(s)
  BY <1>1, LenProperties
<1> HIDE DEF s
<1>3. ToSet(s) = {taken} \cup ToSet(stash)
  <2>1. ASSUME NEW i \in DOMAIN s
        PROVE  s[i] \in {taken} \cup ToSet(stash)
    <3>1. CASE i = 1
      BY <1>1, <3>1
    <3>2. CASE i # 1
      <4>1. i - 1 \in 1..Len(stash) /\ i = (i - 1) + 1
        BY <1>1, <1>2, <3>2
      <4>2. s[i] = stash[i - 1]
        BY <1>1, <4>1
      <4> QED
        BY <1>2, <4>1, <4>2 DEF ToSet
    <3> QED
      BY <3>1, <3>2
  <2>2. taken \in ToSet(s)
    BY <1>1, <1>2 DEF ToSet
  <2>3. ASSUME NEW i \in DOMAIN stash
        PROVE  stash[i] \in ToSet(s)
    <3>1. i + 1 \in DOMAIN s /\ s[i + 1] = stash[i]
      BY <1>1, <1>2
    <3> QED
      BY <3>1 DEF ToSet
  <2> QED
    BY <2>1, <2>2, <2>3 DEF ToSet
<1> QED
  BY <1>3 DEF s

LEMMA DroppedUnion ==
    ASSUME UserTypes, stash # <<>>
    PROVE  UNION ToSet(stash) = stash[1] \cup UNION ToSet(Tail(stash))
<1>1. /\ stash[1] \in SUBSET Edit
      /\ Tail(stash) \in Seq(SUBSET Edit)
      /\ Len(stash) \in Nat /\ Len(stash) >= 1
      /\ Len(Tail(stash)) = Len(stash) - 1
      /\ \A i \in 1..Len(Tail(stash)) : Tail(stash)[i] = stash[i + 1]
  BY StashedIsEdits
<1>2. DOMAIN stash = 1..Len(stash) /\ DOMAIN Tail(stash) = 1..Len(Tail(stash))
  BY <1>1, LenProperties DEF UserTypes
<1> DEFINE r == Tail(stash)
<1> HIDE DEF r
<1>3. /\ Len(r) = Len(stash) - 1 /\ DOMAIN r = 1..Len(r)
      /\ \A i \in 1..Len(r) : r[i] = stash[i + 1]
  BY <1>1, <1>2 DEF r
<1>4. ToSet(stash) = {stash[1]} \cup ToSet(r)
  <2>1. ASSUME NEW i \in DOMAIN stash
        PROVE  stash[i] \in {stash[1]} \cup ToSet(r)
    <3>1. CASE i # 1
      <4>1. i - 1 \in 1..Len(r) /\ i = (i - 1) + 1
        BY <1>1, <1>2, <1>3, <3>1
      <4>2. r[i - 1] = stash[i]
        BY <1>3, <4>1
      <4> QED
        BY <1>3, <4>1, <4>2 DEF ToSet
    <3> QED
      BY <3>1
  <2>2. stash[1] \in ToSet(stash)
    BY <1>1, <1>2 DEF ToSet
  <2>3. ASSUME NEW i \in DOMAIN r
        PROVE  r[i] \in ToSet(stash)
    <3>1. i + 1 \in DOMAIN stash /\ r[i] = stash[i + 1]
      BY <1>1, <1>2, <1>3
    <3> QED
      BY <3>1 DEF ToSet
  <2> QED
    BY <2>1, <2>2, <2>3 DEF ToSet
<1> QED
  BY <1>4 DEF r

LEMMA StashWorkspaceSafe ==
    ASSUME TypeOK, Safe, Restoring, StashWorkspace
    PROVE  Safe' /\ Restoring'
<1> DEFINE taken == IF op.target.include THEN work.user ELSE Tracked(work.user)
<1>1. op \in Preparing /\ op.phase = "stash" /\ ~op.stashed
  BY WhatIsRemembered DEF StashWorkspace, TypeOK, CommandTypes, Restoring
<1>2. taken \in SUBSET Edit /\ Tracked(work.user) \subseteq taken /\ taken \subseteq work.user
  BY <1>1 DEF TypeOK, UserTypes, Tracked, Preparing
<1> HIDE DEF taken
<1>3. /\ stash' = IF taken = {} THEN stash ELSE <<taken>> \o stash
      /\ work' = [work EXCEPT !.user = @ \ taken]
      /\ op' = [op EXCEPT !.stashed = taken # {}, !.phase = "apply"]
      /\ UNCHANGED <<HEAD, home, changes, refused, crashes>>
  BY DEF StashWorkspace, taken, git, counters
<1>4. /\ op'.phase = "apply" /\ op'.cmd = "new" /\ op'.stashed = (taken # {})
      /\ op'.orig = op.orig
  BY <1>1, <1>3 DEF Preparing
<1>5. work'.user = work.user \ taken
  BY <1>3 DEF TypeOK, UserTypes
<1>6. Tracked(work'.user) = {}
  BY <1>2, <1>5 DEF Tracked
<1>7. stash \in Seq(SUBSET Edit) /\ Len(stash) \in Nat
  BY LenProperties DEF TypeOK, UserTypes
<1>8. CASE taken = {}
  <2>1. UserChangesKept'
    BY <1>3, <1>5, <1>8 DEF Safe, UserChangesKept
  <2>2. Safe'
    BY <1>4, <1>6, <1>8, <2>1 DEF Safe
  <2> QED
    BY <1>1, <1>3, <1>4, <1>8, <2>2 DEF Restoring, Preparing
<1>9. CASE taken # {}
  <2>1. stash' = <<taken>> \o stash
    BY <1>3, <1>9
  <2>2. stash'[1] = taken /\ Len(stash') = Len(stash) + 1 /\ stash' \in Seq(SUBSET Edit)
    BY <1>2, <1>7, <2>1, TakenAside
  <2>3. stash' # <<>>
    BY <1>7, <2>2, EmptySeq
  <2>4. UNION ToSet(stash') = taken \cup UNION ToSet(stash)
    BY <1>2, <1>7, <2>1, AsideUnion
  <2>5. UserChangesKept'
    BY <1>3, <1>5, <2>4 DEF Safe, UserChangesKept
  <2>6. Safe'
    BY <1>4, <1>6, <1>9, <2>3, <2>5 DEF Safe
  <2>7. crashes = 0 /\ ~refused => Len(stash) = 0
    BY <1>1 DEF Restoring
  <2>8. op'.stashed = TRUE
    BY <1>4, <1>9
  <2>9. crashes' = 0 /\ ~refused' => Len(stash') = 1
    BY <1>3, <2>2, <2>7
  <2>10. op'.orig = home' /\ HEAD' = home'
    BY <1>1, <1>3, <1>4 DEF Restoring
  <2> QED
    BY <1>4, <2>6, <2>8, <2>9, <2>10 DEF Restoring
<1> QED
  BY <1>8, <1>9

LEMMA ApplyingSafe ==
    ASSUME TypeOK, Safe, Restoring, ApplyChanges \/ ApplyFails
    PROVE  Safe' /\ Restoring'
<1>1. op \in Preparing /\ op.phase = "apply"
  BY WhatIsRemembered DEF ApplyChanges, ApplyFails, TypeOK, CommandTypes
<1>2. UNCHANGED <<HEAD, home, changes, stash, refused, crashes>>
  BY DEF ApplyChanges, ApplyFails, git, counters
<1>3. work'.user = work.user \/ (op.stashed /\ work'.user = work.user \cup stash[1])
  <2>1. CASE ApplyChanges
    BY <2>1 DEF ApplyChanges, TypeOK, UserTypes
  <2>2. CASE ApplyFails
    <3>1. op.stashed /\ work' \in {work, [work EXCEPT !.user = @ \cup stash[1]]}
      BY <2>2 DEF ApplyFails
    <3> QED
      BY <3>1 DEF TypeOK, UserTypes
  <2> QED
    BY <2>1, <2>2
<1>4. op'.phase \in {"detach", "pop"} /\ op'.cmd = "new" /\ op'.stashed = op.stashed /\ op'.orig = op.orig
  <2>1. CASE Phase("detach")
    BY <1>1, <2>1 DEF Phase, Preparing
  <2>2. CASE Unwind(TRUE, "pop")
    BY <1>1, <2>2, UnwindType DEF Unwinding
  <2> QED
    BY <2>1, <2>2 DEF ApplyChanges, ApplyFails
<1>5. UserChangesKept'
  BY <1>2, <1>3 DEF Safe, UserChangesKept
<1>6. Tracked(work'.user) \subseteq IF op.stashed THEN stash[1] ELSE {}
  BY <1>1, <1>3 DEF Safe, Tracked
<1>7. Safe'
  BY <1>1, <1>2, <1>4, <1>5, <1>6 DEF Safe, Preparing
<1> QED
  BY <1>1, <1>2, <1>4, <1>7 DEF Restoring, Preparing

LEMMA DetachHeadSafe ==
    ASSUME TypeOK, Safe, Restoring, DetachHead
    PROVE  Safe' /\ Restoring'
<1>1. op \in Preparing /\ op.phase = "detach"
  BY WhatIsRemembered DEF DetachHead, TypeOK, CommandTypes
<1>2. UNCHANGED <<home, user, crashes>>
  BY DEF DetachHead, counters
<1>3. /\ op'.phase = "prepare" \/ (op'.phase = "reset" /\ UNCHANGED HEAD)
      /\ op'.cmd = "new" /\ op'.stashed = op.stashed /\ op'.orig = op.orig
  <2>1. CASE Phase("prepare")
    BY <1>1, <2>1 DEF Phase, Preparing
  <2>2. CASE Unwind(TRUE, "reset") /\ UNCHANGED HEAD
    BY <1>1, <2>2, UnwindType DEF Unwinding
  <2> QED
    BY <2>1, <2>2 DEF DetachHead
<1>4. Safe'
  BY <1>1, <1>2, <1>3 DEF Safe, UserChangesKept, user, Preparing
<1> QED
  BY <1>1, <1>2, <1>3, <1>4 DEF Restoring, user, Preparing

LEMMA PrepareSafe ==
    ASSUME TypeOK, Safe, Restoring, Prepare
    PROVE  Safe' /\ Restoring'
<1>1. op \in Preparing /\ op.phase = "prepare"
  BY WhatIsRemembered DEF Prepare, TypeOK, CommandTypes
<1>2. UNCHANGED <<HEAD, home, changes, stash, refused, crashes>> /\ work'.user = work.user
  BY DEF Prepare, git, counters, TypeOK, UserTypes
<1>3. /\ op'.phase \in {"push", "restore"}
      /\ op'.cmd = "new" /\ op'.stashed = op.stashed /\ op'.orig = op.orig
  <2>1. CASE Phase("push")
    BY <1>1, <2>1 DEF Phase, Preparing
  <2>2. CASE Unwind(TRUE, "restore")
    BY <1>1, <2>2, UnwindType DEF Unwinding
  <2> QED
    BY <2>1, <2>2 DEF Prepare
<1>4. Safe'
  BY <1>1, <1>2, <1>3 DEF Safe, UserChangesKept, Preparing
<1> QED
  BY <1>1, <1>2, <1>3, <1>4 DEF Restoring, Preparing

(* A reset takes only what has been put aside.                             *)
LEMMA ResetIsSafe ==
    ASSUME TypeOK, Safe, op.phase \in {"push", "reset"}, UNCHANGED <<changes, stash>>,
           work' = [user |-> work.user \ Tracked(work.user), exp |-> FALSE]
    PROVE  UserChangesKept' /\ Tracked(work'.user) = {}
<1>1. Tracked(work.user) \subseteq IF op.stashed THEN stash[1] ELSE {}
  BY DEF Safe
<1>2. op \in Preparing \cup Unwinding
  BY WhatIsRemembered DEF TypeOK, CommandTypes
<1>3. op.stashed => stash # <<>>
  BY <1>2 DEF Safe, Preparing, Unwinding
<1>4. op.stashed => stash[1] \subseteq UNION ToSet(stash)
  BY <1>3, DroppedUnion DEF TypeOK
<1>5. Tracked(work.user) \subseteq UNION ToSet(stash)
  BY <1>1, <1>4
<1>6. work'.user = work.user \ Tracked(work.user)
  OBVIOUS
<1> QED
  BY <1>5, <1>6 DEF Safe, UserChangesKept, Tracked

LEMMA PushEntrySafe ==
    ASSUME TypeOK, Safe, Restoring, PushEntry
    PROVE  Safe' /\ Restoring'
<1>1. op \in Preparing /\ op.phase = "push"
  BY WhatIsRemembered DEF PushEntry, TypeOK, CommandTypes
<1>2. UNCHANGED <<HEAD, home, changes, stash, refused, crashes>>
  BY DEF PushEntry, git, counters
<1>3. UserChangesKept' /\ Tracked(work'.user) = {}
  BY <1>1, <1>2, ResetIsSafe DEF PushEntry
<1>4. op'.phase = "restore" /\ op'.cmd = "new" /\ op'.stashed = op.stashed /\ op'.orig = op.orig
  BY <1>1, UnwindType DEF PushEntry, Unwinding
<1>5. Safe'
  BY <1>1, <1>2, <1>3, <1>4 DEF Safe, Preparing
<1> QED
  BY <1>1, <1>2, <1>4, <1>5 DEF Restoring, Preparing

LEMMA RestoringSafe ==
    ASSUME TypeOK, Safe, Restoring, RestoreHead \/ ResetHard
    PROVE  Safe' /\ Restoring'
<1>1. op \in Unwinding
  BY WhatIsRemembered DEF RestoreHead, ResetHard, TypeOK, CommandTypes
<1>2. CASE RestoreHead
  <2>1. op.phase = "restore" /\ UNCHANGED <<user, crashes>> /\ Phase("reset")
    BY <1>2 DEF RestoreHead, counters
  <2>2. HEAD' = home'
    BY <1>2, <2>1 DEF RestoreHead, Restoring
  <2>3. op'.phase = "reset" /\ op'.cmd = "new" /\ op'.stashed = op.stashed
    BY <1>1, <2>1 DEF Phase, Unwinding
  <2>4. Safe'
    BY <1>1, <2>1, <2>3 DEF Safe, UserChangesKept, user, Unwinding
  <2> QED
    BY <1>1, <2>1, <2>2, <2>3, <2>4 DEF Restoring, user, Unwinding
<1>3. CASE ResetHard
  <2>1. /\ op.phase = "reset" /\ Phase("pop")
        /\ UNCHANGED <<HEAD, home, changes, stash, refused, crashes>>
    BY <1>3 DEF ResetHard, git, counters
  <2>2. UserChangesKept'
    BY <1>3, <2>1, ResetIsSafe DEF ResetHard
  <2>3. op'.phase = "pop" /\ op'.cmd = "new" /\ op'.stashed = op.stashed
    BY <1>1, <2>1 DEF Phase, Unwinding
  <2>4. Safe'
    BY <1>1, <2>1, <2>2, <2>3 DEF Safe, Unwinding
  <2> QED
    BY <1>1, <2>1, <2>3, <2>4 DEF Restoring, Unwinding
<1> QED
  BY <1>2, <1>3

LEMMA PopApplySafe ==
    ASSUME TypeOK, Safe, Restoring, Droppable, PopApply
    PROVE  Safe' /\ Restoring'
<1>1. op \in Unwinding /\ op.phase = "pop"
  BY WhatIsRemembered DEF PopApply, TypeOK, CommandTypes
<1>2. UNCHANGED <<HEAD, home, changes, stash, crashes>> /\ HEAD = home
  BY <1>1 DEF PopApply, git, counters, Restoring
<1>3. CASE ~op.stashed /\ NewDone(op) /\ UNCHANGED <<work, refused>>
  <2>1. NewDone(op) /\ UNCHANGED <<work, refused>>
    BY <1>3
  <2>2. op' \in {Idle} \cup Running /\ op'.phase \in {"idle", "init"}
    BY <1>1, <2>1, NewDoneType DEF Droppable, TypeOK, StoreTypes
  <2>3. op'.cmd \notin {"new", "apply"}
    BY <2>2 DEF Idle, Running
  <2>4. Safe'
    BY <1>2, <2>1, <2>2, <2>3 DEF Safe, UserChangesKept
  <2>5. crashes = 0 /\ ~refused => Len(stash) = 0
    BY <1>3 DEF Restoring
  <2> QED
    BY <1>2, <2>1, <2>2, <2>3, <2>4, <2>5 DEF Restoring
<1>4. CASE op.stashed /\ op' = Idle /\ refused' = TRUE /\ UNCHANGED work
  <2>1. op' = Idle /\ refused' = TRUE /\ UNCHANGED work
    BY <1>4
  <2> QED
    BY <1>2, <2>1 DEF Safe, Restoring, UserChangesKept, Idle
<1>5. CASE /\ op.stashed /\ stash[1] \cap work.user = {}
           /\ work' = [work EXCEPT !.user = @ \cup stash[1]]
           /\ Phase("popdrop") /\ UNCHANGED refused
  <2>1. /\ work' = [work EXCEPT !.user = @ \cup stash[1]]
        /\ Phase("popdrop") /\ UNCHANGED refused
    BY <1>5
  <2>2. work'.user = work.user \cup stash[1]
    BY <2>1 DEF TypeOK, UserTypes
  <2>3. op'.phase = "popdrop" /\ op'.cmd = "new" /\ op'.stashed = op.stashed
    BY <1>1, <2>1 DEF Phase, Unwinding
  <2>4. Safe'
    BY <1>1, <1>2, <1>5, <2>2, <2>3 DEF Safe, UserChangesKept, Unwinding
  <2> QED
    BY <1>1, <1>2, <2>1, <2>3, <2>4 DEF Restoring, Unwinding
<1> QED
  BY <1>3, <1>4, <1>5 DEF PopApply

(* Changes that are back in the workspace may leave refs/stash.            *)
LEMMA DropIsSafe ==
    ASSUME TypeOK, Safe, stash # <<>>, stash' = Tail(stash),
           changes' \cap stash[1] \subseteq work'.user,
           work.user \subseteq work'.user, changes' \subseteq changes \cup work'.user
    PROVE  UserChangesKept' /\ Len(stash') = Len(stash) - 1
<1>1. UNION ToSet(stash) = stash[1] \cup UNION ToSet(stash')
  BY DroppedUnion DEF TypeOK
<1>2. changes \subseteq work.user \cup UNION ToSet(stash)
  BY DEF Safe, UserChangesKept
<1>3. UserChangesKept'
  BY <1>1, <1>2 DEF UserChangesKept
<1> QED
  BY <1>3, StashedIsEdits DEF TypeOK

LEMMA PopDropSafe ==
    ASSUME TypeOK, Safe, Restoring, Droppable, PopDrop
    PROVE  Safe' /\ Restoring'
<1>1. op \in Unwinding /\ op.phase = "popdrop"
  BY WhatIsRemembered DEF PopDrop, TypeOK, CommandTypes
<1>2. /\ UNCHANGED <<HEAD, home, work, changes, refused, crashes>> /\ HEAD = home
      /\ stash' = Tail(stash)
  BY <1>1 DEF PopDrop, git, counters, Restoring
<1>3. op.stashed /\ stash[1] \subseteq work.user /\ stash # <<>>
  BY <1>1 DEF Safe, Unwinding
<1>4. UserChangesKept' /\ Len(stash') = Len(stash) - 1
  BY <1>2, <1>3, DropIsSafe
<1>5. op' \in {Idle} \cup Running /\ op'.phase \in {"idle", "init"}
  BY <1>1, NewDoneType DEF PopDrop, Droppable, TypeOK, StoreTypes
<1>6. op'.cmd \notin {"new", "apply"}
  BY <1>5 DEF Idle, Running
<1>7. Safe'
  BY <1>4, <1>5, <1>6 DEF Safe
<1>8. crashes = 0 /\ ~refused => Len(stash) = 1
  BY <1>1, <1>3 DEF Restoring, Unwinding
<1> QED
  BY <1>2, <1>4, <1>5, <1>6, <1>7, <1>8 DEF Restoring

LEMMA StashingSafe ==
    ASSUME TypeOK, Safe, Restoring, Droppable, Stashing
    PROVE  Safe' /\ Restoring'
BY StashWorkspaceSafe, ApplyingSafe, DetachHeadSafe, PrepareSafe, PushEntrySafe, RestoringSafe,
   PopApplySafe, PopDropSafe DEF Stashing

LEMMA ApplyStashSafe ==
    ASSUME TypeOK, Safe, Restoring, ApplyStash
    PROVE  Safe' /\ Restoring'
<1>1. op \in Applying /\ op.phase = "astash" /\ ~op.stashed
  BY WhatIsRemembered DEF ApplyStash, TypeOK, CommandTypes, Restoring
<1>2. UNCHANGED <<HEAD, home, changes, refused, crashes>> /\ HEAD = home
  BY <1>1 DEF ApplyStash, git, counters, Restoring
<1>3. /\ op'.phase = "merge" /\ op'.cmd = "apply" /\ op'.stashed = (work.user # {})
      /\ work'.user = {}
  BY <1>1 DEF ApplyStash, Applying, TypeOK, UserTypes
<1>4. stash \in Seq(SUBSET Edit) /\ Len(stash) \in Nat /\ work.user \in SUBSET Edit
  BY LenProperties DEF TypeOK, UserTypes
<1>5. crashes = 0 /\ ~refused => Len(stash) = 0
  BY <1>1 DEF Restoring
<1>6. CASE work.user = {}
  <2>1. stash' = stash
    BY <1>6 DEF ApplyStash
  <2>2. Safe'
    BY <1>2, <1>3, <1>6, <2>1 DEF Safe, UserChangesKept
  <2> QED
    BY <1>2, <1>3, <1>5, <1>6, <2>1, <2>2 DEF Restoring
<1>7. CASE work.user # {}
  <2>1. stash' = <<work.user>> \o stash
    BY <1>7 DEF ApplyStash
  <2>2. Len(stash') = Len(stash) + 1 /\ stash' \in Seq(SUBSET Edit)
    BY <1>4, <2>1, TakenAside
  <2>3. stash' # <<>>
    BY <1>4, <2>2, EmptySeq
  <2>4. UNION ToSet(stash') = work.user \cup UNION ToSet(stash)
    BY <1>4, <2>1, AsideUnion
  <2>5. UserChangesKept'
    BY <1>2, <2>4 DEF Safe, UserChangesKept
  <2>6. Safe'
    BY <1>3, <2>3, <2>5 DEF Safe
  <2>7. op'.stashed = TRUE
    BY <1>3, <1>7
  <2>8. crashes' = 0 /\ ~refused' => Len(stash') = 1
    BY <1>2, <1>5, <2>2
  <2> QED
    BY <1>2, <1>3, <2>6, <2>7, <2>8 DEF Restoring
<1> QED
  BY <1>6, <1>7

LEMMA ApplyMergeSafe ==
    ASSUME TypeOK, Safe, Restoring, ApplyMerge
    PROVE  Safe' /\ Restoring'
<1>1. op \in Applying /\ op.phase = "merge"
  BY WhatIsRemembered DEF ApplyMerge, TypeOK, CommandTypes
<1>2. UNCHANGED <<HEAD, home, changes, stash, crashes>> /\ HEAD = home
  BY <1>1 DEF ApplyMerge, git, counters, Restoring
<1>3. work'.user = work.user
  BY DEF ApplyMerge, TypeOK, UserTypes
<1>4. UserChangesKept'
  BY <1>2, <1>3 DEF Safe, UserChangesKept
<1>5. CASE Phase("unstash") /\ UNCHANGED refused
  <2>1. op'.phase = "unstash" /\ op'.cmd = "apply" /\ op'.stashed = op.stashed
    BY <1>1, <1>5 DEF Phase, Applying
  <2>2. Safe'
    BY <1>1, <1>2, <1>4, <2>1 DEF Safe, Applying
  <2> QED
    BY <1>1, <1>2, <1>5, <2>1, <2>2 DEF Restoring, Applying
<1>6. CASE op' = Idle /\ refused' = (refused \/ op.stashed)
  <2>1. Safe'
    BY <1>4, <1>6 DEF Safe, Idle
  <2>2. crashes = 0 /\ ~refused' => Len(stash) = 0
    BY <1>6 DEF Restoring
  <2> QED
    BY <1>2, <1>6, <2>1, <2>2 DEF Restoring, Idle
<1> QED
  BY <1>5, <1>6 DEF ApplyMerge

LEMMA ApplyUnstashSafe ==
    ASSUME TypeOK, Safe, Restoring, ApplyUnstash
    PROVE  Safe' /\ Restoring'
<1>1. op \in Applying /\ op.phase = "unstash"
  BY WhatIsRemembered DEF ApplyUnstash, TypeOK, CommandTypes
<1>2. UNCHANGED <<HEAD, home, stash, refused, crashes>> /\ HEAD = home
  BY <1>1 DEF ApplyUnstash, git, counters, Restoring
<1>3. op'.phase = "adrop" /\ op'.cmd = "apply" /\ op'.stashed = op.stashed
  BY <1>1 DEF ApplyUnstash, Phase, Applying
<1>4. UserChangesKept' /\ (op.stashed => changes' \cap stash[1] \subseteq work'.user)
  <2>1. CASE op.stashed
    <3>1. PICK kept \in SUBSET stash[1] : /\ work' = [work EXCEPT !.user = @ \cup kept]
                                          /\ changes' = changes \ (stash[1] \ kept)
      BY <2>1 DEF ApplyUnstash
    <3>2. work'.user = work.user \cup kept
      BY <3>1 DEF TypeOK, UserTypes
    <3> QED
      BY <1>2, <3>1, <3>2 DEF Safe, UserChangesKept
  <2>2. CASE ~op.stashed
    BY <1>2, <2>2 DEF ApplyUnstash, Safe, UserChangesKept
  <2> QED
    BY <2>1, <2>2
<1>5. Safe'
  BY <1>1, <1>2, <1>3, <1>4 DEF Safe, Applying
<1> QED
  BY <1>1, <1>2, <1>3, <1>5 DEF Restoring, Applying

LEMMA ApplyEndSafe ==
    ASSUME TypeOK, Safe, Restoring, ApplyEnd
    PROVE  Safe' /\ Restoring'
<1>1. op \in Applying /\ op.phase = "adrop"
  BY WhatIsRemembered DEF ApplyEnd, TypeOK, CommandTypes
<1>2. /\ UNCHANGED <<HEAD, home, refused, crashes>> /\ HEAD = home /\ op' = Idle
      /\ work'.user = work.user \cup {<<"tracked", 0>>}
      /\ changes' = changes \cup {<<"tracked", 0>>}
      /\ stash' = IF op.stashed THEN Tail(stash) ELSE stash
  BY <1>1 DEF ApplyEnd, git, counters, Restoring
<1>3. CASE op.stashed
  <2>1. stash # <<>> /\ changes \cap stash[1] \subseteq work.user
    BY <1>1, <1>3 DEF Safe, Applying
  <2>2. UserChangesKept' /\ Len(stash') = Len(stash) - 1
    BY <1>2, <1>3, <2>1, DropIsSafe
  <2>3. crashes = 0 /\ ~refused => Len(stash) = 1
    BY <1>1, <1>3 DEF Restoring, Applying
  <2> QED
    BY <1>2, <2>2, <2>3 DEF Safe, Restoring, Idle
<1>4. CASE ~op.stashed
  <2>1. UserChangesKept'
    BY <1>2, <1>4 DEF Safe, UserChangesKept
  <2>2. crashes = 0 /\ ~refused => Len(stash) = 0
    BY <1>4 DEF Restoring
  <2> QED
    BY <1>2, <1>4, <2>1, <2>2 DEF Safe, Restoring, Idle
<1> QED
  BY <1>3, <1>4

(* What the user does between commands, and a crash.                       *)
LEMMA UserSafe ==
    ASSUME TypeOK, Safe, Restoring,
           \/ \E kind \in {"tracked", "untracked"} : UserEdit(kind)
           \/ UserCommit
           \/ \E b \in Branch : UserCheckout(b)
           \/ Crash
    PROVE  Safe' /\ Restoring'
<1>1. ASSUME NEW kind, UserEdit(kind)
      PROVE  Safe' /\ Restoring'
  <2>1. /\ op = Idle /\ op' = Idle
        /\ UNCHANGED <<HEAD, home, stash, refused, crashes>>
        /\ changes' = changes \cup {<<kind, edits'>>}
        /\ work'.user = work.user \cup {<<kind, edits'>>}
    BY <1>1 DEF UserEdit, BetweenCommands, git, TypeOK, UserTypes
  <2> QED
    BY <2>1 DEF Safe, Restoring, UserChangesKept, Idle
<1>2. CASE UserCommit
  <2>1. /\ op = Idle /\ op' = Idle
        /\ UNCHANGED <<HEAD, home, stash, refused, crashes>>
        /\ changes' = changes \ Tracked(work.user)
        /\ work'.user = work.user \ Tracked(work.user)
    BY <1>2 DEF UserCommit, BetweenCommands, counters, TypeOK, UserTypes
  <2> QED
    BY <2>1 DEF Safe, Restoring, UserChangesKept, Idle
<1>3. ASSUME NEW b, UserCheckout(b)
      PROVE  Safe' /\ Restoring'
  <2>1. op = Idle /\ op' = Idle /\ UNCHANGED <<user, crashes>> /\ home' = HEAD'
    BY <1>3 DEF UserCheckout, BetweenCommands, counters
  <2> QED
    BY <2>1 DEF Safe, Restoring, UserChangesKept, Idle, user
<1>4. CASE Crash
  <2>1. /\ op' = Idle /\ home' = HEAD /\ HEAD' = HEAD /\ UNCHANGED <<changes, stash, refused>>
        /\ work.user \subseteq work'.user /\ crashes' = crashes + 1
    BY <1>4 DEF Crash, Stop
  <2>2. crashes' # 0
    BY <2>1 DEF TypeOK, Counted
  <2> QED
    BY <2>1, <2>2 DEF Safe, Restoring, UserChangesKept, Idle
<1> QED
  BY <1>1, <1>2, <1>3, <1>4

-----------------------------------------------------------------------------
(* The queue loses only what it may lose.                                  *)

(* Phases that say nothing of the queue.                                   *)
LEMMA NothingDropped ==
    ASSUME op'.phase \notin {"restore", "reset", "pop", "popdrop", "init", "run", "collect", "gc",
                             "drop"}
    PROVE  Droppable'
BY DEF Droppable

LEMMA StashingDrops ==
    ASSUME TypeOK, Droppable, Stashing
    PROVE  Droppable'
<1>1. CASE StashWorkspace \/ ApplyChanges
  <2>1. op \in Preparing
    BY <1>1, WhatIsRemembered DEF StashWorkspace, ApplyChanges, TypeOK, CommandTypes
  <2>2. op'.phase \in {"apply", "detach"}
    BY <1>1, <2>1 DEF StashWorkspace, ApplyChanges, Phase, Preparing
  <2> QED
    BY <2>2, NothingDropped
<1>2. CASE ApplyFails \/ DetachHead \/ Prepare
  <2>1. op \in Preparing
    BY <1>2, WhatIsRemembered DEF ApplyFails, DetachHead, Prepare, TypeOK, CommandTypes
  <2>2. CASE Phase("prepare") \/ Phase("push")
    <3>1. op'.phase \in {"prepare", "push"}
      BY <2>1, <2>2 DEF Phase, Preparing
    <3> QED
      BY <3>1, NothingDropped
  <2>3. ASSUME NEW p \in {"pop", "reset", "restore"}, Unwind(TRUE, p)
        PROVE  Droppable'
    <3>1. op'.phase = p /\ op'.failed = TRUE
      BY <2>1, <2>3, UnwindType
    <3> QED
      BY <3>1 DEF Droppable
  <2> QED
    BY <1>2, <2>2, <2>3 DEF ApplyFails, DetachHead, Prepare
<1>3. CASE PushEntry
  <2>1. op \in Preparing
    BY <1>3, WhatIsRemembered DEF PushEntry, TypeOK, CommandTypes
  <2>2. op'.phase = "restore" /\ op'.queued = op.queued
    <3>1. op'.phase = "restore" /\ op'.queued = (FALSE \/ op.queued)
      BY <1>3, <2>1, UnwindType DEF PushEntry
    <3> QED
      BY <2>1, <3>1 DEF Preparing
  <2>3. Entry \in EntryType /\ Entry.queued = op.queued
    BY <2>1, EntryHasType DEF TypeOK, Counted
  <2>4. queue' # <<>> /\ queue'[1] = Entry
    BY <1>3, <2>3, QueuedInFront DEF PushEntry, TypeOK, StoreTypes
  <2> QED
    BY <2>2, <2>3, <2>4 DEF Droppable
<1>4. CASE RestoreHead \/ ResetHard \/ PopApply \/ PopDrop
  <2>1. op \in Unwinding /\ UNCHANGED queue
    BY <1>4, WhatIsRemembered DEF RestoreHead, ResetHard, PopApply, PopDrop, TypeOK, CommandTypes
  <2>2. op.phase \in {"restore", "reset", "pop", "popdrop"}
    BY <2>1 DEF Unwinding
  <2>3. ASSUME NEW p \in {"reset", "pop", "popdrop"}, Phase(p)
        PROVE  Droppable'
    <3>1. op'.phase = p /\ op'.failed = op.failed /\ op'.queued = op.queued
      BY <2>1, <2>3 DEF Phase, Unwinding
    <3> QED
      BY <2>1, <2>2, <3>1 DEF Droppable
  <2>4. CASE op' = Idle
    BY <2>4, NothingDropped DEF Idle
  <2>5. CASE NewDone(op) /\ op' # Idle
    <3>1. /\ ~op.failed /\ ~op.queued
          /\ op' = [cmd |-> "run", phase |-> "init", run |-> <<queue[1]>>, keep |-> FALSE]
      BY <2>5 DEF NewDone
    <3>2. queue # <<>> /\ ~queue[1].queued
      BY <2>1, <2>2, <3>1 DEF Droppable
    <3>3. op'.phase = "init" /\ op'.run = <<queue[1]>>
      BY <3>1
    <3>4. \A j \in DOMAIN <<queue[1]>> : <<queue[1]>>[j] = queue[1]
      OBVIOUS
    <3> QED
      BY <3>2, <3>3, <3>4 DEF Droppable
  <2> QED
    BY <1>4, <2>3, <2>4, <2>5 DEF RestoreHead, ResetHard, PopApply, PopDrop
<1> QED
  BY <1>1, <1>2, <1>3, <1>4 DEF Stashing

(* What executors have started from are commits of git; an entry of the     *)
(* queue is a commit of the stash.                                         *)
LEMMA StashIsNoResult ==
    ASSUME TypeOK, NEW i \in DOMAIN queue
    PROVE  StashRev(queue[i]) \notin Succeeded
<1> DEFINE E == (Tree \cup {"first", "user"}) \X Nat
           e == <<"stash", queue[i].id>>
<1>1. queue[i].rev \in Commit
  <2>1. queue[i] \in EntryType
    BY LenProperties, ElementOfSeq DEF TypeOK, StoreTypes
  <2> QED
    BY <2>1 DEF EntryType
<1>2. Succeeded \subseteq Commit
  <2>1. \A j \in DOMAIN execs : execs[j].entry.rev \in Commit
    <3>1. \A j \in DOMAIN execs : execs[j] \in ExecutorType
      BY LenProperties, ElementOfSeq DEF TypeOK, CommandTypes
    <3> QED
      BY <3>1 DEF ExecutorType, EntryType
  <2> QED
    BY <2>1 DEF Succeeded
<1> SUFFICES ASSUME StashRev(queue[i]) \in Seq(E) PROVE FALSE
  BY <1>2 DEF Commit
<1>3. e \notin E
  BY ConstantsAssumption
<1>4. queue[i].rev \in Seq(E)
  BY <1>1 DEF Commit
<1> HIDE DEF E, e
<1>5. queue[i].rev \in Seq(E \cup {e})
  BY <1>4, SeqMonotonic
<1>6. /\ Len(queue[i].rev) \in Nat
      /\ Len(Append(queue[i].rev, e)) = Len(queue[i].rev) + 1
      /\ Append(queue[i].rev, e)[Len(queue[i].rev) + 1] = e
  BY <1>5
<1>7. Append(queue[i].rev, e) = StashRev(queue[i])
  BY DEF StashRev, e
<1>8. e \in E
  BY <1>6, <1>7, ElementOfSeq
<1> QED
  BY <1>3, <1>8

LEMMA ReproducingDrops ==
    ASSUME TypeOK, Droppable, Reproducing
    PROVE  Droppable'
<1>1. CASE InitExecutors \/ AllEnded
  <2>1. op \in Running
    BY <1>1, WhatIsRemembered DEF InitExecutors, AllEnded, TypeOK, CommandTypes
  <2>2. op'.phase \in {"run", "collect"} /\ op'.run = op.run /\ op'.keep = op.keep
    BY <1>1 DEF InitExecutors, AllEnded
  <2> QED
    BY <2>1, <2>2 DEF Droppable, Running
<1>2. CASE op' = Idle
  BY <1>2, NothingDropped DEF Idle
<1>3. CASE UNCHANGED <<op, queue>>
  BY <1>3 DEF Droppable
<1>4. CASE op' = Next1 /\ op.phase = "collect"
  <2>1. op \in Fetching
    BY <1>4, WhatIsRemembered DEF TypeOK, CommandTypes
  <2>2. op'.phase = "collect" /\ op'.run = op.run /\ op'.keep = op.keep
    BY <1>4, <2>1 DEF Next1, Fetching
  <2> QED
    BY <2>1, <2>2 DEF Droppable, Fetching
<1>5. CASE CollectEnd
  <2>1. op \in Fetching /\ op.phase = "collect"
    BY <1>5, WhatIsRemembered DEF CollectEnd, TypeOK, CommandTypes
  <2>2. op'.phase = "drop" /\ op'.cmd = "run" /\ op'.drop = ToDrop /\ UNCHANGED queue
    BY <1>5 DEF CollectEnd
  <2>3. \A i \in ToDrop : i \in DOMAIN queue /\ ~queue[i].queued
    <3>1. CASE op.keep
      BY <3>1, StashIsNoResult DEF ToDrop
    <3>2. CASE ~op.keep
      <4>1. \A j \in DOMAIN op.run : ~op.run[j].queued
        BY <2>1, <3>2 DEF Droppable
      <4> QED
        BY <3>2, <4>1 DEF ToDrop
    <3> QED
      BY <3>1, <3>2
  <2> QED
    BY <2>2, <2>3 DEF Droppable
<1>6. CASE DropEntry
  <2>1. op \in Dropping \cup Cleaning /\ op.phase = "drop"
    BY <1>6, WhatIsRemembered DEF DropEntry, TypeOK, CommandTypes
  <2>2. PICK i \in op.drop : /\ \A j \in op.drop : j <= i
                             /\ queue' = RemoveAt(queue, i)
                             /\ op' = [op EXCEPT !.drop = @ \ {i}]
    BY <1>6 DEF DropEntry
  <2>3. /\ op'.phase = "drop" /\ op'.cmd = op.cmd /\ op'.drop = op.drop \ {i}
        /\ op.cmd = "gc" => op'.discard = op.discard
    BY <2>1, <2>2 DEF Dropping, Cleaning
  <2>4. /\ \A j \in op.drop : j \in DOMAIN queue
        /\ \A j \in op.drop : op.cmd = "gc" => queue[j] \in op.discard
        /\ \A j \in op.drop : op.cmd = "run" => ~queue[j].queued
    BY <2>1 DEF Droppable
  <2>5. /\ queue' \in Seq(EntryType) /\ Len(queue') = Len(queue) - 1
        /\ \A j \in 1..(i - 1) : queue'[j] = queue[j]
    BY <2>2, <2>4, RemovedEntry DEF TypeOK, StoreTypes
  <2>6. Len(queue) \in Nat /\ DOMAIN queue = 1..Len(queue) /\ DOMAIN queue' = 1..Len(queue')
    BY <2>5, LenProperties DEF TypeOK, StoreTypes
  <2>7. \A j \in op'.drop : j \in 1..(i - 1) /\ j \in DOMAIN queue' /\ j \in op.drop
    BY <2>2, <2>3, <2>4, <2>5, <2>6
  <2>8. \A j \in op'.drop : queue'[j] = queue[j]
    BY <2>5, <2>7
  <2> QED
    BY <2>3, <2>4, <2>7, <2>8 DEF Droppable
<1>7. \/ InitExecutors \/ AllEnded \/ op' = Idle \/ UNCHANGED <<op, queue>>
      \/ (op' = Next1 /\ op.phase = "collect") \/ CollectEnd \/ DropEntry
  BY DEF Reproducing, InitFails, Interrupt, ExecCommit, ExecEnd, Collect, CollectConflict,
         CollectFailed, Collecting, DropEnd, Stop
<1> QED
  BY <1>1, <1>2, <1>3, <1>4, <1>5, <1>6, <1>7

LEMMA OthersDrop ==
    ASSUME TypeOK, Droppable,
           \/ Starting \/ (\E k \in DOMAIN refs : GcRef(k)) \/ GcRefsDone
           \/ ApplyStash \/ ApplyMerge \/ ApplyUnstash \/ ApplyEnd
           \/ PullExp \/ Others
    PROVE  Droppable'
<1>1. CASE UNCHANGED <<op, queue>>
  BY <1>1 DEF Droppable
<1>2. CASE op' = Idle
  BY <1>2, NothingDropped DEF Idle
<1>3. ASSUME NEW target, NEW name, NEW force, NEW queued, Start(target, name, force, queued)
      PROVE  Droppable'
  <2>1. op'.phase = "stash"
    BY <1>3 DEF Start
  <2> QED
    BY <2>1, NothingDropped
<1>4. CASE StartRunAll
  <2>1. op'.phase = "init" /\ op'.keep = TRUE
    BY <1>4 DEF StartRunAll
  <2> QED
    BY <2>1 DEF Droppable
<1>5. ASSUME NEW keep, NEW queued, StartGc(keep, queued)
      PROVE  Droppable'
  <2>1. /\ op'.phase = "gc" /\ op'.cmd = "gc" /\ op'.drop = ToCollect(keep, queued) /\ UNCHANGED queue
        /\ op'.discard = {e \in ToSet(queue) : ~queued \/ e.baseline \notin keep}
    BY <1>5 DEF StartGc
  <2> QED
    BY <2>1 DEF Droppable, ToCollect, ToSet
<1>6. ASSUME NEW c, StartApply(c)
      PROVE  Droppable'
  <2>1. op'.phase = "astash"
    BY <1>6 DEF StartApply
  <2> QED
    BY <2>1, NothingDropped
<1>7. ASSUME NEW name, NEW force, StartPull(name, force)
      PROVE  Droppable'
  <2>1. op'.phase = "pull"
    BY <1>7 DEF StartPull
  <2> QED
    BY <2>1, NothingDropped
<1>8. CASE Starting
  <2>1. \/ \E target, name, force, queued : Start(target, name, force, queued)
        \/ UNCHANGED <<op, queue>> \/ StartRunAll
        \/ \E keep, queued : StartGc(keep, queued)
        \/ \E c : StartApply(c)
        \/ \E name, force : StartPull(name, force)
    <3>1. ASSUME NEW name, NEW force, NEW queued, StartNew(name, force, queued)
          PROVE  \E target : Start(target, name, force, queued)
      BY <3>1, Zenon DEF StartNew
    <3>2. ASSUME NEW name, NEW force, NEW queued, NEW c, NEW k, NEW params,
                 StartResume(c, k, params, name, force, queued)
          PROVE  \E target : Start(target, name, force, queued)
      BY <3>2, Zenon DEF StartResume
    <3>3. ASSUME NEW c, NEW b, BranchExp(c, b) PROVE UNCHANGED <<op, queue>>
      BY <3>3 DEF BranchExp
    <3>4. ASSUME NEW name, NEW force, PushExp(name, force) PROVE UNCHANGED <<op, queue>>
      BY <3>4 DEF PushExp
    <3> QED
      BY <1>8, <3>1, <3>2, <3>3, <3>4, Zenon DEF Starting
  <2> QED
    BY <1>1, <1>3, <1>4, <1>5, <1>6, <1>7, <2>1, Zenon
<1>9. ASSUME NEW k, GcRef(k)
      PROVE  UNCHANGED <<op, queue>>
  BY <1>9 DEF GcRef
<1>10. CASE GcRefsDone
  <2>1. op \in Cleaning /\ op.phase = "gc"
    BY <1>10, WhatIsRemembered DEF GcRefsDone, TypeOK, CommandTypes
  <2>2. /\ op'.phase = "drop" /\ op'.cmd = op.cmd /\ op'.drop = op.drop
        /\ op'.discard = op.discard /\ UNCHANGED queue
    BY <1>10, <2>1 DEF GcRefsDone, Phase, Cleaning
  <2> QED
    BY <2>1, <2>2 DEF Droppable, Cleaning
<1>11. CASE ApplyStash \/ ApplyMerge \/ ApplyUnstash \/ ApplyEnd
  <2>1. op \in Applying
    BY <1>11, WhatIsRemembered DEF ApplyStash, ApplyMerge, ApplyUnstash, ApplyEnd, TypeOK, CommandTypes
  <2>2. op'.phase \in {"merge", "unstash", "adrop", "idle"}
    <3>1. op' = Idle \/ Phase("unstash") \/ Phase("adrop")
          \/ op' = [op EXCEPT !.stashed = work.user # {}, !.phase = "merge"]
      BY <1>11 DEF ApplyStash, ApplyMerge, ApplyUnstash, ApplyEnd
    <3>2. \A p : Phase(p) => op'.phase = p
      BY <2>1 DEF Phase, Applying
    <3>3. [op EXCEPT !.stashed = work.user # {}, !.phase = "merge"].phase = "merge"
      BY <2>1 DEF Applying
    <3>4. CASE op' = Idle
      BY <3>4 DEF Idle
    <3>5. CASE Phase("unstash") \/ Phase("adrop")
      BY <3>2, <3>5
    <3>6. CASE op' = [op EXCEPT !.stashed = work.user # {}, !.phase = "merge"]
      <4> DEFINE o == [op EXCEPT !.stashed = work.user # {}, !.phase = "merge"]
      <4>1. o.phase = "merge"
        BY <3>3
      <4> HIDE DEF o
      <4>2. op' = o
        BY <3>6 DEF o
      <4> QED
        BY <4>1, <4>2
    <3> QED
      BY <3>1, <3>4, <3>5, <3>6
  <2> QED
    BY <2>2, NothingDropped
<1>12. PullExp => op' = Idle
  BY DEF PullExp
<1>13. Others => UNCHANGED <<op, queue>> \/ op' = Idle
  BY DEF Others, UserEdit, UserCommit, UserCheckout, OtherPush, Crash, Stop
<1> QED
  BY <1>1, <1>2, <1>8, <1>9, <1>10, <1>11, <1>12, <1>13

-----------------------------------------------------------------------------
(* The invariant of experiments, and what it says of the properties.        *)

Inv == TypeOK /\ Safe /\ Restoring /\ Droppable

LEMMA InvHoldsFirst == Init => Inv
<1> SUFFICES ASSUME Init PROVE Inv
  OBVIOUS
<1>1. GitTypes
  BY FirstIsCommit, ConstantsAssumption DEF Init, GitTypes, Place, Attached, NoCommit
<1>2. UserTypes
  BY EmptySeq DEF Init, UserTypes
<1>3. StoreTypes
  <2>1. DOMAIN <<>> = {}
    BY EmptySeq, LenProperties
  <2>2. <<>> = [k \in {} |-> NoCommit]
    BY <2>1
  <2> QED
    BY <2>1, <2>2, EmptySeq DEF Init, StoreTypes
<1>4. CommandTypes
  BY EmptySeq DEF Init, CommandTypes, Operation, Idle
<1>5. Counted
  BY DEF Init, Counted
<1>6. Safe /\ Restoring /\ Droppable
  BY EmptySeq DEF Init, Safe, UserChangesKept, Restoring, Droppable, Idle
<1> QED
  BY <1>1, <1>2, <1>3, <1>4, <1>5, <1>6 DEF Inv, TypeOK

LEMMA StutteringKeeps ==
    ASSUME Inv, UNCHANGED vars
    PROVE  Inv'
BY DEF Inv, vars, git, user, counters, TypeOK, GitTypes, UserTypes, StoreTypes, CommandTypes,
       Counted, Safe, UserChangesKept, Restoring, Droppable

LEMMA InvStep == Inv /\ [Next]_vars => Inv'
<1> SUFFICES ASSUME Inv, Next PROVE Inv'
  BY StutteringKeeps
<1> USE DEF Inv
<1>1. TypeOK'
  BY StashingTypes, ReproducingTypes, StartingTypes, CleaningTypes, ExpApplyTypes, PullTypes,
     OthersTypes, Zenon DEF Next
<1>2. Safe' /\ Restoring'
  <2>1. ASSUME PlainAction
        PROVE  Safe' /\ Restoring'
    <3>1. Plain
      BY <1>1, <2>1, PlainActionIsPlain
    <3> QED
      BY <3>1, PlainIsSafe, PlainRestores DEF TypeOK, CommandTypes
  <2>2. Next => PlainAction \/ Stashing \/ ApplyStash \/ ApplyMerge \/ ApplyUnstash \/ ApplyEnd
               \/ (\E kind \in {"tracked", "untracked"} : UserEdit(kind))
               \/ UserCommit \/ (\E b \in Branch : UserCheckout(b)) \/ Crash
    BY Zenon DEF Next, PlainAction, Others
  <2> QED
    BY <2>1, <2>2, StashingSafe, ApplyStashSafe, ApplyMergeSafe, ApplyUnstashSafe, ApplyEndSafe,
       UserSafe, Zenon
<1>3. Droppable'
  BY StashingDrops, ReproducingDrops, OthersDrop, Zenon DEF Next
<1> QED
  BY <1>1, <1>2, <1>3

LEMMA InvAlways == Spec => []Inv
BY InvHoldsFirst, InvStep, PTL DEF Spec

(* The types of what experiments keep and of what a command remembers in    *)
(* each of its phases: executors are there only while exp run is executed,  *)
(* and a branch that is checked out exists.                                *)
THEOREM ExperimentsTypes == Spec => []TypeOK
<1>1. Inv => TypeOK
  BY DEF Inv
<1> QED
  BY <1>1, InvAlways, PTL

(* Whatever step of a command fails or dies, what the user has changed is   *)
(* in the workspace or in refs/stash (stash_workspace, Stash.pop, apply).   *)
THEOREM ChangesAreKept == Spec => []UserChangesKept
<1>1. Inv => UserChangesKept
  BY DEF Inv, Safe
<1> QED
  BY <1>1, InvAlways, PTL

(* A command that is over has put HEAD back, and the changes of the user    *)
(* into the workspace, unless it died or git refused (detach_head,         *)
(* stash_workspace).                                                       *)
THEOREM WorkspaceIsRestored == Spec => []WorkspaceRestored
<1>1. Inv => WorkspaceRestored
  <2> SUFFICES ASSUME Inv, op = Idle PROVE WorkspaceRestored
    BY DEF WorkspaceRestored
  <2>1. HEAD = home /\ changes \subseteq work.user \cup UNION ToSet(stash)
    BY DEF Inv, Safe, Restoring, UserChangesKept, Idle
  <2>2. ASSUME crashes = 0, ~refused
        PROVE  changes \subseteq work.user /\ stash = <<>>
    <3>1. Len(stash) = 0
      BY <2>2 DEF Inv, Restoring, Idle
    <3>2. stash = <<>>
      BY <3>1, EmptySeq DEF Inv, TypeOK, UserTypes
    <3>3. ToSet(stash) = {}
      BY <3>2, EmptySeq, LenProperties DEF ToSet
    <3> QED
      BY <2>1, <3>2, <3>3
  <2> QED
    BY <2>1, <2>2 DEF WorkspaceRestored
<1> QED
  BY <1>1, InvAlways, PTL

(* Nothing that was queued for later leaves the queue but by gc: entries    *)
(* are dropped by index, the last one first, so that no index moves under   *)
(* what is still to be dropped (Experiments.reproduce, exp gc).             *)
THEOREM QueueIsKept == Spec => QueueKept
<1>1. ASSUME Inv, [Next]_vars
      PROVE  OnlyDropped
  <2> USE DEF OnlyDropped
  <2>1. CASE UNCHANGED queue
    BY <2>1
  <2>2. CASE PushEntry
    <3>1. op \in Preparing
      BY <1>1, <2>2, WhatIsRemembered DEF PushEntry, Inv, TypeOK, CommandTypes
    <3>2. Entry \in EntryType
      BY <1>1, <3>1, EntryHasType DEF Inv, TypeOK, Counted
    <3>3. queue \in Seq(EntryType)
      BY <1>1 DEF Inv, TypeOK, StoreTypes
    <3>4. /\ queue' \in Seq(EntryType) /\ Len(queue') = Len(queue) + 1
          /\ \A i \in 1..Len(queue) : queue'[i + 1] = queue[i]
      BY <2>2, <3>2, <3>3, QueuedInFront DEF PushEntry
    <3>5. Len(queue) \in Nat /\ DOMAIN queue = 1..Len(queue) /\ DOMAIN queue' = 1..Len(queue')
      BY <3>3, <3>4, LenProperties
    <3>6. \A i \in DOMAIN queue : i + 1 \in DOMAIN queue' /\ queue'[i + 1] = queue[i]
      BY <3>4, <3>5
    <3> QED
      BY <3>6 DEF ToSet
  <2>3. CASE DropEntry
    <3>1. op \in Dropping \cup Cleaning /\ op.phase = "drop"
      BY <1>1, <2>3, WhatIsRemembered DEF DropEntry, Inv, TypeOK, CommandTypes
    <3>2. PICK i \in op.drop : queue' = RemoveAt(queue, i)
      BY <2>3 DEF DropEntry
    <3>3. /\ i \in DOMAIN queue
          /\ op.cmd = "gc" => queue[i] \in op.discard
          /\ op.cmd = "run" => ~queue[i].queued
      BY <1>1, <3>1 DEF Inv, Droppable
    <3>4. op.cmd \in {"gc", "run"}
      BY <3>1 DEF Dropping, Cleaning
    <3>5. queue \in Seq(EntryType)
      BY <1>1 DEF Inv, TypeOK, StoreTypes
    <3>6. /\ queue' \in Seq(EntryType) /\ Len(queue') = Len(queue) - 1
          /\ \A j \in 1..(i - 1) : queue'[j] = queue[j]
          /\ \A j \in i..(Len(queue) - 1) : queue'[j] = queue[j + 1]
      BY <3>2, <3>3, <3>5, RemovedEntry
    <3>7. Len(queue) \in Nat /\ DOMAIN queue = 1..Len(queue) /\ DOMAIN queue' = 1..Len(queue')
      BY <3>5, <3>6, LenProperties
    <3>8. ASSUME NEW j \in DOMAIN queue, j # i
          PROVE  queue[j] \in ToSet(queue')
      <4>1. CASE j < i
        <5>1. j \in 1..(i - 1) /\ j \in DOMAIN queue'
          BY <3>3, <3>6, <3>7, <4>1
        <5>2. queue'[j] = queue[j]
          BY <3>6, <5>1
        <5> QED
          BY <5>1, <5>2 DEF ToSet
      <4>2. CASE j > i
        <5>1. j - 1 \in i..(Len(queue) - 1) /\ j - 1 \in DOMAIN queue' /\ (j - 1) + 1 = j
          BY <3>3, <3>6, <3>7, <4>2
        <5>2. queue'[j - 1] = queue[j]
          BY <3>6, <5>1
        <5> QED
          BY <5>1, <5>2 DEF ToSet
      <4> QED
        BY <3>3, <3>7, <3>8, <4>1, <4>2
    <3>9. ToSet(queue) \ ToSet(queue') \subseteq {queue[i]}
      BY <3>8 DEF ToSet
    <3> QED
      BY <3>3, <3>4, <3>9
  <2>4. [Next]_vars => UNCHANGED queue \/ PushEntry \/ DropEntry
    <3>1. Stashing => UNCHANGED queue \/ PushEntry
      BY DEF Stashing, StashWorkspace, ApplyChanges, ApplyFails, DetachHead, Prepare, RestoreHead,
         ResetHard, PopApply, PopDrop
    <3>2. Reproducing => UNCHANGED queue \/ DropEntry
      BY DEF Reproducing, InitExecutors, InitFails, Interrupt, AllEnded, ExecCommit, ExecEnd,
         Collect, CollectConflict, CollectFailed, CollectEnd, DropEnd
    <3>3. Starting => UNCHANGED queue
      BY DEF Starting, StartNew, StartResume, StartRunAll, StartGc, StartApply, BranchExp, PushExp,
         StartPull
    <3>4. (\E k \in DOMAIN refs : GcRef(k)) \/ GcRefsDone \/ PullExp => UNCHANGED queue
      BY DEF GcRef, GcRefsDone, PullExp
    <3>5. ApplyStash \/ ApplyMerge \/ ApplyUnstash \/ ApplyEnd \/ Others => UNCHANGED queue
      BY DEF ApplyStash, ApplyMerge, ApplyUnstash, ApplyEnd, Others, UserEdit, UserCommit,
         UserCheckout, OtherPush, Crash
    <3> QED
      BY <3>1, <3>2, <3>3, <3>4, <3>5 DEF Next, vars
  <2> QED
    BY <1>1, <2>1, <2>2, <2>3, <2>4
<1> QED
  BY <1>1, InvAlways, PTL DEF Spec, QueueKept

-----------------------------------------------------------------------------
(* What executors have made is recorded.                                   *)

(* A reference that is set to a commit that it is a prefix of keeps what it *)
(* has recorded.                                                           *)
LEMMA GrowingKeeps ==
    ASSUME NEW c \in Commit, NEW d \in Commit, IsPrefix(c, d), NEW n \in DOMAIN c
    PROVE  n \in DOMAIN d /\ d[n] = c[n]
<1> DEFINE E == (Tree \cup {"first", "user"}) \X Nat
<1>1. c \in Seq(E) /\ d \in Seq(E)
  BY DEF Commit
<1> HIDE DEF E
<1>2. Len(c) \in Nat /\ Len(d) \in Nat /\ n \in 1..Len(c) /\ DOMAIN d = 1..Len(d)
  BY <1>1, LenProperties
<1>3. Len(c) <= Len(d) /\ SubSeq(c, 1, Len(c)) = SubSeq(d, 1, Len(c))
  BY DEF IsPrefix
<1>4. SubSeq(c, 1, Len(c))[n] = c[n] /\ SubSeq(d, 1, Len(c))[n] = d[n]
  <2>1. /\ \A i \in 1..Len(c) : c[i] \in E
        /\ \A i \in 1..Len(c) : d[i] \in E
    BY <1>1, <1>2, <1>3
  <2>2. \A i \in 1..(Len(c) - 1 + 1) : SubSeq(c, 1, Len(c))[i] = c[1 + i - 1]
    BY <1>2, <2>1, SubSeqProperties
  <2>3. \A i \in 1..(Len(c) - 1 + 1) : SubSeq(d, 1, Len(c))[i] = d[1 + i - 1]
    BY <1>2, <2>1, SubSeqProperties
  <2> QED
    BY <1>2, <2>2, <2>3
<1> QED
  BY <1>2, <1>3, <1>4

LEMMA LastOfCommit ==
    ASSUME NEW c \in Commit
    PROVE  Len(c) \in DOMAIN c /\ c[Len(c)][1] = TreeOf(c)
<1> DEFINE E == (Tree \cup {"first", "user"}) \X Nat
<1>1. c \in Seq(E) /\ c # <<>>
  BY DEF Commit, NoCommit
<1> HIDE DEF E
<1>2. Len(c) \in Nat \ {0} /\ DOMAIN c = 1..Len(c)
  BY <1>1, EmptySeq, LenProperties
<1> QED
  BY <1>2 DEF TreeOf, Last

(* Collecting an executor records what it has made, and leaves what is      *)
(* recorded of another one whose name it has not been forced upon.          *)
LEMMA CollectRecords ==
    ASSUME TypeOK, NEW z \in ExecutorType, z.key # NoKey, FetchRef(z)
    PROVE  /\ ~z.entry.force => Recorded(z)'
           /\ \A x \in ExecutorType :
                 Recorded(x) /\ (x.key = z.key => ~z.entry.force) => Recorded(x)'
<1>1. z.key \in KeyType /\ z.head \in Commit
  BY DEF ExecutorType
<1>2. \A k \in DOMAIN refs : refs[k] \in Commit
  BY DEF TypeOK, StoreTypes
<1>3. CASE refs' = SetRef(refs, z.key, z.head)
  <2>1. /\ DOMAIN refs' = DOMAIN refs \cup {z.key}
        /\ refs'[z.key] = z.head
        /\ \A j \in DOMAIN refs : j # z.key => refs'[j] = refs[j]
    BY <1>3 DEF SetRef
  <2>2. Recorded(z)'
    BY <1>1, <2>1, LastOfCommit DEF Recorded
  <2>3. ASSUME NEW x \in ExecutorType, Recorded(x), x.key = z.key => ~z.entry.force
        PROVE  Recorded(x)'
    <3>1. PICK n \in DOMAIN refs[x.key] : refs[x.key][n][1] = TreeOf(x.head)
      BY <2>3 DEF Recorded
    <3>2. x.key \in DOMAIN refs
      BY <2>3 DEF Recorded
    <3>3. CASE x.key # z.key
      BY <2>1, <3>1, <3>2, <3>3 DEF Recorded
    <3>4. CASE x.key = z.key
      <4>1. CASE IsPrefix(refs[x.key], z.head)
        <5>1. n \in DOMAIN z.head /\ z.head[n] = refs[x.key][n]
          BY <1>1, <1>2, <3>1, <3>2, <4>1, GrowingKeeps
        <5> QED
          BY <2>1, <3>1, <3>2, <3>4, <5>1 DEF Recorded
      <4>2. CASE ~IsPrefix(refs[x.key], z.head)
        <5>1. UNCHANGED refs
          BY <2>3, <3>2, <3>4, <4>2 DEF FetchRef, Diverged
        <5> QED
          BY <2>3, <5>1 DEF Recorded
      <4> QED
        BY <4>1, <4>2
    <3> QED
      BY <3>3, <3>4
  <2> QED
    BY <2>2, <2>3
<1>4. CASE UNCHANGED refs
          /\ z.key \in DOMAIN refs /\ TreeOf(refs[z.key]) = TreeOf(z.head)
  <2>1. Recorded(z)
    BY <1>2, <1>4, LastOfCommit DEF Recorded
  <2> QED
    BY <1>4, <2>1 DEF Recorded
<1> QED
  BY <1>3, <1>4 DEF FetchRef

LEMMA CollectedStep ==
    ASSUME Inv, Collected, [Next]_vars
    PROVE  Collected'
<1>1. TypeOK
  BY DEF Inv
<1>2. CASE UNCHANGED <<op, execs, refs>>
  BY <1>2 DEF Collected, Recorded
<1>3. CASE op'.cmd = "run" => op'.phase \notin {"collect", "drop"}
  BY <1>3 DEF Collected
<1>4. CASE AllEnded
  <2>1. op'.phase = "collect" /\ op'.at = 1 /\ UNCHANGED execs
    BY <1>4 DEF AllEnded
  <2>2. DOMAIN execs = 1..Len(execs) /\ Len(execs) \in Nat
    BY <1>1, LenProperties DEF TypeOK, CommandTypes
  <2>3. \A i \in DOMAIN execs : ~(i < 1)
    BY <2>2
  <2> QED
    BY <2>1, <2>3 DEF Collected
<1>5. CASE Collect \/ CollectFailed
  <2>1. op \in Fetching /\ op.phase = "collect" /\ op.cmd = "run"
    BY <1>1, <1>5, WhatIsRemembered DEF Collect, CollectFailed, Collecting, TypeOK, CommandTypes,
       Fetching
  <2>2. CASE op' = Next1 /\ UNCHANGED execs
    <3>1. op'.phase = "collect" /\ op'.cmd = "run" /\ op'.at = op.at + 1 /\ op.at \in Nat
      BY <2>1, <2>2 DEF Next1, Fetching
    <3> DEFINE Good(i) == /\ execs[i].status = "ok" /\ execs[i].key # NoKey
                          /\ \A j \in DOMAIN execs : execs[j].key = execs[i].key => ~execs[j].entry.force
               z == execs[op.at]
    <3>2. op.at \in DOMAIN execs
      BY <1>5 DEF Collect, CollectFailed, Collecting
    <3>3. \A i \in DOMAIN execs : execs[i] \in ExecutorType
      BY <1>1, LenProperties, ElementOfSeq DEF TypeOK, CommandTypes
    <3>4. \A i \in DOMAIN execs : i \in Nat
      BY <1>1, LenProperties DEF TypeOK, CommandTypes
    <3>5. ASSUME NEW i \in DOMAIN execs, i < op.at + 1, Good(i)
          PROVE  Recorded(execs[i])'
      <4>1. i # op.at => Recorded(execs[i])
        BY <2>1, <3>1, <3>4, <3>5 DEF Collected
      <4>2. CASE Collect /\ z.key # NoKey
        <5>1. PICK x, y : x = execs[i] /\ y = execs[op.at]
          OBVIOUS
        <5>2. y \in ExecutorType /\ x \in ExecutorType /\ y.key # NoKey /\ FetchRef(y)
          BY <3>2, <3>3, <4>2, <5>1 DEF Collect
        <5>3. /\ ~y.entry.force => Recorded(y)'
              /\ Recorded(x) /\ (x.key = y.key => ~y.entry.force) => Recorded(x)'
          BY <1>1, <5>2, CollectRecords
        <5>4. x.key = y.key => ~y.entry.force
          BY <3>2, <3>5, <5>1
        <5>5. Recorded(x)'
          <6>1. i = op.at => x = y
            BY <5>1
          <6>2. i # op.at => Recorded(x)
            BY <4>1, <5>1 DEF Recorded
          <6> QED
            BY <5>3, <5>4, <6>1, <6>2
        <5>6. execs'[i] = x
          BY <2>2, <5>1
        <5> QED
          BY <5>5, <5>6 DEF Recorded
      <4>3. CASE UNCHANGED refs /\ (z.key = NoKey \/ z.status # "ok")
        <5>1. i # op.at
          BY <3>5, <4>3
        <5> QED
          BY <2>2, <4>1, <4>3, <5>1 DEF Recorded
      <4> QED
        BY <1>5, <4>2, <4>3 DEF Collect, CollectFailed
    <3> QED
      BY <2>2, <3>1, <3>5 DEF Collected
  <2>3. CASE Stop
    BY <2>3 DEF Stop, Idle, Collected
  <2> QED
    BY <1>5, <2>2, <2>3 DEF Collect, CollectFailed
<1>6. CASE CollectEnd
  <2>1. /\ op \in Fetching /\ op.phase = "collect" /\ op.cmd = "run"
        /\ op.at \notin DOMAIN execs /\ UNCHANGED <<execs, refs>>
    BY <1>1, <1>6, WhatIsRemembered DEF CollectEnd, TypeOK, CommandTypes, Fetching
  <2>2. op.at \in Nat \ {0} /\ DOMAIN execs = 1..Len(execs) /\ Len(execs) \in Nat
    BY <1>1, <2>1, LenProperties DEF TypeOK, CommandTypes, Fetching
  <2>3. \A i \in DOMAIN execs : i < op.at
    BY <2>1, <2>2
  <2> QED
    BY <2>1, <2>3 DEF Collected, Recorded
<1>7. CASE DropEntry
  <2>1. op \in Dropping \cup Cleaning /\ op.phase = "drop" /\ UNCHANGED <<execs, refs>>
    BY <1>1, <1>7, WhatIsRemembered DEF DropEntry, TypeOK, CommandTypes
  <2>2. op'.phase = op.phase /\ op'.cmd = op.cmd
    BY <1>7, <2>1 DEF DropEntry, Dropping, Cleaning
  <2> QED
    BY <2>1, <2>2 DEF Collected, Recorded
<1>8. CASE Reproducing
  <2>1. CASE InitExecutors
    <3>1. op'.phase = "run"
      BY <2>1 DEF InitExecutors
    <3> QED
      BY <1>3, <3>1
  <2>2. ASSUME InitFails \/ Interrupt \/ CollectConflict \/ DropEnd
        PROVE  op' = Idle \/ (op' = op /\ op.phase = "run")
    BY <2>2 DEF InitFails, Interrupt, CollectConflict, DropEnd, Stop
  <2>3. ASSUME NEW i, NEW t, NEW ckpt, NEW status, ExecCommit(i, t, ckpt) \/ ExecEnd(i, status)
        PROVE  op' = op /\ op.phase = "run"
    BY <2>3 DEF ExecCommit, ExecEnd
  <2>4. op' = Idle \/ (op' = op /\ op.phase = "run") => Collected'
    BY <1>3 DEF Idle
  <2> QED
    BY <1>4, <1>5, <1>6, <1>7, <1>8, <2>1, <2>2, <2>3, <2>4, Zenon DEF Reproducing
<1>9. CASE Stashing
  <2>1. op \in Preparing \cup Unwinding
    BY <1>1, <1>9, WhatIsRemembered DEF Stashing, StashWorkspace, ApplyChanges, ApplyFails,
       DetachHead, Prepare, PushEntry, RestoreHead, ResetHard, PopApply, PopDrop, TypeOK, CommandTypes
  <2>2. ASSUME NEW p, Phase(p)
        PROVE  op'.cmd = "new"
    BY <2>1, <2>2 DEF Phase, Preparing, Unwinding
  <2>3. ASSUME NEW failed, NEW p, Unwind(failed, p)
        PROVE  op'.cmd = "new"
    BY <2>3 DEF Unwind
  <2>4. ASSUME NewDone(op)
        PROVE  op' = Idle \/ op'.phase = "init"
    BY <2>4 DEF NewDone
  <2>5. StashWorkspace => op'.cmd = "new"
    BY <2>1 DEF StashWorkspace, Preparing, Unwinding
  <2>6. \/ \E p : Phase(p)
        \/ \E failed, p : Unwind(failed, p)
        \/ NewDone(op) \/ op' = Idle \/ StashWorkspace
    BY <1>9, Zenon DEF Stashing, ApplyChanges, ApplyFails, DetachHead, Prepare, PushEntry,
       RestoreHead, ResetHard, PopApply, PopDrop
  <2>7. op'.cmd = "new" \/ op' = Idle \/ op'.phase = "init"
    BY <2>2, <2>3, <2>4, <2>5, <2>6, Zenon
  <2>8. CASE op'.cmd = "new"
    BY <1>3, <2>8
  <2>9. CASE op' = Idle
    BY <1>3, <2>9 DEF Idle
  <2>10. CASE op'.phase = "init"
    BY <1>3, <2>10
  <2> QED
    BY <2>7, <2>8, <2>9, <2>10
<1>10. CASE Starting
  <2>1. op = Idle
    BY <1>10 DEF Starting, StartNew, StartResume, StartRunAll, StartGc, StartApply, BranchExp,
       PushExp, StartPull, MayStart
  <2>2. ASSUME NEW target, NEW name, NEW force, NEW queued, Start(target, name, force, queued)
        PROVE  op'.phase = "stash"
    BY <2>2 DEF Start
  <2>3. ASSUME NEW keep, NEW queued, StartGc(keep, queued)
        PROVE  op'.phase = "gc"
    BY <2>3 DEF StartGc
  <2>4. ASSUME NEW c, StartApply(c)
        PROVE  op'.phase = "astash"
    BY <2>4 DEF StartApply
  <2>5. ASSUME NEW name, NEW force, StartPull(name, force)
        PROVE  op'.phase = "pull"
    BY <2>5 DEF StartPull
  <2>6. ASSUME NEW name, NEW force, NEW queued, StartNew(name, force, queued)
        PROVE  op'.phase = "stash"
    BY <2>2, <2>6, Zenon DEF StartNew
  <2>7. ASSUME NEW name, NEW force, NEW queued, NEW c, NEW k, NEW params,
               StartResume(c, k, params, name, force, queued)
        PROVE  op'.phase = "stash"
    BY <2>2, <2>7, Zenon DEF StartResume
  <2>8. ASSUME NEW c, NEW b, BranchExp(c, b) PROVE op' = Idle
    BY <2>1, <2>8 DEF BranchExp
  <2>9. ASSUME NEW name, NEW force, PushExp(name, force) PROVE op' = Idle
    BY <2>1, <2>9 DEF PushExp
  <2>10. StartRunAll => op'.phase = "init"
    BY DEF StartRunAll
  <2>11. op'.phase \in {"stash", "gc", "astash", "pull", "init"} \/ op' = Idle
    <3>1. \/ op'.phase = "stash" \/ op'.phase = "gc" \/ op'.phase = "astash"
          \/ op'.phase = "pull" \/ op'.phase = "init" \/ op' = Idle
      BY <1>10, <2>3, <2>4, <2>5, <2>6, <2>7, <2>8, <2>9, <2>10, Zenon DEF Starting
    <3> QED
      BY <3>1
  <2> QED
    BY <1>3, <2>11 DEF Idle
<1>11. CASE GcRefsDone \/ \E k \in DOMAIN refs : GcRef(k)
  <2>1. op \in Cleaning
    BY <1>1, <1>11, WhatIsRemembered DEF GcRefsDone, GcRef, TypeOK, CommandTypes
  <2>2. op'.cmd = "gc"
    BY <1>11, <2>1 DEF GcRefsDone, GcRef, Phase, Cleaning
  <2> QED
    BY <1>3, <2>2
<1>12. CASE ApplyStash \/ ApplyMerge \/ ApplyUnstash \/ ApplyEnd
  <2>1. op \in Applying
    BY <1>1, <1>12, WhatIsRemembered DEF ApplyStash, ApplyMerge, ApplyUnstash, ApplyEnd, TypeOK,
       CommandTypes
  <2>2. ASSUME NEW p, Phase(p)
        PROVE  op'.cmd = "apply"
    BY <2>1, <2>2 DEF Phase, Applying
  <2>3. ApplyStash => op'.cmd = "apply"
    BY <2>1 DEF ApplyStash, Applying
  <2>4. op'.cmd = "apply" \/ op' = Idle
    BY <1>12, <2>2, <2>3, Zenon DEF ApplyMerge, ApplyUnstash, ApplyEnd
  <2> QED
    BY <1>3, <2>4 DEF Idle
<1>13. CASE PullExp
  BY <1>3, <1>13 DEF PullExp, Idle
<1>14. CASE Others
  <2>1. UNCHANGED <<op, execs, refs>> \/ op' = Idle
    BY <1>14 DEF Others, UserEdit, UserCommit, UserCheckout, OtherPush, Crash, Stop
  <2> QED
    BY <1>2, <1>3, <2>1 DEF Idle
<1>15. CASE UNCHANGED vars
  BY <1>2, <1>15 DEF vars
<1> QED
  BY <1>8, <1>9, <1>10, <1>11, <1>12, <1>13, <1>14, <1>15, Zenon DEF Next

(* When exp run has collected its executors, what each of them has made     *)
(* under a name that nobody forced is among the commits of the reference,   *)
(* whatever other executors have made under that name (_collect_executor,   *)
(* fetch_exps).                                                            *)
THEOREM ResultsAreKept == Spec => []ResultKept
<1>1. Init => Collected
  BY DEF Init, Idle, Collected
<1>2. Spec => []Collected
  BY <1>1, CollectedStep, InvAlways, PTL DEF Spec
<1>3. Inv /\ Collected => ResultKept
  <2> SUFFICES ASSUME Inv, Collected, op.cmd = "run", op.phase = "drop", NEW i \in DOMAIN execs,
                      execs[i].status = "ok", execs[i].key # NoKey,
                      \A y \in ToSet(execs) : y.key = execs[i].key => ~y.entry.force
               PROVE  Recorded(execs[i])
    BY DEF ResultKept, ToSet
  <2>1. \A j \in DOMAIN execs : execs[j].key = execs[i].key => ~execs[j].entry.force
    BY DEF ToSet
  <2> QED
    BY <2>1 DEF Collected
<1> QED
  BY <1>2, <1>3, InvAlways, PTL

-----------------------------------------------------------------------------
(* Checkpoints: the monitor, for any number of workers, commands and epochs, *)
(* whatever dies or fails.                                                 *)

(* A function changed at one point. *)
LEMMA ChangedAt ==
    ASSUME NEW S, NEW T, NEW f \in [S -> T], NEW x \in S, NEW y \in T
    PROVE  [f EXCEPT ![x] = y] \in [S -> T]
OBVIOUS

LEMMA MainType ==
    ASSUME CheckpointTypeOK, Main
    PROVE  CheckpointTypeOK'
<1>1. CASE StartCmd
  <2>1. worker' \in [Worker -> {"off", "work", "trained", "waiting", "exited", "dead"}]
    BY <1>1 DEF StartCmd
  <2> QED
    BY <1>1, <2>1 DEF CheckpointTypeOK, StartCmd, saved
<1>2. CASE CommandEnded
  BY <1>2 DEF CheckpointTypeOK, CommandEnded, command, saved
<1>3. CASE Joined
  <2>1. cmd' \in 1..Commands /\ main' \in {"start", "ok", "failed", "killed"}
    BY <1>3, CheckpointAssumption DEF CheckpointTypeOK, Joined, NextCmd
  <2> QED
    BY <1>3, <2>1 DEF CheckpointTypeOK, Joined, command, saved
<1> QED
  BY <1>1, <1>2, <1>3 DEF Main

LEMMA MonitorType ==
    ASSUME CheckpointTypeOK, Monitor
    PROVE  CheckpointTypeOK'
<1>1. CASE Look
  BY <1>1 DEF CheckpointTypeOK, Look, command, saved
<1>2. CASE Callback
  <2>1. CASE CallbackSave
    BY <2>1 DEF CheckpointTypeOK, CallbackSave, command
  <2>2. CASE CallbackCommit
    BY <2>2 DEF CheckpointTypeOK, CallbackCommit, command
  <2>3. CASE CallbackRecord
    BY <2>3 DEF CheckpointTypeOK, CallbackRecord, command
  <2>4. CASE CallbackFail
    BY <2>4 DEF CheckpointTypeOK, CallbackFail, command, saved
  <2> QED
    BY <1>2, <2>1, <2>2, <2>3, <2>4 DEF Callback
<1>3. CASE Terminate
  <2>1. worker' \in [Worker -> {"off", "work", "trained", "waiting", "exited", "dead"}]
    BY <1>3 DEF CheckpointTypeOK, Terminate
  <2> QED
    BY <1>3, <2>1 DEF CheckpointTypeOK, Terminate, saved
<1>4. CASE Reap
  BY <1>4 DEF CheckpointTypeOK, Reap, command, saved
<1>5. CASE RemoveSignal
  BY <1>5 DEF CheckpointTypeOK, RemoveSignal, command, saved
<1>6. CASE Pause
  BY <1>6 DEF CheckpointTypeOK, Pause, command, saved
<1> QED
  BY <1>1, <1>2, <1>3, <1>4, <1>5, <1>6 DEF Monitor

LEMMA CommandType ==
    ASSUME CheckpointTypeOK, ProcEnds \/ \E w \in Worker : Work(w) \/ WorkerDies(w)
    PROVE  CheckpointTypeOK'
<1>1. CASE ProcEnds
  BY <1>1 DEF CheckpointTypeOK, ProcEnds, command, saved
<1>2. ASSUME NEW w \in Worker, Work(w) \/ WorkerDies(w) PROVE CheckpointTypeOK'
  <2>1. CASE Train(w)
    <3>1. data[w] + 1 \in 0..MaxEpochs
      BY <2>1, CheckpointAssumption DEF CheckpointTypeOK, Train, Snapshot
    <3>2. data' \in Snapshot
      BY <2>1, <3>1, ChangedAt DEF CheckpointTypeOK, Train, Snapshot
    <3> QED
      BY <2>1, <3>2 DEF CheckpointTypeOK, Train, saved
  <2>2. CASE MakeCheckpoint(w)
    BY <2>2 DEF CheckpointTypeOK, MakeCheckpoint, saved
  <2>3. CASE CheckpointReturns(w)
    BY <2>3 DEF CheckpointTypeOK, CheckpointReturns, saved
  <2>4. CASE WorkerExit(w)
    BY <2>4 DEF CheckpointTypeOK, WorkerExit, saved
  <2>5. CASE WorkerDies(w)
    <3>1. deaths' \in 0..MaxDeaths
      BY <2>5, CheckpointAssumption DEF CheckpointTypeOK, WorkerDies
    <3> QED
      BY <2>5, <3>1 DEF CheckpointTypeOK, WorkerDies, saved
  <2> QED
    BY <1>2, <2>1, <2>2, <2>3, <2>4, <2>5 DEF Work
<1> QED
  BY <1>1, <1>2

(* All variables keep their types, and the monitor lives only while the    *)
(* main thread waits (checkpoint_monitor in dvc/stage/run.py).             *)
THEOREM CheckpointTypes == CheckpointSpec => []CheckpointTypeOK
<1>1. CheckpointInit => CheckpointTypeOK
  <2> SUFFICES ASSUME CheckpointInit PROVE CheckpointTypeOK
    OBVIOUS
  <2>1. data \in Snapshot
    BY CheckpointAssumption DEF CheckpointInit, Snapshot
  <2>2. cmd \in 1..Commands /\ deaths \in 0..MaxDeaths
    BY CheckpointAssumption DEF CheckpointInit
  <2> QED
    BY <2>1, <2>2 DEF CheckpointInit, CheckpointTypeOK
<1>2. CheckpointTypeOK /\ [CheckpointNext]_checkpointVars => CheckpointTypeOK'
  <2>1. CASE UNCHANGED checkpointVars
    BY <2>1 DEF CheckpointTypeOK, checkpointVars
  <2> QED
    BY <2>1, MainType, MonitorType, CommandType DEF CheckpointNext, Terminating
<1> QED
  BY <1>1, <1>2, PTL DEF CheckpointSpec

(* Killing the command is what CheckpointKilledError tells: the monitor is *)
(* off when the main thread reads the event.                               *)
THEOREM KilledIsTold == CheckpointSpec => []KilledTold
<1>1. CheckpointInit => KilledTold
  BY DEF CheckpointInit, KilledTold
<1>2. CheckpointTypeOK /\ KilledTold /\ [CheckpointNext]_checkpointVars => KilledTold'
  <2> SUFFICES ASSUME CheckpointTypeOK, KilledTold, [CheckpointNext]_checkpointVars
               PROVE  KilledTold'
    OBVIOUS
  <2>1. CASE StartCmd
    BY <2>1 DEF StartCmd, KilledTold
  <2>2. CASE CommandEnded
    BY <2>2 DEF CommandEnded, KilledTold
  <2>3. CASE Joined
    BY <2>3 DEF Joined, NextCmd, KilledTold
  <2>4. CASE Monitor
    <3>1. main' = main /\ (killed' = killed \/ main \in {"communicate", "join"})
      BY <2>4 DEF Monitor, Look, Callback, CallbackSave, CallbackCommit, CallbackRecord,
                  CallbackFail, Terminate, Reap, RemoveSignal, Pause, CheckpointTypeOK
    <3> QED
      BY <3>1 DEF KilledTold
  <2>5. CASE ProcEnds \/ \E w \in Worker : Work(w) \/ WorkerDies(w)
    BY <2>5 DEF ProcEnds, Work, Train, MakeCheckpoint, CheckpointReturns, WorkerExit,
                WorkerDies, KilledTold
  <2>6. CASE UNCHANGED checkpointVars
    BY <2>6 DEF checkpointVars, KilledTold
  <2> QED
    BY <2>1, <2>2, <2>3, <2>4, <2>5, <2>6 DEF CheckpointNext, Main, Terminating
<1> QED
  BY <1>1, <1>2, CheckpointTypes, PTL DEF CheckpointSpec

-----------------------------------------------------------------------------
(* The answer to the worker that has created the signal file goes through  *)
(* the phases of the monitor: what it has saved, committed and recorded so  *)
(* far is the worker's data, which cannot change while the worker waits.   *)

InCheckpoint(w) == lastCheckpoint.hashes[w] = data[w] /\ lastCheckpoint.object[w] = data[w]

Answer(w) ==
    /\ monitor = "commit" => hashes[w] = data[w]
    /\ monitor = "record" => hashes[w] = data[w] /\ object[w] = data[w]
    /\ monitor = "remove" => InCheckpoint(w)
    /\ ~signal => InCheckpoint(w)

AnswerInv ==
    /\ Answering => signal
    /\ \A w \in created : worker[w] = "waiting" => killed \/ Answer(w)

LEMMA AnswerMain ==
    ASSUME CheckpointTypeOK, AnswerInv, Main
    PROVE  AnswerInv'
<1>1. CASE StartCmd
  BY <1>1 DEF AnswerInv, StartCmd, Answering
<1>2. CASE CommandEnded \/ Joined
  <2>1. UNCHANGED <<monitor, killed, signal, command, saved>>
    BY <1>2 DEF CommandEnded, Joined
  <2> QED
    BY <2>1 DEF AnswerInv, Answering, Answer, InCheckpoint, command, saved
<1> QED
  BY <1>1, <1>2 DEF Main

LEMMA AnswerMonitor ==
    ASSUME CheckpointTypeOK, AnswerInv, Monitor
    PROVE  AnswerInv'
<1>1. CASE Look
  BY <1>1 DEF AnswerInv, Look, Answering, Answer, InCheckpoint, command, saved
<1>2. CASE Callback
  <2>1. CASE CallbackSave
    BY <2>1 DEF AnswerInv, CallbackSave, Answering, Answer, InCheckpoint, command
  <2>2. CASE CallbackCommit
    BY <2>2 DEF AnswerInv, CallbackCommit, Answering, Answer, InCheckpoint, command
  <2>3. CASE CallbackRecord
    BY <2>3 DEF AnswerInv, CallbackRecord, Answering, Answer, InCheckpoint, command
  <2>4. CASE CallbackFail
    BY <2>4 DEF AnswerInv, CallbackFail, Answering, Answer, InCheckpoint, command, saved
  <2> QED
    BY <1>2, <2>1, <2>2, <2>3, <2>4 DEF Callback
<1>3. CASE Terminate
  <2>1. \A w \in Worker : worker'[w] = "waiting" => worker[w] = "waiting"
    BY <1>3 DEF Terminate, CheckpointTypeOK
  <2> QED
    BY <1>3, <2>1 DEF AnswerInv, Terminate, Answering, Answer, InCheckpoint, saved, CheckpointTypeOK
<1>4. CASE Reap
  BY <1>4 DEF AnswerInv, Reap, Answering, Answer, InCheckpoint, command, saved
<1>5. CASE RemoveSignal
  BY <1>5 DEF AnswerInv, RemoveSignal, Answering, Answer, InCheckpoint, command, saved
<1>6. CASE Pause
  BY <1>6 DEF AnswerInv, Pause, Answering, Answer, InCheckpoint, command, saved
<1> QED
  BY <1>1, <1>2, <1>3, <1>4, <1>5, <1>6 DEF Monitor

LEMMA AnswerCommand ==
    ASSUME CheckpointTypeOK, AnswerInv, ProcEnds \/ \E w \in Worker : Work(w) \/ WorkerDies(w)
    PROVE  AnswerInv'
<1>1. CASE ProcEnds
  BY <1>1 DEF AnswerInv, ProcEnds, Answering, Answer, InCheckpoint, command, saved
<1>2. ASSUME NEW w \in Worker, Train(w) \/ CheckpointReturns(w) \/ WorkerExit(w) \/ WorkerDies(w)
      PROVE  AnswerInv'
  <2>1. UNCHANGED <<monitor, killed, signal, created, saved>>
    BY <1>2 DEF Train, CheckpointReturns, WorkerExit, WorkerDies
  <2>2. \A v \in Worker : worker'[v] = "waiting" => worker[v] = "waiting" /\ data'[v] = data[v]
    BY <1>2 DEF Train, CheckpointReturns, WorkerExit, WorkerDies, CheckpointTypeOK, Snapshot
  <2> QED
    BY <2>1, <2>2 DEF AnswerInv, Answering, Answer, InCheckpoint, saved, CheckpointTypeOK
<1>3. ASSUME NEW w \in Worker, MakeCheckpoint(w) PROVE AnswerInv'
  <2>1. Answering' => signal'
    BY <1>3 DEF MakeCheckpoint
  <2>2. ASSUME NEW v \in created', worker'[v] = "waiting" PROVE killed' \/ Answer(v)'
    <3>1. CASE v = w
      <4>1. ~signal
        BY <1>3, <2>2, <3>1 DEF MakeCheckpoint
      <4>2. ~Answering /\ ~Answering' /\ signal'
        BY <1>3, <4>1 DEF AnswerInv, MakeCheckpoint, Answering
      <4> QED
        BY <4>2 DEF Answering, Answer
    <3>2. CASE v # w
      <4>1. v \in created /\ worker[v] = "waiting" /\ signal'
        BY <1>3, <2>2, <3>2 DEF MakeCheckpoint, CheckpointTypeOK
      <4> QED
        BY <1>3, <4>1 DEF AnswerInv, MakeCheckpoint, Answer, InCheckpoint, saved
    <3> QED
      BY <3>1, <3>2
  <2> QED
    BY <2>1, <2>2 DEF AnswerInv
<1> QED
  BY <1>1, <1>2, <1>3 DEF Work

LEMMA AnswerInvariant == CheckpointSpec => []AnswerInv
<1>1. CheckpointInit => AnswerInv
  BY DEF CheckpointInit, AnswerInv, Answering
<1>2. CheckpointTypeOK /\ AnswerInv /\ [CheckpointNext]_checkpointVars => AnswerInv'
  <2>1. ASSUME AnswerInv, UNCHANGED checkpointVars PROVE AnswerInv'
    BY <2>1 DEF AnswerInv, Answering, Answer, InCheckpoint, checkpointVars
  <2> QED
    BY <2>1, AnswerMain, AnswerMonitor, AnswerCommand DEF CheckpointNext, Terminating
<1> QED
  BY <1>1, <1>2, CheckpointTypes, PTL DEF CheckpointSpec

(* make_checkpoint of the worker that has created the signal file returns   *)
(* only when its data are in a checkpoint or the command has been killed.  *)
THEOREM FirstSignalIsAnswered == CheckpointSpec => FirstSignalAnswered
<1>1. AnswerInv =>
        [\A w \in created : CheckpointReturns(w) =>
            \/ killed
            \/ /\ lastCheckpoint.hashes[w] = data[w]
               /\ lastCheckpoint.object[w] = data[w]]_checkpointVars
  <2> SUFFICES ASSUME AnswerInv, NEW w \in created, CheckpointReturns(w)
               PROVE  killed \/ InCheckpoint(w)
    BY DEF InCheckpoint
  <2> QED
    BY DEF AnswerInv, Answer, CheckpointReturns
<1> QED
  BY <1>1, AnswerInvariant, PTL DEF FirstSignalAnswered
=============================================================================
