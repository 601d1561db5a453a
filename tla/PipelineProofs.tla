---------------------------- MODULE PipelineProofs ----------------------------
(* Whatever stages, files and commands a repository has, and whenever its   *)
(* commands fail or are killed: objects stay intact, what is recorded is in *)
(* the cache and was made of what is recorded with it, no contents are lost,*)
(* and repro leaves a pipeline up to date.                                  *)
EXTENDS Pipeline, NaturalsInduction, WellFoundedInduction, TLAPS

Inv ==
    /\ TypeOK /\ Phased /\ Linked /\ Shapes /\ Held /\ Committed /\ RunHeld
    /\ Followed /\ CacheIntact /\ LockedInCache /\ RunsSound

-----------------------------------------------------------------------------
(* Stages in order.                                                        *)

LEMMA LeastExists ==
    ASSUME NEW S \in SUBSET Nat, S # {}
    PROVE  \E x \in S : \A y \in S : x <= y
<1> DEFINE R == {ss \in Nat \X Nat : ss[1] < ss[2]}
<1>1. IsWellFoundedOn(R, Nat)
  BY NatLessThanWellFounded DEF OpToRel
<1> HIDE DEF R
<1>2. PICK x \in S : \A y \in S : ~(<<y, x>> \in R)
  BY <1>1, WFMin
<1>3. \A y \in S : ~(y < x)
  BY <1>2 DEF R
<1> QED
  BY <1>3

LEMMA FirstIsFirst ==
    ASSUME NEW T \in SUBSET Stage, T # {}
    PROVE  First(T) \in T /\ \A t \in T : Order[First(T)] <= Order[t]
<1> DEFINE S == {Order[t] : t \in T}
<1>1. S \in SUBSET Nat /\ S # {}
  BY StageAssumption
<1> HIDE DEF S
<1>2. PICK x \in S : \A y \in S : x <= y
  BY <1>1, LeastExists
<1>3. \E s \in T : \A t \in T : Order[s] <= Order[t]
  BY <1>2 DEF S
<1> QED
  BY <1>3 DEF First

(* No stage comes after what depends on it. *)
LEMMA UpstreamIsBefore ==
    ASSUME NEW t \in Stage, NEW s \in Upstream(t)
    PROVE  s \in Stage /\ Order[s] <= Order[t]
<1> DEFINE S == {u \in Stage : Order[u] <= Order[t]}
<1>1. S \in SUBSET Stage /\ t \in S
  BY StageAssumption
<1>2. \A u \in S, v \in Stage : Outs[v] \cap Deps[u] # {} => v \in S
  BY StageAssumption
<1> HIDE DEF S
<1>3. s \in S
  BY <1>1, <1>2 DEF Upstream
<1> QED
  BY <1>3 DEF S

LEMMA TargetIsUpstream ==
    ASSUME NEW t \in Stage
    PROVE  t \in Upstream(t) /\ Upstream(t) \subseteq Stage
BY DEF Upstream

(* The stage in work. *)
LEMMA InWork ==
    ASSUME Inv, op.kind \notin {"none", "gc"}
    PROVE  s0 \in op.todo /\ s0 \in Stage /\ \A t \in op.todo : Order[s0] <= Order[t]
<1>1. op.todo \in SUBSET Stage /\ op.todo # {}
  BY DEF Inv, TypeOK, Phased, Op
<1> QED
  BY <1>1, FirstIsFirst DEF s0

LEMMA RecordOfNothing == NoRecord \in Record
BY DEF NoRecord, Nothing, Record, Data

LEMMA IdleHasType == Idle \in Op
BY DEF Idle, Command, Op, NoRecord, Nothing, Record, Data, Phase

(* No stage depends on what it writes. *)
LEMMA NoSelfLoop ==
    ASSUME NEW s \in Stage
    PROVE  Outs[s] \cap Deps[s] = {} /\ Outs[s] \subseteq Path /\ Deps[s] \subseteq Path
BY StageAssumption

-----------------------------------------------------------------------------
(* A command ends, well or not.                                            *)

BudgetType == [edits : 0..MaxEdits, crashes : 0..MaxCrashes, commands : 0..MaxCommands]

LEMMA InitHolds == Init => Inv
<1> SUFFICES ASSUME Init PROVE Inv
  OBVIOUS
<1> USE DEF Init
<1>1. TypeOK
  <2>1. ws \in [Path -> Data]
    BY ContentAssumption DEF Only, Data
  <2>2. lock \in [Stage -> Record]
    BY DEF NoRecord, Nothing, Record, Data
  <2>3. budget \in BudgetType
    BY BoundAssumption DEF BudgetType
  <2>4. cache \in [Content -> Data] /\ cmd \in [Stage -> Cmd]
    BY ContentAssumption DEF Data
  <2>5. op \in Op /\ op.linking \subseteq op.left /\ ((op.kind = "none") <=> (op.phase = "idle"))
    BY IdleHasType DEF Idle, Command
  <2> QED
    BY <2>1, <2>2, <2>3, <2>4, <2>5 DEF TypeOK, BudgetType
<1>2. Phased /\ Linked /\ Held /\ Committed /\ RunHeld /\ Followed
  BY DEF Phased, Linked, Held, Committed, RunHeld, Followed, Idle, Command, Saving
<1>3. Shapes
  BY DEF Shapes, Shaped, NoRecord, Nothing, Only, Idle, Command, Saving
<1>4. CacheIntact
  BY DEF CacheIntact
<1>5. LockedInCache
  BY StageAssumption DEF LockedInCache, NoRecord, Nothing
<1>6. RunsSound
  <2>1. \A e \in {[stage |-> s, record |-> lock[s]] : s \in HasCmd} : e.record = NoRecord
    BY StageAssumption
  <2> QED
    BY <2>1 DEF RunsSound
<1> QED
  BY <1>1, <1>2, <1>3, <1>4, <1>5, <1>6 DEF Inv

(* A command that is over, for which the workspace does not matter.        *)
LEMMA EndKeeps ==
    ASSUME Inv, op' = Idle, budget' \in BudgetType,
           ws' \in [Path -> Data], strays' \subseteq Content,
           UNCHANGED <<cache, lock, runs, cmd, uncommitted, vouched, meddled>>
    PROVE  Inv'
<1> USE DEF Inv
<1>1. TypeOK'
  BY IdleHasType DEF TypeOK, BudgetType, Idle, Command
<1>2. Phased' /\ Linked' /\ Held' /\ Committed' /\ RunHeld' /\ Followed'
  BY DEF Phased, Linked, Held, Committed, RunHeld, Followed, Idle, Command, Saving
<1>3. Shapes'
  BY DEF Shapes, Idle, Command, Saving, Shaped
<1>4. CacheIntact'
  BY DEF CacheIntact
<1>5. LockedInCache'
  BY DEF LockedInCache, InCache
<1>6. RunsSound'
  BY DEF RunsSound
<1> QED
  BY <1>1, <1>2, <1>3, <1>4, <1>5, <1>6

-----------------------------------------------------------------------------
(* A command begins with a stage.                                          *)

Begun(o) ==
    /\ o \in Op /\ o.kind \in {"repro", "commit", "add", "checkout"} /\ o.todo # {}
    /\ o.linking = {} /\ ~o.broken /\ o.garbage = {}
    /\ o.phase = IF o.kind = "repro" THEN "check"
                 ELSE IF o.kind = "checkout" THEN "checkout" ELSE "save"
    /\ o.left = IF o.kind = "checkout" THEN Outs[First(o.todo)] \ NoCache ELSE {}
    /\ o.kind \in {"add", "commit"} => o.todo = {First(o.todo)}
    /\ o.kind = "add" => First(o.todo) \notin HasCmd

LEMMA AtStageBegins ==
    ASSUME lock \in [Stage -> Record], NEW kind \in {"repro", "commit", "add", "checkout"},
           NEW todo \in SUBSET Stage, todo # {}, NEW force \in BOOLEAN, NEW nocommit \in BOOLEAN,
           kind \in {"add", "commit"} => todo = {First(todo)},
           kind = "add" => First(todo) \notin HasCmd,
           NEW o, o = Command(kind, todo, force, nocommit)
    PROVE  /\ Begun(AtStage(o))
           /\ AtStage(o).kind = kind /\ AtStage(o).todo = todo
           /\ AtStage(o).nocommit = nocommit /\ AtStage(o).force = force
<1>1. First(todo) \in Stage
  BY FirstIsFirst
<1>2. lock[First(todo)] \in Record /\ Outs[First(todo)] \subseteq Path
  BY <1>1, NoSelfLoop
<1>3. NoRecord \in Record
  BY DEF NoRecord, Nothing, Record, Data
<1> DEFINE a == AtStage(o)
           Made(phase, left, mem) ==
               [kind |-> kind, todo |-> todo, phase |-> phase, left |-> left, mem |-> mem,
                linking |-> {}, broken |-> FALSE, garbage |-> {}, force |-> force,
                nocommit |-> nocommit]
<1>4. \A phase \in {"check", "save", "checkout"}, left \in SUBSET Path, mem \in Record :
          Made(phase, left, mem) \in Op
  BY DEF Op, Phase
<1>5. CASE kind = "checkout"
  <2>1. a = Made("checkout", Outs[First(todo)] \ NoCache, lock[First(todo)])
    BY <1>5 DEF AtStage, EnterWith, Enter, Command
  <2>2. a \in Op
    BY <1>2, <1>4, <2>1
  <2>3. a.kind = kind /\ a.todo = todo
    BY <2>1
  <2>4. (a.nocommit = nocommit) /\ (a.force = force) /\ ~a.broken
    BY <2>1
  <2>5. a.linking = {}
    BY <2>1
  <2>6. a.garbage = {}
    BY <2>1
  <2>7. a.phase = "checkout"
    BY <2>1
  <2>8. a.left = Outs[First(todo)] \ NoCache
    BY <2>1
  <2> HIDE DEF a
  <2>9. Begun(a)
    BY <1>5, <2>2, <2>3, <2>4, <2>5, <2>6, <2>7, <2>8 DEF Begun
  <2> QED
    BY <2>3, <2>4, <2>9 DEF a
<1>6. CASE kind # "checkout"
  <2> DEFINE phase == IF kind = "repro" THEN "check" ELSE "save"
  <2>1. a = Made(phase, {}, NoRecord)
    BY <1>6 DEF AtStage, EnterWith, Enter, Command
  <2>2. a \in Op
    BY <1>3, <1>4, <2>1
  <2>3. a.kind = kind /\ a.todo = todo
    BY <2>1
  <2>4. (a.nocommit = nocommit) /\ (a.force = force) /\ ~a.broken
    BY <2>1
  <2>5. a.linking = {}
    BY <2>1
  <2>6. a.garbage = {}
    BY <2>1
  <2>7. a.phase = phase
    BY <2>1
  <2>8. a.left = {}
    BY <2>1
  <2> HIDE DEF a
  <2>9. Begun(a)
    BY <1>6, <2>2, <2>3, <2>4, <2>5, <2>6, <2>7, <2>8 DEF Begun
  <2> QED
    BY <2>3, <2>4, <2>9 DEF a
<1> QED
  BY <1>5, <1>6

LEMMA BegunKeeps ==
    ASSUME Begun(op')
    PROVE  Phased' /\ Linked' /\ Held' /\ Committed' /\ RunHeld'
<1> USE DEF Begun
<1>1. Phased'
  BY FirstIsFirst DEF Phased, s0, Op
<1>2. Linked' /\ Held' /\ Committed' /\ RunHeld'
  BY DEF Linked, Held, Committed, RunHeld, Saving
<1> QED
  BY <1>1, <1>2

(* repro has its stages before it, and those that depend on none of them   *)
(* behind it.                                                              *)
LEMMA FollowedAtStart ==
    ASSUME NEW t \in Stage, op'.kind = "repro", op'.todo = Upstream(t)
    PROVE  Followed'
BY TargetIsUpstream DEF Followed

LEMMA StartKeeps ==
    ASSUME Inv, op.kind = "none", lock' \in [Stage -> Record],
           \A s \in Stage : lock'[s] \in {lock[s], NoRecord},
           budget' \in BudgetType, Begun(op'), op'.kind = "repro" => Followed',
           UNCHANGED <<ws, cache, strays, runs, cmd, uncommitted, vouched, meddled>>
    PROVE  Inv'
<1>1. TypeOK'
  BY DEF Inv, TypeOK, BudgetType, Begun
<1>2. Shapes'
  <2>1. \A s \in Stage : Shaped(s, NoRecord)
    BY DEF Shaped, NoRecord, Nothing, Only
  <2>2. \A s \in Stage : Shaped(s, lock[s])'
    BY <2>1 DEF Inv, Shapes, Shaped
  <2> QED
    BY <2>2 DEF Inv, Shapes, Shaped, Begun, Saving
<1>3. CacheIntact'
  BY DEF Inv, CacheIntact
<1>4. LockedInCache'
  <2>1. \A s \in Stage, p \in Path : NoRecord.outs[p] = NoData
    BY DEF NoRecord, Nothing
  <2> QED
    BY <2>1, StageAssumption DEF Inv, LockedInCache, InCache
<1>5. RunsSound'
  <2> SUFFICES ASSUME ~meddled,
                      NEW e \in (runs \cup {[stage |-> s, record |-> lock[s]] : s \in HasCmd})'
               PROVE  e.record = NoRecord \/ Genuine(e.stage, e.record) \/ e \in vouched
    BY DEF RunsSound, Genuine
  <2>1. CASE e \in runs
    BY <2>1 DEF Inv, RunsSound
  <2>2. CASE e \notin runs
    <3>1. PICK s \in HasCmd : e = [stage |-> s, record |-> lock'[s]]
      BY <2>2
    <3>2. lock'[s] \in {lock[s], NoRecord}
      BY StageAssumption
    <3>3. CASE lock'[s] = NoRecord
      BY <3>1, <3>3
    <3>4. CASE lock'[s] = lock[s]
      BY <3>1, <3>4 DEF Inv, RunsSound
    <3> QED
      BY <3>2, <3>3, <3>4
  <2> QED
    BY <2>1, <2>2
<1>6. Followed'
  BY DEF Followed
<1> QED
  BY <1>1, <1>2, <1>3, <1>4, <1>5, <1>6, BegunKeeps DEF Inv

-----------------------------------------------------------------------------
(* What a step of a command leaves of it, field by field.                  *)

LEMMA LinkingNow ==
    ASSUME NEW o \in Op, NEW linking \in SUBSET Path,
           NEW n, n = [o EXCEPT !.linking = linking]
    PROVE  /\ n \in Op
           /\ (n.kind = o.kind) /\ (n.todo = o.todo) /\ (n.phase = o.phase)
           /\ (n.left = o.left) /\ (n.mem = o.mem) /\ (n.linking = linking)
           /\ (n.broken = o.broken) /\ (n.garbage = o.garbage) /\ (n.force = o.force)
           /\ (n.nocommit = o.nocommit)
<1>1. (n.kind = o.kind)
  BY DEF Op
<1>2. (n.todo = o.todo)
  BY DEF Op
<1>3. (n.phase = o.phase)
  BY DEF Op
<1>4. (n.left = o.left)
  BY DEF Op
<1>5. (n.mem = o.mem)
  BY DEF Op
<1>6. (n.linking = linking)
  BY DEF Op
<1>7. (n.broken = o.broken)
  BY DEF Op
<1>8. (n.garbage = o.garbage)
  BY DEF Op
<1>9. (n.force = o.force)
  BY DEF Op
<1>10. (n.nocommit = o.nocommit)
  BY DEF Op
<1>11. n \in Op
  BY DEF Op, Phase
<1> QED
  BY <1>1, <1>2, <1>3, <1>4, <1>5, <1>6, <1>7, <1>8, <1>9, <1>10, <1>11

LEMMA OutTreated ==
    ASSUME NEW o \in Op, NEW p,
           NEW n, n = Treated(o, p)
    PROVE  /\ n \in Op
           /\ (n.kind = o.kind) /\ (n.todo = o.todo) /\ (n.phase = o.phase)
           /\ (n.left = o.left \ {p}) /\ (n.mem = o.mem) /\ (n.linking = {})
           /\ (n.broken = o.broken) /\ (n.garbage = o.garbage) /\ (n.force = o.force)
           /\ (n.nocommit = o.nocommit)
<1>1. (n.kind = o.kind)
  BY DEF Treated, Op
<1>2. (n.todo = o.todo)
  BY DEF Treated, Op
<1>3. (n.phase = o.phase)
  BY DEF Treated, Op
<1>4. (n.left = o.left \ {p})
  BY DEF Treated, Op
<1>5. (n.mem = o.mem)
  BY DEF Treated, Op
<1>6. (n.linking = {})
  BY DEF Treated, Op
<1>7. (n.broken = o.broken)
  BY DEF Treated, Op
<1>8. (n.garbage = o.garbage)
  BY DEF Treated, Op
<1>9. (n.force = o.force)
  BY DEF Treated, Op
<1>10. (n.nocommit = o.nocommit)
  BY DEF Treated, Op
<1>11. n \in Op
  BY DEF Treated, Op, Phase
<1> QED
  BY <1>1, <1>2, <1>3, <1>4, <1>5, <1>6, <1>7, <1>8, <1>9, <1>10, <1>11

LEMMA LinkBroken ==
    ASSUME NEW o \in Op,
           NEW n, n = [o EXCEPT !.broken = TRUE]
    PROVE  /\ n \in Op
           /\ (n.kind = o.kind) /\ (n.todo = o.todo) /\ (n.phase = o.phase)
           /\ (n.left = o.left) /\ (n.mem = o.mem) /\ (n.linking = o.linking)
           /\ (n.broken = TRUE) /\ (n.garbage = o.garbage) /\ (n.force = o.force)
           /\ (n.nocommit = o.nocommit)
<1>1. (n.kind = o.kind)
  BY DEF Op
<1>2. (n.todo = o.todo)
  BY DEF Op
<1>3. (n.phase = o.phase)
  BY DEF Op
<1>4. (n.left = o.left)
  BY DEF Op
<1>5. (n.mem = o.mem)
  BY DEF Op
<1>6. (n.linking = o.linking)
  BY DEF Op
<1>7. (n.broken = TRUE)
  BY DEF Op
<1>8. (n.garbage = o.garbage)
  BY DEF Op
<1>9. (n.force = o.force)
  BY DEF Op
<1>10. (n.nocommit = o.nocommit)
  BY DEF Op
<1>11. n \in Op
  BY DEF Op, Phase
<1> QED
  BY <1>1, <1>2, <1>3, <1>4, <1>5, <1>6, <1>7, <1>8, <1>9, <1>10, <1>11

LEMMA Entered ==
    ASSUME NEW o \in Op, NEW phase \in Phase, NEW left \in SUBSET Path,
           NEW n, n = Enter(o, phase, left)
    PROVE  /\ n \in Op
           /\ (n.kind = o.kind) /\ (n.todo = o.todo) /\ (n.phase = phase)
           /\ (n.left = left) /\ (n.mem = o.mem) /\ (n.linking = o.linking)
           /\ (n.broken = o.broken) /\ (n.garbage = o.garbage) /\ (n.force = o.force)
           /\ (n.nocommit = o.nocommit)
<1>1. (n.kind = o.kind)
  BY DEF Op, Enter
<1>2. (n.todo = o.todo)
  BY DEF Op, Enter
<1>3. (n.phase = phase)
  BY DEF Op, Enter
<1>4. (n.left = left)
  BY DEF Op, Enter
<1>5. (n.mem = o.mem)
  BY DEF Op, Enter
<1>6. (n.linking = o.linking)
  BY DEF Op, Enter
<1>7. (n.broken = o.broken)
  BY DEF Op, Enter
<1>8. (n.garbage = o.garbage)
  BY DEF Op, Enter
<1>9. (n.force = o.force)
  BY DEF Op, Enter
<1>10. (n.nocommit = o.nocommit)
  BY DEF Op, Enter
<1>11. n \in Op
  BY DEF Op, Phase, Enter
<1> QED
  BY <1>1, <1>2, <1>3, <1>4, <1>5, <1>6, <1>7, <1>8, <1>9, <1>10, <1>11

LEMMA EnteredWith ==
    ASSUME NEW o \in Op, NEW phase \in Phase, NEW left \in SUBSET Path, NEW mem \in Record,
           NEW n, n = EnterWith(o, phase, left, mem)
    PROVE  /\ n \in Op
           /\ (n.kind = o.kind) /\ (n.todo = o.todo) /\ (n.phase = phase)
           /\ (n.left = left) /\ (n.mem = mem) /\ (n.linking = o.linking)
           /\ (n.broken = o.broken) /\ (n.garbage = o.garbage) /\ (n.force = o.force)
           /\ (n.nocommit = o.nocommit)
<1>1. (n.kind = o.kind)
  BY DEF Op, EnterWith, Enter
<1>2. (n.todo = o.todo)
  BY DEF Op, EnterWith, Enter
<1>3. (n.phase = phase)
  BY DEF Op, EnterWith, Enter
<1>4. (n.left = left)
  BY DEF Op, EnterWith, Enter
<1>5. (n.mem = mem)
  BY DEF Op, EnterWith, Enter
<1>6. (n.linking = o.linking)
  BY DEF Op, EnterWith, Enter
<1>7. (n.broken = o.broken)
  BY DEF Op, EnterWith, Enter
<1>8. (n.garbage = o.garbage)
  BY DEF Op, EnterWith, Enter
<1>9. (n.force = o.force)
  BY DEF Op, EnterWith, Enter
<1>10. (n.nocommit = o.nocommit)
  BY DEF Op, EnterWith, Enter
<1>11. n \in Op
  BY DEF Op, Phase, EnterWith, Enter
<1> QED
  BY <1>1, <1>2, <1>3, <1>4, <1>5, <1>6, <1>7, <1>8, <1>9, <1>10, <1>11

LEMMA WithMem ==
    ASSUME NEW o \in Op, NEW mem \in Record,
           NEW n, n = [o EXCEPT !.mem = mem]
    PROVE  /\ n \in Op
           /\ (n.kind = o.kind) /\ (n.todo = o.todo) /\ (n.phase = o.phase)
           /\ (n.left = o.left) /\ (n.mem = mem) /\ (n.linking = o.linking)
           /\ (n.broken = o.broken) /\ (n.garbage = o.garbage) /\ (n.force = o.force)
           /\ (n.nocommit = o.nocommit)
<1>1. (n.kind = o.kind)
  BY DEF Op
<1>2. (n.todo = o.todo)
  BY DEF Op
<1>3. (n.phase = o.phase)
  BY DEF Op
<1>4. (n.left = o.left)
  BY DEF Op
<1>5. (n.mem = mem)
  BY DEF Op
<1>6. (n.linking = o.linking)
  BY DEF Op
<1>7. (n.broken = o.broken)
  BY DEF Op
<1>8. (n.garbage = o.garbage)
  BY DEF Op
<1>9. (n.force = o.force)
  BY DEF Op
<1>10. (n.nocommit = o.nocommit)
  BY DEF Op
<1>11. n \in Op
  BY DEF Op, Phase
<1> QED
  BY <1>1, <1>2, <1>3, <1>4, <1>5, <1>6, <1>7, <1>8, <1>9, <1>10, <1>11

LEMMA GarbageLeft ==
    ASSUME NEW o \in Op, NEW h,
           NEW n, n = [o EXCEPT !.garbage = @ \ {h}]
    PROVE  /\ n \in Op
           /\ (n.kind = o.kind) /\ (n.todo = o.todo) /\ (n.phase = o.phase)
           /\ (n.left = o.left) /\ (n.mem = o.mem) /\ (n.linking = o.linking)
           /\ (n.broken = o.broken) /\ (n.garbage = o.garbage \ {h}) /\ (n.force = o.force)
           /\ (n.nocommit = o.nocommit)
<1>1. (n.kind = o.kind)
  BY DEF Op
<1>2. (n.todo = o.todo)
  BY DEF Op
<1>3. (n.phase = o.phase)
  BY DEF Op
<1>4. (n.left = o.left)
  BY DEF Op
<1>5. (n.mem = o.mem)
  BY DEF Op
<1>6. (n.linking = o.linking)
  BY DEF Op
<1>7. (n.broken = o.broken)
  BY DEF Op
<1>8. (n.garbage = o.garbage \ {h})
  BY DEF Op
<1>9. (n.force = o.force)
  BY DEF Op
<1>10. (n.nocommit = o.nocommit)
  BY DEF Op
<1>11. n \in Op
  BY DEF Op, Phase
<1> QED
  BY <1>1, <1>2, <1>3, <1>4, <1>5, <1>6, <1>7, <1>8, <1>9, <1>10, <1>11

-----------------------------------------------------------------------------
(* The commands start.                                                     *)

LEMMA BudgetSpent ==
    ASSUME Inv, budget.commands < MaxCommands, budget' = [budget EXCEPT !.commands = @ + 1]
    PROVE  budget' \in BudgetType
BY BoundAssumption DEF Inv, TypeOK, BudgetType

LEMMA StartReproKeeps ==
    ASSUME Inv, StartRepro
    PROVE  Inv'
<1>1. PICK t \in Stage, force \in BOOLEAN, nocommit \in BOOLEAN :
          Start(AtStage(Command("repro", Upstream(t), force, nocommit)))
  BY DEF StartRepro
<1> DEFINE o == Command("repro", Upstream(t), force, nocommit)
<1>3. Upstream(t) \in SUBSET Stage /\ Upstream(t) # {}
  BY TargetIsUpstream
<1>4. op' = AtStage(o) /\ op.kind = "none" /\ lock' = lock /\ budget' \in BudgetType
      /\ UNCHANGED <<ws, cache, strays, runs, cmd, uncommitted, vouched, meddled>>
  BY <1>1, BudgetSpent DEF Start, StartWith
<1>5. Begun(op') /\ op'.kind = "repro" /\ op'.todo = Upstream(t)
  BY <1>3, <1>4, AtStageBegins DEF Inv, TypeOK
<1>6. Followed'
  BY <1>5, FollowedAtStart
<1> QED
  BY <1>4, <1>5, <1>6, StartKeeps DEF Inv, TypeOK

(* The other commands, which begin with the stages given. *)
LEMMA OtherStartKeeps ==
    ASSUME Inv, op.kind = "none", NEW kind \in {"commit", "add", "checkout"},
           NEW todo \in SUBSET Stage, todo # {}, NEW force \in BOOLEAN, NEW nocommit \in BOOLEAN,
           kind \in {"add", "commit"} => todo = {First(todo)},
           kind = "add" => First(todo) \notin HasCmd,
           NEW o, o = Command(kind, todo, force, nocommit),
           op' = AtStage(o), budget' \in BudgetType,
           lock' \in [Stage -> Record], \A s \in Stage : lock'[s] \in {lock[s], NoRecord},
           UNCHANGED <<ws, cache, strays, runs, cmd, uncommitted, vouched, meddled>>
    PROVE  Inv'
<1>1. Begun(op') /\ op'.kind = kind
  BY AtStageBegins DEF Inv, TypeOK
<1> QED
  BY <1>1, StartKeeps

LEMMA StartCommitKeeps ==
    ASSUME Inv, StartCommit
    PROVE  Inv'
<1>1. PICK s \in Stage, force \in BOOLEAN :
          Start(AtStage(Command("commit", {s}, force, FALSE)))
  BY DEF StartCommit
<1> DEFINE o == Command("commit", {s}, force, FALSE)
<1>3. op' = AtStage(o) /\ op.kind = "none" /\ lock' = lock /\ budget' \in BudgetType
      /\ UNCHANGED <<ws, cache, strays, runs, cmd, uncommitted, vouched, meddled>>
  BY <1>1, BudgetSpent DEF Start, StartWith
<1>4. {s} \in SUBSET Stage /\ {s} # {} /\ lock' \in [Stage -> Record]
      /\ \A u \in Stage : lock'[u] \in {lock[u], NoRecord}
  BY <1>3 DEF Inv, TypeOK
<1>5. {s} = {First({s})}
  BY FirstIsFirst
<1> QED
  BY <1>3, <1>4, <1>5, OtherStartKeeps

LEMMA StartCheckoutKeeps ==
    ASSUME Inv, StartCheckout
    PROVE  Inv'
<1>1. PICK force \in BOOLEAN :
          Start(AtStage(Command("checkout", Stage, force, FALSE)))
  BY DEF StartCheckout
<1> DEFINE o == Command("checkout", Stage, force, FALSE)
<1>3. op' = AtStage(o) /\ op.kind = "none" /\ lock' = lock /\ budget' \in BudgetType
      /\ UNCHANGED <<ws, cache, strays, runs, cmd, uncommitted, vouched, meddled>>
  BY <1>1, BudgetSpent DEF Start, StartWith
<1>4. Stage \in SUBSET Stage /\ Stage # {} /\ lock' \in [Stage -> Record]
      /\ \A u \in Stage : lock'[u] \in {lock[u], NoRecord}
  BY <1>3, StageAssumption DEF Inv, TypeOK
<1> QED
  BY <1>3, <1>4, OtherStartKeeps

(* gc starts: what it is to remove, no record names. *)
LEMMA StartGcKeeps ==
    ASSUME Inv, StartGc
    PROVE  Inv'
<1> DEFINE g == {h \in Content : InCache(h)} \ Used
<1>1. /\ op' = [kind |-> "gc", todo |-> {}, phase |-> "gc", left |-> {}, mem |-> NoRecord,
              linking |-> {}, broken |-> FALSE, garbage |-> g, force |-> FALSE,
              nocommit |-> FALSE]
      /\ budget' \in BudgetType
      /\ UNCHANGED <<ws, cache, strays, lock, runs, cmd, uncommitted, vouched, meddled>>
  BY BudgetSpent DEF StartGc, Start, StartWith, Enter, Command
<1>2. g \in SUBSET Content /\ g \cap Used = {}
  OBVIOUS
<1> HIDE DEF g
<1>3. op'.linking = {}
  BY <1>1
<1>4. op'.left = {}
  BY <1>1
<1>5. op'.todo = {}
  BY <1>1
<1>6. op'.garbage = g
  BY <1>1
<1>7. op'.kind = "gc" /\ op'.phase = "gc" /\ ~op'.broken
  BY <1>1
<1>8. op' \in Op
  BY <1>1, <1>2, RecordOfNothing DEF Op, Phase
<1> HIDE <1>1
<1>9. UNCHANGED <<ws, cache, strays, lock, runs, cmd, uncommitted, vouched, meddled>> /\ budget' \in BudgetType
  BY <1>1
<1>10. TypeOK'
  BY <1>3, <1>4, <1>7, <1>8, <1>9 DEF Inv, TypeOK, BudgetType
<1>11. Phased' /\ Linked' /\ Held' /\ RunHeld' /\ Followed'
  BY <1>3, <1>4, <1>5, <1>7 DEF Phased, Linked, Held, RunHeld, Followed, Saving
<1>12. Committed'
  BY <1>2, <1>6, <1>7, <1>9 DEF Committed, Used
<1>13. Shapes'
  BY <1>7, <1>9 DEF Inv, Shapes, Saving, Shaped
<1>14. CacheIntact' /\ LockedInCache' /\ RunsSound'
  BY <1>9 DEF Inv, CacheIntact, LockedInCache, RunsSound, InCache
<1> QED
  BY <1>10, <1>11, <1>12, <1>13, <1>14 DEF Inv

(* dvc add: what is recorded and cached as it is, is committed anew. *)
LEMMA StartAddKeeps ==
    ASSUME Inv, StartAdd
    PROVE  Inv'
<1>1. PICK s \in Stage \ HasCmd, nocommit \in BOOLEAN :
          IF OutsChanged(s)
          THEN StartWith([lock EXCEPT ![s] = NoRecord], AtStage(Command("add", {s}, FALSE, nocommit)))
          ELSE Start(EnterWith(Command("commit", {s}, FALSE, FALSE), "commit", Outs[s], lock[s]))
  BY DEF StartAdd
<1>2. {s} \in SUBSET Stage /\ {s} # {} /\ First({s}) = s
  BY FirstIsFirst
<1>3. CASE OutsChanged(s)
  <2>1. /\ op' = AtStage(Command("add", {s}, FALSE, nocommit)) /\ op.kind = "none"
        /\ lock' = [lock EXCEPT ![s] = NoRecord] /\ budget' \in BudgetType
        /\ UNCHANGED <<ws, cache, strays, runs, cmd, uncommitted, vouched, meddled>>
    BY <1>1, <1>3, BudgetSpent DEF StartWith
  <2>2. lock' \in [Stage -> Record] /\ \A u \in Stage : lock'[u] \in {lock[u], NoRecord}
    BY <2>1, RecordOfNothing DEF Inv, TypeOK
  <2> QED
    BY <1>2, <2>1, <2>2, OtherStartKeeps
<1>4. CASE ~OutsChanged(s)
  <2> DEFINE mem == lock[s]
  <2>1. /\ op' = [kind |-> "commit", todo |-> {s}, phase |-> "commit", left |-> Outs[s],
                  mem |-> mem, linking |-> {}, broken |-> FALSE, garbage |-> {},
                  force |-> FALSE, nocommit |-> FALSE]
        /\ op.kind = "none" /\ budget' \in BudgetType
        /\ UNCHANGED <<ws, cache, strays, lock, runs, cmd, uncommitted, vouched, meddled>>
    BY <1>1, <1>4, BudgetSpent DEF Start, StartWith, EnterWith, Enter, Command
  <2>2. mem \in Record /\ Outs[s] \in SUBSET Path /\ Outs[s] \cap NoCache = {} /\ Deps[s] = {}
    BY StageAssumption DEF Inv, TypeOK
  <2>3. Shaped(s, mem)
    BY DEF Inv, Shapes
  <2>4. \A p \in Outs[s] : ws[p] = mem.outs[p] /\ mem.outs[p] # NoData /\ InCache(mem.outs[p])
    BY <1>4, <2>2 DEF OutsChanged, Differs
  <2> HIDE DEF mem
  <2>5. op'.linking = {}
    BY <2>1
  <2>6. op'.left = Outs[s]
    BY <2>1
  <2>7. op'.todo = {s}
    BY <2>1
  <2>8. op'.garbage = {}
    BY <2>1
  <2>9. op'.mem = mem
    BY <2>1
  <2>10. op'.kind = "commit" /\ op'.phase = "commit" /\ ~op'.broken /\ ~op'.nocommit
    BY <2>1
  <2>11. op' \in Op
    BY <2>1, <2>2 DEF Op, Phase
  <2>12. UNCHANGED <<ws, cache, strays, lock, runs, cmd, uncommitted, vouched, meddled>> /\ budget' \in BudgetType
    BY <2>1
  <2>13. s0' = s
    BY <1>2, <2>7 DEF s0
  <2> HIDE <2>1
  <2>14. TypeOK'
    BY <2>5, <2>10, <2>11, <2>12 DEF Inv, TypeOK, BudgetType
  <2>15. Phased'
    BY <2>2, <2>6, <2>7, <2>10, <2>13 DEF Phased
  <2>16. Linked' /\ Followed' /\ RunHeld'
    BY <2>5, <2>10, <2>13 DEF Linked, Followed, RunHeld
  <2>17. Shapes'
    BY <2>3, <2>9, <2>10, <2>12, <2>13 DEF Inv, Shapes, Shaped
  <2>18. Held'
    <3>1. mem.cmd = NoCmd
      BY <2>3 DEF Shaped
    <3> QED
      BY <2>2, <2>4, <2>5, <2>9, <2>12, <2>13, <3>1 DEF Held
  <2>19. Committed'
    BY <2>2, <2>6, <2>8, <2>10, <2>13 DEF Committed
  <2>20. CacheIntact' /\ LockedInCache' /\ RunsSound'
    BY <2>12 DEF Inv, CacheIntact, LockedInCache, RunsSound, InCache
  <2> QED
    BY <2>14, <2>15, <2>16, <2>17, <2>18, <2>19, <2>20 DEF Inv
<1> QED
  BY <1>3, <1>4

-----------------------------------------------------------------------------
(* A command goes on with its stage.                                       *)

Stays(n) ==
    /\ n \in Op /\ n.kind = op.kind /\ n.todo = op.todo /\ n.garbage = op.garbage
    /\ (n.force = op.force) /\ (n.nocommit = op.nocommit)

LEMMA OthersUnchanged ==
    ASSUME TypeOK, NEW s \in Stage, ws' \in [Path -> Data], lock' = lock, cmd' = cmd,
           \A p \in Path \ Outs[s] : ws'[p] = ws[p],
           NEW u \in Stage, Order[u] < Order[s]
    PROVE  EntriesChanged(u)' <=> EntriesChanged(u)
<1>1. u # s /\ Outs[u] \cap Outs[s] = {} /\ Deps[u] \cap Outs[s] = {}
  <2>1. Order[u] \in Nat /\ Order[s] \in Nat
    BY StageAssumption
  <2>2. u # s /\ ~(Order[s] < Order[u])
    BY <2>1
  <2> QED
    BY <2>2, StageAssumption
<1>2. Outs[u] \subseteq Path /\ Deps[u] \subseteq Path
  BY NoSelfLoop
<1>3. \A p \in Deps[u] \cup Outs[u] : ws'[p] = ws[p]
  BY <1>1, <1>2
<1> QED
  BY <1>3 DEF EntriesChanged, CmdChanged, Differs

LEMMA StayKeeps ==
    ASSUME Inv, op.kind \notin {"none", "gc"}, Stays(op'), op'.phase # "idle",
           op'.linking \subseteq op'.left,
           UNCHANGED <<strays, lock, cmd, uncommitted, meddled, budget>>,
           ws' \in [Path -> Data], \A p \in Path \ Outs[s0] : ws'[p] = ws[p],
           cache' \in [Content -> Data],
           \A h \in Content : cache[h] # NoData => cache'[h] # NoData,
           runs' \subseteq [stage : Stage, record : Record],
           vouched' \subseteq [stage : Stage, record : Record]
    PROVE  TypeOK' /\ Followed' /\ LockedInCache' /\ s0' = s0
<1>1. s0' = s0
  BY DEF Stays, s0
<1>2. TypeOK'
  BY DEF Inv, TypeOK, Stays
<1>3. LockedInCache'
  <2>1. \A s \in Stage, p \in Path : lock[s].outs[p] \in Data
    BY DEF Inv, TypeOK, Record
  <2> SUFFICES ASSUME NEW s \in Stage \ uncommitted, NEW p \in Outs[s] \ NoCache,
                      lock[s].outs[p] # NoData
               PROVE  InCache(lock[s].outs[p])'
    BY DEF LockedInCache
  <2>2. InCache(lock[s].outs[p])
    BY DEF Inv, LockedInCache
  <2>3. lock[s].outs[p] \in Content
    BY <2>1, NoSelfLoop DEF Data
  <2> QED
    BY <2>2, <2>3 DEF InCache
<1>4. Followed'
  <2> SUFFICES ASSUME op.kind = "repro", ~meddled
               PROVE  \E t \in op.todo :
                         /\ op.todo \subseteq Upstream(t)
                         /\ \A s \in Upstream(t) \ op.todo :
                               Order[s] < Order[s0] /\ ~EntriesChanged(s)'
    BY <1>1 DEF Followed, Stays
  <2>1. PICK t \in op.todo :
            /\ op.todo \subseteq Upstream(t)
            /\ \A s \in Upstream(t) \ op.todo : Order[s] < Order[s0] /\ ~EntriesChanged(s)
    BY DEF Inv, Followed
  <2>2. t \in Stage /\ s0 \in Stage
    BY InWork DEF Inv, TypeOK, Op
  <2>3. Upstream(t) \subseteq Stage
    BY <2>2, TargetIsUpstream
  <2>4. \A s \in Upstream(t) \ op.todo : ~EntriesChanged(s)'
    BY <2>1, <2>2, <2>3, OthersUnchanged DEF Inv
  <2> QED
    BY <2>1, <2>4
<1> QED
  BY <1>1, <1>2, <1>3, <1>4

-----------------------------------------------------------------------------
(* The next stage, or the end.                                             *)

LEMMA NextStageBegins ==
    ASSUME Inv, op.kind \notin {"none", "gc"}
    PROVE  \/ NextStage = Idle
           \/ /\ op.todo \ {s0} # {} /\ Begun(NextStage)
              /\ NextStage.kind = op.kind /\ NextStage.todo = op.todo \ {s0}
<1>1. CASE op.todo = {s0}
  BY <1>1 DEF NextStage
<1>2. CASE op.todo # {s0}
  <2>1. NextStage = AtStage(Command(op.kind, op.todo \ {s0}, op.force, op.nocommit))
    BY <1>2 DEF NextStage
  <2>2. op.todo \ {s0} # {} /\ op.todo \ {s0} \in SUBSET Stage
    BY <1>2, InWork DEF Inv, TypeOK, Op
  <2>3. op.kind \in {"repro", "checkout"}
    BY <1>2 DEF Inv, TypeOK, Op, Phased
  <2>4. op.force \in BOOLEAN /\ op.nocommit \in BOOLEAN /\ lock \in [Stage -> Record]
    BY DEF Inv, TypeOK, Op
  <2> DEFINE todo == op.todo \ {s0}
  <2> HIDE DEF todo
  <2>5. Begun(NextStage) /\ NextStage.kind = op.kind /\ NextStage.todo = todo
    BY <2>1, <2>2, <2>3, <2>4, AtStageBegins DEF todo
  <2> QED
    BY <2>2, <2>5 DEF todo
<1> QED
  BY <1>1, <1>2

(* The stage left behind is as recorded. *)
LEMMA FollowedNext ==
    ASSUME Inv, op.kind = "repro", op.todo \ {s0} # {}, meddled' = meddled,
           op'.todo = op.todo \ {s0}, NEW done, done = s0,
           ~meddled => /\ ~EntriesChanged(done)'
                       /\ \A u \in Stage : u # s0 /\ ~EntriesChanged(u) => ~EntriesChanged(u)'
    PROVE  Followed'
<1> SUFFICES ASSUME ~meddled PROVE Followed'
  BY DEF Followed
<1>1. PICK t \in op.todo :
          /\ op.todo \subseteq Upstream(t)
          /\ \A s \in Upstream(t) \ op.todo : Order[s] < Order[s0] /\ ~EntriesChanged(s)
  BY DEF Inv, Followed
<1>2. s0 \in op.todo /\ s0 \in Stage /\ \A u \in op.todo : Order[s0] <= Order[u]
  BY InWork
<1>3. op.todo \subseteq Stage /\ op'.todo \subseteq op.todo /\ op'.todo # {}
  BY DEF Inv, TypeOK, Op
<1>4. \A u \in Stage : Order[u] \in Nat
  BY StageAssumption
<1>5. t # s0
  <2> SUFFICES ASSUME t = s0 PROVE FALSE
    OBVIOUS
  <2>1. \A u \in op.todo : Order[u] <= Order[s0]
    BY <1>1, <1>3, UpstreamIsBefore
  <2>2. \A u \in op.todo : Order[u] = Order[s0]
    BY <1>2, <1>3, <1>4, <2>1
  <2>3. \A u \in op.todo : u = s0
    BY <1>2, <1>3, <2>2, StageAssumption
  <2> QED
    BY <1>3, <2>3
<1>6. s0' \in op'.todo
  BY <1>3, FirstIsFirst DEF s0
<1>7. Order[s0] < Order[s0']
  <2>1. s0' # s0 /\ s0' \in op.todo /\ s0' \in Stage
    BY <1>3, <1>6
  <2>2. Order[s0] <= Order[s0'] /\ Order[s0] # Order[s0']
    BY <1>2, <2>1, StageAssumption
  <2> QED
    BY <1>2, <1>4, <2>1, <2>2
<1>8. t \in op'.todo /\ op'.todo \subseteq Upstream(t) /\ Upstream(t) \subseteq Stage
  BY <1>1, <1>3, <1>5, TargetIsUpstream
<1>9. ASSUME NEW s \in Upstream(t) \ op'.todo
      PROVE  Order[s] < Order[s0'] /\ ~EntriesChanged(s)'
  <2>1. CASE s = s0
    BY <1>2, <1>7, <2>1
  <2>2. CASE s # s0
    <3>1. s \in Upstream(t) \ op.todo /\ s \in Stage
      BY <1>8, <2>2
    <3>2. Order[s] < Order[s0] /\ ~EntriesChanged(s)'
      BY <1>1, <2>2, <3>1
    <3>3. s0' \in Stage
      BY <1>3, <1>6
    <3> QED
      BY <1>2, <1>4, <1>7, <3>1, <3>2, <3>3
  <2> QED
    BY <2>1, <2>2
<1> QED
  BY <1>8, <1>9 DEF Followed

(* A stage is done, and nothing but the command has changed. *)
LEMMA NextStageKeeps ==
    ASSUME Inv, op.kind \notin {"none", "gc"}, op' = NextStage,
           op.kind = "repro" => ~EntriesChanged(s0),
           UNCHANGED <<ws, cache, strays, lock, runs, cmd, uncommitted, vouched, meddled, budget>>
    PROVE  Inv'
<1>1. budget' \in BudgetType
  BY DEF Inv, TypeOK, BudgetType
<1>2. CASE op' = Idle
  <2>1. ws' \in [Path -> Data] /\ strays' \subseteq Content
    BY DEF Inv, TypeOK
  <2> QED
    BY <1>1, <1>2, <2>1, EndKeeps
<1>3. CASE op' # Idle
  <2>1. op.todo \ {s0} # {} /\ Begun(op') /\ op'.kind = op.kind /\ op'.todo = op.todo \ {s0}
    BY <1>3, NextStageBegins
  <2>2. TypeOK'
    BY <2>1 DEF Inv, TypeOK, Begun
  <2>3. Shapes'
    BY <2>1 DEF Inv, Shapes, Shaped, Begun, Saving
  <2>4. CacheIntact' /\ LockedInCache' /\ RunsSound'
    BY DEF Inv, CacheIntact, LockedInCache, RunsSound, InCache
  <2>5. Followed'
    <3>1. CASE op.kind = "repro"
      <4>1. \A u \in Stage : EntriesChanged(u)' <=> EntriesChanged(u)
        BY DEF EntriesChanged, CmdChanged, Differs
      <4>2. s0 \in Stage
        BY InWork
      <4>3. PICK done \in Stage : done = s0
        BY <4>2
      <4>4. ~EntriesChanged(done)'
        BY <3>1, <4>1, <4>3
      <4> QED
        BY <2>1, <3>1, <4>1, <4>3, <4>4, FollowedNext
    <3>2. CASE op.kind # "repro"
      BY <2>1, <3>2 DEF Followed
    <3> QED
      BY <3>1, <3>2
  <2> QED
    BY <2>1, <2>2, <2>3, <2>4, <2>5, BegunKeeps DEF Inv
<1> QED
  BY <1>2, <1>3

LEMMA EndCheckoutKeeps ==
    ASSUME Inv, EndCheckout
    PROVE  Inv'
<1>1. op.kind = "checkout"
  BY DEF Inv, Phased, EndCheckout, Done, At
<1> QED
  BY <1>1, NextStageKeeps DEF EndCheckout

-----------------------------------------------------------------------------
(* repro of a stage.                                                       *)

(* A step that moves the command on, and nothing else. *)
LEMMA QuietKeeps ==
    ASSUME Inv, op.kind \notin {"none", "gc"}, Stays(op'), op'.phase # "idle",
           op'.linking \subseteq op'.left,
           UNCHANGED <<ws, cache, strays, lock, runs, cmd, uncommitted, vouched, meddled, budget>>
    PROVE  /\ TypeOK' /\ Followed' /\ LockedInCache' /\ CacheIntact' /\ RunsSound'
           /\ s0' = s0
           /\ op'.phase \notin Saving => Shapes'
<1>1. TypeOK' /\ Followed' /\ LockedInCache' /\ s0' = s0
  <2>1. TypeOK
    BY DEF Inv
  <2>2. /\ ws' \in [Path -> Data] /\ cache' \in [Content -> Data]
        /\ runs' \subseteq [stage : Stage, record : Record]
        /\ vouched' \subseteq [stage : Stage, record : Record]
    BY <2>1 DEF TypeOK
  <2> QED
    BY <2>2, StayKeeps
<1>2. CacheIntact' /\ RunsSound'
  BY DEF Inv, CacheIntact, RunsSound
<1>3. op'.phase \notin Saving => Shapes'
  BY DEF Inv, Shapes, Shaped
<1> QED
  BY <1>1, <1>2, <1>3

LEMMA CheckStageKeeps ==
    ASSUME Inv, CheckStage
    PROVE  Inv'
<1>1. /\ op.phase = "check" /\ op.linking = {} /\ op.left = {} /\ op.kind = "repro" /\ ~op.broken
      /\ UNCHANGED <<ws, cache, strays, lock, runs, cmd, uncommitted, vouched, meddled, budget>>
  BY DEF Inv, Phased, CheckStage, At
<1>2. op \in Op /\ s0 \in Stage /\ op.garbage = {}
  BY <1>1, InWork DEF Inv, TypeOK, Committed
<1>3. Outs[s0] \in SUBSET Path
  BY <1>2, NoSelfLoop
<1>4. CASE ~op.force /\ ~StageChanged(s0)
  <2>1. op' = NextStage
    BY <1>4 DEF CheckStage
  <2>2. ~EntriesChanged(s0)
    BY <1>4 DEF StageChanged, EntriesChanged, DepsChanged, OutsChanged
  <2> QED
    BY <1>1, <2>1, <2>2, NextStageKeeps
<1>5. CASE (op.force \/ StageChanged(s0)) /\ s0 \in HasCmd
  <2>1. op' = Enter(op, "remove", Outs[s0])
    BY <1>5 DEF CheckStage
  <2>2. /\ Stays(op') /\ op'.phase = "remove" /\ op'.left = Outs[s0] /\ op'.mem = op.mem
        /\ op'.linking = {} /\ ~op'.broken
    BY <1>1, <1>2, <1>3, <2>1, Entered DEF Stays, Phase
  <2>3. TypeOK' /\ Followed' /\ LockedInCache' /\ CacheIntact' /\ RunsSound' /\ s0' = s0 /\ Shapes'
    BY <1>1, <2>2, QuietKeeps DEF Saving
  <2>4. Phased'
    BY <1>1, <1>5, <2>2, <2>3 DEF Inv, Phased, Stays
  <2>5. Linked' /\ Held' /\ Committed' /\ RunHeld'
    BY <1>2, <2>2 DEF Linked, Held, Committed, RunHeld, Saving, Stays
  <2> QED
    BY <2>3, <2>4, <2>5 DEF Inv
<1>6. CASE (op.force \/ StageChanged(s0)) /\ s0 \notin HasCmd
  <2>1. op' = Enter(op, "save", {})
    BY <1>6 DEF CheckStage
  <2>2. /\ Stays(op') /\ op'.phase = "save" /\ op'.left = {} /\ op'.mem = op.mem
        /\ op'.linking = {} /\ ~op'.broken
    BY <1>1, <1>2, <2>1, Entered DEF Stays, Phase
  <2>3. TypeOK' /\ Followed' /\ LockedInCache' /\ CacheIntact' /\ RunsSound' /\ s0' = s0 /\ Shapes'
    BY <1>1, <2>2, QuietKeeps DEF Saving
  <2>4. Phased'
    BY <1>1, <1>6, <2>2, <2>3 DEF Inv, Phased, Stays
  <2>5. Linked' /\ Held' /\ Committed' /\ RunHeld'
    BY <1>2, <1>6, <2>2, <2>3 DEF Linked, Held, Committed, RunHeld, Saving, Stays
  <2> QED
    BY <2>3, <2>4, <2>5 DEF Inv
<1> QED
  BY <1>4, <1>5, <1>6

LEMMA RemoveOutKeeps ==
    ASSUME Inv, RemoveOut
    PROVE  Inv'
<1>1. /\ op.phase = "remove" /\ op.linking = {} /\ op.kind = "repro" /\ ~op.broken /\ s0 \in HasCmd
      /\ UNCHANGED <<cache, strays, lock, runs, cmd, uncommitted, vouched, meddled, budget>>
  BY DEF Inv, Phased, RemoveOut, At
<1>2. op \in Op /\ s0 \in Stage /\ op.garbage = {} /\ op.left \subseteq Outs[s0] /\ op.todo # {}
  BY <1>1, InWork DEF Inv, TypeOK, Committed, Phased
<1>3. PICK p \in op.left : ws' = [ws EXCEPT ![p] = NoData] /\ op' = Treated(op, p)
  BY DEF RemoveOut
<1>4. /\ Stays(op') /\ op'.phase = "remove" /\ op'.left = op.left \ {p} /\ op'.mem = op.mem
      /\ op'.linking = {} /\ ~op'.broken
  BY <1>1, <1>2, <1>3, OutTreated DEF Stays
<1>5. ws' \in [Path -> Data] /\ \A q \in Path \ Outs[s0] : ws'[q] = ws[q]
  BY <1>2, <1>3 DEF Inv, TypeOK, Data
<1>6. TypeOK' /\ Followed' /\ LockedInCache' /\ s0' = s0
  <2>1. /\ cache' \in [Content -> Data]
        /\ runs' \subseteq [stage : Stage, record : Record]
        /\ vouched' \subseteq [stage : Stage, record : Record]
    BY <1>1 DEF Inv, TypeOK
  <2> QED
    BY <1>1, <1>4, <1>5, <2>1, StayKeeps
<1>7. CacheIntact' /\ RunsSound'
  BY <1>1 DEF Inv, CacheIntact, RunsSound
<1>8. Phased'
  BY <1>1, <1>2, <1>4, <1>6 DEF Inv, Phased, Stays
<1>9. Linked' /\ Held' /\ Committed' /\ RunHeld'
  BY <1>2, <1>4 DEF Linked, Held, Committed, RunHeld, Saving, Stays
<1>10. Shapes'
  BY <1>1, <1>4 DEF Inv, Shapes, Shaped, Saving
<1> QED
  BY <1>6, <1>7, <1>8, <1>9, <1>10 DEF Inv

(* What can be restored was made of the dependencies as they are. *)
LEMMA RestorableIsSound ==
    ASSUME Inv, NEW s \in HasCmd, NEW r \in Restorable(s), ~MissingDeps(s)
    PROVE  /\ r \in Record /\ Shaped(s, r) /\ r.cmd = cmd[s] /\ r.deps = Only(ws, Deps[s])
           /\ ~meddled => Sound(s, r)
<1>1. s \in Stage /\ Deps[s] # {} /\ Deps[s] \subseteq Path
  BY StageAssumption
<1>2. CASE ~CmdChanged(s) /\ ~DepsChanged(s) /\ \A p \in Outs[s] : lock[s].outs[p] # NoData
  <2>1. r = lock[s]
    BY <1>2 DEF Restorable
  <2>2. r \in Record /\ Shaped(s, r)
    BY <1>1, <2>1 DEF Inv, TypeOK, Shapes
  <2>3. \A p \in Deps[s] : ws[p] # NoData /\ ws[p] = r.deps[p]
    BY <1>2, <2>1 DEF DepsChanged, Differs
  <2>4. r.cmd = cmd[s]
    <3>1. r # NoRecord
      BY <1>1, <2>3 DEF NoRecord, Nothing
    <3> QED
      BY <1>2, <2>1, <2>2, <3>1 DEF Shaped, CmdChanged
  <2>5. r.deps = Only(ws, Deps[s])
    <3>1. Only(r.deps, Deps[s]) = Only(ws, Deps[s])
      BY <2>3 DEF Only
    <3> QED
      BY <2>2, <3>1 DEF Shaped
  <2>6. ~meddled => Sound(s, r)
    <3>1. [stage |-> s, record |-> r] \in {[stage |-> u, record |-> lock[u]] : u \in HasCmd}
      BY <2>1
    <3> QED
      BY <3>1 DEF Inv, RunsSound, Sound
  <2> QED
    BY <2>2, <2>4, <2>5, <2>6
<1>3. CASE ~(~CmdChanged(s) /\ ~DepsChanged(s) /\ \A p \in Outs[s] : lock[s].outs[p] # NoData)
  <2>1. PICK e \in runs : /\ e.stage = s /\ e.record = r
                          /\ e.record.cmd = cmd[s] /\ e.record.deps = Only(ws, Deps[s])
    BY <1>3 DEF Restorable
  <2>2. r \in Record /\ Shaped(s, r)
    BY <2>1 DEF Inv, TypeOK, Shapes
  <2>3. e = [stage |-> s, record |-> r]
    BY <2>1 DEF Inv, TypeOK
  <2>4. ~meddled => Sound(s, r)
    BY <2>1, <2>3 DEF Inv, RunsSound, Sound
  <2> QED
    BY <2>1, <2>2, <2>4
<1> QED
  BY <1>2, <1>3

LEMMA RestoreKeeps ==
    ASSUME Inv, Restore
    PROVE  Inv'
<1>1. /\ op.phase = "remove" /\ op.linking = {} /\ op.left = {} /\ op.kind = "repro" /\ ~op.broken
      /\ s0 \in HasCmd /\ ~MissingDeps(s0)
      /\ UNCHANGED <<ws, cache, strays, lock, runs, cmd, uncommitted, vouched, meddled, budget>>
  BY DEF Inv, Phased, Restore, Done, At
<1>2. op \in Op /\ s0 \in Stage /\ op.garbage = {} /\ op.todo # {}
  BY <1>1, InWork DEF Inv, TypeOK, Committed, Phased
<1>3. Outs[s0] \in SUBSET Path
  BY <1>2, NoSelfLoop
<1>4. PICK r \in Restorable(s0) : op' = EnterWith(op, "restored", Outs[s0], r)
  BY DEF Restore
<1>5. /\ r \in Record /\ Shaped(s0, r) /\ r.cmd = cmd[s0] /\ r.deps = Only(ws, Deps[s0])
      /\ ~meddled => Sound(s0, r)
  BY <1>1, RestorableIsSound
<1>6. /\ Stays(op') /\ op'.phase = "restored" /\ op'.left = Outs[s0] /\ op'.mem = r
      /\ op'.linking = {} /\ ~op'.broken
  BY <1>1, <1>2, <1>3, <1>4, <1>5, EnteredWith DEF Stays, Phase
<1>7. TypeOK' /\ Followed' /\ LockedInCache' /\ CacheIntact' /\ RunsSound' /\ s0' = s0 /\ Shapes'
  BY <1>1, <1>6, QuietKeeps DEF Saving
<1>8. Phased'
  BY <1>1, <1>6, <1>7 DEF Inv, Phased, Stays
<1>9. Linked' /\ Held' /\ Committed'
  BY <1>2, <1>6 DEF Linked, Held, Committed, Saving, Stays
<1>10. RunHeld'
  <2>1. (op'.mem.cmd = cmd'[s0']) /\ (op'.mem.deps = Only(ws, Deps[s0])')
    BY <1>1, <1>5, <1>6, <1>7 DEF Only
  <2>2. ~meddled => Sound(s0, op.mem)' /\ Shaped(s0, op.mem)'
    BY <1>1, <1>5, <1>6, <1>7 DEF Sound, Genuine, Shaped
  <2> QED
    BY <1>1, <1>6, <1>7, <2>1, <2>2 DEF RunHeld, Saving
<1> QED
  BY <1>7, <1>8, <1>9, <1>10 DEF Inv

LEMMA StartRunKeeps ==
    ASSUME Inv, StartRun
    PROVE  Inv'
<1>1. /\ op.phase = "remove" /\ op.linking = {} /\ op.left = {} /\ op.kind = "repro" /\ ~op.broken
      /\ s0 \in HasCmd
      /\ UNCHANGED <<ws, cache, strays, lock, runs, cmd, uncommitted, vouched, meddled, budget>>
  BY DEF Inv, Phased, StartRun, Done, At
<1>2. op \in Op /\ s0 \in Stage /\ op.garbage = {} /\ op.todo # {}
  BY <1>1, InWork DEF Inv, TypeOK, Committed, Phased
<1>3. Outs[s0] \in SUBSET Path
  BY <1>2, NoSelfLoop
<1> DEFINE mem == [cmd |-> cmd[s0], deps |-> Only(ws, Deps[s0]), outs |-> Nothing]
<1>4. op' = EnterWith(op, "run", Outs[s0], mem)
  BY DEF StartRun
<1>5. mem \in Record /\ mem.cmd = cmd[s0] /\ mem.deps = Only(ws, Deps[s0])
  BY <1>2 DEF Record, Only, Nothing, Inv, TypeOK, Data
<1> HIDE DEF mem
<1>6. /\ Stays(op') /\ op'.phase = "run" /\ op'.left = Outs[s0] /\ op'.mem = mem
      /\ op'.linking = {} /\ ~op'.broken
  BY <1>1, <1>2, <1>3, <1>4, <1>5, EnteredWith DEF Stays, Phase
<1>7. TypeOK' /\ Followed' /\ LockedInCache' /\ CacheIntact' /\ RunsSound' /\ s0' = s0 /\ Shapes'
  BY <1>1, <1>6, QuietKeeps DEF Saving
<1>8. Phased'
  BY <1>1, <1>6, <1>7 DEF Inv, Phased, Stays
<1>9. Linked' /\ Held' /\ Committed'
  BY <1>2, <1>6 DEF Linked, Held, Committed, Saving, Stays
<1>10. RunHeld'
  <2>1. (op'.mem.cmd = cmd'[s0']) /\ (op'.mem.deps = Only(ws, Deps[s0])')
    BY <1>1, <1>5, <1>6, <1>7 DEF Only
  <2> QED
    BY <1>1, <1>6, <1>7, <2>1 DEF RunHeld, Saving
<1> QED
  BY <1>7, <1>8, <1>9, <1>10 DEF Inv

(* The command writes to an output what it makes of the dependencies. *)
LEMMA RunOutKeeps ==
    ASSUME Inv, RunOut
    PROVE  Inv'
<1>1. /\ op.phase = "run" /\ op.linking = {} /\ op.kind = "repro" /\ ~op.broken /\ s0 \in HasCmd
      /\ UNCHANGED <<cache, strays, lock, runs, cmd, uncommitted, vouched, meddled, budget>>
      /\ \A p \in Deps[s0] : op.mem.deps[p] # NoData
  BY DEF Inv, Phased, RunOut, At
<1>2. op \in Op /\ s0 \in Stage /\ op.garbage = {} /\ op.left \subseteq Outs[s0] /\ op.todo # {}
  BY <1>1, InWork DEF Inv, TypeOK, Committed, Phased
<1> DEFINE vals == [d \in Deps[s0] |-> op.mem.deps[d]]
           v(p) == Result(op.mem.cmd, p, vals)
<1>3. PICK p \in op.left : ws' = [ws EXCEPT ![p] = v(p)] /\ op' = Treated(op, p)
  BY DEF RunOut
<1>4. /\ Stays(op') /\ op'.phase = "run" /\ op'.left = op.left \ {p} /\ op'.mem = op.mem
      /\ op'.linking = {} /\ ~op'.broken
  <2> HIDE DEF v
  <2> QED
    BY <1>1, <1>2, <1>3, OutTreated DEF Stays
<1>5. op.mem.cmd = cmd[s0] /\ cmd[s0] \in Cmd
  BY <1>1, <1>2 DEF Inv, RunHeld, TypeOK
<1>6. vals \in [Deps[s0] -> Content]
  <2>1. op.mem.deps \in [Path -> Data] /\ Deps[s0] \subseteq Path
    BY <1>2, NoSelfLoop DEF Op, Record
  <2> QED
    BY <1>1, <2>1 DEF Data
<1>7. p \in Outs[s0] /\ p \in Path
  BY <1>2, <1>3, NoSelfLoop
<1>8. v(p) \in Content
  <2> HIDE DEF vals
  <2> QED
    BY <1>1, <1>5, <1>6, <1>7, ContentAssumption
<1>9. ws \in [Path -> Data] /\ ws' \in [Path -> Data] /\ ws'[p] = v(p)
      /\ \A q \in Path \ {p} : ws'[q] = ws[q]
  <2> HIDE DEF v
  <2> QED
    BY <1>3, <1>7, <1>8 DEF Inv, TypeOK, Data
<1>10. \A q \in Path \ Outs[s0] : ws'[q] = ws[q]
  BY <1>7, <1>9
<1>11. TypeOK' /\ Followed' /\ LockedInCache' /\ s0' = s0
  <2>1. /\ cache' \in [Content -> Data]
        /\ runs' \subseteq [stage : Stage, record : Record]
        /\ vouched' \subseteq [stage : Stage, record : Record]
    BY <1>1 DEF Inv, TypeOK
  <2> HIDE DEF v
  <2> QED
    BY <1>1, <1>4, <1>9, <1>10, <2>1, StayKeeps
<1>12. CacheIntact' /\ RunsSound'
  BY <1>1 DEF Inv, CacheIntact, RunsSound
<1>13. Phased'
  BY <1>1, <1>2, <1>4, <1>11 DEF Inv, Phased, Stays
<1>14. Linked' /\ Held' /\ Committed'
  BY <1>2, <1>4 DEF Linked, Held, Committed, Saving, Stays
<1>15. Shapes'
  BY <1>1, <1>4 DEF Inv, Shapes, Shaped, Saving
<1>16. RunHeld'
  <2>1. op'.mem.cmd = cmd'[s0']
    BY <1>1, <1>4, <1>5, <1>11
  <2>2. ASSUME ~meddled
        PROVE  /\ (op'.mem.deps = Only(ws', Deps[s0]))
               /\ \A q \in Outs[s0] \ op'.left :
                     ws'[q] = Result(cmd[s0], q, [d \in Deps[s0] |-> ws'[d]])
    <3>1. op.mem.deps = Only(ws, Deps[s0])
      BY <1>1, <2>2 DEF Inv, RunHeld
    <3>2. \A d \in Deps[s0] : d \in Path /\ ws'[d] = ws[d] /\ op.mem.deps[d] = ws[d]
      <4>1. \A d \in Deps[s0] : d \in Path /\ d # p
        BY <1>2, <1>7, NoSelfLoop
      <4> HIDE DEF v
      <4> QED
        BY <1>9, <3>1, <4>1 DEF Only
    <3>3. Only(ws', Deps[s0]) = Only(ws, Deps[s0])
      BY <3>2 DEF Only
    <3> DEFINE now == [d \in Deps[s0] |-> ws'[d]]
               before == [d \in Deps[s0] |-> ws[d]]
    <3>4. now = vals /\ before = vals
      BY <3>2
    <3>5. \A q \in Outs[s0] \ op.left : ws[q] = Result(cmd[s0], q, before)
      BY <1>1, <2>2 DEF Inv, RunHeld
    <3> HIDE DEF now, before, vals
    <3>6. ASSUME NEW q \in Outs[s0] \ op'.left
          PROVE  ws'[q] = Result(cmd[s0], q, now)
      <4>1. CASE q = p
        BY <1>5, <1>9, <3>4, <4>1
      <4>2. CASE q # p
        <5>1. q \in Outs[s0] \ op.left /\ q \in Path
          BY <1>2, <1>4, <4>2, NoSelfLoop
        <5> HIDE DEF v
        <5> QED
          BY <1>9, <3>4, <3>5, <4>2, <5>1
      <4> QED
        BY <4>1, <4>2
    <3> QED
      BY <1>4, <3>1, <3>3, <3>6 DEF now
  <2> QED
    BY <1>1, <1>4, <1>11, <2>1, <2>2 DEF RunHeld, Saving
<1> QED
  BY <1>11, <1>12, <1>13, <1>14, <1>15, <1>16 DEF Inv

(* What is saved after a run is what the command made; after a restore, it *)
(* is the record that was restored.                                        *)
LEMMA EndRunKeeps ==
    ASSUME Inv, EndRun
    PROVE  Inv'
<1>1. /\ op.phase \in {"run", "restored"} /\ op.linking = {} /\ op.left = {}
      /\ op.kind = "repro" /\ ~op.broken /\ s0 \in HasCmd
      /\ op' = Enter(op, "save", {})
      /\ UNCHANGED <<ws, cache, strays, lock, runs, cmd, uncommitted, vouched, meddled, budget>>
  BY DEF Inv, Phased, EndRun, Done, At
<1>2. op \in Op /\ s0 \in Stage /\ op.garbage = {} /\ op.todo # {}
  BY <1>1, InWork DEF Inv, TypeOK, Committed, Phased
<1>3. /\ Stays(op') /\ op'.phase = "save" /\ op'.left = {} /\ op'.mem = op.mem
      /\ op'.linking = {} /\ ~op'.broken
  BY <1>1, <1>2, Entered DEF Stays, Phase
<1>4. TypeOK' /\ Followed' /\ LockedInCache' /\ CacheIntact' /\ RunsSound' /\ s0' = s0 /\ Shapes'
  BY <1>1, <1>3, QuietKeeps DEF Saving
<1>5. Phased'
  BY <1>1, <1>3, <1>4 DEF Inv, Phased, Stays
<1>6. Linked' /\ Held' /\ Committed'
  BY <1>2, <1>3 DEF Linked, Held, Committed, Saving, Stays
<1>7. ASSUME ~meddled, ~MissingEntries(s0)
      PROVE  Sound(s0, Saved(s0))
  <2>1. Deps[s0] \subseteq Path /\ Outs[s0] \subseteq Path
    BY <1>2, NoSelfLoop
  <2>2. Saved(s0) = [cmd |-> cmd[s0], deps |-> Only(ws, Deps[s0]), outs |-> Only(ws, Outs[s0])]
    BY <1>1 DEF Saved
  <2>3. CASE op.phase = "run"
    <3> DEFINE r == Saved(s0)
    <3>1. \A p \in Outs[s0] : ws[p] = Result(cmd[s0], p, [d \in Deps[s0] |-> ws[d]])
      BY <1>1, <1>7, <2>3 DEF Inv, RunHeld
    <3>2. \A d \in Deps[s0] : r.deps[d] = ws[d]
      BY <2>1, <2>2 DEF Only
    <3>3. \A p \in Outs[s0] : r.outs[p] = ws[p]
      BY <2>1, <2>2 DEF Only
    <3>4. r.cmd = cmd[s0]
      BY <2>2
    <3> HIDE DEF r
    <3>5. [d \in Deps[s0] |-> r.deps[d]] = [d \in Deps[s0] |-> ws[d]]
      BY <3>2
    <3>6. Genuine(s0, r)
      BY <3>1, <3>3, <3>4, <3>5 DEF Genuine
    <3> QED
      BY <3>6 DEF Sound, r
  <2>4. CASE op.phase = "restored"
    <3>1. /\ Sound(s0, op.mem) /\ Shaped(s0, op.mem) /\ op.mem.cmd = cmd[s0]
          /\ op.mem.deps = Only(ws, Deps[s0])
          /\ \A p \in Outs[s0] : ws[p] \in {op.mem.outs[p], NoData}
      BY <1>1, <1>7, <2>4 DEF Inv, RunHeld
    <3>2. \A p \in Outs[s0] : ws[p] # NoData
      BY <1>7 DEF MissingEntries
    <3>3. Only(ws, Outs[s0]) = Only(op.mem.outs, Outs[s0])
      BY <3>1, <3>2 DEF Only
    <3>4. op.mem.outs = Only(ws, Outs[s0])
      BY <3>1, <3>3 DEF Shaped
    <3>5. op.mem = [cmd |-> op.mem.cmd, deps |-> op.mem.deps, outs |-> op.mem.outs]
      BY <1>2 DEF Op, Record
    <3>6. Saved(s0) = op.mem
      BY <2>2, <3>1, <3>4, <3>5
    <3> QED
      BY <3>1, <3>6
  <2> QED
    BY <1>1, <2>3, <2>4
<1>8. RunHeld'
  <2>1. MissingEntries(s0)' <=> MissingEntries(s0)
    BY <1>1, <1>4 DEF MissingEntries
  <2>2. Saved(s0)' = Saved(s0)
    BY <1>1, <1>4 DEF Saved, Only
  <2>3. Sound(s0, Saved(s0))' <=> Sound(s0, Saved(s0))
    BY <1>1, <1>4, <2>2 DEF Sound, Genuine
  <2> QED
    BY <1>1, <1>3, <1>4, <1>7, <2>1, <2>3 DEF RunHeld, Saving
<1> QED
  BY <1>4, <1>5, <1>6, <1>8 DEF Inv

LEMMA AbortKeeps ==
    ASSUME Inv, Abort
    PROVE  Inv'
BY EndKeeps DEF Abort, Inv, TypeOK, BudgetType

-----------------------------------------------------------------------------
(* Checkout and links.                                                     *)

LEMMA CheckoutOutKeeps ==
    ASSUME Inv, CheckoutOut
    PROVE  Inv'
<1>1. /\ op.phase \in {"restored", "checkout"} /\ op.linking = {} /\ ~op.broken
      /\ op.kind \in {"repro", "checkout"}
      /\ UNCHANGED <<cache, strays, lock, runs, cmd, uncommitted, vouched, meddled, budget>>
  BY DEF Inv, Phased, CheckoutOut, At
<1>2. op \in Op /\ s0 \in Stage /\ op.garbage = {} /\ op.left \subseteq Outs[s0] /\ op.todo # {}
  BY <1>1, InWork DEF Inv, TypeOK, Committed, Phased
<1>3. PICK p \in op.left : CheckoutDone(p) \/ CheckoutMissing(p) \/ CheckoutReplace(p)
  BY DEF CheckoutOut
<1>4. p \in Outs[s0] /\ p \in Path /\ Outs[s0] \subseteq Path
  BY <1>2, <1>3, NoSelfLoop
<1>5. /\ Stays(op') /\ op'.phase = op.phase /\ op'.mem = op.mem /\ ~op'.broken
      /\ \/ op'.left = op.left \ {p} /\ op'.linking = {} /\ ws'[p] \in {op.mem.outs[p], NoData}
         \/ op'.left = op.left /\ op'.linking = {p} /\ InCache(op.mem.outs[p])
      /\ ws' \in [Path -> Data] /\ \A q \in Path \ {p} : ws'[q] = ws[q]
  <2>1. ws \in [Path -> Data]
    BY DEF Inv, TypeOK
  <2>2. CASE CheckoutDone(p)
    <3>1. op' = Treated(op, p) /\ ws' = ws /\ ws[p] = op.mem.outs[p]
      BY <2>2 DEF CheckoutDone
    <3> QED
      BY <1>1, <1>2, <2>1, <3>1, OutTreated DEF Stays
  <2>3. CASE CheckoutMissing(p)
    <3>1. op' = Treated(op, p) /\ ws' = [ws EXCEPT ![p] = NoData]
      BY <2>3 DEF CheckoutMissing
    <3>2. ws' \in [Path -> Data] /\ ws'[p] = NoData /\ \A q \in Path \ {p} : ws'[q] = ws[q]
      BY <1>4, <2>1, <3>1 DEF Data
    <3>3. /\ Stays(op') /\ op'.phase = op.phase /\ op'.mem = op.mem /\ ~op'.broken
          /\ op'.left = op.left \ {p} /\ op'.linking = {}
      BY <1>1, <1>2, <3>1, OutTreated DEF Stays
    <3> QED
      BY <3>2, <3>3
  <2>4. CASE CheckoutReplace(p)
    <3>1. /\ op' = [op EXCEPT !.linking = {p}] /\ ws' = [ws EXCEPT ![p] = NoData]
          /\ InCache(op.mem.outs[p])
      BY <2>4 DEF CheckoutReplace
    <3>2. ws' \in [Path -> Data] /\ \A q \in Path \ {p} : ws'[q] = ws[q]
      BY <1>4, <2>1, <3>1 DEF Data
    <3>3. {p} \in SUBSET Path
      BY <1>4
    <3>4. /\ Stays(op') /\ op'.phase = op.phase /\ op'.mem = op.mem /\ ~op'.broken
          /\ op'.left = op.left /\ op'.linking = {p}
      <4>1. op' = [op EXCEPT !.linking = {p}]
        BY <3>1
      <4>2. /\ op' \in Op
            /\ (op'.kind = op.kind) /\ (op'.todo = op.todo) /\ (op'.phase = op.phase)
            /\ (op'.left = op.left) /\ (op'.mem = op.mem) /\ (op'.linking = {p})
            /\ (op'.broken = op.broken) /\ (op'.garbage = op.garbage)
            /\ (op'.force = op.force) /\ (op'.nocommit = op.nocommit)
        BY <1>2, <3>3, <4>1, LinkingNow
      <4> QED
        BY <1>1, <4>2 DEF Stays
    <3> QED
      BY <3>1, <3>2, <3>4
  <2> QED
    BY <1>3, <2>2, <2>3, <2>4
<1>6. op'.linking \subseteq op'.left /\ \A q \in Path \ Outs[s0] : ws'[q] = ws[q]
  BY <1>3, <1>4, <1>5
<1>7. TypeOK' /\ Followed' /\ LockedInCache' /\ s0' = s0
  <2>1. /\ cache' \in [Content -> Data]
        /\ runs' \subseteq [stage : Stage, record : Record]
        /\ vouched' \subseteq [stage : Stage, record : Record]
    BY <1>1 DEF Inv, TypeOK
  <2> QED
    BY <1>1, <1>5, <1>6, <2>1, StayKeeps
<1>8. CacheIntact' /\ RunsSound'
  BY <1>1 DEF Inv, CacheIntact, RunsSound
<1>9. op'.left \subseteq op.left
  BY <1>5
<1>10. Phased'
  BY <1>1, <1>2, <1>5, <1>7, <1>9 DEF Inv, Phased, Stays
<1>11. Linked'
  BY <1>1, <1>5 DEF Linked, InCache
<1>12. Held' /\ Committed'
  BY <1>1, <1>2, <1>5 DEF Held, Committed, Saving, Stays
<1>13. Shapes'
  BY <1>1, <1>5 DEF Inv, Shapes, Shaped, Saving
<1>14. RunHeld'
  <2>1. op.phase = "restored" => op'.mem.cmd = cmd'[s0']
    BY <1>1, <1>5, <1>7 DEF Inv, RunHeld
  <2>2. ASSUME ~meddled, op.phase = "restored"
        PROVE  /\ Sound(s0, op.mem)' /\ Shaped(s0, op.mem)'
               /\ op'.mem.deps = Only(ws', Deps[s0])
               /\ \A q \in Outs[s0] \ op'.left : ws'[q] \in {op'.mem.outs[q], NoData}
    <3>1. /\ Sound(s0, op.mem) /\ Shaped(s0, op.mem) /\ op.mem.deps = Only(ws, Deps[s0])
          /\ \A q \in Outs[s0] \ op.left : ws[q] \in {op.mem.outs[q], NoData}
      BY <2>2 DEF Inv, RunHeld
    <3>2. Only(ws', Deps[s0]) = Only(ws, Deps[s0])
      <4>1. \A d \in Deps[s0] : d \in Path \ {p}
        BY <1>2, <1>4, NoSelfLoop
      <4>2. \A d \in Deps[s0] : ws'[d] = ws[d]
        BY <1>5, <4>1
      <4> QED
        BY <4>2 DEF Only
    <3>3. Sound(s0, op.mem)' /\ Shaped(s0, op.mem)'
      BY <1>1, <1>5, <1>7, <3>1 DEF Sound, Genuine, Shaped
    <3>4. ASSUME NEW q \in Outs[s0] \ op'.left
          PROVE  ws'[q] \in {op'.mem.outs[q], NoData}
      <4>1. CASE q = p
        BY <1>3, <1>5, <3>4, <4>1
      <4>2. CASE q # p
        <5>1. q \notin op.left /\ q \in Path
          BY <1>4, <1>5, <3>4, <4>2
        <5> QED
          BY <1>5, <3>1, <3>4, <4>2, <5>1
      <4> QED
        BY <4>1, <4>2
    <3> QED
      BY <1>5, <3>1, <3>2, <3>3, <3>4
  <2>3. op'.phase \notin Saving \cup {"run", "save"}
    BY <1>1, <1>5 DEF Saving
  <2> QED
    BY <1>1, <1>5, <1>7, <2>1, <2>2, <2>3 DEF RunHeld
<1> QED
  BY <1>7, <1>8, <1>10, <1>11, <1>12, <1>13, <1>14 DEF Inv

LEMMA LinkOutKeeps ==
    ASSUME Inv, LinkOut
    PROVE  Inv'
<1>1. PICK p \in op.linking :
          /\ ws' = [ws EXCEPT ![p] = cache[op.mem.outs[p]]]
          /\ op' = Treated(op, p)
  BY DEF LinkOut
<1>2. /\ op.phase \in {"restored", "checkout", "runcache", "commit"}
      /\ op.kind \notin {"none", "gc"} /\ op.linking = {p} /\ p \in op.left
      /\ UNCHANGED <<cache, strays, lock, runs, cmd, uncommitted, vouched, meddled, budget>>
  BY <1>1 DEF Inv, Linked, Phased, LinkOut, TypeOK
<1>3. op \in Op /\ s0 \in Stage /\ op.garbage = {} /\ op.left \subseteq Outs[s0] /\ op.todo # {}
  BY <1>2, InWork DEF Inv, TypeOK, Committed, Phased
<1>4. p \in Outs[s0] /\ p \in Path /\ Outs[s0] \subseteq Path /\ p \notin Deps[s0]
  BY <1>2, <1>3, NoSelfLoop
<1> DEFINE h == op.mem.outs[p]
<1>5. h \in Content /\ cache[h] # NoData /\ cache[h] \in Data /\ ws \in [Path -> Data]
  BY <1>2, <1>3, <1>4 DEF Inv, Linked, InCache, TypeOK, Op, Record, Data
<1>6. ~meddled => cache[h] = h
  BY <1>5 DEF Inv, CacheIntact
<1>7. /\ Stays(op') /\ op'.phase = op.phase /\ op'.mem = op.mem /\ (op'.broken <=> op.broken)
      /\ op'.left = op.left \ {p} /\ op'.linking = {}
  BY <1>1, <1>3, OutTreated DEF Stays
<1>8. ws' \in [Path -> Data] /\ ws'[p] = cache[h] /\ \A q \in Path \ {p} : ws'[q] = ws[q]
  <2> HIDE DEF h
  <2> QED
    BY <1>1, <1>4, <1>5 DEF h
<1> HIDE DEF h
<1>9. TypeOK' /\ Followed' /\ LockedInCache' /\ s0' = s0
  <2>1. /\ cache' \in [Content -> Data]
        /\ runs' \subseteq [stage : Stage, record : Record]
        /\ vouched' \subseteq [stage : Stage, record : Record]
    BY <1>2 DEF Inv, TypeOK
  <2>2. \A q \in Path \ Outs[s0] : ws'[q] = ws[q]
    BY <1>4, <1>8
  <2> QED
    BY <1>2, <1>7, <1>8, <2>1, <2>2, StayKeeps
<1>10. CacheIntact' /\ RunsSound'
  BY <1>2 DEF Inv, CacheIntact, RunsSound
<1>11. Phased'
  BY <1>2, <1>3, <1>7, <1>9 DEF Inv, Phased, Stays
<1>12. Linked'
  BY <1>7 DEF Linked
<1>13. Shapes'
  BY <1>2, <1>7, <1>9 DEF Inv, Shapes, Shaped, Saving
<1>14. Held'
  <2> SUFFICES ASSUME op.phase \in Saving
               PROVE  /\ \A q \in Outs[s0] : op.mem.outs[q] # NoData
                      /\ op.mem.cmd \in {NoCmd, cmd[s0]}
                      /\ ~meddled =>
                          /\ \A q \in Deps[s0] : op.mem.deps[q] # NoData /\ ws'[q] = op.mem.deps[q]
                          /\ \A q \in Outs[s0] : \/ ws'[q] = op.mem.outs[q]
                                                 \/ op.broken /\ q \notin op'.left
    BY <1>2, <1>7, <1>9 DEF Held
  <2>1. /\ \A q \in Outs[s0] : op.mem.outs[q] # NoData
        /\ op.mem.cmd \in {NoCmd, cmd[s0]}
    BY DEF Inv, Held
  <2>2. ASSUME ~meddled
        PROVE  /\ \A q \in Deps[s0] : op.mem.deps[q] # NoData /\ ws'[q] = op.mem.deps[q]
               /\ \A q \in Outs[s0] : \/ ws'[q] = op.mem.outs[q]
                                      \/ op.broken /\ q \notin op'.left
    <3>1. /\ \A q \in Deps[s0] : op.mem.deps[q] # NoData /\ ws[q] = op.mem.deps[q]
          /\ \A q \in Outs[s0] \ {p} : \/ ws[q] = op.mem.outs[q]
                                       \/ op.broken /\ q \notin op.left
      BY <1>2, <2>2 DEF Inv, Held
    <3>2. ws'[p] = op.mem.outs[p]
      BY <1>6, <1>8, <2>2 DEF h
    <3>3. \A q \in Deps[s0] : q \in Path \ {p}
      BY <1>3, <1>4, NoSelfLoop
    <3> QED
      BY <1>4, <1>7, <1>8, <3>1, <3>2, <3>3
  <2> QED
    BY <2>1, <2>2
<1>15. Committed'
  <2>1. op.phase = "commit" => \A q \in Outs[s0] \ NoCache : q \in op'.left \/ InCache(op.mem.outs[q])'
    <3>1. InCache(op.mem.outs[p])
      BY <1>2 DEF Inv, Linked
    <3> QED
      BY <1>2, <1>7, <3>1 DEF Inv, Committed, InCache
  <2>2. op.phase # "dump"
    BY <1>2
  <2> QED
    BY <1>3, <1>7, <1>9, <2>1, <2>2 DEF Committed, Stays
<1>16. RunHeld'
  <2>1. op.phase = "restored" => op'.mem.cmd = cmd'[s0']
    BY <1>2, <1>7, <1>9 DEF Inv, RunHeld
  <2>2. ASSUME ~meddled, op.phase = "restored"
        PROVE  /\ Sound(s0, op.mem)' /\ Shaped(s0, op.mem)'
               /\ op'.mem.deps = Only(ws', Deps[s0])
               /\ \A q \in Outs[s0] \ op'.left : ws'[q] \in {op'.mem.outs[q], NoData}
    <3>1. /\ Sound(s0, op.mem) /\ Shaped(s0, op.mem) /\ op.mem.deps = Only(ws, Deps[s0])
          /\ \A q \in Outs[s0] \ op.left : ws[q] \in {op.mem.outs[q], NoData}
      BY <2>2 DEF Inv, RunHeld
    <3>2. Only(ws', Deps[s0]) = Only(ws, Deps[s0])
      <4>1. \A d \in Deps[s0] : d \in Path \ {p}
        BY <1>3, <1>4, NoSelfLoop
      <4>2. \A d \in Deps[s0] : ws'[d] = ws[d]
        BY <1>8, <4>1
      <4> QED
        BY <4>2 DEF Only
    <3>3. Sound(s0, op.mem)' /\ Shaped(s0, op.mem)'
      BY <1>2, <1>7, <1>9, <3>1 DEF Sound, Genuine, Shaped
    <3>4. ASSUME NEW q \in Outs[s0] \ op'.left
          PROVE  ws'[q] \in {op'.mem.outs[q], NoData}
      <4>1. CASE q = p
        BY <1>6, <1>7, <1>8, <2>2, <4>1 DEF h
      <4>2. CASE q # p
        <5>1. q \notin op.left /\ q \in Path
          BY <1>4, <1>7, <3>4, <4>2
        <5> QED
          BY <1>7, <1>8, <3>1, <3>4, <4>2, <5>1
      <4> QED
        BY <4>1, <4>2
    <3> QED
      BY <1>7, <3>1, <3>2, <3>3, <3>4
  <2>3. ASSUME ~meddled, op.phase \in Saving, s0 \in HasCmd
        PROVE  Sound(s0, op.mem)'
    <3>1. Sound(s0, op.mem)
      BY <2>3 DEF Inv, RunHeld
    <3> QED
      BY <1>2, <1>7, <1>9, <3>1 DEF Sound, Genuine
  <2>4. op'.phase \notin {"run", "save"}
    BY <1>2, <1>7
  <2> QED
    BY <1>2, <1>7, <1>9, <2>1, <2>2, <2>3, <2>4 DEF RunHeld
<1> QED
  BY <1>9, <1>10, <1>11, <1>12, <1>13, <1>14, <1>15, <1>16 DEF Inv

LEMMA LinkFailsKeeps ==
    ASSUME Inv, LinkFails
    PROVE  Inv'
<1>1. CASE op.phase # "commit"
  BY <1>1, AbortKeeps DEF LinkFails
<1>2. CASE op.phase = "commit"
  <2>1. PICK p : op.linking = {p}
    BY DEF Inv, Linked, LinkFails
  <2>2. /\ op' = [Treated(op, p) EXCEPT !.broken = TRUE]
        /\ op.kind \in {"add", "commit", "repro"} /\ p \in op.left
        /\ UNCHANGED <<ws, cache, strays, lock, runs, cmd, uncommitted, vouched, meddled, budget>>
    BY <1>2, <2>1 DEF Inv, TypeOK, Op, Phased, LinkFails
  <2>3. op \in Op /\ s0 \in Stage /\ op.garbage = {} /\ op.left \subseteq Outs[s0] /\ op.todo # {}
    BY <1>2, <2>2, InWork DEF Inv, TypeOK, Committed, Phased
  <2>4. /\ Stays(op') /\ op'.phase = "commit" /\ op'.mem = op.mem /\ op'.broken
        /\ op'.left = op.left \ {p} /\ op'.linking = {}
    <3> DEFINE t == Treated(op, p)
    <3>1. /\ t \in Op /\ t.kind = op.kind /\ t.todo = op.todo /\ t.garbage = op.garbage
          /\ (t.force = op.force) /\ (t.nocommit = op.nocommit)
          /\ t.phase = "commit" /\ t.mem = op.mem /\ t.left = op.left \ {p} /\ t.linking = {}
      BY <1>2, <2>3, OutTreated
    <3>2. op' = [t EXCEPT !.broken = TRUE]
      BY <2>2
    <3> HIDE DEF t
    <3> QED
      BY <3>1, <3>2, LinkBroken DEF Stays
  <2>5. TypeOK' /\ Followed' /\ LockedInCache' /\ CacheIntact' /\ RunsSound' /\ s0' = s0
    BY <2>2, <2>4, QuietKeeps
  <2>6. Phased'
    BY <1>2, <2>2, <2>3, <2>4, <2>5 DEF Inv, Phased, Stays
  <2>7. Linked'
    BY <2>4 DEF Linked
  <2>8. Shapes'
    BY <1>2, <2>2, <2>4, <2>5 DEF Inv, Shapes, Shaped, Saving
  <2>9. Held'
    <3>1. op.phase \in Saving
      BY <1>2 DEF Saving
    <3>2. /\ \A q \in Outs[s0] : op.mem.outs[q] # NoData
          /\ op.mem.cmd \in {NoCmd, cmd[s0]}
          /\ ~meddled =>
              /\ \A q \in Deps[s0] : op.mem.deps[q] # NoData /\ ws[q] = op.mem.deps[q]
              /\ \A q \in Outs[s0] \ {p} :
                    ws[q] = op.mem.outs[q] \/ (op.broken /\ q \notin op.left)
      BY <2>1, <3>1 DEF Inv, Held
    <3> QED
      BY <2>2, <2>4, <2>5, <3>2 DEF Held
  <2>10. Committed'
    <3>1. InCache(op.mem.outs[p])
      BY <2>1 DEF Inv, Linked
    <3>2. \A q \in Outs[s0] \ NoCache : q \in op'.left \/ InCache(op.mem.outs[q])
      BY <1>2, <2>4, <3>1 DEF Inv, Committed
    <3> QED
      BY <2>2, <2>3, <2>4, <2>5, <3>2 DEF Committed, InCache, Stays
  <2>11. RunHeld'
    <3>1. ASSUME ~meddled, s0 \in HasCmd
          PROVE  Sound(s0, op.mem)'
      <4>1. Sound(s0, op.mem)
        BY <1>2, <3>1 DEF Inv, RunHeld, Saving
      <4> QED
        BY <2>2, <2>4, <2>5, <4>1 DEF Sound, Genuine
    <3> QED
      BY <2>2, <2>4, <2>5, <3>1 DEF RunHeld
  <2> QED
    BY <2>5, <2>6, <2>7, <2>8, <2>9, <2>10, <2>11 DEF Inv
<1> QED
  BY <1>1, <1>2

LEMMA CommitOutKeeps ==
    ASSUME Inv, CommitOut
    PROVE  Inv'
<1>1. /\ op.phase \in {"commit", "runcache"} /\ op.linking = {}
      /\ op.kind \in {"repro", "commit", "add"}
      /\ UNCHANGED <<strays, lock, runs, cmd, uncommitted, vouched, meddled, budget>>
  BY DEF Inv, Phased, CommitOut, At, TypeOK, Op
<1>2. op \in Op /\ s0 \in Stage /\ op.garbage = {} /\ op.left \subseteq Outs[s0] /\ op.todo # {}
  BY <1>1, InWork DEF Inv, TypeOK, Committed, Phased
<1>3. PICK p \in op.left :
          /\ ws[p] # NoData
          /\ \/ /\ ~InCache(op.mem.outs[p])
                /\ cache' = [cache EXCEPT ![op.mem.outs[p]] = ws[p]]
                /\ ws' = [ws EXCEPT ![p] = NoData]
                /\ op' = [op EXCEPT !.linking = {p}]
             \/ /\ InCache(op.mem.outs[p])
                /\ ws' = [ws EXCEPT ![p] = NoData]
                /\ op' = [op EXCEPT !.linking = {p}]
                /\ UNCHANGED cache
             \/ /\ InCache(op.mem.outs[p])
                /\ op' = Treated(op, p)
                /\ UNCHANGED <<ws, cache>>
  BY DEF CommitOut
<1>4. p \in Outs[s0] /\ p \in Path /\ Outs[s0] \subseteq Path /\ p \notin Deps[s0] /\ {p} \in SUBSET Path
  BY <1>2, <1>3, NoSelfLoop
<1>5. op.phase \in Saving
  BY <1>1 DEF Saving
<1>6. /\ \A q \in Outs[s0] : op.mem.outs[q] # NoData
      /\ op.mem.cmd \in {NoCmd, cmd[s0]}
      /\ ~meddled =>
          /\ \A q \in Deps[s0] : op.mem.deps[q] # NoData /\ ws[q] = op.mem.deps[q]
          /\ \A q \in Outs[s0] : ws[q] = op.mem.outs[q] \/ (op.broken /\ q \notin op.left)
  BY <1>1, <1>5 DEF Inv, Held
<1> DEFINE h == op.mem.outs[p]
<1>7. h \in Content /\ ws[p] \in Content /\ ws \in [Path -> Data] /\ cache \in [Content -> Data]
      /\ (~meddled => ws[p] = h)
  BY <1>2, <1>3, <1>4, <1>6 DEF Inv, TypeOK, Op, Record, Data
<1>8. InCache(h) <=> cache[h] # NoData
  BY <1>7, ContentAssumption DEF InCache
<1> HIDE DEF h
<1>9. /\ cache' \in [Content -> Data] /\ cache'[h] # NoData
      /\ \A g \in Content : cache[g] # NoData => cache'[g] # NoData
      /\ \A g \in Content : cache'[g] = cache[g] \/ (g = h /\ cache'[g] = ws[p])
  <2>1. CASE cache' = cache
    BY <1>3, <1>7, <1>8, <2>1, ContentAssumption DEF h
  <2>2. CASE cache' = [cache EXCEPT ![h] = ws[p]]
    BY <1>7, <2>2, ContentAssumption DEF Data
  <2> QED
    BY <1>3, <2>1, <2>2 DEF h
<1>10. /\ Stays(op') /\ op'.phase = op.phase /\ op'.mem = op.mem /\ (op'.broken <=> op.broken)
       /\ \/ op'.left = op.left \ {p} /\ op'.linking = {} /\ ws' = ws /\ InCache(h)
          \/ op'.left = op.left /\ op'.linking = {p} /\ ws' = [ws EXCEPT ![p] = NoData]
  <2>1. CASE op' = Treated(op, p)
    <3>1. /\ Stays(op') /\ op'.phase = op.phase /\ op'.mem = op.mem /\ (op'.broken <=> op.broken)
          /\ op'.left = op.left \ {p} /\ op'.linking = {}
      BY <1>2, <2>1, OutTreated DEF Stays
    <3>2. op'.linking # {p}
      BY <3>1
    <3>3. op' # [op EXCEPT !.linking = {p}]
      <4> SUFFICES ASSUME op' = [op EXCEPT !.linking = {p}] PROVE op'.linking = {p}
        BY <3>2
      <4> QED
        BY <1>2, <1>4, LinkingNow
    <3> QED
      BY <1>3, <3>1, <3>3 DEF h
  <2>2. CASE op' = [op EXCEPT !.linking = {p}]
    <3>1. /\ Stays(op') /\ op'.phase = op.phase /\ op'.mem = op.mem /\ (op'.broken <=> op.broken)
          /\ op'.left = op.left /\ op'.linking = {p}
      BY <1>2, <1>4, <2>2, LinkingNow DEF Stays
    <3>2. op' # Treated(op, p)
      BY <1>2, <3>1, OutTreated
    <3> QED
      BY <1>3, <3>1, <3>2
  <2> QED
    BY <1>3, <2>1, <2>2
<1>11. ws' \in [Path -> Data] /\ \A q \in Path \ {p} : ws'[q] = ws[q]
  BY <1>4, <1>7, <1>10 DEF Data
<1>12. op'.linking \subseteq op'.left
  BY <1>3, <1>10
<1>13. TypeOK' /\ Followed' /\ LockedInCache' /\ s0' = s0
  <2>1. /\ runs' \subseteq [stage : Stage, record : Record]
        /\ vouched' \subseteq [stage : Stage, record : Record]
    BY <1>1 DEF Inv, TypeOK
  <2>2. \A q \in Path \ Outs[s0] : ws'[q] = ws[q]
    BY <1>4, <1>11
  <2> QED
    BY <1>1, <1>9, <1>10, <1>11, <1>12, <2>1, <2>2, StayKeeps
<1>14. CacheIntact'
  <2> SUFFICES ASSUME ~meddled, NEW g \in Content PROVE cache'[g] \in {NoData, g}
    BY <1>1 DEF CacheIntact
  <2>1. cache[g] \in {NoData, g}
    BY DEF Inv, CacheIntact
  <2> QED
    BY <1>7, <1>9, <2>1
<1>15. RunsSound'
  BY <1>1 DEF Inv, RunsSound
<1>16. op'.left \subseteq op.left
  BY <1>10
<1>17. Phased'
  BY <1>1, <1>2, <1>10, <1>13, <1>16 DEF Inv, Phased, Stays
<1>18. InCache(op.mem.outs[p])'
  BY <1>7, <1>9, <1>10, ContentAssumption DEF InCache, h
<1>19. Linked'
  BY <1>1, <1>10, <1>18 DEF Linked, InCache
<1>20. Shapes'
  BY <1>1, <1>5, <1>10, <1>13 DEF Inv, Shapes, Shaped
<1>21. Held'
  <2>1. \A q \in Deps[s0] : q \in Path \ {p}
    BY <1>2, <1>4, NoSelfLoop
  <2>2. ~meddled =>
          /\ \A q \in Deps[s0] : op.mem.deps[q] # NoData /\ ws'[q] = op.mem.deps[q]
          /\ \A q \in Outs[s0] \ op'.linking :
                ws'[q] = op.mem.outs[q] \/ (op.broken /\ q \notin op'.left)
    BY <1>4, <1>6, <1>10, <1>11, <2>1
  <2> QED
    BY <1>1, <1>6, <1>10, <1>13, <2>2 DEF Held
<1>22. Committed'
  <2>1. op.phase = "commit" => \A q \in Outs[s0] \ NoCache : q \in op'.left \/ InCache(op.mem.outs[q])'
    <3> SUFFICES ASSUME op.phase = "commit", NEW q \in Outs[s0] \ NoCache, q \notin op'.left
                 PROVE  InCache(op.mem.outs[q])'
      OBVIOUS
    <3>1. CASE q = p
      BY <1>18, <3>1
    <3>2. CASE q # p
      <4>1. q \notin op.left
        BY <1>10, <3>2
      <4>2. InCache(op.mem.outs[q])
        BY <4>1 DEF Inv, Committed
      <4>3. op.mem.outs[q] \in Content
        BY <1>2, <1>4, <1>6 DEF Op, Record, Data
      <4> QED
        BY <1>9, <1>10, <4>2, <4>3 DEF InCache
    <3> QED
      BY <3>1, <3>2
  <2>2. op'.phase # "dump" /\ op'.garbage = {}
    BY <1>1, <1>2, <1>10 DEF Stays
  <2> QED
    BY <1>10, <1>13, <2>1, <2>2 DEF Committed, InCache
<1>23. RunHeld'
  <2>1. ASSUME ~meddled, s0 \in HasCmd
        PROVE  Sound(s0, op.mem)'
    <3>1. Sound(s0, op.mem)
      BY <1>5, <2>1 DEF Inv, RunHeld
    <3> QED
      BY <1>1, <1>10, <1>13, <3>1 DEF Sound, Genuine
  <2> QED
    BY <1>1, <1>10, <1>13, <2>1 DEF RunHeld
<1> QED
  BY <1>13, <1>14, <1>15, <1>17, <1>19, <1>20, <1>21, <1>22, <1>23 DEF Inv

-----------------------------------------------------------------------------
(* Saving a stage.                                                         *)

(* The command goes on to commit and record a stage whose object holds what *)
(* is in the workspace.                                                    *)
LEMMA HeldNow ==
    ASSUME Inv, op.kind \in {"repro", "commit", "add"}, Stays(op'),
           op'.linking = {}, ~op'.broken, NEW m \in Record, op'.mem = m, Shaped(s0, m),
           \A p \in Outs[s0] : m.outs[p] # NoData,
           m.cmd \in {NoCmd, cmd[s0]},
           ~meddled => /\ \A p \in Deps[s0] : m.deps[p] # NoData /\ ws[p] = m.deps[p]
                       /\ \A p \in Outs[s0] : ws[p] = m.outs[p],
           ~meddled /\ s0 \in HasCmd =>
               Genuine(s0, m) \/ m = NoRecord \/ [stage |-> s0, record |-> m] \in vouched',
           \/ op'.phase = "runcache" /\ op'.left = Outs[s0] \cap NoCache /\ s0 \in HasCmd
           \/ op'.phase = "commit" /\ op'.left = Outs[s0] \ NoCache
           \/ op'.phase = "dump" /\ op'.left = {} /\ op.nocommit,
           runs \subseteq runs', runs' \subseteq runs \cup {[stage |-> s0, record |-> m]},
           runs' = runs \/ s0 \in HasCmd,
           vouched \subseteq vouched', vouched' \subseteq [stage : Stage, record : Record],
           UNCHANGED <<ws, cache, strays, lock, cmd, uncommitted, meddled, budget>>
    PROVE  Inv'
<1>1. op \in Op /\ s0 \in Stage /\ op.garbage = {} /\ op.todo # {}
  BY InWork DEF Inv, TypeOK, Committed, Phased
<1>2. TypeOK' /\ Followed' /\ LockedInCache' /\ s0' = s0
  <2>1. /\ ws' \in [Path -> Data] /\ cache' \in [Content -> Data]
        /\ runs' \subseteq [stage : Stage, record : Record]
    BY <1>1 DEF Inv, TypeOK
  <2>2. op'.phase # "idle" /\ op'.linking \subseteq op'.left
    OBVIOUS
  <2> QED
    BY <2>1, <2>2, StayKeeps
<1>3. CacheIntact'
  BY DEF Inv, CacheIntact
<1>4. Phased'
  BY <1>1, <1>2 DEF Inv, Phased, Stays
<1>5. Linked'
  BY DEF Linked
<1>6. Shapes'
  <2>1. \A s \in Stage : Shaped(s, lock[s])'
    BY DEF Inv, Shapes, Shaped
  <2>2. Shaped(s0, op.mem)'
    BY <1>2 DEF Shaped
  <2>3. \A e \in runs' : Shaped(e.stage, e.record)' /\ e.stage \in HasCmd
    <3> SUFFICES ASSUME NEW e \in runs' PROVE Shaped(e.stage, e.record) /\ e.stage \in HasCmd
      BY DEF Shaped
    <3>1. CASE e \in runs
      BY <3>1 DEF Inv, Shapes
    <3>2. CASE e \notin runs
      BY <3>2
    <3> QED
      BY <3>1, <3>2
  <2> QED
    BY <2>1, <2>2, <2>3 DEF Shapes
<1>7. Held'
  BY <1>2 DEF Held
<1>8. Committed'
  BY <1>1, <1>2 DEF Committed, Stays
<1>9. RunHeld'
  <2>1. ~meddled /\ s0 \in HasCmd => Sound(s0, op.mem)'
    BY <1>2 DEF Sound, Genuine
  <2>2. op'.phase \notin {"run", "restored", "save"}
    OBVIOUS
  <2> QED
    BY <1>2, <2>1, <2>2 DEF RunHeld
<1>10. RunsSound'
  <2> SUFFICES ASSUME ~meddled,
                      NEW e \in runs' \cup {[stage |-> s, record |-> lock[s]] : s \in HasCmd}
               PROVE  e.record = NoRecord \/ Genuine(e.stage, e.record) \/ e \in vouched'
    BY DEF RunsSound, Genuine
  <2>1. CASE e \in runs \cup {[stage |-> s, record |-> lock[s]] : s \in HasCmd}
    BY <2>1 DEF Inv, RunsSound
  <2>2. CASE e \notin runs \cup {[stage |-> s, record |-> lock[s]] : s \in HasCmd}
    <3>1. e = [stage |-> s0, record |-> m] /\ s0 \in HasCmd
      BY <2>2
    <3>2. e.stage = s0 /\ e.record = m
      BY <3>1
    <3> HIDE DEF Genuine
    <3> QED
      BY <3>1, <3>2
  <2> QED
    BY <2>1, <2>2
<1> QED
  BY <1>2, <1>3, <1>4, <1>5, <1>6, <1>7, <1>8, <1>9, <1>10 DEF Inv

LEMMA CommitsNext ==
    ASSUME NEW o \in Op, First(o.todo) \in Stage, NEW n, n = ToCommit(o)
    PROVE  /\ n \in Op /\ n.kind = o.kind /\ n.todo = o.todo /\ n.mem = o.mem
           /\ n.linking = o.linking /\ (n.broken = o.broken) /\ n.garbage = o.garbage
           /\ (n.force = o.force) /\ (n.nocommit = o.nocommit)
           /\ \/ n.phase = "commit" /\ n.left = Outs[First(o.todo)] \ NoCache
              \/ n.phase = "dump" /\ n.left = {} /\ o.nocommit
<1>1. Outs[First(o.todo)] \ NoCache \in SUBSET Path
  BY NoSelfLoop
<1>2. CASE o.nocommit
  <2>1. n = Enter(o, "dump", {})
    BY <1>2 DEF ToCommit
  <2>2. {} \in SUBSET Path /\ "dump" \in Phase
    BY DEF Phase
  <2>3. /\ n \in Op /\ n.kind = o.kind /\ n.todo = o.todo /\ n.mem = o.mem
        /\ n.linking = o.linking /\ (n.broken = o.broken) /\ n.garbage = o.garbage
        /\ (n.force = o.force) /\ (n.nocommit = o.nocommit)
    BY <2>1, <2>2, Entered
  <2>4. n.phase = "dump" /\ n.left = {}
    BY <2>1, <2>2, Entered
  <2> QED
    BY <1>2, <2>3, <2>4
<1>3. CASE ~o.nocommit
  <2>1. n = Enter(o, "commit", Outs[First(o.todo)] \ NoCache)
    BY <1>3 DEF ToCommit
  <2> QED
    BY <1>1, <2>1, Entered DEF Phase
<1> QED
  BY <1>2, <1>3

LEMMA CommitRecordedKeeps ==
    ASSUME Inv, CommitRecorded
    PROVE  Inv'
<1>1. /\ op.phase = "save" /\ op.linking = {} /\ op.left = {} /\ op.kind = "commit" /\ ~op.broken
      /\ ~EntriesChanged(s0)
      /\ UNCHANGED <<ws, cache, strays, lock, runs, cmd, uncommitted, vouched, meddled, budget>>
  BY DEF Inv, Phased, CommitRecorded, At
<1>2. op \in Op /\ s0 \in Stage
  BY <1>1, InWork DEF Inv, TypeOK
<1> DEFINE m == lock[s0]
           o == [op EXCEPT !.mem = m]
<1>3. m \in Record /\ Shaped(s0, m)
  BY <1>2 DEF Inv, TypeOK, Shapes
<1>4. op' = ToCommit(o)
  BY DEF CommitRecorded
<1> HIDE DEF m
<1>5. /\ o \in Op /\ o.kind = op.kind /\ o.todo = op.todo /\ o.garbage = op.garbage
      /\ (o.force = op.force) /\ (o.nocommit = op.nocommit)
      /\ o.mem = m /\ o.linking = {} /\ ~o.broken
  BY <1>1, <1>2, <1>3, WithMem
<1> HIDE DEF o
<1>6. First(o.todo) = s0
  BY <1>5 DEF s0
<1>7. /\ Stays(op') /\ op'.mem = m /\ op'.linking = {} /\ ~op'.broken
      /\ \/ op'.phase = "commit" /\ op'.left = Outs[s0] \ NoCache
         \/ op'.phase = "dump" /\ op'.left = {} /\ op.nocommit
  BY <1>2, <1>4, <1>5, <1>6, CommitsNext DEF Stays
<1>8. /\ \A p \in Deps[s0] : ws[p] # NoData /\ ws[p] = m.deps[p]
      /\ \A p \in Outs[s0] : ws[p] # NoData /\ ws[p] = m.outs[p]
      /\ m.cmd \in {NoCmd, cmd[s0]}
  <2>1. Outs[s0] \cap Deps[s0] = {}
    BY <1>2, NoSelfLoop
  <2> QED
    BY <1>1, <2>1 DEF EntriesChanged, Differs, CmdChanged, m
<1>9. ~meddled /\ s0 \in HasCmd =>
          Genuine(s0, m) \/ m = NoRecord \/ [stage |-> s0, record |-> m] \in vouched'
  <2> SUFFICES ASSUME ~meddled, s0 \in HasCmd
               PROVE  Genuine(s0, m) \/ m = NoRecord \/ [stage |-> s0, record |-> m] \in vouched
    BY <1>1
  <2>1. [stage |-> s0, record |-> m] \in {[stage |-> s, record |-> lock[s]] : s \in HasCmd}
    BY DEF m
  <2> DEFINE e == [stage |-> s0, record |-> m]
  <2>2. e.stage = s0 /\ e.record = m
    OBVIOUS
  <2>3. e.record = NoRecord \/ Genuine(e.stage, e.record) \/ e \in vouched
    BY <2>1 DEF Inv, RunsSound
  <2> QED
    BY <2>2, <2>3
<1> QED
  BY <1>1, <1>3, <1>7, <1>8, <1>9, HeldNow DEF Inv, TypeOK

LEMMA SaveKeeps ==
    ASSUME Inv, Save
    PROVE  Inv'
<1> DEFINE m == Saved(s0)
           o == [op EXCEPT !.mem = m]
<1>1. /\ op.phase = "save" /\ op.linking = {} /\ op.left = {} /\ ~op.broken
      /\ op.kind \in {"repro", "commit", "add"} /\ ~MissingEntries(s0)
      /\ op' = IF s0 \in HasCmd THEN Enter(o, "runcache", Outs[s0] \cap NoCache) ELSE ToCommit(o)
      /\ vouched' = IF op.kind = "commit" /\ s0 \in HasCmd
                    THEN vouched \cup {[stage |-> s0, record |-> m]} ELSE vouched
      /\ UNCHANGED <<ws, cache, strays, lock, runs, cmd, uncommitted, meddled, budget>>
  BY DEF Inv, Phased, Save, At, TypeOK, Op
<1>2. op \in Op /\ s0 \in Stage
  BY <1>1, InWork DEF Inv, TypeOK
<1>3. Deps[s0] \subseteq Path /\ Outs[s0] \subseteq Path
  BY <1>2, NoSelfLoop
<1>4. /\ m.cmd = (IF s0 \in HasCmd THEN cmd[s0] ELSE NoCmd)
      /\ m.deps = Only(ws, Deps[s0])
      /\ m.outs = Only(ws, Outs[s0])
      /\ m \in Record
  <2>1. Only(ws, Deps[s0]) \in [Path -> Data] /\ Only(ws, Outs[s0]) \in [Path -> Data]
    BY DEF Inv, TypeOK, Only, Data
  <2>2. (IF s0 \in HasCmd THEN cmd[s0] ELSE NoCmd) \in Cmd \cup {NoCmd}
    BY <1>2 DEF Inv, TypeOK
  <2> QED
    BY <2>1, <2>2 DEF Saved, Record
<1>5. \A p \in Deps[s0] : ws[p] # NoData /\ m.deps[p] = ws[p]
  BY <1>1, <1>3, <1>4 DEF MissingEntries, Only
<1>6. \A p \in Outs[s0] : ws[p] # NoData /\ m.outs[p] = ws[p]
  BY <1>1, <1>3, <1>4 DEF MissingEntries, Only
<1>7. Shaped(s0, m)
  <2>1. Only(m.deps, Deps[s0]) = m.deps
    BY <1>4 DEF Only
  <2>2. Only(m.outs, Outs[s0]) = m.outs
    BY <1>4 DEF Only
  <2>3. s0 \in HasCmd => m.cmd # NoCmd
    BY <1>2, <1>4, ContentAssumption DEF Inv, TypeOK
  <2> QED
    BY <1>4, <2>1, <2>2, <2>3 DEF Shaped
<1>8. m.cmd \in {NoCmd, cmd[s0]}
  BY <1>4
<1>9. ~meddled /\ s0 \in HasCmd =>
          Genuine(s0, m) \/ m = NoRecord \/ [stage |-> s0, record |-> m] \in vouched'
  <2>1. CASE op.kind = "repro"
    BY <1>1, <2>1 DEF Inv, RunHeld, Sound
  <2>2. CASE op.kind = "commit"
    BY <1>1, <2>2
  <2>3. CASE op.kind = "add"
    BY <2>3 DEF Inv, Phased
  <2> QED
    BY <1>1, <2>1, <2>2, <2>3
<1>10. vouched \subseteq vouched' /\ vouched' \subseteq [stage : Stage, record : Record]
       /\ runs' \subseteq [stage : Stage, record : Record]
  BY <1>1, <1>2, <1>4 DEF Inv, TypeOK
<1> HIDE DEF m
<1>11. /\ o \in Op /\ o.kind = op.kind /\ o.todo = op.todo /\ o.garbage = op.garbage
       /\ (o.force = op.force) /\ (o.nocommit = op.nocommit)
       /\ o.mem = m /\ o.linking = {} /\ ~o.broken
  BY <1>1, <1>2, <1>4, WithMem
<1> HIDE DEF o
<1>12. First(o.todo) = s0
  BY <1>11 DEF s0
<1>13. /\ Stays(op') /\ op'.mem = m /\ op'.linking = {} /\ ~op'.broken
       /\ \/ op'.phase = "runcache" /\ op'.left = Outs[s0] \cap NoCache /\ s0 \in HasCmd
          \/ op'.phase = "commit" /\ op'.left = Outs[s0] \ NoCache
          \/ op'.phase = "dump" /\ op'.left = {} /\ op.nocommit
  <2>1. CASE s0 \in HasCmd
    <3>1. op' = Enter(o, "runcache", Outs[s0] \cap NoCache)
      BY <1>1, <2>1
    <3>2. Outs[s0] \cap NoCache \in SUBSET Path
      BY <1>3
    <3> QED
      BY <1>11, <2>1, <3>1, <3>2, Entered DEF Stays, Phase
  <2>2. CASE s0 \notin HasCmd
    <3>1. op' = ToCommit(o)
      BY <1>1, <2>2
    <3> QED
      BY <1>2, <1>11, <1>12, <3>1, CommitsNext DEF Stays
  <2> QED
    BY <2>1, <2>2
<1>14. /\ \A p \in Outs[s0] : m.outs[p] # NoData
       /\ ~meddled => /\ \A p \in Deps[s0] : m.deps[p] # NoData /\ ws[p] = m.deps[p]
                      /\ \A p \in Outs[s0] : ws[p] = m.outs[p]
  BY <1>5, <1>6
<1>15. runs \subseteq runs' /\ runs' \subseteq runs \cup {[stage |-> s0, record |-> m]} /\ runs' = runs
  BY <1>1
<1>16. UNCHANGED <<ws, cache, strays, lock, cmd, uncommitted, meddled, budget>>
  BY <1>1
<1>17. m \in Record /\ op.kind \in {"repro", "commit", "add"}
  BY <1>1, <1>4
<1> HIDE <1>1
<1> QED
  BY <1>7, <1>8, <1>9, <1>10, <1>13, <1>14, <1>15, <1>16, <1>17, HeldNow

LEMMA RunCacheSaveKeeps ==
    ASSUME Inv, RunCacheSave
    PROVE  Inv'
<1>1. /\ op.phase = "runcache" /\ op.linking = {} /\ op.left = {} /\ ~op.broken
      /\ op.kind \in {"repro", "commit", "add"} /\ s0 \in HasCmd
      /\ runs' = runs \cup {[stage |-> s0, record |-> op.mem]}
      /\ op' = ToCommit(op)
      /\ UNCHANGED <<ws, cache, strays, lock, cmd, uncommitted, vouched, meddled, budget>>
  BY DEF Inv, Phased, RunCacheSave, Done, At, TypeOK, Op
<1>2. op \in Op /\ s0 \in Stage /\ First(op.todo) = s0
  BY <1>1, InWork DEF Inv, TypeOK, s0
<1>3. /\ Stays(op') /\ op'.mem = op.mem /\ op'.linking = {} /\ ~op'.broken
      /\ \/ op'.phase = "commit" /\ op'.left = Outs[s0] \ NoCache
         \/ op'.phase = "dump" /\ op'.left = {} /\ op.nocommit
  BY <1>1, <1>2, CommitsNext DEF Stays
<1>4. /\ op.mem \in Record /\ Shaped(s0, op.mem)
      /\ \A p \in Outs[s0] : op.mem.outs[p] # NoData
      /\ op.mem.cmd \in {NoCmd, cmd[s0]}
      /\ ~meddled => /\ \A p \in Deps[s0] : op.mem.deps[p] # NoData /\ ws[p] = op.mem.deps[p]
                     /\ \A p \in Outs[s0] : ws[p] = op.mem.outs[p]
  BY <1>1, <1>2 DEF Inv, Held, Shapes, Saving, Op
<1>5. ~meddled /\ s0 \in HasCmd =>
          Genuine(s0, op.mem) \/ op.mem = NoRecord \/ [stage |-> s0, record |-> op.mem] \in vouched'
  BY <1>1 DEF Inv, RunHeld, Sound, Saving
<1>6. vouched' \subseteq [stage : Stage, record : Record]
  BY <1>1 DEF Inv, TypeOK
<1> QED
  BY <1>1, <1>3, <1>4, <1>5, <1>6, HeldNow

LEMMA EndCommitKeeps ==
    ASSUME Inv, EndCommit
    PROVE  Inv'
<1>1. CASE Abort
  BY <1>1, AbortKeeps
<1>2. CASE ~Abort
  <2>1. /\ op.phase = "commit" /\ op.linking = {} /\ op.left = {} /\ (op.broken => op.kind = "add")
        /\ op.kind \in {"repro", "commit", "add"}
        /\ op' = Enter(op, "dump", {})
        /\ UNCHANGED <<ws, cache, strays, lock, runs, cmd, uncommitted, vouched, meddled, budget>>
    BY <1>2 DEF Inv, Phased, EndCommit, Done, At, TypeOK, Op
  <2>2. op \in Op /\ s0 \in Stage /\ op.garbage = {} /\ op.todo # {}
    BY <2>1, InWork DEF Inv, TypeOK, Committed, Phased
  <2>3. /\ Stays(op') /\ op'.phase = "dump" /\ op'.left = {} /\ op'.mem = op.mem
        /\ op'.linking = {} /\ (op'.broken <=> op.broken)
    BY <2>1, <2>2, Entered DEF Stays, Phase
  <2>4. TypeOK' /\ Followed' /\ LockedInCache' /\ CacheIntact' /\ RunsSound' /\ s0' = s0
    BY <2>1, <2>3, QuietKeeps
  <2>5. Phased'
    BY <2>1, <2>2, <2>3, <2>4 DEF Inv, Phased, Stays
  <2>6. Linked'
    BY <2>3 DEF Linked
  <2>7. Shapes'
    BY <2>1, <2>3, <2>4 DEF Inv, Shapes, Shaped, Saving
  <2>8. Held'
    <3>1. /\ \A q \in Outs[s0] : op.mem.outs[q] # NoData
          /\ op.mem.cmd \in {NoCmd, cmd[s0]}
          /\ ~meddled =>
              /\ \A q \in Deps[s0] : op.mem.deps[q] # NoData /\ ws[q] = op.mem.deps[q]
              /\ \A q \in Outs[s0] : ws[q] = op.mem.outs[q] \/ (op.broken /\ q \notin op.left)
      BY <2>1 DEF Inv, Held, Saving
    <3> QED
      BY <2>1, <2>3, <2>4, <3>1 DEF Held
  <2>9. Committed'
    <3>1. \A q \in Outs[s0] \ NoCache : InCache(op.mem.outs[q])
      BY <2>1 DEF Inv, Committed
    <3> QED
      BY <2>1, <2>2, <2>3, <2>4, <3>1 DEF Committed, InCache, Stays
  <2>10. RunHeld'
    <3>1. ASSUME ~meddled, s0 \in HasCmd
          PROVE  Sound(s0, op.mem)'
      <4>1. Sound(s0, op.mem)
        BY <2>1, <3>1 DEF Inv, RunHeld, Saving
      <4> QED
        BY <2>1, <2>3, <2>4, <4>1 DEF Sound, Genuine
    <3> QED
      BY <2>1, <2>3, <2>4, <3>1 DEF RunHeld
  <2> QED
    BY <2>4, <2>5, <2>6, <2>7, <2>8, <2>9, <2>10 DEF Inv
<1> QED
  BY <1>1, <1>2

(* What a stage that is recorded has in the workspace is what is recorded. *)
LEMMA DumpedIsUpToDate ==
    ASSUME Inv, Dump, ~meddled, op.kind = "repro", NEW s, s = s0
    PROVE  /\ ~EntriesChanged(s)'
           /\ \A u \in Stage : u # s /\ ~EntriesChanged(u) => ~EntriesChanged(u)'
<1>1. /\ op.phase = "dump" /\ op.linking = {} /\ ~op.broken /\ s \in Stage
      /\ lock' = [lock EXCEPT ![s] = op.mem] /\ UNCHANGED <<ws, cmd>>
  BY InWork DEF Inv, Phased, Dump, At
<1>2. lock'[s] = op.mem /\ \A u \in Stage : u # s => lock'[u] = lock[u]
  BY <1>1 DEF Inv, TypeOK
<1>3. /\ \A p \in Outs[s] : op.mem.outs[p] # NoData /\ ws[p] = op.mem.outs[p]
      /\ \A p \in Deps[s] : op.mem.deps[p] # NoData /\ ws[p] = op.mem.deps[p]
      /\ op.mem.cmd \in {NoCmd, cmd[s]}
  BY <1>1 DEF Inv, Held, Saving
<1>4. ~EntriesChanged(s)'
  BY <1>1, <1>2, <1>3 DEF EntriesChanged, CmdChanged, Differs
<1>5. ASSUME NEW u \in Stage, u # s, ~EntriesChanged(u)
      PROVE  ~EntriesChanged(u)'
  BY <1>1, <1>2, <1>5 DEF EntriesChanged, CmdChanged, Differs
<1> QED
  BY <1>4, <1>5

LEMMA DumpKeeps ==
    ASSUME Inv, Dump
    PROVE  Inv'
<1>1. /\ op.phase = "dump" /\ op.linking = {} /\ op.kind \in {"repro", "commit", "add"}
      /\ op' = NextStage
      /\ UNCHANGED <<ws, cache, strays, runs, cmd, vouched, meddled, budget>>
  BY DEF Inv, Phased, Dump, At, TypeOK, Op
<1>2. PICK s \in Stage : s = s0
  BY <1>1, InWork
<1>3. /\ lock' = [lock EXCEPT ![s] = op.mem]
      /\ uncommitted' = IF op.nocommit THEN uncommitted \cup {s} ELSE uncommitted \ {s}
  BY <1>2 DEF Dump
<1>4. /\ lock' \in [Stage -> Record] /\ lock'[s] = op.mem
      /\ \A u \in Stage : u # s => lock'[u] = lock[u]
  BY <1>2, <1>3 DEF Inv, TypeOK, Op
<1>5. op' = Idle \/ (/\ Begun(op') /\ op'.kind = op.kind /\ op'.todo = op.todo \ {s0}
                     /\ op.todo \ {s0} # {})
  BY <1>1, NextStageBegins
<1>6. TypeOK'
  <2>1. op' \in Op /\ op'.linking \subseteq op'.left /\ ((op'.kind = "none") <=> (op'.phase = "idle"))
    <3>1. CASE op' = Idle
      BY <3>1, IdleHasType DEF Idle, Command
    <3>2. CASE op' # Idle
      BY <1>5, <3>2 DEF Begun
    <3> QED
      BY <3>1, <3>2
  <2>2. uncommitted' \subseteq Stage
    BY <1>3 DEF Inv, TypeOK
  <2> QED
    BY <1>1, <1>4, <2>1, <2>2 DEF Inv, TypeOK
<1>7. Phased' /\ Linked' /\ Held' /\ Committed' /\ RunHeld'
  <2>1. CASE op' = Idle
    BY <2>1 DEF Phased, Linked, Held, Committed, RunHeld, Idle, Command, Saving
  <2>2. CASE op' # Idle
    BY <1>5, <2>2, BegunKeeps
  <2> QED
    BY <2>1, <2>2
<1>8. Shapes'
  <2>1. op'.phase \notin Saving
    BY <1>1, <1>5 DEF Begun, Idle, Command, Saving
  <2>2. Shaped(s, op.mem)
    BY <1>1, <1>2 DEF Inv, Shapes, Saving
  <2>3. \A u \in Stage : Shaped(u, lock'[u])
    BY <1>4, <2>2 DEF Inv, Shapes
  <2> QED
    BY <1>1, <2>1, <2>3 DEF Inv, Shapes, Shaped
<1>9. CacheIntact'
  BY <1>1 DEF Inv, CacheIntact
<1>10. LockedInCache'
  <2> SUFFICES ASSUME NEW u \in Stage \ uncommitted', NEW p \in Outs[u] \ NoCache
               PROVE  lock'[u].outs[p] = NoData \/ InCache(lock'[u].outs[p])
    BY <1>1 DEF LockedInCache, InCache
  <2>1. CASE u = s
    <3>1. ~op.nocommit
      BY <1>3, <2>1
    <3>2. InCache(op.mem.outs[p])
      BY <1>1, <1>2, <2>1, <3>1 DEF Inv, Committed
    <3> QED
      BY <1>4, <2>1, <3>2
  <2>2. CASE u # s
    BY <1>3, <1>4, <2>2 DEF Inv, LockedInCache
  <2> QED
    BY <2>1, <2>2
<1>11. RunsSound'
  <2> SUFFICES ASSUME ~meddled,
                      NEW e \in runs \cup {[stage |-> u, record |-> lock'[u]] : u \in HasCmd}
               PROVE  e.record = NoRecord \/ Genuine(e.stage, e.record) \/ e \in vouched
    BY <1>1 DEF RunsSound, Genuine
  <2>1. CASE e \in runs \cup {[stage |-> u, record |-> lock[u]] : u \in HasCmd}
    BY <2>1 DEF Inv, RunsSound
  <2>2. CASE e \notin runs \cup {[stage |-> u, record |-> lock[u]] : u \in HasCmd}
    <3>1. e = [stage |-> s, record |-> op.mem] /\ s \in HasCmd
      <4>1. PICK u \in HasCmd : e = [stage |-> u, record |-> lock'[u]]
        BY <2>2
      <4>2. u \in Stage
        BY StageAssumption
      <4>3. u = s
        BY <1>4, <2>2, <4>1, <4>2
      <4> QED
        BY <1>4, <4>1, <4>3
    <3>2. Sound(s, op.mem)
      BY <1>1, <1>2, <3>1 DEF Inv, RunHeld, Saving
    <3>3. e.stage = s /\ e.record = op.mem
      BY <3>1
    <3> QED
      BY <3>1, <3>2, <3>3 DEF Sound
  <2> QED
    BY <2>1, <2>2
<1>12. Followed'
  <2>1. CASE op'.kind # "repro"
    BY <2>1 DEF Followed
  <2>2. CASE op'.kind = "repro"
    <3>1. op' # Idle
      BY <2>2 DEF Idle, Command
    <3>2. op.kind = "repro" /\ op'.todo = op.todo \ {s0} /\ op.todo \ {s0} # {}
      BY <1>5, <2>2, <3>1
    <3>3. ~meddled => /\ ~EntriesChanged(s)'
                      /\ \A u \in Stage : u # s /\ ~EntriesChanged(u) => ~EntriesChanged(u)'
      BY <1>2, <3>2, DumpedIsUpToDate
    <3>4. meddled' = meddled
      BY <1>1
    <3> QED
      BY <1>2, <3>2, <3>3, <3>4, FollowedNext
  <2> QED
    BY <2>1, <2>2
<1> QED
  BY <1>6, <1>7, <1>8, <1>9, <1>10, <1>11, <1>12 DEF Inv

-----------------------------------------------------------------------------
(* The rest of gc, and what happens around the commands.                   *)

LEMMA MoveCutShortKeeps ==
    ASSUME Inv, MoveCutShort
    PROVE  Inv'
<1>1. budget' \in BudgetType
  BY BoundAssumption DEF Inv, TypeOK, BudgetType, MoveCutShort
<1>2. ws' \in [Path -> Data] /\ strays' \subseteq Content
  <2>1. PICK p \in op.left : /\ ws[p] # NoData /\ ws' = [ws EXCEPT ![p] = NoData]
                             /\ strays' = strays \cup {ws[p]}
    BY DEF MoveCutShort
  <2>2. op.left \subseteq Path /\ ws \in [Path -> Data] /\ strays \subseteq Content
    BY DEF Inv, TypeOK, Op
  <2> QED
    BY <2>1, <2>2 DEF Data
<1> QED
  BY <1>1, <1>2, EndKeeps DEF MoveCutShort

LEMMA GcRemoveKeeps ==
    ASSUME Inv, GcRemove
    PROVE  Inv'
<1>1. /\ op.phase = "gc" /\ op.kind = "gc" /\ op.linking = {} /\ op.left = {} /\ op.todo = {}
      /\ ~op.broken /\ op \in Op
      /\ UNCHANGED <<ws, strays, lock, runs, cmd, uncommitted, vouched, meddled, budget>>
  BY DEF Inv, Phased, GcRemove, At, TypeOK
<1>2. PICK h \in op.garbage : /\ cache' = [cache EXCEPT ![h] = NoData]
                              /\ op' = [op EXCEPT !.garbage = @ \ {h}]
  BY DEF GcRemove
<1>3. /\ op' \in Op /\ op'.kind = "gc" /\ op'.phase = "gc" /\ op'.todo = {} /\ op'.left = {}
      /\ op'.linking = {} /\ ~op'.broken /\ op'.garbage = op.garbage \ {h}
  BY <1>1, <1>2, GarbageLeft
<1>4. h \in Content /\ h \notin Used
  BY <1>1, <1>2 DEF Inv, Committed, Op
<1>5. cache' \in [Content -> Data] /\ \A g \in Content : cache'[g] = IF g = h THEN NoData ELSE cache[g]
  BY <1>2, <1>4 DEF Inv, TypeOK, Data
<1>6. TypeOK'
  BY <1>1, <1>3, <1>5 DEF Inv, TypeOK
<1>7. Phased' /\ Linked' /\ Held' /\ RunHeld' /\ Followed'
  BY <1>3 DEF Phased, Linked, Held, RunHeld, Followed, Saving
<1>8. Committed'
  <2>1. Used' = Used
    BY <1>1 DEF Used
  <2> QED
    BY <1>1, <1>3, <2>1 DEF Inv, Committed
<1>9. Shapes'
  BY <1>1, <1>3 DEF Inv, Shapes, Saving, Shaped
<1>10. CacheIntact'
  BY <1>1, <1>5 DEF Inv, CacheIntact
<1>11. RunsSound'
  BY <1>1 DEF Inv, RunsSound
<1>12. LockedInCache'
  <2> SUFFICES ASSUME NEW s \in Stage \ uncommitted, NEW p \in Outs[s] \ NoCache,
                      lock[s].outs[p] # NoData
               PROVE  InCache(lock[s].outs[p])'
    BY <1>1 DEF LockedInCache, InCache
  <2>1. p \in Path /\ lock[s].outs[p] \in Content
    BY NoSelfLoop DEF Inv, TypeOK, Record, Data
  <2>2. lock[s].outs[p] \in Used
    BY <2>1 DEF Used
  <2>3. InCache(lock[s].outs[p])
    BY DEF Inv, LockedInCache
  <2> QED
    BY <1>1, <1>4, <1>5, <2>1, <2>2, <2>3 DEF InCache
<1> QED
  BY <1>6, <1>7, <1>8, <1>9, <1>10, <1>11, <1>12 DEF Inv

LEMMA CrashKeeps ==
    ASSUME Inv, Crash
    PROVE  Inv'
<1>1. budget' \in BudgetType
  BY BoundAssumption DEF Inv, TypeOK, BudgetType, Crash
<1>2. ws' \in [Path -> Data] /\ strays' \subseteq Content
  BY DEF Inv, TypeOK, Crash
<1> QED
  BY <1>1, <1>2, EndKeeps DEF Crash

LEMMA EditSpent ==
    ASSUME Inv, Edit
    PROVE  budget' \in BudgetType
BY BoundAssumption DEF Inv, TypeOK, BudgetType, Edit

(* A user writes: between commands it is as if nothing had happened to what *)
(* is said of them, and within one, nothing is said any more of the         *)
(* workspace.                                                              *)
LEMMA UserWriteKeeps ==
    ASSUME Inv, UserWrite
    PROVE  Inv'
<1>1. /\ UNCHANGED <<cache, strays, lock, runs, op, uncommitted, vouched, cmd>>
      /\ meddled' = (meddled \/ op.kind # "none") /\ budget' \in BudgetType
  BY EditSpent DEF UserWrite, Edit
<1>2. ws' \in [Path -> Data]
  BY ContentAssumption DEF UserWrite, Inv, TypeOK, Data
<1>3. TypeOK'
  BY <1>1, <1>2 DEF Inv, TypeOK, BudgetType
<1>4. s0' = s0
  BY <1>1 DEF s0
<1>5. Phased' /\ Linked' /\ Committed' /\ LockedInCache'
  BY <1>1, <1>4 DEF Inv, Phased, Linked, Committed, LockedInCache, InCache, Used
<1>6. Shapes'
  BY <1>1, <1>4 DEF Inv, Shapes, Shaped
<1>7. CacheIntact' /\ RunsSound'
  BY <1>1 DEF Inv, CacheIntact, RunsSound
<1>8. CASE op.kind = "none"
  <2>1. op.phase = "idle"
    BY <1>8 DEF Inv, TypeOK
  <2>2. Held' /\ RunHeld' /\ Followed'
    BY <1>1, <1>8, <2>1 DEF Held, RunHeld, Followed, Saving
  <2> QED
    BY <1>3, <1>5, <1>6, <1>7, <2>2 DEF Inv
<1>9. CASE op.kind # "none"
  <2>1. meddled'
    BY <1>1, <1>9
  <2>2. Held' /\ RunHeld' /\ Followed'
    BY <1>1, <1>4, <2>1 DEF Inv, Held, RunHeld, Followed
  <2> QED
    BY <1>3, <1>5, <1>6, <1>7, <2>2 DEF Inv
<1> QED
  BY <1>8, <1>9

LEMMA EditCmdKeeps ==
    ASSUME Inv, EditCmd
    PROVE  Inv'
<1>1. /\ UNCHANGED <<ws, cache, strays, lock, runs, op, uncommitted, vouched, meddled>>
      /\ op.kind = "none" /\ budget' \in BudgetType
  BY EditSpent DEF EditCmd, Edit
<1>2. cmd' \in [Stage -> Cmd]
  BY DEF EditCmd, Inv, TypeOK
<1>3. TypeOK' /\ op.phase = "idle"
  BY <1>1, <1>2 DEF Inv, TypeOK, BudgetType
<1>4. s0' = s0
  BY <1>1 DEF s0
<1>5. Phased' /\ Linked' /\ Committed' /\ LockedInCache'
  BY <1>1, <1>4 DEF Inv, Phased, Linked, Committed, LockedInCache, InCache, Used
<1>6. Shapes' /\ Held' /\ RunHeld' /\ Followed'
  BY <1>1, <1>3 DEF Inv, Shapes, Shaped, Held, RunHeld, Followed, Saving
<1>7. CacheIntact' /\ RunsSound'
  BY <1>1 DEF Inv, CacheIntact, RunsSound
<1> QED
  BY <1>3, <1>5, <1>6, <1>7 DEF Inv

-----------------------------------------------------------------------------
(* The theorems.                                                           *)

LEMMA NextKeeps ==
    ASSUME Inv, [Next]_vars
    PROVE  Inv'
<1>1. CASE StartRepro \/ StartCommit \/ StartAdd \/ StartCheckout \/ StartGc
  BY <1>1, StartReproKeeps, StartCommitKeeps, StartAddKeeps, StartCheckoutKeeps, StartGcKeeps
<1>2. CASE CheckStage \/ RemoveOut \/ Restore \/ StartRun \/ RunOut \/ EndRun
  BY <1>2, CheckStageKeeps, RemoveOutKeeps, RestoreKeeps, StartRunKeeps, RunOutKeeps, EndRunKeeps
<1>3. CASE RunFails \/ CheckoutRefused \/ CommitOutGone \/ SaveRefused \/ EndGc
  BY <1>3, AbortKeeps DEF RunFails, CheckoutRefused, CommitOutGone, SaveRefused, EndGc
<1>4. CASE CheckoutOut \/ EndCheckout \/ LinkOut \/ LinkFails \/ CommitOut
  BY <1>4, CheckoutOutKeeps, EndCheckoutKeeps, LinkOutKeeps, LinkFailsKeeps, CommitOutKeeps
<1>5. CASE CommitRecorded \/ Save \/ RunCacheSave \/ EndCommit \/ Dump
  BY <1>5, CommitRecordedKeeps, SaveKeeps, RunCacheSaveKeeps, EndCommitKeeps, DumpKeeps
<1>6. CASE GcRemove \/ Crash \/ MoveCutShort \/ UserWrite \/ EditCmd
  BY <1>6, GcRemoveKeeps, CrashKeeps, MoveCutShortKeeps, UserWriteKeeps, EditCmdKeeps
<1>7. CASE GcRemoveStray \/ UNCHANGED vars
  <2> USE <1>7 DEF vars, GcRemoveStray
  <2>1. TypeOK' /\ Linked' /\ CacheIntact' /\ LockedInCache' /\ RunsSound'
    BY DEF Inv, TypeOK, Linked, CacheIntact, LockedInCache, RunsSound, InCache
  <2>2. s0' = s0
    BY DEF s0
  <2>3. Phased' /\ Committed' /\ Shapes' /\ Held'
    BY <2>2 DEF Inv, Phased, Committed, Shapes, Shaped, Held, InCache, Used
  <2>4. Followed'
    <3>1. \A u \in Stage : EntriesChanged(u)' <=> EntriesChanged(u)
      BY DEF EntriesChanged, CmdChanged, Differs
    <3>2. \A t \in Stage : Upstream(t) \subseteq Stage
      BY DEF Upstream
    <3> QED
      BY <2>2, <3>1, <3>2 DEF Inv, TypeOK, Op, Followed
  <2>5. RunHeld'
    <3> DEFINE m == op.mem
               v == Saved(s0)
    <3>1. m' = m /\ Saved(s0)' = v
      BY <2>2 DEF Saved, Only
    <3>2. MissingEntries(s0)' <=> MissingEntries(s0)
      BY <2>2 DEF MissingEntries
    <3>3. Sound(s0, m)' <=> Sound(s0, m)
      BY <2>2 DEF Sound, Genuine
    <3>4. Sound(s0, Saved(s0))' <=> Sound(s0, v)
      BY <2>2, <3>1 DEF Sound, Genuine
    <3>5. Shaped(s0, m)' <=> Shaped(s0, m)
      BY <2>2 DEF Shaped
    <3>6. Only(ws, Deps[s0])' = Only(ws, Deps[s0])
      BY <2>2
    <3> QED
      BY <2>2, <3>1, <3>2, <3>3, <3>4, <3>5, <3>6 DEF Inv, RunHeld, Saving
  <2> QED
    BY <2>1, <2>3, <2>4, <2>5 DEF Inv
<1> QED
  BY <1>1, <1>2, <1>3, <1>4, <1>5, <1>6, <1>7 DEF Next, Terminating

LEMMA AlwaysInv == Spec => []Inv
<1>1. Init => Inv
  BY InitHolds
<1>2. Inv /\ [Next]_vars => Inv'
  BY NextKeeps
<1> QED
  BY <1>1, <1>2, PTL DEF Spec

(* Every variable keeps its type: what a command, a crash or a user leaves *)
(* is a state that dvc.lock, the cache and the run cache can be in.        *)
THEOREM PipelineTypes == Spec => []TypeOK
<1>1. Inv => TypeOK
  BY DEF Inv
<1> QED
  BY <1>1, AlwaysInv, PTL

(* Objects are what their names say (CloudCache._save_file), so long as     *)
(* nobody writes under a command's feet.                                   *)
THEOREM ObjectsAreIntact == Spec => []CacheIntact
<1>1. Inv => CacheIntact
  BY DEF Inv
<1> QED
  BY <1>1, AlwaysInv, PTL

(* What dvc.lock records as committed is in the cache (Stage.commit comes   *)
(* before Dvcfile.dump, and gc keeps what Repo.used_cache finds).           *)
THEOREM WhatIsLockedIsCached == Spec => []LockedInCache
<1>1. Inv => LockedInCache
  BY DEF Inv
<1> QED
  BY <1>1, AlwaysInv, PTL

(* dvc.lock and the run cache claim no outputs that the command does not    *)
(* make of the dependencies recorded with them (StageCache.save, restore).  *)
THEOREM RecordsAreSound == Spec => []RunsSound
<1>1. Inv => RunsSound
  BY DEF Inv
<1> QED
  BY <1>1, AlwaysInv, PTL

LEMMA ReproEndsWith ==
    ASSUME Inv, Next, ReproEnds
    PROVE  CheckStage \/ Dump
<1>1. /\ op.kind = "repro" /\ op' = Idle /\ op.phase \in {"check", "dump"} /\ budget' = budget
      /\ op.linking = {}
  BY DEF ReproEnds, Inv, Linked
<1>2. op'.kind = "none"
  BY <1>1 DEF Idle, Command
<1>3. ~(StartRepro \/ StartCommit \/ StartAdd \/ StartCheckout \/ StartGc)
  BY <1>1 DEF StartRepro, StartCommit, StartAdd, StartCheckout, StartGc, Start, StartWith
<1>4. ~(RemoveOut \/ Restore \/ StartRun \/ RunOut \/ EndRun \/ RunFails)
  BY <1>1 DEF RemoveOut, Restore, StartRun, RunOut, EndRun, RunFails, At, Done
<1>5. ~(CheckoutOut \/ CheckoutRefused \/ EndCheckout \/ LinkOut \/ LinkFails)
  BY <1>1 DEF CheckoutOut, CheckoutRefused, EndCheckout, LinkOut, LinkFails, At, Done
<1>6. ~(CommitOut \/ CommitOutGone \/ CommitRecorded \/ Save \/ SaveRefused \/ RunCacheSave \/ EndCommit)
  BY <1>1 DEF CommitOut, CommitOutGone, CommitRecorded, Save, SaveRefused, RunCacheSave, EndCommit, At, Done
<1>7. ~(GcRemove \/ GcRemoveStray \/ EndGc \/ MoveCutShort)
  BY <1>1 DEF GcRemove, GcRemoveStray, EndGc, MoveCutShort, At
<1>8. ~(Crash \/ UserWrite \/ EditCmd)
  <2>1. budget \in BudgetType
    BY DEF Inv, TypeOK, BudgetType
  <2>2. ~Crash
    <3>1. budget' = [budget EXCEPT !.crashes = @ + 1] => budget'.crashes = budget.crashes + 1
      BY <2>1 DEF BudgetType
    <3> QED
      BY <1>1, <2>1, <3>1 DEF Crash, BudgetType
  <2>3. ~Edit
    BY <1>1, <1>2 DEF Edit
  <2> QED
    BY <2>2, <2>3 DEF UserWrite, EditCmd
<1>9. ~Terminating
  BY <1>1 DEF Terminating
<1> QED
  BY <1>3, <1>4, <1>5, <1>6, <1>7, <1>8, <1>9 DEF Next

LEMMA ReproLeavesUpToDate ==
    ASSUME Inv, [Next]_vars
    PROVE  EndsUpToDate
<1> SUFFICES ASSUME ReproEnds, ~meddled PROVE \A s \in Upstream(s0) : ~EntriesChanged(s)'
  BY DEF EndsUpToDate
<1>1. op.kind = "repro" /\ op' = Idle /\ op.todo = {s0} /\ op.phase \in {"check", "dump"}
  BY DEF ReproEnds
<1>2. Next
  BY <1>1 DEF vars, Idle, Command
<1>3. PICK done \in Stage : done = s0
  BY <1>1, InWork
<1>4. Upstream(done) \subseteq Stage /\ \A s \in Upstream(done) \ {done} : ~EntriesChanged(s)
  <2>1. PICK t \in op.todo :
            \A s \in Upstream(t) \ op.todo : Order[s] < Order[s0] /\ ~EntriesChanged(s)
    BY <1>1 DEF Inv, Followed
  <2>2. t = done
    BY <1>1, <1>3
  <2> QED
    BY <1>1, <1>3, <2>1, <2>2, TargetIsUpstream
<1>5. CASE CheckStage
  <2>1. op' = NextStage /\ ~StageChanged(s0)
    <3>1. op \in Op
      BY DEF Inv, TypeOK
    <3>2. ~(op' = Enter(op, "remove", Outs[s0])) /\ ~(op' = Enter(op, "save", {}))
      <4>1. op'.phase = "idle"
        BY <1>1 DEF Idle, Command
      <4>2. Enter(op, "remove", Outs[s0]).phase = "remove" /\ Enter(op, "save", {}).phase = "save"
        BY <3>1 DEF Enter, Op
      <4> QED
        BY <4>1, <4>2
    <3> QED
      BY <1>5, <3>2 DEF CheckStage
  <2>2. ~EntriesChanged(done)
    BY <1>3, <2>1 DEF StageChanged, EntriesChanged, DepsChanged, OutsChanged
  <2>3. \A s \in Stage : EntriesChanged(s)' <=> EntriesChanged(s)
    BY <1>5 DEF CheckStage, EntriesChanged, CmdChanged, Differs
  <2> QED
    BY <1>3, <1>4, <2>2, <2>3
<1>6. CASE Dump
  BY <1>1, <1>3, <1>4, <1>6, DumpedIsUpToDate
<1> QED
  BY <1>2, <1>5, <1>6, ReproEndsWith

(* A repro that ends well leaves its target and all it depends on as       *)
(* recorded (_reproduce_stages): walking the stages in order, it undoes    *)
(* none of what it has left behind.                                        *)
THEOREM ReproIsComplete == Spec => UpToDate
<1>1. Inv /\ [Next]_vars => [EndsUpToDate]_vars
  BY ReproLeavesUpToDate
<1> QED
  BY <1>1, AlwaysInv, PTL DEF Spec, UpToDate

LEMMA StepLosesNothing ==
    ASSUME Inv, [Next]_vars
    PROVE  LosesNothing
<1> SUFFICES ASSUME NEW p \in Path, ~meddled, ws[p] # NoData, ws'[p] # ws[p],
                    budget'.edits = budget.edits, ~op.force, op.phase \notin {"remove", "run"}
             PROVE  (\E h \in Content : cache'[h] = ws[p]) \/ ws[p] \in strays'
  BY DEF LosesNothing
<1>1. ws \in [Path -> Data] /\ cache \in [Content -> Data] /\ ws[p] \in Content
  BY DEF Inv, TypeOK, Data
<1>2. \A h \in Content : cache[h] \in {NoData, h}
  BY DEF Inv, CacheIntact
<1>3. CheckoutOut \/ LinkOut \/ CommitOut \/ MoveCutShort
  <2>1. ws' # ws
    OBVIOUS
  <2>2. ~(StartRepro \/ StartCommit \/ StartAdd \/ StartCheckout \/ StartGc)
    BY <2>1 DEF StartRepro, StartCommit, StartAdd, StartCheckout, StartGc, Start, StartWith
  <2>3. ~(CheckStage \/ Restore \/ StartRun \/ EndRun \/ RunFails)
    BY <2>1 DEF CheckStage, Restore, StartRun, EndRun, RunFails, Abort
  <2>4. ~(RemoveOut \/ RunOut)
    BY DEF RemoveOut, RunOut, At
  <2>5. ~(CheckoutRefused \/ EndCheckout \/ LinkFails \/ CommitOutGone)
    BY <2>1 DEF CheckoutRefused, EndCheckout, LinkFails, CommitOutGone, Abort
  <2>6. ~(CommitRecorded \/ Save \/ SaveRefused \/ RunCacheSave \/ EndCommit \/ Dump)
    BY <2>1 DEF CommitRecorded, Save, SaveRefused, RunCacheSave, EndCommit, Dump, Abort
  <2>7. ~(GcRemove \/ GcRemoveStray \/ EndGc \/ Crash \/ EditCmd \/ Terminating)
    BY <2>1 DEF GcRemove, GcRemoveStray, EndGc, Crash, EditCmd, Terminating, vars, Abort
  <2>8. ~UserWrite
    <3>1. budget \in BudgetType
      BY DEF Inv, TypeOK, BudgetType
    <3>2. budget' = [budget EXCEPT !.edits = @ + 1] => budget'.edits = budget.edits + 1
      BY <3>1 DEF BudgetType
    <3> QED
      BY <3>1, <3>2 DEF UserWrite, Edit, BudgetType
  <2>9. Next
    BY <2>1 DEF vars
  <2> QED
    BY <2>2, <2>3, <2>4, <2>5, <2>6, <2>7, <2>8, <2>9 DEF Next
<1>4. ASSUME InCache(ws[p]), cache' = cache
      PROVE  \E h \in Content : cache'[h] = ws[p]
  <2>1. cache[ws[p]] = ws[p]
    BY <1>1, <1>2, <1>4 DEF InCache
  <2> QED
    BY <1>1, <1>4, <2>1
<1>5. CASE CheckoutOut
  <2>1. cache' = cache
    BY <1>5 DEF CheckoutOut
  <2>2. PICK q \in op.left : CheckoutDone(q) \/ CheckoutMissing(q) \/ CheckoutReplace(q)
    BY <1>5 DEF CheckoutOut
  <2>3. MayRemove(q) /\ ws' = [ws EXCEPT ![q] = NoData]
    BY <2>2 DEF CheckoutDone, CheckoutMissing, CheckoutReplace
  <2>4. q = p
    BY <1>1, <2>3
  <2> QED
    BY <1>4, <2>1, <2>3, <2>4 DEF MayRemove
<1>6. CASE LinkOut
  <2>1. PICK q \in op.linking : ws[q] = NoData /\ ws' = [ws EXCEPT ![q] = cache[op.mem.outs[q]]]
    BY <1>6 DEF LinkOut
  <2> QED
    BY <1>1, <2>1
<1>7. CASE CommitOut
  <2>1. PICK q \in op.left :
            LET h == op.mem.outs[q]
            IN  /\ ws[q] # NoData
                /\ ws' = [ws EXCEPT ![q] = NoData]
                /\ \/ ~InCache(h) /\ cache' = [cache EXCEPT ![h] = ws[q]]
                   \/ InCache(h) /\ cache' = cache
    BY <1>7 DEF CommitOut
  <2>2. q = p
    BY <1>1, <2>1
  <2>3. /\ op.phase \in {"commit", "runcache"} /\ op.linking = {} /\ op \in Op /\ op.todo # {}
        /\ op.kind \notin {"none", "gc"}
    BY <1>7 DEF CommitOut, At, Inv, TypeOK, Phased
  <2>4. op.left \subseteq Outs[s0]
    BY <2>3 DEF Inv, Phased
  <2>5. op.mem.outs[p] = ws[p]
    <3>1. p \in Outs[s0] \ op.linking /\ p \in op.left
      BY <2>2, <2>3, <2>4
    <3> QED
      BY <2>3, <3>1 DEF Inv, Held, Saving
  <2>6. CASE InCache(ws[p]) /\ cache' = cache
    BY <1>4, <2>6
  <2>7. CASE cache' = [cache EXCEPT ![ws[p]] = ws[p]]
    BY <1>1, <2>7
  <2> QED
    BY <2>1, <2>2, <2>5, <2>6, <2>7
<1>8. CASE MoveCutShort
  <2>1. PICK q \in op.left : ws' = [ws EXCEPT ![q] = NoData] /\ strays' = strays \cup {ws[q]}
    BY <1>8 DEF MoveCutShort
  <2>2. q = p
    BY <1>1, <2>1
  <2> QED
    BY <2>1, <2>2
<1> QED
  BY <1>3, <1>5, <1>6, <1>7, <1>8

(* No command but repro and checkout --force takes from the workspace what *)
(* the cache does not have (CloudCache.safe_remove, _save_file), but for    *)
(* one that is killed between the two renames of move()                     *)
(* (src/dvc/utils/fs.py): the contents are then under a temporary name, and *)
(* the next gc removes them.                                                *)
THEOREM NoContentsLost == Spec => NothingLost
<1>1. Inv /\ [Next]_vars => [LosesNothing]_vars
  BY StepLosesNothing
<1> QED
  BY <1>1, AlwaysInv, PTL DEF Spec, NothingLost
=============================================================================
