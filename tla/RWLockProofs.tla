----------------------------- MODULE RWLockProofs -----------------------------
(* Proofs that the rwlock file and the repository lock together exclude     *)
(* conflicting calls, for every set of processes, stages and paths.         *)
EXTENDS RWLock, SequenceTheorems, TLAPS

LEMMA SetsOfPaths ==
    ASSUME NEW m \in Method, NEW s \in Stage
    PROVE  ReadSet(m, s) \subseteq Path /\ WriteSet(m, s) \subseteq Path
BY ConstantsAssumption DEF ReadSet, WriteSet, Method

(* The sequence of frames without its last one. *)
LEMMA PopProperties ==
    ASSUME NEW S, NEW f \in Seq(S), f # <<>>
    PROVE  /\ Len(f) \in Nat \ {0}
           /\ f[Len(f)] \in S
           /\ SubSeq(f, 1, Len(f) - 1) \in Seq(S)
           /\ Len(SubSeq(f, 1, Len(f) - 1)) = Len(f) - 1
           /\ \A i \in 1..(Len(f) - 1) : SubSeq(f, 1, Len(f) - 1)[i] = f[i]
<1>1. Len(f) \in Nat \ {0} /\ \A i \in 1..Len(f) : f[i] \in S
  BY EmptySeq, LenProperties, ElementOfSeq
<1>2. \A i \in 1..(Len(f) - 1) : f[i] \in S
  BY <1>1
<1> DEFINE n == Len(f) - 1
           g == SubSeq(f, 1, n)
<1>3. n \in Nat /\ n \in Int /\ Len(f) = n + 1
  BY <1>1
<1>4. \A i \in 1..n : f[i] \in S
  BY <1>2
<1> HIDE DEF n
<1>5. /\ g \in Seq(S)
      /\ Len(g) = IF 1 <= n THEN n - 1 + 1 ELSE 0
      /\ \A i \in 1..(n - 1 + 1) : g[i] = f[1 + i - 1]
  BY <1>3, <1>4, SubSeqProperties
<1>6. Len(g) = n /\ \A i \in 1..n : g[i] = f[i]
  BY <1>3, <1>5
<1> QED
  BY <1>1, <1>3, <1>5, <1>6 DEF n

LEMMA AcquireType ==
    ASSUME NEW d \in Dict, NEW p \in Proc, NEW R, NEW W
    PROVE  Acquire(d, p, R, W) \in Dict
BY DEF Dict, Acquire

LEMMA ReleaseType ==
    ASSUME NEW d \in Dict, NEW p \in Proc, NEW R, NEW W
    PROVE  Release(d, p, R, W) \in Dict
BY DEF Dict, Release

LEMMA EmptyDictType == EmptyDict \in Dict
BY DEF EmptyDict, Dict

(* Every variable keeps its type in every step. *)
LEMMA TypeStep ==
    ASSUME TypeOK, [Next]_vars
    PROVE  TypeOK'
<1> USE DEF TypeOK
<1>1. ASSUME NEW p \in Proc, Begin(p) PROVE TypeOK'
  BY <1>1 DEF Begin, Pc
<1>2. ASSUME NEW p \in Proc, TryLock(p) PROVE TypeOK'
  <2>1. tries[p] \in 0..Retries /\ 0 \in 0..Retries
    BY ConstantsAssumption
  <2>2. tries[p] + 1 < Retries => tries[p] + 1 \in 0..Retries
    BY <2>1, ConstantsAssumption
  <2>3. tries' \in [Proc -> 0..Retries]
    BY <1>2, <2>1, <2>2 DEF TryLock
  <2> QED
    BY <1>2, <2>3 DEF TryLock, Pc
<1>3. ASSUME NEW p \in Proc, NEW m \in Method, NEW s \in Stage, Call(p, m, s)
      PROVE  TypeOK'
  <2> DEFINE R == ReadSet(m, s)
             W == WriteSet(m, s)
             fr == [method   |-> m, stage |-> s,
                    rchanges |-> AcquireReadChanges(file, p, R),
                    wchanges |-> AcquireWriteChanges(file, p, W)]
  <2>1. calls' \in [Proc -> 0..MaxCalls]
    BY <1>3, ConstantsAssumption DEF Call
  <2>2. CASE file = Corrupt \/ CheckBlockers(file, p, R, W)
    BY <1>3, <2>1, <2>2 DEF Call, Pc
  <2>3. CASE ~(file = Corrupt \/ CheckBlockers(file, p, R, W))
    <3>1. fr \in Frame
      BY SetsOfPaths DEF Frame, AcquireReadChanges, AcquireWriteChanges
    <3>2. Append(frames[p], fr) \in Seq(Frame)
      BY <3>1, AppendProperties
    <3>3. Acquire(file, p, R, W) \in Dict
      BY <2>3, AcquireType
    <3> HIDE DEF fr, R, W
    <3>4. /\ lock' = [lock EXCEPT ![p] = Acquire(file, p, R, W)]
          /\ frames' = [frames EXCEPT ![p] = Append(@, fr)]
          /\ ran' \in [Proc -> BOOLEAN]
          /\ pc' = [pc EXCEPT ![p] = "acquired"]
          /\ UNCHANGED <<raised, repoLock, file, tries, callback, unguarded>>
      BY <1>3, <2>3 DEF Call, fr, R, W
    <3> QED
      BY <2>1, <3>2, <3>3, <3>4 DEF Pc
  <2> QED
    BY <2>2, <2>3
<1>4. ASSUME NEW p \in Proc, Return(p) PROVE TypeOK'
  <2>1. frames' \in [Proc -> Seq(Frame)]
    BY <1>4, PopProperties DEF Return, Pop
  <2>2. CASE file = Corrupt \/ ~ReleaseOK(file, p, Top(p).rchanges, Top(p).wchanges)
    BY <1>4, <2>1, <2>2 DEF Return, Pc
  <2>3. CASE ~(file = Corrupt \/ ~ReleaseOK(file, p, Top(p).rchanges, Top(p).wchanges))
    <3>1. Release(file, p, Top(p).rchanges, Top(p).wchanges) \in Dict
      BY <2>3, ReleaseType
    <3> QED
      BY <1>4, <2>1, <2>3, <3>1 DEF Return, Pc
  <2> QED
    BY <2>2, <2>3
<1>5. ASSUME NEW p \in Proc, Truncate(p) PROVE TypeOK'
  BY <1>5 DEF Truncate, Pc
<1>6. ASSUME NEW p \in Proc, Dump(p) PROVE TypeOK'
  BY <1>6, EmptyDictType DEF Dump, Pc
<1>7. ASSUME NEW p \in Proc, StartCmd(p) PROVE TypeOK'
  BY <1>7 DEF StartCmd, Pc
<1>8. ASSUME NEW p \in Proc, CmdExit(p) PROVE TypeOK'
  BY <1>8 DEF CmdExit, Pc
<1>9. ASSUME NEW p \in Proc, CheckpointSignal(p) PROVE TypeOK'
  BY <1>9, ConstantsAssumption DEF CheckpointSignal, Pc
<1>10. ASSUME NEW p \in Proc, Relock(p) PROVE TypeOK'
  <2>1. tries[p] \in 0..Retries /\ 0 \in 0..Retries
    BY ConstantsAssumption
  <2>2. tries[p] + 1 < Retries => tries[p] + 1 \in 0..Retries
    BY <2>1, ConstantsAssumption
  <2>3. tries' \in [Proc -> 0..Retries]
    BY <1>10, <2>1, <2>2 DEF Relock
  <2> QED
    BY <1>10, <2>3 DEF Relock, Pc
<1>11. ASSUME NEW p \in Proc, CallbackRelock(p) PROVE TypeOK'
  <2>1. tries[p] \in 0..Retries /\ 0 \in 0..Retries
    BY ConstantsAssumption
  <2>2. tries[p] + 1 < Retries => tries[p] + 1 \in 0..Retries
    BY <2>1, ConstantsAssumption
  <2>3. tries' \in [Proc -> 0..Retries]
    BY <1>11, <2>1, <2>2 DEF CallbackRelock
  <2> QED
    BY <1>11, <2>3 DEF CallbackRelock, Pc
<1>12. ASSUME NEW p \in Proc, CallbackEnd(p) PROVE TypeOK'
  BY <1>12 DEF CallbackEnd, Pc
<1>13. ASSUME NEW p \in Proc, Exit(p) PROVE TypeOK'
  BY <1>13, ConstantsAssumption DEF Exit, Pc
<1>14. ASSUME NEW p \in Proc, Crash(p) PROVE TypeOK'
  BY <1>14, EmptyDictType, ConstantsAssumption, EmptySeq DEF Crash, Pc
<1>15. CASE UserRemovesFile
  BY <1>15, EmptyDictType DEF UserRemovesFile, Pc
<1>16. CASE UNCHANGED vars
  BY <1>16 DEF vars
<1> QED
  BY <1>1, <1>2, <1>3, <1>4, <1>5, <1>6, <1>7, <1>8, <1>9, <1>10, <1>11,
     <1>12, <1>13, <1>14, <1>15, <1>16 DEF Next, Step

(* Type correctness for every value of the constants. *)
THEOREM TypeCorrect == Spec => []TypeOK
<1>1. Init => TypeOK
  <2>1. <<>> \in Seq(Frame) /\ 0 \in 0..Retries /\ 0 \in 0..MaxCalls
    BY EmptySeq, ConstantsAssumption
  <2> QED
    BY <2>1, EmptyDictType DEF Init, TypeOK, Pc
<1> QED
  BY <1>1, TypeStep, PTL DEF Spec

-----------------------------------------------------------------------------
LEMMA WritesOf ==
    ASSUME NEW p \in Proc, NEW x
    PROVE  x \in Writes(p) <=> \E i \in DOMAIN frames[p] : x \in FrameWrites(frames[p][i])
BY DEF Writes

LEMMA ReadsOf ==
    ASSUME NEW p \in Proc, NEW x
    PROVE  x \in Reads(p) <=> \E i \in DOMAIN frames[p] : x \in FrameReads(frames[p][i])
BY DEF Reads

LEMMA FramePaths ==
    ASSUME NEW f \in Frame
    PROVE  FrameReads(f) \subseteq Path /\ FrameWrites(f) \subseteq Path
BY SetsOfPaths DEF Frame, FrameReads, FrameWrites

(* What the discipline says of the frames alone. *)
FramesOK == (\A p \in Proc : Nested(p) /\ OwnChanges(p)) /\ Exclusion

LEMMA FramesUnchanged ==
    ASSUME FramesOK, UNCHANGED frames
    PROVE  FramesOK'
BY DEF FramesOK, Nested, OwnChanges, Exclusion, Reads, Writes

LEMMA CoversUnchanged ==
    ASSUME NEW d, NEW p \in Proc, UNCHANGED frames[p], Covers(d, p)
    PROVE  Covers(d, p)'
BY DEF Covers

(* A call that starts: its dictionary covers the calls of every process.   *)
LEMMA CallStep ==
    ASSUME TypeOK, Discipline, ~unguarded,
           NEW p \in Proc, NEW m \in Method, NEW s \in Stage, Call(p, m, s)
    PROVE  Discipline'
<1> DEFINE R == ReadSet(m, s)
           W == WriteSet(m, s)
           d == Acquire(file, p, R, W)
           fr == [method   |-> m, stage |-> s,
                  rchanges |-> AcquireReadChanges(file, p, R),
                  wchanges |-> AcquireWriteChanges(file, p, W)]
<1>1. LockHeld /\ FileCovers /\ EditCovers /\ FramesOK
  BY DEF Discipline, FramesOK
<1>2. pc[p] = "in" /\ repoLock = p /\ repoLock' = repoLock
  BY DEF Call
<1>3. \A q \in Proc \ {p} : pc[q] \notin EditPc \cup {"in"}
  BY <1>1, <1>2 DEF LockHeld
<1>4. CASE file = Corrupt \/ CheckBlockers(file, p, R, W)
  <2>1. UNCHANGED <<pc, frames, lock, file, repoLock>>
    BY <1>4 DEF Call
  <2> QED
    BY <1>1, <2>1, FramesUnchanged
       DEF Discipline, LockHeld, FileCovers, EditCovers, Covers, FramesOK
<1>5. CASE file # Corrupt /\ ~CheckBlockers(file, p, R, W)
  <2>1. /\ lock' = [lock EXCEPT ![p] = d]
        /\ frames' = [frames EXCEPT ![p] = Append(@, fr)]
        /\ pc' = [pc EXCEPT ![p] = "acquired"]
        /\ UNCHANGED <<repoLock, file>>
    BY <1>5 DEF Call
  <2>2. file \in Dict
    BY <1>5 DEF TypeOK
  <2>3. R \subseteq Path /\ W \subseteq Path
    BY SetsOfPaths
  <2>4. fr \in Frame
    BY <2>3 DEF Frame, AcquireReadChanges, AcquireWriteChanges
  <2>5. FrameReads(fr) = R /\ FrameWrites(fr) = W
    BY DEF FrameReads, FrameWrites
  <2>6. frames[p] \in Seq(Frame) /\ \A q \in Proc : frames[q] \in Seq(Frame)
    BY DEF TypeOK
  <2> DEFINE old == frames[p]
             n == Len(old)
  <2>7. /\ n \in Nat
        /\ DOMAIN old = 1..n
        /\ frames'[p] \in Seq(Frame)
        /\ DOMAIN frames'[p] = 1..(n + 1)
        /\ \A i \in 1..n : frames'[p][i] = old[i]
        /\ frames'[p][n + 1] = fr
    <3>1. frames'[p] = Append(old, fr)
      BY <2>1, <2>6 DEF TypeOK
    <3>2. /\ Append(old, fr) \in Seq(Frame)
          /\ Len(Append(old, fr)) = n + 1
          /\ \A i \in 1..n : Append(old, fr)[i] = old[i]
          /\ Append(old, fr)[n + 1] = fr
      BY <2>4, <2>6, AppendProperties
    <3> HIDE DEF fr
    <3> QED
      BY <2>6, <3>1, <3>2, LenProperties
  <2>8. \A q \in Proc \ {p} : frames'[q] = frames[q]
    BY <2>1 DEF TypeOK
  <2>9. \A q \in Proc : Covers(file, q)
    BY <1>1, <1>2, <1>3, <1>5 DEF FileCovers, EditPc
  <2>10. \A x \in R \cup W, y \in Path : <<x, y>> \in Overlap => file.write[y] \in {p, NoProc}
    BY <1>5, <2>2 DEF CheckBlockers, WriteBlockers, Dict
  <2>11. \A x \in W, y \in Path : <<x, y>> \in Overlap => file.read[y] \subseteq {p}
    BY <1>5, <2>2 DEF CheckBlockers, ReadBlockers, Dict
  <2> HIDE DEF fr, R, W
  <2>12. /\ \A x \in Path : x \in W => d.write[x] = p
         /\ \A x \in Path : x \notin W => d.write[x] = file.write[x]
         /\ \A x \in Path : x \in R => p \in d.read[x]
         /\ \A x \in Path : file.read[x] \subseteq d.read[x]
    BY DEF Acquire
  <2> HIDE DEF d
  <2> DEFINE Covered(q) ==
               \A i \in DOMAIN frames'[q] :
                   /\ \A x \in FrameWrites(frames'[q][i]) : d.write[x] = q
                   /\ \A x \in FrameReads(frames'[q][i]) : q \in d.read[x]
  <2>13. \A q \in Proc : Covered(q)
    <3> SUFFICES ASSUME NEW q \in Proc PROVE Covered(q)
      OBVIOUS
    <3>1. ASSUME NEW i \in DOMAIN frames[q]
          PROVE  /\ \A x \in FrameWrites(frames[q][i]) : d.write[x] = q
                 /\ \A x \in FrameReads(frames[q][i]) : q \in d.read[x]
      <4>1. frames[q][i] \in Frame
        BY <2>6, ElementOfSeq, LenProperties
      <4>2. /\ FrameReads(frames[q][i]) \subseteq Path
            /\ FrameWrites(frames[q][i]) \subseteq Path
        BY <4>1, FramePaths
      <4>3. ASSUME NEW x \in FrameWrites(frames[q][i]) PROVE d.write[x] = q
        <5>1. file.write[x] = q /\ x \in Path
          BY <2>9, <4>2 DEF Covers
        <5>2. x \in W => q = p
          BY <2>10, <5>1, OverlapAssumption, ConstantsAssumption
        <5> QED
          BY <2>12, <5>1, <5>2
      <4>4. ASSUME NEW x \in FrameReads(frames[q][i]) PROVE q \in d.read[x]
        BY <2>9, <2>12, <4>2 DEF Covers
      <4> QED
        BY <4>3, <4>4
    <3>2. CASE q # p
      BY <2>8, <3>1, <3>2
    <3>3. CASE q = p
      <4>1. /\ \A x \in FrameWrites(fr) : d.write[x] = p
            /\ \A x \in FrameReads(fr) : p \in d.read[x]
        BY <2>3, <2>5, <2>12
      <4>2. DOMAIN frames[q] = 1..n /\ DOMAIN frames'[q] = 1..(n + 1)
        BY <2>7, <3>3
      <4>3. ASSUME NEW i \in 1..n
            PROVE  /\ \A x \in FrameWrites(frames'[q][i]) : d.write[x] = q
                   /\ \A x \in FrameReads(frames'[q][i]) : q \in d.read[x]
        BY <2>7, <3>1, <3>3, <4>2
      <4>4. \A i \in 1..(n + 1) : i \in 1..n \/ i = n + 1
        BY <2>7
      <4> QED
        BY <2>7, <3>3, <4>1, <4>2, <4>3, <4>4
    <3> QED
      BY <3>2, <3>3
  <2>14. FileCovers'
    <3> SUFFICES ASSUME NEW q \in Proc, pc'[q] # "acquired" PROVE Covers(file, q)'
      BY DEF FileCovers
    <3>1. q # p
      BY <2>1 DEF TypeOK
    <3> QED
      BY <2>1, <2>8, <2>9, <3>1 DEF Covers
  <2>15. EditCovers'
    <3> SUFFICES ASSUME NEW q \in Proc, pc'[q] \in EditPc, NEW r \in Proc
                 PROVE  Covers(lock[q], r)'
      BY DEF EditCovers
    <3>1. q = p
      BY <1>3, <2>1 DEF TypeOK
    <3>2. lock'[q] = d
      BY <2>1, <3>1 DEF TypeOK
    <3> QED
      BY <2>13, <3>2 DEF Covers
  <2>16. LockHeld'
    BY <1>1, <1>2, <2>1, <2>8 DEF LockHeld, TypeOK, EditPc
  <2>17. \A q \in Proc : Nested(q)' /\ OwnChanges(q)'
    <3> SUFFICES ASSUME NEW q \in Proc PROVE Nested(q)' /\ OwnChanges(q)'
      OBVIOUS
    <3>1. CASE q # p
      BY <1>1, <2>8, <3>1 DEF FramesOK, Nested, OwnChanges
    <3>2. CASE q = p
      <4>1. Nested(p) /\ OwnChanges(p)
        BY <1>1 DEF FramesOK
      <4>2. /\ fr.wchanges = AcquireWriteChanges(file, p, W)
            /\ fr.rchanges = AcquireReadChanges(file, p, R)
        BY DEF fr
      <4>3. ASSUME NEW i \in 1..n
            PROVE  /\ fr.wchanges \cap FrameWrites(old[i]) = {}
                   /\ fr.rchanges \cap FrameReads(old[i]) = {}
        BY <2>7, <2>9, <4>2 DEF Covers, AcquireWriteChanges, AcquireReadChanges
      <4>4. /\ fr.wchanges \subseteq FrameWrites(fr)
            /\ fr.rchanges \subseteq FrameReads(fr)
        BY <2>5, <4>2 DEF AcquireWriteChanges, AcquireReadChanges
      <4>5. OwnChanges(p)'
        BY <2>7, <4>1, <4>4 DEF OwnChanges
      <4>6. Nested(p)'
        <5> SUFFICES ASSUME NEW i \in 1..(n + 1), NEW j \in 1..(n + 1), i < j
                     PROVE  /\ frames'[p][j].wchanges \cap FrameWrites(frames'[p][i]) = {}
                            /\ frames'[p][j].rchanges \cap FrameReads(frames'[p][i]) = {}
          BY <2>7 DEF Nested
        <5>1. i \in 1..n
          BY <2>7
        <5>2. CASE j = n + 1
          BY <2>7, <4>3, <5>1, <5>2
        <5>3. CASE j \in 1..n
          BY <2>7, <4>1, <5>1, <5>3 DEF Nested
        <5> QED
          BY <2>7, <5>2, <5>3
      <4> QED
        BY <3>2, <4>5, <4>6
    <3> QED
      BY <3>1, <3>2
  <2>18. Exclusion'
    <3>1. /\ Writes(p)' = Writes(p) \cup W
          /\ Reads(p)' = Reads(p) \cup R
      <4>1. \A i \in 1..(n + 1) : i \in 1..n \/ i = n + 1
        BY <2>7
      <4>2. n + 1 \in 1..(n + 1) /\ \A i \in 1..n : i \in 1..(n + 1)
        BY <2>7
      <4> QED
        BY <2>5, <2>7, <4>1, <4>2 DEF Writes, Reads
    <3>2. \A q \in Proc \ {p} : Writes(q)' = Writes(q) /\ Reads(q)' = Reads(q)
      BY <2>8 DEF Writes, Reads
    <3>3. \A q \in Proc : \A x \in Writes(q) : x \in Path /\ file.write[x] = q
      <4> SUFFICES ASSUME NEW q \in Proc, NEW x \in Writes(q)
                   PROVE  x \in Path /\ file.write[x] = q
        OBVIOUS
      <4>1. PICK i \in DOMAIN frames[q] : x \in FrameWrites(frames[q][i])
        BY WritesOf
      <4>2. frames[q][i] \in Frame
        BY <2>6, ElementOfSeq, LenProperties
      <4> QED
        BY <2>9, <4>1, <4>2, FramePaths DEF Covers
    <3>4. \A q \in Proc : \A x \in Reads(q) : x \in Path /\ q \in file.read[x]
      <4> SUFFICES ASSUME NEW q \in Proc, NEW x \in Reads(q)
                   PROVE  x \in Path /\ q \in file.read[x]
        OBVIOUS
      <4>1. PICK i \in DOMAIN frames[q] : x \in FrameReads(frames[q][i])
        BY ReadsOf
      <4>2. frames[q][i] \in Frame
        BY <2>6, ElementOfSeq, LenProperties
      <4> QED
        BY <2>9, <4>1, <4>2, FramePaths DEF Covers
    <3> SUFFICES ASSUME NEW q \in Proc, NEW r \in Proc, q # r,
                        NEW x \in Writes(q)', NEW y \in (Reads(r) \cup Writes(r))',
                        <<x, y>> \in Overlap
                 PROVE  FALSE
      BY DEF Exclusion
    <3>5. CASE q # p /\ r # p
      BY <1>1, <3>2, <3>5 DEF FramesOK, Exclusion
    <3>6. CASE q = p
      <4>1. y \in Reads(r) \cup Writes(r)
        BY <3>2, <3>6
      <4>2. CASE x \in Writes(p)
        BY <1>1, <3>6, <4>1, <4>2 DEF FramesOK, Exclusion
      <4>3. CASE x \in W
        <5>1. CASE y \in Writes(r)
          BY <2>10, <3>3, <3>6, <4>3, <5>1, ConstantsAssumption
        <5>2. CASE y \in Reads(r)
          BY <2>11, <3>4, <3>6, <4>3, <5>2
        <5> QED
          BY <4>1, <5>1, <5>2
      <4> QED
        BY <3>1, <3>6, <4>2, <4>3
    <3>7. CASE r = p
      <4>1. x \in Writes(q)
        BY <3>2, <3>7
      <4>2. CASE y \in Reads(p) \cup Writes(p)
        BY <1>1, <3>7, <4>1, <4>2 DEF FramesOK, Exclusion
      <4>3. CASE y \in R \cup W
        <5>1. x \in Path /\ y \in Path
          BY <2>3, <3>3, <4>1, <4>3
        <5>2. <<y, x>> \in Overlap
          BY <5>1, OverlapAssumption
        <5> QED
          BY <2>10, <3>3, <3>7, <4>1, <4>3, <5>1, <5>2, ConstantsAssumption
      <4> QED
        BY <3>1, <3>7, <4>2, <4>3
    <3> QED
      BY <3>5, <3>6, <3>7
  <2> QED
    BY <2>14, <2>15, <2>16, <2>17, <2>18 DEF Discipline
<1> QED
  BY <1>4, <1>5

(* A call that ends: what it takes back is nobody else's and not what the  *)
(* calls around it rely on.                                                *)
LEMMA ReturnStep ==
    ASSUME TypeOK, Discipline, ~unguarded, NEW p \in Proc, Return(p)
    PROVE  Discipline'
<1> DEFINE old == frames[p]
           n == Len(old)
           d == Release(file, p, Top(p).rchanges, Top(p).wchanges)
           ok == file # Corrupt /\ ReleaseOK(file, p, Top(p).rchanges, Top(p).wchanges)
<1>1. LockHeld /\ FileCovers /\ EditCovers /\ FramesOK
  BY DEF Discipline, FramesOK
<1>2. pc[p] = "in" /\ repoLock = p /\ UNCHANGED <<repoLock, file>>
  BY <1>1 DEF Return, LockHeld
<1>3. \A q \in Proc \ {p} : pc[q] \notin EditPc \cup {"in"}
  BY <1>1, <1>2 DEF LockHeld
<1>4. \A q \in Proc : frames[q] \in Seq(Frame)
  BY DEF TypeOK
<1>5. /\ n \in Nat \ {0}
      /\ DOMAIN old = 1..n
      /\ DOMAIN frames'[p] = 1..(n - 1)
      /\ \A i \in 1..(n - 1) : i \in 1..n /\ i < n /\ frames'[p][i] = old[i]
  <2>1. old \in Seq(Frame) /\ old # <<>>
    BY <1>4 DEF Return
  <2>2. frames'[p] = SubSeq(old, 1, n - 1)
    BY DEF Return, Pop, TypeOK
  <2>3. /\ n \in Nat \ {0}
        /\ SubSeq(old, 1, n - 1) \in Seq(Frame)
        /\ Len(SubSeq(old, 1, n - 1)) = n - 1
        /\ \A i \in 1..(n - 1) : SubSeq(old, 1, n - 1)[i] = old[i]
    BY <2>1, PopProperties
  <2>4. \A i \in 1..(n - 1) : i \in 1..n /\ i < n
    BY <2>3
  <2> QED
    BY <2>1, <2>2, <2>3, <2>4, LenProperties
<1>6. \A q \in Proc \ {p} : frames'[q] = frames[q]
  BY DEF Return, Pop, TypeOK
<1>7. FramesOK'
  <2>1. \A q \in Proc : Nested(q) /\ OwnChanges(q)
    BY <1>1 DEF FramesOK
  <2>2. Nested(p)' /\ OwnChanges(p)'
    BY <1>5, <2>1 DEF Nested, OwnChanges
  <2>3. \A q \in Proc \ {p} : Nested(q)' /\ OwnChanges(q)'
    BY <1>6, <2>1 DEF Nested, OwnChanges
  <2>4. Writes(p)' \subseteq Writes(p) /\ Reads(p)' \subseteq Reads(p)
    BY <1>5 DEF Writes, Reads
  <2>5. \A q \in Proc \ {p} : Writes(q)' = Writes(q) /\ Reads(q)' = Reads(q)
    BY <1>6 DEF Writes, Reads
  <2>6. \A q \in Proc : Writes(q)' \subseteq Writes(q) /\ Reads(q)' \subseteq Reads(q)
    BY <2>4, <2>5
  <2>7. Exclusion'
    BY <1>1, <2>6 DEF FramesOK, Exclusion
  <2> QED
    BY <2>2, <2>3, <2>7 DEF FramesOK
<1>8. \A q \in Proc : file # Corrupt => Covers(file, q)
  BY <1>1, <1>2, <1>3 DEF FileCovers, EditPc
<1>9. \A q \in Proc : file # Corrupt => Covers(file, q)'
  <2> SUFFICES ASSUME NEW q \in Proc, file # Corrupt PROVE Covers(file, q)'
    OBVIOUS
  <2>1. CASE q # p
    BY <1>2, <1>6, <1>8, <2>1 DEF Covers
  <2>2. CASE q = p
    BY <1>2, <1>5, <1>8, <2>2 DEF Covers
  <2> QED
    BY <2>1, <2>2
<1>10. CASE ~ok
  <2>1. UNCHANGED <<pc, lock>>
    BY <1>10 DEF Return
  <2>2. EditCovers'
    BY <1>1, <1>2, <1>3, <2>1 DEF EditCovers, EditPc
  <2>3. LockHeld' /\ FileCovers'
    BY <1>1, <1>2, <1>6, <1>9, <2>1 DEF LockHeld, FileCovers
  <2> QED
    BY <1>7, <2>2, <2>3 DEF Discipline, FramesOK
<1>11. CASE ok
  <2>1. lock' = [lock EXCEPT ![p] = d] /\ pc' = [pc EXCEPT ![p] = "released"]
    BY <1>11 DEF Return
  <2>2. LockHeld'
    BY <1>1, <1>2, <1>6, <2>1 DEF LockHeld, TypeOK, EditPc
  <2>3. FileCovers'
    BY <1>2, <1>9 DEF FileCovers
  <2>4. /\ \A x \in Path : x \notin Top(p).wchanges => d.write[x] = file.write[x]
        /\ \A x \in Path : x \notin Top(p).rchanges => d.read[x] = file.read[x]
        /\ \A x \in Path : file.read[x] \ {p} \subseteq d.read[x]
        /\ \A x \in Top(p).wchanges : file.write[x] = p
    BY <1>11 DEF Release, ReleaseOK
  <2>5. Top(p) = old[n]
    BY DEF Top
  <2> HIDE DEF d
  <2> DEFINE Covered(q) ==
               \A i \in DOMAIN frames'[q] :
                   /\ \A x \in FrameWrites(frames'[q][i]) : d.write[x] = q
                   /\ \A x \in FrameReads(frames'[q][i]) : q \in d.read[x]
  <2>6. \A q \in Proc : Covered(q)
    <3> SUFFICES ASSUME NEW q \in Proc, NEW i \in DOMAIN frames'[q]
                 PROVE  /\ \A x \in FrameWrites(frames'[q][i]) : d.write[x] = q
                        /\ \A x \in FrameReads(frames'[q][i]) : q \in d.read[x]
      OBVIOUS
    <3>1. i \in DOMAIN frames[q] /\ frames'[q][i] = frames[q][i]
      BY <1>5, <1>6
    <3>2. frames[q][i] \in Frame
      BY <1>4, <3>1, ElementOfSeq, LenProperties
    <3>3. /\ \A x \in FrameWrites(frames[q][i]) : x \in Path /\ file.write[x] = q
          /\ \A x \in FrameReads(frames[q][i]) : x \in Path /\ q \in file.read[x]
      BY <1>8, <1>11, <3>1, <3>2, FramePaths DEF Covers
    <3>4. CASE q # p
      BY <2>4, <3>1, <3>3, <3>4
    <3>5. CASE q = p
      <4>1. n \in DOMAIN old /\ i \in DOMAIN old /\ i < n
        BY <1>5, <3>5
      <4>2. /\ Top(p).wchanges \cap FrameWrites(old[i]) = {}
            /\ Top(p).rchanges \cap FrameReads(old[i]) = {}
        BY <1>1, <2>5, <4>1 DEF FramesOK, Nested
      <4> QED
        BY <2>4, <3>1, <3>3, <3>5, <4>2
    <3> QED
      BY <3>4, <3>5
  <2>7. EditCovers'
    <3> SUFFICES ASSUME NEW q \in Proc, pc'[q] \in EditPc, NEW r \in Proc
                 PROVE  Covers(lock[q], r)'
      BY DEF EditCovers
    <3>1. q = p
      BY <1>3, <2>1 DEF TypeOK
    <3>2. lock'[q] = d
      BY <2>1, <3>1 DEF TypeOK
    <3> QED
      BY <2>6, <3>2 DEF Covers
  <2> QED
    BY <1>7, <2>2, <2>3, <2>7 DEF Discipline, FramesOK
<1> QED
  BY <1>10, <1>11

(* A relock that has failed stays on record. *)
LEMMA UnguardedStays ==
    ASSUME TypeOK, [Next]_vars, ~unguarded'
    PROVE  ~unguarded
<1>1. ASSUME NEW p \in Proc, Begin(p) \/ TryLock(p) \/ Return(p) \/ Truncate(p) \/ Dump(p)
      PROVE  unguarded' = unguarded
  BY <1>1 DEF Begin, TryLock, Return, Truncate, Dump
<1>2. ASSUME NEW p \in Proc, NEW m \in Method, NEW s \in Stage, Call(p, m, s)
      PROVE  unguarded' = unguarded
  BY <1>2 DEF Call
<1>3. ASSUME NEW p \in Proc, StartCmd(p) \/ CmdExit(p) \/ CheckpointSignal(p)
                             \/ CallbackRelock(p) \/ CallbackEnd(p)
      PROVE  unguarded' = unguarded
  BY <1>3 DEF StartCmd, CmdExit, CheckpointSignal, CallbackRelock, CallbackEnd
<1>4. ASSUME NEW p \in Proc, Exit(p) \/ Crash(p) PROVE unguarded' = unguarded
  BY <1>4 DEF Exit, Crash
<1>5. ASSUME NEW p \in Proc, Relock(p) PROVE unguarded' = unguarded
  BY <1>5 DEF Relock, TypeOK
<1>6. CASE UserRemovesFile \/ UNCHANGED vars
  BY <1>6 DEF UserRemovesFile, vars
<1> QED
  BY <1>1, <1>2, <1>3, <1>4, <1>5, <1>6, Zenon DEF Next, Step

(* Every step keeps the discipline as long as no relock has failed. *)
LEMMA DisciplineStep ==
    ASSUME TypeOK, Discipline, [Next]_vars
    PROVE  Discipline'
<1> SUFFICES ASSUME ~unguarded' PROVE Discipline'
  BY DEF Discipline
<1>1. ~unguarded
  BY UnguardedStays
<1>2. LockHeld /\ FileCovers /\ EditCovers /\ FramesOK
  BY <1>1 DEF Discipline, FramesOK
<1> SUFFICES LockHeld' /\ FileCovers' /\ EditCovers' /\ FramesOK'
  BY DEF Discipline, FramesOK
(* Steps that leave the file, the loaded dictionaries and the frames. *)
<1>3. ASSUME UNCHANGED <<file, lock, frames>>, LockHeld',
             \A q \in Proc : pc'[q] = "acquired" <=> pc[q] = "acquired",
             \A q \in Proc : pc'[q] \in EditPc => pc[q] \in EditPc
      PROVE  LockHeld' /\ FileCovers' /\ EditCovers' /\ FramesOK'
  <2>1. FramesOK'
    BY <1>2, <1>3, FramesUnchanged
  <2> QED
    BY <1>2, <1>3, <2>1 DEF FileCovers, EditCovers, Covers
<1>4. ASSUME NEW p \in Proc, Begin(p)
      PROVE  LockHeld' /\ FileCovers' /\ EditCovers' /\ FramesOK'
  BY <1>2, <1>3, <1>4 DEF Begin, LockHeld, EditPc, TypeOK
<1>5. ASSUME NEW p \in Proc, TryLock(p)
      PROVE  LockHeld' /\ FileCovers' /\ EditCovers' /\ FramesOK'
  BY <1>2, <1>3, <1>5, ConstantsAssumption DEF TryLock, LockHeld, EditPc, TypeOK
<1>6. ASSUME NEW p \in Proc, NEW m \in Method, NEW s \in Stage, Call(p, m, s)
      PROVE  LockHeld' /\ FileCovers' /\ EditCovers' /\ FramesOK'
  BY <1>1, <1>6, CallStep DEF Discipline, FramesOK
<1>7. ASSUME NEW p \in Proc, Return(p)
      PROVE  LockHeld' /\ FileCovers' /\ EditCovers' /\ FramesOK'
  BY <1>1, <1>7, ReturnStep DEF Discipline, FramesOK
<1>8. ASSUME NEW p \in Proc, Truncate(p)
      PROVE  LockHeld' /\ FileCovers' /\ EditCovers' /\ FramesOK'
  <2>1. LockHeld' /\ FileCovers'
    BY <1>2, <1>8 DEF Truncate, LockHeld, FileCovers, EditPc, TypeOK
  <2>2. EditCovers'
    BY <1>2, <1>8 DEF Truncate, EditCovers, Covers, EditPc, TypeOK
  <2>3. FramesOK'
    BY <1>2, <1>8, FramesUnchanged DEF Truncate
  <2> QED
    BY <2>1, <2>2, <2>3
<1>9. ASSUME NEW p \in Proc, Dump(p)
      PROVE  LockHeld' /\ FileCovers' /\ EditCovers' /\ FramesOK'
  <2>1. LockHeld'
    BY <1>2, <1>9 DEF Dump, LockHeld, EditPc, TypeOK
  <2>2. \A q \in Proc : Covers(lock[p], q)
    BY <1>2, <1>9 DEF Dump, EditCovers, EditPc
  <2>3. FileCovers'
    BY <1>9, <2>2 DEF Dump, FileCovers, Covers
  <2>4. EditCovers'
    <3>1. \A q \in Proc \ {p} : pc'[q] \notin EditPc
      BY <1>2, <1>9 DEF Dump, LockHeld, EditPc, TypeOK
    <3>2. pc'[p] \notin EditPc
      BY <1>9 DEF Dump, EditPc, TypeOK
    <3> QED
      BY <3>1, <3>2 DEF EditCovers
  <2>5. FramesOK'
    BY <1>2, <1>9, FramesUnchanged DEF Dump
  <2> QED
    BY <2>1, <2>3, <2>4, <2>5
<1>10. ASSUME NEW p \in Proc, StartCmd(p)
       PROVE  LockHeld' /\ FileCovers' /\ EditCovers' /\ FramesOK'
  BY <1>2, <1>3, <1>10 DEF StartCmd, LockHeld, EditPc, TypeOK
<1>11. ASSUME NEW p \in Proc, CmdExit(p)
       PROVE  LockHeld' /\ FileCovers' /\ EditCovers' /\ FramesOK'
  BY <1>2, <1>3, <1>11 DEF CmdExit, LockHeld, EditPc, TypeOK
<1>12. ASSUME NEW p \in Proc, CheckpointSignal(p)
       PROVE  LockHeld' /\ FileCovers' /\ EditCovers' /\ FramesOK'
  BY <1>2, <1>3, <1>12 DEF CheckpointSignal, LockHeld, EditPc, TypeOK
<1>13. ASSUME NEW p \in Proc, Relock(p)
       PROVE  LockHeld' /\ FileCovers' /\ EditCovers' /\ FramesOK'
  <2>1. \/ /\ repoLock = NoProc
           /\ repoLock' = p
           /\ pc' = [pc EXCEPT ![p] = "in"]
        \/ UNCHANGED <<repoLock, pc>>
    BY <1>13 DEF Relock
  <2>2. pc[p] = "relock" /\ UNCHANGED <<file, lock, frames>>
    BY <1>13 DEF Relock
  <2> QED
    BY <1>2, <1>3, <2>1, <2>2, ConstantsAssumption DEF LockHeld, EditPc, TypeOK
<1>14. ASSUME NEW p \in Proc, CallbackRelock(p)
       PROVE  LockHeld' /\ FileCovers' /\ EditCovers' /\ FramesOK'
  <2>1. \/ /\ repoLock = NoProc
           /\ repoLock' = p
           /\ pc' = [pc EXCEPT ![p] = "in"]
        \/ UNCHANGED <<repoLock, pc>>
        \/ UNCHANGED repoLock /\ pc' = [pc EXCEPT ![p] = "relock"]
    BY <1>14 DEF CallbackRelock
  <2>2. pc[p] = "callback_relock" /\ UNCHANGED <<file, lock, frames>>
    BY <1>14 DEF CallbackRelock
  <2> QED
    BY <1>2, <1>3, <2>1, <2>2, ConstantsAssumption DEF LockHeld, EditPc, TypeOK
<1>15. ASSUME NEW p \in Proc, CallbackEnd(p)
       PROVE  LockHeld' /\ FileCovers' /\ EditCovers' /\ FramesOK'
  BY <1>2, <1>3, <1>15 DEF CallbackEnd, LockHeld, EditPc, TypeOK
<1>16. ASSUME NEW p \in Proc, Exit(p)
       PROVE  LockHeld' /\ FileCovers' /\ EditCovers' /\ FramesOK'
  BY <1>2, <1>3, <1>16 DEF Exit, LockHeld, EditPc, TypeOK
<1>17. ASSUME NEW p \in Proc, Crash(p)
       PROVE  LockHeld' /\ FileCovers' /\ EditCovers' /\ FramesOK'
  <2>1. /\ frames'[p] = <<>>
        /\ pc'[p] = "dead"
        /\ \A q \in Proc \ {p} : frames'[q] = frames[q] /\ pc'[q] = pc[q]
                                 /\ lock'[q] = lock[q]
        /\ UNCHANGED file
        /\ repoLock' = IF repoLock = p /\ ~HardlinkLock THEN NoProc ELSE repoLock
    BY <1>17 DEF Crash, TypeOK
  <2>2. DOMAIN frames'[p] = {}
    BY <2>1
  <2>3. LockHeld'
    BY <1>2, <2>1 DEF LockHeld, EditPc
  <2>4. FileCovers'
    BY <1>2, <2>1, <2>2 DEF FileCovers, Covers
  <2>5. EditCovers'
    <3> SUFFICES ASSUME NEW q \in Proc, pc'[q] \in EditPc, NEW r \in Proc
                 PROVE  Covers(lock[q], r)'
      BY DEF EditCovers
    <3>1. q # p /\ pc[q] \in EditPc
      BY <2>1 DEF EditPc
    <3> QED
      BY <1>2, <2>1, <2>2, <3>1 DEF EditCovers, Covers
  <2>6. FramesOK'
    <3>1. \A q \in Proc : Nested(q)' /\ OwnChanges(q)'
      BY <1>2, <2>1, <2>2 DEF FramesOK, Nested, OwnChanges
    <3>2. Writes(p)' = {} /\ Reads(p)' = {}
      BY <2>2 DEF Writes, Reads
    <3>3. \A q \in Proc \ {p} : Writes(q)' = Writes(q) /\ Reads(q)' = Reads(q)
      BY <2>1 DEF Writes, Reads
    <3>4. \A q \in Proc : Writes(q)' \subseteq Writes(q) /\ Reads(q)' \subseteq Reads(q)
      BY <3>2, <3>3
    <3>5. Exclusion'
      BY <1>2, <3>4 DEF FramesOK, Exclusion
    <3> QED
      BY <3>1, <3>5 DEF FramesOK
  <2> QED
    BY <2>3, <2>4, <2>5, <2>6
<1>18. CASE UserRemovesFile
  <2>1. /\ \A q \in Proc : pc[q] \in {"idle", "dead"}
        /\ UNCHANGED <<pc, frames, lock, repoLock>>
    BY <1>18 DEF UserRemovesFile
  <2>2. \A q \in Proc : DOMAIN frames'[q] = {}
    BY <1>2, <2>1 DEF LockHeld
  <2>3. LockHeld' /\ FileCovers' /\ EditCovers'
    BY <1>2, <2>1, <2>2 DEF LockHeld, FileCovers, EditCovers, Covers
  <2>4. FramesOK'
    BY <1>2, <2>1, FramesUnchanged
  <2> QED
    BY <2>3, <2>4
<1>19. CASE UNCHANGED vars
  BY <1>2, <1>3, <1>19 DEF vars, LockHeld
<1> QED
  BY <1>4, <1>5, <1>6, <1>7, <1>8, <1>9, <1>10, <1>11, <1>12, <1>13, <1>14,
     <1>15, <1>16, <1>17, <1>18, <1>19 DEF Next, Step

LEMMA DisciplineInvariant == Spec => []Discipline
<1>1. Init => Discipline
  <2> SUFFICES ASSUME Init PROVE Discipline
    OBVIOUS
  <2>1. \A p \in Proc : frames[p] = <<>> /\ DOMAIN frames[p] = {} /\ pc[p] = "idle"
    BY DEF Init
  <2>2. \A p \in Proc : Writes(p) = {} /\ Reads(p) = {}
    BY <2>1 DEF Writes, Reads
  <2> QED
    BY <2>1, <2>2 DEF Discipline, LockHeld, FileCovers, EditCovers, Covers, Nested,
                      OwnChanges, Exclusion, EditPc
<1> QED
  BY <1>1, TypeCorrect, DisciplineStep, PTL DEF Spec

(* Two DVC processes never work on overlapping paths when one of them      *)
(* writes, as long as every unlocked_repo could take the lock back.        *)
THEOREM ExclusionHolds == Spec => []GuardedExclusion
<1>1. Discipline => GuardedExclusion
  BY DEF Discipline, GuardedExclusion
<1> QED
  BY <1>1, DisciplineInvariant, PTL

LEMMA ReleaseHolds == TypeOK /\ Discipline => ReleaseAssertionsHold
<1> SUFFICES ASSUME TypeOK, Discipline, ~unguarded,
                    NEW p \in Proc, pc[p] = "in", frames[p] # <<>>, file # Corrupt
             PROVE  ReleaseOK(file, p, Top(p).rchanges, Top(p).wchanges)
  BY DEF ReleaseAssertionsHold
<1>1. Covers(file, p) /\ OwnChanges(p)
  BY DEF Discipline, FileCovers
<1>2. Len(frames[p]) \in DOMAIN frames[p]
  BY PopProperties, LenProperties DEF TypeOK
<1> QED
  BY <1>1, <1>2 DEF Covers, OwnChanges, ReleaseOK, Top

(* The assertions of _release_write and _release_read never fail then. *)
THEOREM ReleaseAssertions == Spec => []ReleaseAssertionsHold
BY ReleaseHolds, TypeCorrect, DisciplineInvariant, PTL

-----------------------------------------------------------------------------
(* A call that starts owns the entries it adds to the loaded dictionary. *)
LEMMA StraysCall ==
    ASSUME TypeOK, LockHeld, FileOwned, EditOwned,
           NEW p \in Proc, NEW m \in Method, NEW s \in Stage, Call(p, m, s)
    PROVE  FileOwned' /\ EditOwned'
<1> DEFINE R == ReadSet(m, s)
           W == WriteSet(m, s)
           d == Acquire(file, p, R, W)
           fr == [method   |-> m, stage |-> s,
                  rchanges |-> AcquireReadChanges(file, p, R),
                  wchanges |-> AcquireWriteChanges(file, p, W)]
<1>1. pc[p] = "in" /\ UNCHANGED file
  BY DEF Call
<1>2. \A q \in Proc \ {p} : pc[q] \notin EditPc \cup {"in"}
  BY <1>1 DEF LockHeld, Call
<1>3. CASE file = Corrupt \/ CheckBlockers(file, p, R, W)
  BY <1>1, <1>3 DEF Call, FileOwned, EditOwned, Owned
<1>4. CASE file # Corrupt /\ ~CheckBlockers(file, p, R, W)
  <2>1. /\ lock' = [lock EXCEPT ![p] = d]
        /\ frames' = [frames EXCEPT ![p] = Append(@, fr)]
        /\ pc' = [pc EXCEPT ![p] = "acquired"]
    BY <1>4 DEF Call
  <2>2. /\ fr.wchanges = AcquireWriteChanges(file, p, W)
        /\ fr.rchanges = AcquireReadChanges(file, p, R)
    OBVIOUS
  <2>3. fr \in Frame
    BY SetsOfPaths DEF Frame, AcquireReadChanges, AcquireWriteChanges
  <2>4. /\ lock'[p] = d
        /\ pc'[p] = "acquired"
        /\ \A q \in Proc \ {p} : frames'[q] = frames[q] /\ pc'[q] = pc[q]
        /\ frames'[p] = Append(frames[p], fr)
        /\ frames[p] \in Seq(Frame)
    BY <2>1 DEF TypeOK
  <2> HIDE DEF fr
  <2>5. /\ \A i \in DOMAIN frames[p] : i \in DOMAIN frames'[p] /\ frames'[p][i] = frames[p][i]
        /\ \E i \in DOMAIN frames'[p] : frames'[p][i] = fr
    <3>1. /\ Len(frames'[p]) = Len(frames[p]) + 1
          /\ frames'[p] \in Seq(Frame)
          /\ \A i \in 1..Len(frames[p]) : frames'[p][i] = frames[p][i]
          /\ frames'[p][Len(frames[p]) + 1] = fr
      BY <2>3, <2>4, AppendProperties
    <3>2. /\ Len(frames[p]) \in Nat
          /\ DOMAIN frames[p] = 1..Len(frames[p])
          /\ DOMAIN frames'[p] = 1..Len(frames'[p])
      BY <2>4, <3>1, LenProperties
    <3> QED
      BY <3>1, <3>2
  <2>6. \A q \in Proc : pc[q] # "dead" => Owned(file, q)
    BY <1>1, <1>2, <1>4 DEF FileOwned, EditPc
  <2>7. FileOwned'
    BY <1>1, <2>4, <2>6 DEF FileOwned, Owned, EditPc
  <2>8. \A q \in Proc : pc'[q] # "dead" => Owned(lock[p], q)'
    <3> SUFFICES ASSUME NEW q \in Proc, pc'[q] # "dead", NEW x \in Path
                 PROVE  /\ d.write[x] = q =>
                             \E i \in DOMAIN frames'[q] : x \in frames'[q][i].wchanges
                        /\ q \in d.read[x] =>
                             \E i \in DOMAIN frames'[q] : x \in frames'[q][i].rchanges
      BY <2>4 DEF Owned
    <3>1. /\ d.write[x] = IF x \in W THEN p ELSE file.write[x]
          /\ d.read[x] = IF x \in R THEN file.read[x] \cup {p} ELSE file.read[x]
      BY DEF Acquire
    <3> HIDE DEF R, W, d
    <3>2. Owned(file, q)
      BY <1>1, <2>4, <2>6
    <3>3. CASE q # p
      BY <2>4, <3>1, <3>2, <3>3 DEF Owned
    <3>4. CASE q = p
      <4>1. x \in W => x \in fr.wchanges \/ file.write[x] = p
        BY <2>2 DEF AcquireWriteChanges
      <4>2. x \in R => x \in fr.rchanges \/ p \in file.read[x]
        BY <2>2 DEF AcquireReadChanges
      <4> QED
        BY <2>5, <3>1, <3>2, <3>4, <4>1, <4>2 DEF Owned
    <3> QED
      BY <3>3, <3>4
  <2>9. EditOwned'
    BY <1>2, <2>4, <2>8 DEF EditOwned, EditPc
  <2> QED
    BY <2>7, <2>9
<1> QED
  BY <1>3, <1>4

(* A call that ends takes back all the entries that it alone owned. *)
LEMMA StraysReturn ==
    ASSUME TypeOK, Discipline, ~unguarded, FileOwned, EditOwned,
           NEW p \in Proc, Return(p)
    PROVE  FileOwned' /\ EditOwned'
<1> DEFINE n == Len(frames[p])
           d == Release(file, p, Top(p).rchanges, Top(p).wchanges)
<1>1. LockHeld
  BY DEF Discipline
<1>2. pc[p] = "in" /\ repoLock = p /\ UNCHANGED <<repoLock, file>> /\ frames[p] # <<>>
  BY <1>1 DEF Return, LockHeld
<1>3. \A q \in Proc \ {p} : pc[q] \notin EditPc \cup {"in"}
  BY <1>1, <1>2 DEF LockHeld
<1>4. /\ n \in Nat \ {0}
      /\ DOMAIN frames[p] = 1..n
      /\ DOMAIN frames'[p] = 1..(n - 1)
      /\ \A i \in 1..(n - 1) : frames'[p][i] = frames[p][i]
  <2>1. frames[p] \in Seq(Frame) /\ frames'[p] = SubSeq(frames[p], 1, n - 1)
    BY DEF Return, Pop, TypeOK
  <2>2. /\ n \in Nat \ {0}
        /\ SubSeq(frames[p], 1, n - 1) \in Seq(Frame)
        /\ Len(SubSeq(frames[p], 1, n - 1)) = n - 1
        /\ \A i \in 1..(n - 1) : SubSeq(frames[p], 1, n - 1)[i] = frames[p][i]
    BY <1>2, <2>1, PopProperties
  <2> QED
    BY <2>1, <2>2, LenProperties
<1>5. \A q \in Proc \ {p} : frames'[q] = frames[q]
  BY DEF Return, Pop, TypeOK
<1>6. CASE file = Corrupt
  <2>1. UNCHANGED <<pc, lock>>
    BY <1>6 DEF Return
  <2> QED
    BY <1>2, <1>3, <1>6, <2>1 DEF FileOwned, EditOwned, EditPc
<1>7. CASE file # Corrupt
  <2>1. ReleaseOK(file, p, Top(p).rchanges, Top(p).wchanges)
    BY <1>2, <1>7, ReleaseHolds DEF ReleaseAssertionsHold
  <2>2. lock' = [lock EXCEPT ![p] = d] /\ pc' = [pc EXCEPT ![p] = "released"]
    BY <1>7, <2>1 DEF Return
  <2>3. /\ lock'[p] = d
        /\ pc'[p] = "released"
        /\ \A q \in Proc \ {p} : pc'[q] = pc[q]
    BY <2>2 DEF TypeOK
  <2>4. \A q \in Proc : pc[q] # "dead" => Owned(file, q)
    BY <1>2, <1>3, <1>7 DEF FileOwned, EditPc
  <2>5. FileOwned'
    BY <1>2, <1>5, <2>3, <2>4 DEF FileOwned, Owned, EditPc
  <2>6. \A q \in Proc : pc'[q] # "dead" => Owned(lock[p], q)'
    <3> SUFFICES ASSUME NEW q \in Proc, pc'[q] # "dead", NEW x \in Path
                 PROVE  /\ d.write[x] = q =>
                             \E i \in DOMAIN frames'[q] : x \in frames'[q][i].wchanges
                        /\ q \in d.read[x] =>
                             \E i \in DOMAIN frames'[q] : x \in frames'[q][i].rchanges
      BY <2>3 DEF Owned
    <3> DEFINE top == Top(p)
    <3>1. /\ d.write[x] = IF x \in top.wchanges THEN NoProc ELSE file.write[x]
          /\ d.read[x] = IF x \in top.rchanges THEN file.read[x] \ {p} ELSE file.read[x]
      BY DEF Release
    <3>2. top = frames[p][n]
      BY DEF Top
    <3> HIDE DEF d, top
    <3>3. Owned(file, q)
      BY <1>2, <2>3, <2>4
    <3>4. CASE q # p
      BY <1>5, <3>1, <3>3, <3>4, ConstantsAssumption DEF Owned
    <3>5. CASE q = p
      <4>1. \A i \in 1..n : i = n \/ i \in 1..(n - 1)
        BY <1>4
      <4> HIDE DEF n
      <4>2. ASSUME d.write[x] = p
            PROVE  \E i \in DOMAIN frames'[p] : x \in frames'[p][i].wchanges
        BY <1>4, <3>1, <3>2, <3>3, <3>5, <4>1, <4>2, ConstantsAssumption DEF Owned
      <4>3. ASSUME p \in d.read[x]
            PROVE  \E i \in DOMAIN frames'[p] : x \in frames'[p][i].rchanges
        BY <1>4, <3>1, <3>2, <3>3, <3>5, <4>1, <4>3 DEF Owned
      <4> QED
        BY <3>5, <4>2, <4>3
    <3> QED
      BY <3>4, <3>5
  <2>7. EditOwned'
    BY <1>3, <2>3, <2>6 DEF EditOwned, EditPc
  <2> QED
    BY <2>5, <2>7
<1> QED
  BY <1>6, <1>7

(* Every step keeps the entries owned as long as no relock has failed. *)
LEMMA StraysStep ==
    ASSUME TypeOK, Discipline, NoStrays, [Next]_vars
    PROVE  NoStrays'
<1> SUFFICES ASSUME ~unguarded' PROVE FileOwned' /\ EditOwned'
  BY DEF NoStrays
<1>1. ~unguarded
  BY UnguardedStays
<1>2. LockHeld /\ FileOwned /\ EditOwned
  BY <1>1 DEF Discipline, NoStrays
(* Steps that leave the file, the loaded dictionaries and the frames. *)
<1>3. ASSUME UNCHANGED <<file, lock, frames>>,
             \A q \in Proc : pc'[q] \in EditPc \cup {"dead"} <=> pc[q] \in EditPc \cup {"dead"},
             \A q \in Proc : pc'[q] \in EditPc => pc[q] \in EditPc,
             \A q \in Proc : pc'[q] # "dead" => pc[q] # "dead"
      PROVE  FileOwned' /\ EditOwned'
  BY <1>2, <1>3 DEF FileOwned, EditOwned, Owned
<1>4. ASSUME NEW p \in Proc, Begin(p) PROVE FileOwned' /\ EditOwned'
  BY <1>3, <1>4 DEF Begin, EditPc, TypeOK
<1>5. ASSUME NEW p \in Proc, TryLock(p) PROVE FileOwned' /\ EditOwned'
  BY <1>3, <1>5 DEF TryLock, EditPc, TypeOK
<1>6. ASSUME NEW p \in Proc, NEW m \in Method, NEW s \in Stage, Call(p, m, s)
      PROVE  FileOwned' /\ EditOwned'
  BY <1>2, <1>6, StraysCall
<1>7. ASSUME NEW p \in Proc, Return(p) PROVE FileOwned' /\ EditOwned'
  BY <1>1, <1>2, <1>7, StraysReturn
<1>8. ASSUME NEW p \in Proc, Truncate(p) PROVE FileOwned' /\ EditOwned'
  <2>1. file' = Corrupt /\ UNCHANGED <<lock, frames>> /\ pc[p] \in EditPc
    BY <1>8 DEF Truncate, EditPc
  <2>2. \A q \in Proc : /\ pc'[q] \in EditPc => pc[q] \in EditPc
                        /\ pc'[q] # "dead" => pc[q] # "dead"
    BY <1>8 DEF Truncate, EditPc, TypeOK
  <2> QED
    BY <1>2, <2>1, <2>2 DEF FileOwned, EditOwned, Owned
<1>9. ASSUME NEW p \in Proc, Dump(p) PROVE FileOwned' /\ EditOwned'
  <2>1. /\ file' = lock[p]
        /\ pc[p] \in EditPc
        /\ UNCHANGED frames
        /\ \A q \in Proc \ {p} : pc'[q] = pc[q]
        /\ pc'[p] = "in" /\ pc[p] # "dead"
    BY <1>9 DEF Dump, EditPc, TypeOK
  <2>2. \A q \in Proc : pc[q] # "dead" => Owned(lock[p], q)
    BY <1>2, <2>1 DEF EditOwned
  <2>3. FileOwned'
    BY <2>1, <2>2 DEF FileOwned, Owned
  <2>4. \A q \in Proc : pc'[q] \notin EditPc
    BY <1>2, <2>1 DEF LockHeld, EditPc
  <2> QED
    BY <2>3, <2>4 DEF EditOwned
<1>10. ASSUME NEW p \in Proc, StartCmd(p) PROVE FileOwned' /\ EditOwned'
  BY <1>3, <1>10 DEF StartCmd, EditPc, TypeOK
<1>11. ASSUME NEW p \in Proc, CmdExit(p) PROVE FileOwned' /\ EditOwned'
  BY <1>3, <1>11 DEF CmdExit, EditPc, TypeOK
<1>12. ASSUME NEW p \in Proc, CheckpointSignal(p) PROVE FileOwned' /\ EditOwned'
  BY <1>3, <1>12 DEF CheckpointSignal, EditPc, TypeOK
<1>13. ASSUME NEW p \in Proc, Relock(p) PROVE FileOwned' /\ EditOwned'
  <2>1. pc' = [pc EXCEPT ![p] = "in"] \/ UNCHANGED pc
    BY <1>13 DEF Relock
  <2>2. pc[p] = "relock" /\ UNCHANGED <<file, lock, frames>>
    BY <1>13 DEF Relock
  <2> QED
    BY <1>3, <2>1, <2>2 DEF EditPc, TypeOK
<1>14. ASSUME NEW p \in Proc, CallbackRelock(p) PROVE FileOwned' /\ EditOwned'
  <2>1. \/ pc' = [pc EXCEPT ![p] = "in"]
        \/ pc' = [pc EXCEPT ![p] = "relock"]
        \/ UNCHANGED pc
    BY <1>14 DEF CallbackRelock
  <2>2. pc[p] = "callback_relock" /\ UNCHANGED <<file, lock, frames>>
    BY <1>14 DEF CallbackRelock
  <2> QED
    BY <1>3, <2>1, <2>2 DEF EditPc, TypeOK
<1>15. ASSUME NEW p \in Proc, CallbackEnd(p) PROVE FileOwned' /\ EditOwned'
  BY <1>3, <1>15 DEF CallbackEnd, EditPc, TypeOK
<1>16. ASSUME NEW p \in Proc, Exit(p) PROVE FileOwned' /\ EditOwned'
  BY <1>3, <1>16 DEF Exit, EditPc, TypeOK
<1>17. ASSUME NEW p \in Proc, Crash(p) PROVE FileOwned' /\ EditOwned'
  <2>1. /\ pc'[p] = "dead"
        /\ \A q \in Proc \ {p} : frames'[q] = frames[q] /\ pc'[q] = pc[q]
                                 /\ lock'[q] = lock[q]
        /\ UNCHANGED file
    BY <1>17 DEF Crash, TypeOK
  <2>2. FileOwned'
    BY <1>2, <2>1 DEF FileOwned, Owned
  <2>3. \A q \in Proc : pc'[q] # "dead" \/ pc'[q] \in EditPc => q # p
    BY <2>1 DEF EditPc
  <2>4. EditOwned'
    BY <1>2, <2>1, <2>3 DEF EditOwned, Owned
  <2> QED
    BY <2>2, <2>4
<1>18. CASE UserRemovesFile
  <2>1. /\ \A q \in Proc : pc'[q] \in {"idle", "dead"}
        /\ file' = EmptyDict
    BY <1>18 DEF UserRemovesFile
  <2>2. \A q \in Proc, x \in Path : EmptyDict.write[x] # q /\ q \notin EmptyDict.read[x]
    BY ConstantsAssumption DEF EmptyDict
  <2> QED
    BY <2>1, <2>2 DEF FileOwned, EditOwned, Owned, EditPc
<1>19. CASE UNCHANGED vars
  BY <1>3, <1>19 DEF vars
<1> QED
  BY <1>4, <1>5, <1>6, <1>7, <1>8, <1>9, <1>10, <1>11, <1>12, <1>13, <1>14,
     <1>15, <1>16, <1>17, <1>18, <1>19 DEF Next, Step

(* A process that is out of DVC has no entry in the rwlock file, whatever  *)
(* calls, callbacks and errors it went through, as long as every           *)
(* unlocked_repo could take the lock back: only a crash leaks entries.     *)
THEOREM NothingIsLeaked == Spec => []NothingLeaks
<1>1. Init => NoStrays
  <2>1. \A q \in Proc, x \in Path : EmptyDict.write[x] # q /\ q \notin EmptyDict.read[x]
    BY ConstantsAssumption DEF EmptyDict
  <2> QED
    BY <2>1 DEF Init, NoStrays, FileOwned, EditOwned, Owned, EditPc
<1>2. TypeOK /\ Discipline /\ NoStrays => NothingLeaks
  <2> SUFFICES ASSUME Discipline, NoStrays, ~unguarded, file # Corrupt,
                      NEW p \in Proc, pc[p] \in {"idle", "locking"}, NEW x \in Path
               PROVE  file.write[x] # p /\ p \notin file.read[x]
    BY DEF NothingLeaks
  <2>1. frames[p] = <<>> /\ DOMAIN frames[p] = {}
    BY DEF Discipline, LockHeld
  <2>2. Owned(file, p)
    BY DEF NoStrays, FileOwned, EditPc
  <2> QED
    BY <2>1, <2>2 DEF Owned
<1> QED
  BY <1>1, <1>2, TypeCorrect, DisciplineInvariant, StraysStep, PTL DEF Spec
=============================================================================
